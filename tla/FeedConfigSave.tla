---------------------------- MODULE FeedConfigSave ----------------------------
(***************************************************************************)
(* Saves and resets of one feed's configuration by several administrators  *)
(* (internal/api/admin/feed_forms.go): the settings the server runs with,  *)
(* the override stored in PostgreSQL, and the steps of the handlers        *)
(* between them.  A handler reads outside the feed config slot; inside it, *)
(* it applies the settings to the runtime, writes the override at the      *)
(* revision it read, and rolls the runtime back if the write fails.        *)
(***************************************************************************)
EXTENDS Naturals

CONSTANTS
    Admins,
    Options,       \* enabled, mode and interval of the feed, as one value
    Keys,          \* API keys, the empty one included
    RefusedKeys,   \* keys SetFeedSettings refuses
    DefaultOpt, DefaultKey,  \* the settings of the environment
    MaxRevisions,  \* bound on the number of overrides written
    None,          \* nil: no override, no holder, no request
    Keep,          \* the form leaves the key as it is
    Absent         \* a form without the updated_at field

Settings == [opt : Options, key : Keys]
Default == [opt |-> DefaultOpt, key |-> DefaultKey]  \* defaultFeeds
Row == [settings : Settings, rev : Nat]
Form == [opt : Options, key : Keys \union {Keep}]
\* pc "stored": the override is to be read next; feed is then the runtime read.
Requests ==
    [pc : {"stored", "slot", "persist", "rollback"}, form : Form \union {None},
     feed : Settings, previous : Row \union {None}, snapshot : Settings]

ASSUME SaveAssumption ==
    /\ Default \in Settings /\ Default.key \notin RefusedKeys
    /\ Keep \notin Keys
    /\ MaxRevisions \in Nat
    /\ None \notin Nat /\ Absent \notin Nat \union {None} /\ None \notin Admins
    /\ None \notin Row \union Form \union Requests

VARIABLES
    runtime,   \* cfg.FeedSettings of the feed
    row,       \* the feed_configs row, or None
    revs,      \* the last updated_at given out
    slot,      \* the administrator whose request holds feedConfigSlot
    form,      \* the revision each administrator's form was rendered for
    req,       \* the request each administrator has in progress
    unacked    \* history: a commit whose answer was lost was rolled back

vars == <<runtime, row, revs, slot, form, req, unacked>>

\* What the server runs with when it starts on this row.
Effective(r) == IF r = None THEN Default ELSE r.settings
Revision(r) == IF r = None THEN None ELSE r.rev

Init ==
    /\ runtime = Default
    /\ row = None
    /\ revs = 0
    /\ slot = None
    /\ form = [a \in Admins |-> Absent]
    /\ req = [a \in Admins |-> None]
    /\ unacked = FALSE

\* The feeds page is rendered with the revision of the stored override.
FormRender(a) ==
    /\ req[a] = None
    /\ form' = [form EXCEPT ![a] = Revision(row)]
    /\ UNCHANGED <<runtime, row, revs, slot, req, unacked>>

-----------------------------------------------------------------------------
CheckFeedConfigFormRevision(a, previous) == form[a] \in {Absent, Revision(previous)}

\* The save handler up to its read of the runtime settings.
HandleFeedConfigSave(a) ==
    /\ req[a] = None
    /\ \E f \in Form :
         req' = [req EXCEPT ![a] = [pc |-> "stored", form |-> f, feed |-> runtime,
                                    previous |-> None, snapshot |-> runtime]]
    /\ UNCHANGED <<runtime, row, revs, slot, form, unacked>>

DesiredSettingsRuntime(r) == r.feed

\* desiredFeedSettings: the stored override, or the runtime settings read before it.
DesiredSettings(r) == IF row = None THEN r.feed ELSE row.settings

ParseFeedSettingsForm(f, base) ==
    [opt |-> f.opt, key |-> IF f.key = Keep THEN base.key ELSE f.key]

\* The save handler from its read of the override to its wait for the slot.
SaveReadsOverride(a) ==
    LET r == req[a]
        feed == ParseFeedSettingsForm(r.form, DesiredSettings(r))
    IN
    /\ req[a] # None /\ r.pc = "stored"
    /\ req' = [req EXCEPT ![a] = IF CheckFeedConfigFormRevision(a, row)
                                 THEN [r EXCEPT !.pc = "slot", !.previous = row, !.feed = feed]
                                 ELSE None]
    /\ UNCHANGED <<runtime, row, revs, slot, form, unacked>>

\* The reset handler reads the override and applies the defaults.
HandleFeedConfigReset(a) ==
    /\ req[a] = None
    /\ CheckFeedConfigFormRevision(a, row)
    /\ req' = [req EXCEPT ![a] = [pc |-> "slot", form |-> None, feed |-> Default,
                                  previous |-> row, snapshot |-> runtime]]
    /\ UNCHANGED <<runtime, row, revs, slot, form, unacked>>

\* The store cannot be read, or the client leaves while it waits for the slot.
Abandon(a) ==
    /\ req[a] # None /\ req[a].pc \in {"stored", "slot"}
    /\ req' = [req EXCEPT ![a] = None]
    /\ UNCHANGED <<runtime, row, revs, slot, form, unacked>>

\* A mutated slot: requests apply without waiting for each other.
ApplyFeedConfigNoSlot(a) ==
    LET r == req[a] IN
    /\ req[a] # None /\ r.pc = "slot"
    /\ r.feed.key \notin RefusedKeys
    /\ runtime' = r.feed
    /\ slot' = a
    /\ req' = [req EXCEPT ![a].pc = "persist", ![a].snapshot = runtime]
    /\ UNCHANGED <<row, revs, form, unacked>>

\* The slot is free: snapshot the runtime and apply.  Refused settings change
\* nothing, the rollback finds other settings in place, and the slot is released.
ApplyFeedConfig(a) ==
    LET r == req[a] IN
    /\ req[a] # None /\ r.pc = "slot"
    /\ slot = None
    /\ IF r.feed.key \in RefusedKeys
       THEN /\ req' = [req EXCEPT ![a] = None]
            /\ UNCHANGED <<runtime, slot>>
       ELSE /\ runtime' = r.feed
            /\ slot' = a
            /\ req' = [req EXCEPT ![a].pc = "persist", ![a].snapshot = runtime]
    /\ UNCHANGED <<row, revs, form, unacked>>

-----------------------------------------------------------------------------
\* The transaction of r: the override is written with a new updated_at, or deleted.
Write(r) ==
    IF r.form = None
    THEN row' = None /\ revs' = revs
    ELSE /\ revs < MaxRevisions
         /\ row' = [settings |-> r.feed, rev |-> revs + 1]
         /\ revs' = revs + 1

AtRevisionAny(r) == TRUE

\* The row still has the revision the request read.
AtRevision(r) == Revision(row) = Revision(r.previous)

Persisted(a) ==
    /\ req[a] # None /\ req[a].pc = "persist"
    /\ AtRevision(req[a])
    /\ Write(req[a])
    /\ req' = [req EXCEPT ![a] = None]
    /\ slot' = None
    /\ unacked' = FALSE
    /\ UNCHANGED <<runtime, form>>

\* ErrConflict, a failed audit entry, or an error that ends the transaction.
PersistFailed(a) ==
    /\ req[a] # None /\ req[a].pc = "persist"
    /\ req' = [req EXCEPT ![a].pc = "rollback"]
    /\ UNCHANGED <<runtime, row, revs, slot, form, unacked>>

\* The transaction commits and the answer is lost: the handler sees an error.
CommitUnacknowledged(a) ==
    /\ req[a] # None /\ req[a].pc = "persist"
    /\ AtRevision(req[a])
    /\ Write(req[a])
    /\ req' = [req EXCEPT ![a].pc = "rollback"]
    /\ unacked' = TRUE
    /\ UNCHANGED <<runtime, slot, form>>

RestoreRuntimeFeedConfig(a) ==
    /\ req[a] # None /\ req[a].pc = "rollback"
    /\ runtime' = IF runtime = req[a].feed THEN req[a].snapshot ELSE runtime
    /\ req' = [req EXCEPT ![a] = None]
    /\ slot' = None
    /\ UNCHANGED <<row, revs, form, unacked>>

\* The server stops at any point and starts again: the environment's settings
\* overlaid with the stored override.
Restart ==
    /\ runtime' = Effective(row)
    /\ slot' = None
    /\ req' = [a \in Admins |-> None]
    /\ unacked' = FALSE
    /\ UNCHANGED <<row, revs, form>>

Next ==
    \/ Restart
    \/ \E a \in Admins :
         \/ FormRender(a) \/ HandleFeedConfigSave(a) \/ SaveReadsOverride(a)
         \/ HandleFeedConfigReset(a) \/ Abandon(a) \/ ApplyFeedConfig(a)
         \/ Persisted(a) \/ PersistFailed(a) \/ CommitUnacknowledged(a)
         \/ RestoreRuntimeFeedConfig(a)

Spec == Init /\ [][Next]_vars

-----------------------------------------------------------------------------
TypeOK ==
    /\ runtime \in Settings
    /\ row \in Row \union {None}
    /\ revs \in Nat
    /\ slot \in Admins \union {None}
    /\ form \in [Admins -> Nat \union {None, Absent}]
    /\ req \in [Admins -> Requests \union {None}]
    /\ unacked \in BOOLEAN

\* Whenever no request holds the slot, the server runs with the settings a
\* restart would give it: the comment of persistAndApplyFeedConfig ("leaving the
\* runtime behind PostgreSQL").  Only a commit whose answer was lost may separate
\* the two, until the next acknowledged change or restart.
RuntimeMatchesStore == slot = None /\ ~unacked => runtime = Effective(row)

\* The override is replaced or deleted by a request only while it has the
\* revision that the administrator's form was rendered for: neither the reads of
\* the handler nor its wait for the slot let it overwrite a change in between.
SavesWhatWasRendered ==
    [][\A a \in Admins :
          slot = a /\ row' # row /\ form[a] # Absent => form[a] = Revision(row)]_vars

\* A save that keeps the key of a stored override leaves that key in the row,
\* also when the runtime differed while the handler read it.
KeptKeyOfOverride ==
    [][\A a \in Admins :
          slot = a /\ row' # row /\ row # None /\ row' # None /\ req[a].form.key = Keep
             => row'.settings.key = row.settings.key]_vars

\* A save that keeps the key leaves the key in effect, with or without a stored
\* override: "The kept API key and the expected revision come from the same read"
\* (HandleFeedConfigSave).
KeptKeyInEffect ==
    [][\A a \in Admins :
          slot = a /\ row' # row /\ row' # None /\ req[a].form.key = Keep
             => row'.settings.key = Effective(row).key]_vars
=============================================================================
