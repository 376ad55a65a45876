------------------------- MODULE FeedConfigSaveProofs -------------------------
(***************************************************************************)
(* For any number of administrators, keys and overrides: the runtime       *)
(* matches the stored override whenever the slot is free, and no save or   *)
(* reset overwrites a change its form did not show.                        *)
(***************************************************************************)
EXTENDS FeedConfigSave, TLAPS

InSlot(a) == req[a] # None /\ req[a].pc \in {"persist", "rollback"}
Based(a) == req[a] # None /\ req[a].pc # "stored"

\* The slot belongs to the request that applies, persists or rolls back.
SlotInv == \A a \in Admins : slot = a <=> InSlot(a)

\* Inside the slot the runtime is the request's, and its snapshot is what the
\* stored override asks for.
RuntimeInv ==
    /\ slot = None /\ ~unacked => runtime = Effective(row)
    /\ \A a \in Admins : InSlot(a) =>
          /\ runtime = req[a].feed
          /\ unacked \/ req[a].snapshot = Effective(row)

\* What a request took from its reads stays true while it waits.
BaseInv ==
    \A a \in Admins :
        /\ req[a] # None /\ req[a].form = None => req[a].feed = Default
        /\ req[a] # None /\ req[a].pc = "stored" => req[a].form # None
        /\ Based(a) => form[a] \in {Absent, Revision(req[a].previous)}
        /\ Based(a) /\ req[a].form # None /\ req[a].form.key = Keep /\ req[a].previous # None
              => req[a].feed.key = req[a].previous.settings.key

\* An updated_at is given out once.
RevInv ==
    /\ row # None => row.rev <= revs
    /\ \A a \in Admins : Based(a) /\ req[a].previous # None =>
          /\ req[a].previous.rev <= revs
          /\ row # None /\ row.rev = req[a].previous.rev => row = req[a].previous

IInv == TypeOK /\ SlotInv /\ RuntimeInv /\ BaseInv /\ RevInv

-----------------------------------------------------------------------------
\* The settings a handler computes and a restart restores are settings.
LEMMA SettingsFacts ==
    ASSUME TypeOK
    PROVE  /\ Effective(row) \in Settings
           /\ Revision(row) \in Nat \union {None, Absent}
           /\ \A a \in Admins : req[a] # None => req[a] \in Requests
           /\ \A r \in Requests : r.form # None =>
                 ParseFeedSettingsForm(r.form, DesiredSettings(r)) \in Settings
<1>1. Effective(row) \in Settings /\ Revision(row) \in Nat \union {None, Absent}
  BY SaveAssumption DEF TypeOK, Effective, Revision, Row
<1>2. \A a \in Admins : req[a] # None => req[a] \in Requests
  BY DEF TypeOK
<1>3. ASSUME NEW r \in Requests, r.form # None
      PROVE  ParseFeedSettingsForm(r.form, DesiredSettings(r)) \in Settings
  <2>1. DesiredSettings(r) \in Settings
    BY DEF TypeOK, DesiredSettings, Row, Requests
  <2>2. r.form \in Form
    BY <1>3 DEF Requests
  <2>3. r.form.opt \in Options /\ r.form.key \in Keys \union {Keep}
    BY <2>2 DEF Form
  <2>4. DesiredSettings(r).key \in Keys
    BY <2>1 DEF Settings
  <2> QED BY <2>3, <2>4 DEF ParseFeedSettingsForm, Settings
<1> QED BY <1>1, <1>2, <1>3

\* What the transaction leaves in the row and the counter.
LEMMA WriteFacts ==
    ASSUME TypeOK, RevInv, NEW r \in Requests, Write(r)
    PROVE  /\ row' \in Row \union {None} /\ revs' \in Nat /\ revs <= revs'
           /\ row' # None => row'.rev = revs + 1 /\ revs' = revs + 1
           /\ r.form = None => row' = None
           /\ r.form # None => row' # None /\ row'.settings = r.feed
<1>1. r.feed \in Settings /\ revs \in Nat
  BY DEF Requests, TypeOK
<1>2. CASE r.form = None
  BY <1>1, <1>2 DEF Write
<1>3. CASE r.form # None
  <2>1. row' = [settings |-> r.feed, rev |-> revs + 1] /\ revs' = revs + 1
    BY <1>3 DEF Write
  <2>2. row' \in Row
    BY <1>1, <2>1 DEF Row
  <2> QED BY <1>1, <1>3, <2>1, <2>2, SaveAssumption
<1> QED BY <1>2, <1>3

\* Every step keeps the types.
LEMMA TypeStep == IInv /\ [Next]_vars => TypeOK'
<1> SUFFICES ASSUME IInv, [Next]_vars PROVE TypeOK'
  OBVIOUS
<1> USE SaveAssumption
<1>t. TypeOK /\ RevInv /\ BaseInv
  BY DEF IInv
<1>f. /\ Effective(row) \in Settings
      /\ Revision(row) \in Nat \union {None, Absent}
      /\ \A a \in Admins : req[a] # None => req[a] \in Requests
      /\ \A r \in Requests : r.form # None =>
            ParseFeedSettingsForm(r.form, DesiredSettings(r)) \in Settings
  BY <1>t, SettingsFacts
<1>0. CASE UNCHANGED vars
  BY <1>t, <1>0 DEF TypeOK, vars
<1>1. CASE Restart
  BY Zenon, <1>t, <1>f, <1>1 DEF Restart, TypeOK
<1> SUFFICES ASSUME NEW a \in Admins,
                    \/ FormRender(a) \/ HandleFeedConfigSave(a) \/ SaveReadsOverride(a)
                    \/ HandleFeedConfigReset(a) \/ Abandon(a) \/ ApplyFeedConfig(a)
                    \/ Persisted(a) \/ PersistFailed(a) \/ CommitUnacknowledged(a)
                    \/ RestoreRuntimeFeedConfig(a)
             PROVE  TypeOK'
  BY <1>0, <1>1 DEF Next
<1>2. CASE FormRender(a)
  BY <1>t, <1>f, <1>2 DEF FormRender, TypeOK
<1>3. CASE HandleFeedConfigSave(a)
  <2>1. PICK f \in Form : req' = [req EXCEPT ![a] = [pc |-> "stored", form |-> f,
            feed |-> runtime, previous |-> None, snapshot |-> runtime]]
    BY Zenon, <1>3 DEF HandleFeedConfigSave
  <2>2. [pc |-> "stored", form |-> f, feed |-> runtime, previous |-> None,
         snapshot |-> runtime] \in Requests
    BY <1>t DEF Requests, TypeOK
  <2> QED BY <1>t, <1>3, <2>1, <2>2 DEF HandleFeedConfigSave, TypeOK
<1>4. CASE SaveReadsOverride(a)
  <2> DEFINE feed == ParseFeedSettingsForm(req[a].form, DesiredSettings(req[a]))
             new == [req[a] EXCEPT !.pc = "slot", !.previous = row, !.feed = feed]
  <2>1. req[a] \in Requests /\ feed \in Settings
    BY <1>t, <1>f, <1>4 DEF SaveReadsOverride, BaseInv
  <2> HIDE DEF feed
  <2>2. new \in Requests
    BY Zenon, <1>t, <2>1 DEF Requests, TypeOK
  <2>3. req' = [req EXCEPT ![a] = new] \/ req' = [req EXCEPT ![a] = None]
    BY Zenon, <1>4 DEF SaveReadsOverride, feed
  <2> HIDE DEF new
  <2> QED BY <1>t, <1>4, <2>2, <2>3 DEF SaveReadsOverride, TypeOK
<1>5. CASE HandleFeedConfigReset(a)
  <2>1. [pc |-> "slot", form |-> None, feed |-> Default, previous |-> row,
         snapshot |-> runtime] \in Requests
    BY <1>t DEF Requests, TypeOK
  <2> QED BY <1>t, <1>5, <2>1 DEF HandleFeedConfigReset, TypeOK
<1>6. CASE Abandon(a)
  BY <1>t, <1>6 DEF Abandon, TypeOK
<1>7. CASE ApplyFeedConfig(a)
  <2>1. req[a] \in Requests /\ req[a].feed \in Settings
    BY <1>f, <1>7 DEF ApplyFeedConfig, Requests
  <2>2. [req[a] EXCEPT !.pc = "persist", !.snapshot = runtime] \in Requests
    BY Zenon, <1>t, <2>1 DEF Requests, TypeOK
  <2> QED BY ZenonT(60), <1>t, <1>7, <2>1, <2>2 DEF ApplyFeedConfig, TypeOK
<1>8. CASE Persisted(a)
  <2>1. row' \in Row \union {None} /\ revs' \in Nat
    BY <1>t, <1>f, <1>8, WriteFacts DEF Persisted
  <2> QED BY Zenon, <1>t, <1>8, <2>1 DEF Persisted, TypeOK
<1>9. CASE PersistFailed(a)
  <2>1. [req[a] EXCEPT !.pc = "rollback"] \in Requests
    BY <1>f, <1>9 DEF Requests, PersistFailed
  <2> QED BY <1>t, <1>9, <2>1 DEF PersistFailed, TypeOK
<1>10. CASE CommitUnacknowledged(a)
  <2>1. row' \in Row \union {None} /\ revs' \in Nat
    BY <1>t, <1>f, <1>10, WriteFacts DEF CommitUnacknowledged
  <2>2. [req[a] EXCEPT !.pc = "rollback"] \in Requests
    BY <1>f, <1>10 DEF Requests, CommitUnacknowledged
  <2> QED BY <1>t, <1>10, <2>1, <2>2 DEF CommitUnacknowledged, TypeOK
<1>11. CASE RestoreRuntimeFeedConfig(a)
  <2>1. req[a].snapshot \in Settings
    BY <1>f, <1>11 DEF RestoreRuntimeFeedConfig, Requests
  <2> QED BY <1>t, <1>11, <2>1 DEF RestoreRuntimeFeedConfig, TypeOK
<1> QED BY <1>2, <1>3, <1>4, <1>5, <1>6, <1>7, <1>8, <1>9, <1>10, <1>11

-----------------------------------------------------------------------------
\* The steps of one administrator's requests.
Step(a) ==
    \/ FormRender(a) \/ HandleFeedConfigSave(a) \/ SaveReadsOverride(a)
    \/ HandleFeedConfigReset(a) \/ Abandon(a) \/ ApplyFeedConfig(a)
    \/ Persisted(a) \/ PersistFailed(a) \/ CommitUnacknowledged(a)
    \/ RestoreRuntimeFeedConfig(a)

\* A step of one administrator leaves the requests of the others alone.
LEMMA OthersUntouched ==
    ASSUME TypeOK, NEW a \in Admins, Step(a), NEW b \in Admins, b # a
    PROVE  req'[b] = req[b] /\ form'[b] = form[b]
BY SMTT(60) DEF TypeOK, Step, FormRender, HandleFeedConfigSave, SaveReadsOverride,
       HandleFeedConfigReset, Abandon, ApplyFeedConfig, Persisted, PersistFailed,
       CommitUnacknowledged, RestoreRuntimeFeedConfig

\* What a step does to the request of its administrator.
LEMMA OwnRequest ==
    ASSUME IInv, NEW a \in Admins, Step(a)
    PROVE  \/ FormRender(a) /\ req'[a] = None
           \/ /\ HandleFeedConfigSave(a)
              /\ req'[a] # None /\ req'[a].pc = "stored" /\ req'[a].form # None
           \/ /\ SaveReadsOverride(a) /\ CheckFeedConfigFormRevision(a, row)
              /\ req'[a] # None /\ req'[a].pc = "slot" /\ req'[a].form = req[a].form
              /\ req'[a].form # None /\ req'[a].previous = row
              /\ req'[a].feed = ParseFeedSettingsForm(req[a].form, DesiredSettings(req[a]))
           \/ SaveReadsOverride(a) /\ req'[a] = None
           \/ /\ HandleFeedConfigReset(a)
              /\ req'[a] # None /\ req'[a].pc = "slot" /\ req'[a].form = None
              /\ req'[a].previous = row /\ req'[a].feed = Default
           \/ /\ ApplyFeedConfig(a) /\ slot' = a /\ runtime' = req[a].feed
              /\ req'[a] # None /\ req'[a].pc = "persist" /\ req'[a].snapshot = runtime
              /\ req'[a].form = req[a].form /\ req'[a].previous = req[a].previous
              /\ req'[a].feed = req[a].feed
           \/ /\ ApplyFeedConfig(a) /\ UNCHANGED <<slot, runtime>> /\ req'[a] = None
           \/ /\ PersistFailed(a) \/ CommitUnacknowledged(a)
              /\ req'[a] # None /\ req'[a].pc = "rollback"
              /\ req'[a].snapshot = req[a].snapshot
              /\ req'[a].form = req[a].form /\ req'[a].previous = req[a].previous
              /\ req'[a].feed = req[a].feed
           \/ (Abandon(a) \/ Persisted(a) \/ RestoreRuntimeFeedConfig(a)) /\ req'[a] = None
<1> USE SaveAssumption
<1>t. TypeOK /\ BaseInv
  BY SMTT(60) DEF IInv
<1>f. req[a] # None => req[a] \in Requests
  BY <1>t, SettingsFacts
<1>d. req \in [Admins -> Requests \union {None}]
  BY <1>t DEF TypeOK
<1>p. TypeOK'
  BY TypeStep DEF Next, Step
<1>q. req'[a] \in Requests \union {None}
  BY SMTT(60), <1>p DEF TypeOK
<1>1. CASE FormRender(a)
  BY SMTT(60), <1>1 DEF FormRender
<1>2. CASE HandleFeedConfigSave(a)
  <2>1. PICK f \in Form : req' = [req EXCEPT ![a] = [pc |-> "stored", form |-> f,
            feed |-> runtime, previous |-> None, snapshot |-> runtime]]
    BY Zenon, <1>2 DEF HandleFeedConfigSave
  <2>2. req'[a] = [pc |-> "stored", form |-> f, feed |-> runtime, previous |-> None,
                   snapshot |-> runtime]
    BY <1>d, <2>1
  <2>3. req'[a].pc = "stored" /\ req'[a].form = f /\ f # None
    BY <2>2
  <2>4. req'[a] \in Requests
    BY <1>t, <2>2 DEF Requests, TypeOK
  <2> QED BY SMTT(60), <1>2, <2>3, <2>4
<1>3. CASE SaveReadsOverride(a)
  <2> DEFINE feed == ParseFeedSettingsForm(req[a].form, DesiredSettings(req[a]))
  <2>1. /\ req[a] \in Requests /\ req[a].form # None
        /\ req' = [req EXCEPT ![a] = IF CheckFeedConfigFormRevision(a, row)
                     THEN [req[a] EXCEPT !.pc = "slot", !.previous = row, !.feed = feed]
                     ELSE None]
    BY <1>3, <1>f, <1>t DEF SaveReadsOverride, BaseInv
  <2> HIDE DEF feed
  <2>2. CASE CheckFeedConfigFormRevision(a, row)
    <3>1. req'[a] = [req[a] EXCEPT !.pc = "slot", !.previous = row, !.feed = feed]
      BY <1>d, <2>1, <2>2
    <3>r. req[a] \in Requests
      BY <2>1
    <3>2. /\ req'[a].pc = "slot" /\ req'[a].form = req[a].form
          /\ req'[a].previous = row /\ req'[a].feed = feed
      BY <3>r, <3>1 DEF Requests
    <3>3. [req[a] EXCEPT !.pc = "slot", !.previous = row, !.feed = feed] \in Requests
      <4>1. feed \in Settings /\ row \in Row \union {None}
        BY <1>t, <2>1, SettingsFacts DEF feed, TypeOK
      <4> QED BY Zenon, <2>1, <4>1 DEF Requests
    <3> QED BY <1>3, <2>1, <2>2, <3>1, <3>2, <3>3 DEF feed
  <2>3. CASE ~CheckFeedConfigFormRevision(a, row)
    BY <1>d, <1>3, <2>1, <2>3
  <2> QED BY <2>2, <2>3
<1>4. CASE HandleFeedConfigReset(a)
  <2>1. req'[a] = [pc |-> "slot", form |-> None, feed |-> Default,
                   previous |-> row, snapshot |-> runtime]
    BY <1>d, <1>4 DEF HandleFeedConfigReset
  <2>2. req'[a] \in Requests
    BY <1>t, <2>1 DEF Requests, TypeOK
  <2> QED BY <1>4, <2>1, <2>2
<1>5. CASE ApplyFeedConfig(a)
  <2>1. req[a] \in Requests
    BY <1>5, <1>f DEF ApplyFeedConfig
  <2>2. CASE req[a].feed.key \in RefusedKeys
    BY SMTT(60), <1>d, <1>5, <2>2 DEF ApplyFeedConfig
  <2>3. CASE req[a].feed.key \notin RefusedKeys
    <3>1. req'[a] = [req[a] EXCEPT !.pc = "persist", !.snapshot = runtime]
      BY Zenon, <1>d, <1>5, <2>3 DEF ApplyFeedConfig
    <3>2. slot' = a /\ runtime' = req[a].feed
      BY <1>5, <2>3 DEF ApplyFeedConfig
    <3>3. /\ req'[a].pc = "persist" /\ req'[a].snapshot = runtime
          /\ req'[a].form = req[a].form /\ req'[a].previous = req[a].previous
          /\ req'[a].feed = req[a].feed
      BY <2>1, <3>1 DEF Requests
    <3>4. req'[a] \in Requests
      BY Zenon, <1>t, <2>1, <3>1 DEF Requests, TypeOK
    <3> QED BY <1>5, <3>2, <3>3, <3>4
  <2> QED BY <2>2, <2>3
<1>6. CASE PersistFailed(a) \/ CommitUnacknowledged(a)
  <2>1. req[a] \in Requests /\ req'[a] = [req[a] EXCEPT !.pc = "rollback"]
    BY <1>d, <1>f, <1>6 DEF PersistFailed, CommitUnacknowledged
  <2>2. /\ req'[a].pc = "rollback" /\ req'[a].snapshot = req[a].snapshot
        /\ req'[a].form = req[a].form /\ req'[a].previous = req[a].previous
        /\ req'[a].feed = req[a].feed
    BY <2>1 DEF Requests
  <2>3. req'[a] \in Requests
    BY SMTT(60), <2>1 DEF Requests
  <2> QED BY <1>6, <2>2, <2>3
<1>7. CASE Abandon(a) \/ Persisted(a) \/ RestoreRuntimeFeedConfig(a)
  BY <1>d, <1>7 DEF Abandon, Persisted, RestoreRuntimeFeedConfig
<1> QED BY Zenon, <1>1, <1>2, <1>3, <1>4, <1>5, <1>6, <1>7 DEF Step

-----------------------------------------------------------------------------
\* The slot still belongs to the request inside it.
LEMMA SlotStep ==
    ASSUME IInv, NEW a \in Admins, Step(a) PROVE SlotInv'
<1> USE SaveAssumption
<1>t. TypeOK /\ SlotInv
  BY DEF IInv
<1>o. \A b \in Admins : b # a => req'[b] = req[b]
  BY <1>t, OthersUntouched
<1>1. CASE FormRender(a) \/ HandleFeedConfigSave(a) \/ SaveReadsOverride(a)
           \/ HandleFeedConfigReset(a) \/ Abandon(a)
  <2>1. slot' = slot /\ slot # a
    BY SMTT(60), <1>1, <1>t DEF FormRender, HandleFeedConfigSave, SaveReadsOverride,
       HandleFeedConfigReset, Abandon, SlotInv, InSlot
  <2>2. ~InSlot(a)'
    BY ZenonT(60), <1>1, OwnRequest
       DEF InSlot, FormRender, HandleFeedConfigSave, SaveReadsOverride,
       HandleFeedConfigReset, Abandon, ApplyFeedConfig, PersistFailed, CommitUnacknowledged
  <2> QED BY <1>o, <1>t, <2>1, <2>2 DEF SlotInv, InSlot
<1>2. CASE ApplyFeedConfig(a)
  <2>1. slot = None
    BY <1>2 DEF ApplyFeedConfig
  <2>2. \A b \in Admins : ~InSlot(b)
    BY <1>t, <2>1 DEF SlotInv
  <2>3. \/ slot' = a /\ InSlot(a)'
        \/ slot' = None /\ ~InSlot(a)'
    <3>1. CASE req[a].feed.key \in RefusedKeys
      BY <1>2, <1>t, <2>1, <3>1 DEF ApplyFeedConfig, InSlot, TypeOK
    <3>2. CASE req[a].feed.key \notin RefusedKeys
      <4>1. req[a] \in Requests /\ req'[a] = [req[a] EXCEPT !.pc = "persist", !.snapshot = runtime]
        BY Zenon, <1>2, <1>t, <3>2 DEF ApplyFeedConfig, TypeOK
      <4>2. req'[a].pc = "persist" /\ req'[a] \in Requests
        BY Zenon, <1>t, <4>1 DEF Requests, TypeOK
      <4> QED BY <1>2, <3>2, <4>2 DEF ApplyFeedConfig, InSlot
    <3> QED BY <3>1, <3>2
  <2> QED BY <1>o, <2>2, <2>3 DEF SlotInv, InSlot
<1>3. CASE PersistFailed(a) \/ CommitUnacknowledged(a)
  <2>1. slot' = slot /\ InSlot(a)
    BY <1>3 DEF PersistFailed, CommitUnacknowledged, InSlot
  <2>2. InSlot(a)'
    <3>1. req[a] \in Requests /\ req'[a] = [req[a] EXCEPT !.pc = "rollback"]
      BY <1>3, <1>t DEF PersistFailed, CommitUnacknowledged, TypeOK
    <3>2. req'[a].pc = "rollback" /\ req'[a] \in Requests
      BY <3>1 DEF Requests
    <3> QED BY <3>2 DEF InSlot
  <2> QED BY <1>o, <1>t, <2>1, <2>2 DEF SlotInv, InSlot
<1>4. CASE Persisted(a) \/ RestoreRuntimeFeedConfig(a)
  <2>1. slot' = None /\ InSlot(a) /\ slot = a
    BY <1>4, <1>t DEF Persisted, RestoreRuntimeFeedConfig, InSlot, SlotInv
  <2>2. req'[a] = None
    BY <1>4, <1>t DEF Persisted, RestoreRuntimeFeedConfig, TypeOK
  <2> QED BY <1>o, <1>t, <2>1, <2>2 DEF SlotInv, InSlot
<1> QED BY <1>1, <1>2, <1>3, <1>4 DEF Step

\* Inside the slot the runtime follows the request, outside it the row.
LEMMA RuntimeStep ==
    ASSUME IInv, NEW a \in Admins, Step(a) PROVE RuntimeInv'
<1> USE SaveAssumption
<1>t. TypeOK /\ SlotInv /\ RuntimeInv /\ BaseInv /\ RevInv
  BY DEF IInv
<1>o. \A b \in Admins : b # a => req'[b] = req[b]
  BY <1>t, OthersUntouched
<1>s. SlotInv'
  BY SMTT(60), SlotStep
<1>f. req[a] # None => req[a] \in Requests
  BY <1>t, SettingsFacts
<1>1. CASE FormRender(a) \/ HandleFeedConfigSave(a) \/ SaveReadsOverride(a)
           \/ HandleFeedConfigReset(a) \/ Abandon(a)
  <2>1. UNCHANGED <<slot, runtime, row, unacked>> /\ slot # a
    BY <1>1, <1>t DEF FormRender, HandleFeedConfigSave, SaveReadsOverride,
       HandleFeedConfigReset, Abandon, SlotInv, InSlot
  <2>2. ~InSlot(a)'
    BY <1>s, <2>1 DEF SlotInv
  <2> QED BY <1>o, <1>t, <2>1, <2>2 DEF RuntimeInv, InSlot, Effective
<1>2. CASE ApplyFeedConfig(a)
  <2>1. slot = None /\ UNCHANGED <<row, unacked>>
    BY <1>2 DEF ApplyFeedConfig
  <2>2. \A b \in Admins : b # a => ~InSlot(b)'
    BY <1>t, <1>o, <2>1 DEF SlotInv, InSlot
  <2>3. CASE req[a].feed.key \in RefusedKeys
    <3>1. slot' = slot /\ runtime' = runtime
      BY <1>2, <2>3 DEF ApplyFeedConfig
    <3> QED BY <1>s, <1>t, <2>1, <3>1 DEF RuntimeInv, SlotInv, Effective
  <2>4. CASE req[a].feed.key \notin RefusedKeys
    <3>1. slot' = a /\ runtime' = req'[a].feed /\ req'[a].snapshot = runtime
      <4>1. req[a] \in Requests /\ req'[a] = [req[a] EXCEPT !.pc = "persist", !.snapshot = runtime]
        BY Zenon, <1>2, <1>f, <1>t, <2>4 DEF ApplyFeedConfig, TypeOK
      <4>2. req'[a].snapshot = runtime /\ req'[a].feed = req[a].feed
        BY <4>1 DEF Requests
      <4> QED BY <1>2, <2>4, <4>2 DEF ApplyFeedConfig
    <3> QED BY <1>t, <2>1, <2>2, <3>1 DEF RuntimeInv, Effective
  <2> QED BY <2>3, <2>4
<1>3. CASE PersistFailed(a) \/ CommitUnacknowledged(a)
  <2>1. slot' = slot /\ runtime' = runtime /\ slot = a
    BY <1>3, <1>t DEF PersistFailed, CommitUnacknowledged, SlotInv, InSlot
  <2>2. req'[a].feed = req[a].feed /\ req'[a].snapshot = req[a].snapshot
    <3>1. req[a] \in Requests /\ req'[a] = [req[a] EXCEPT !.pc = "rollback"]
      BY <1>3, <1>f, <1>t DEF PersistFailed, CommitUnacknowledged, TypeOK
    <3> QED BY <3>1 DEF Requests
  <2>3. unacked' \/ (row' = row /\ unacked' = unacked)
    BY <1>3 DEF PersistFailed, CommitUnacknowledged
  <2>4. \A b \in Admins : b # a => ~InSlot(b)'
    BY <1>s, <2>1 DEF SlotInv
  <2>5. InSlot(a)
    BY <2>1, <1>t DEF SlotInv
  <2> QED BY <1>t, <2>1, <2>2, <2>3, <2>4, <2>5 DEF RuntimeInv, Effective
<1>4. CASE Persisted(a)
  <2>1. slot = a /\ slot' = None /\ runtime' = runtime /\ InSlot(a) /\ req[a] \in Requests
    BY <1>4, <1>f, <1>t DEF Persisted, SlotInv, InSlot
  <2>2. runtime = req[a].feed
    BY <1>t, <2>1 DEF RuntimeInv
  <2>3. Effective(row') = req[a].feed
    <3>1. Write(req[a])
      BY SMTT(60), <1>4 DEF Persisted
    <3>2. CASE req[a].form = None
      BY <1>t, <2>1, <3>1, <3>2, WriteFacts DEF Effective, BaseInv, InSlot
    <3>3. CASE req[a].form # None
      BY <1>t, <2>1, <3>1, <3>3, WriteFacts DEF Effective
    <3> QED BY <3>2, <3>3
  <2>4. \A b \in Admins : ~InSlot(b)'
    BY <1>s, <2>1 DEF SlotInv
  <2> QED BY <2>1, <2>2, <2>3, <2>4 DEF RuntimeInv, Effective
<1>5. CASE RestoreRuntimeFeedConfig(a)
  <2>1. slot' = None /\ InSlot(a) /\ UNCHANGED <<row, unacked>>
    BY <1>5 DEF RestoreRuntimeFeedConfig, InSlot
  <2>2. runtime' = req[a].snapshot
    BY <1>5, <1>t, <2>1 DEF RestoreRuntimeFeedConfig, RuntimeInv
  <2>3. \A b \in Admins : ~InSlot(b)'
    BY SMTT(60), <1>s, <2>1 DEF SlotInv
  <2> QED BY <1>t, <2>1, <2>2, <2>3 DEF RuntimeInv, Effective
<1> QED BY <1>1, <1>2, <1>3, <1>4, <1>5 DEF Step

\* What a request read stays what its write is based on.
LEMMA BaseStep ==
    ASSUME IInv, NEW a \in Admins, Step(a) PROVE BaseInv'
<1> USE SaveAssumption
<1>t. TypeOK /\ BaseInv
  BY DEF IInv
<1>o. \A b \in Admins : b # a => req'[b] = req[b] /\ form'[b] = form[b]
  BY SMTT(60), <1>t, OthersUntouched
<1> DEFINE Good(r, f) ==
       /\ r # None /\ r.form = None => r.feed = Default
       /\ r # None /\ r.pc = "stored" => r.form # None
       /\ r # None /\ r.pc # "stored" => f \in {Absent, Revision(r.previous)}
       /\ r # None /\ r.pc # "stored" /\ r.form # None /\ r.form.key = Keep /\ r.previous # None
             => r.feed.key = r.previous.settings.key
<1>g. \A b \in Admins : Good(req[b], form[b])
  BY SMTT(60), <1>t DEF BaseInv, Based
<1>a. Good(req'[a], form'[a])
  <2>1. CASE req'[a] = None
    BY <2>1
  <2>2. CASE HandleFeedConfigSave(a) /\ req'[a] # None /\ req'[a].pc = "stored" /\ req'[a].form # None
    BY <2>2
  <2>3. CASE /\ SaveReadsOverride(a) /\ CheckFeedConfigFormRevision(a, row)
             /\ req'[a] # None /\ req'[a].pc = "slot" /\ req'[a].form = req[a].form
             /\ req'[a].form # None /\ req'[a].previous = row
             /\ req'[a].feed = ParseFeedSettingsForm(req[a].form, DesiredSettings(req[a]))
    <3>1. form'[a] \in {Absent, Revision(req'[a].previous)}
      BY SMTT(60), <2>3 DEF SaveReadsOverride, CheckFeedConfigFormRevision
    <3>2. req'[a].form.key = Keep /\ row # None => req'[a].feed.key = row.settings.key
      BY SMTT(60), <2>3 DEF ParseFeedSettingsForm, DesiredSettings
    <3> QED BY <2>3, <3>1, <3>2
  <2>4. CASE /\ HandleFeedConfigReset(a)
             /\ req'[a] # None /\ req'[a].pc = "slot" /\ req'[a].form = None
             /\ req'[a].previous = row /\ req'[a].feed = Default
    <3>1. form'[a] \in {Absent, Revision(req'[a].previous)}
      BY SMTT(60), <2>4 DEF HandleFeedConfigReset, CheckFeedConfigFormRevision
    <3> QED BY SMTT(60), <2>4, <3>1
  <2>5. CASE /\ ApplyFeedConfig(a) \/ PersistFailed(a) \/ CommitUnacknowledged(a)
             /\ req'[a] # None /\ req'[a].pc # "stored"
             /\ req'[a].form = req[a].form /\ req'[a].previous = req[a].previous
             /\ req'[a].feed = req[a].feed
    <3>1. req[a] # None /\ req[a].pc # "stored" /\ form' = form
      BY SMTT(60), <2>5 DEF ApplyFeedConfig, PersistFailed, CommitUnacknowledged
    <3> QED BY <1>g, <2>5, <3>1
  <2> QED BY ZenonT(60), <2>1, <2>2, <2>3, <2>4, <2>5, OwnRequest
<1>b. ASSUME NEW b \in Admins PROVE Good(req'[b], form'[b])
  <2>1. CASE b = a
    BY SMTT(60), <1>a, <2>1
  <2>2. CASE b # a
    BY <1>o, <1>g, <2>2
  <2> QED BY SMTT(60), <2>1, <2>2
<1> QED BY <1>b DEF BaseInv, Based, Revision

\* Revisions stay unique: a write gives out one that no request has read.
LEMMA RevStep ==
    ASSUME IInv, NEW a \in Admins, Step(a) PROVE RevInv'
<1> USE SaveAssumption
<1>t. TypeOK /\ RevInv
  BY DEF IInv
<1>o. \A b \in Admins : b # a => req'[b] = req[b]
  BY <1>t, OthersUntouched
<1>n. revs \in Nat /\ (row # None => row.rev \in Nat)
  BY SMTT(60), <1>t DEF TypeOK, Row
<1>m. \A b \in Admins : req[b] # None /\ req[b].previous # None => req[b].previous.rev \in Nat
  BY <1>t DEF TypeOK, Requests, Row
<1>p. \A b \in Admins : Based(b)' /\ req'[b].previous # None =>
         \/ Based(b) /\ req'[b].previous = req[b].previous
         \/ row # None /\ req'[b].previous = row /\ row' = row /\ revs' = revs
  <2>1. ASSUME NEW b \in Admins, b # a, Based(b)'
        PROVE  Based(b) /\ req'[b].previous = req[b].previous
    BY SMTT(60), <1>o, <2>1 DEF Based
  <2>2. ASSUME Based(a)', req'[a].previous # None
        PROVE  \/ Based(a) /\ req'[a].previous = req[a].previous
               \/ row # None /\ req'[a].previous = row /\ row' = row /\ revs' = revs
    <3>1. CASE SaveReadsOverride(a) \/ HandleFeedConfigReset(a)
      <4>1. row' = row /\ revs' = revs
        BY <3>1 DEF SaveReadsOverride, HandleFeedConfigReset
      <4>2. req[a] = None \/ req[a].pc = "stored"
        BY SMTT(60), <3>1 DEF SaveReadsOverride, HandleFeedConfigReset
      <4>3. req'[a].previous = row
        BY ZenonT(60), <2>2, <3>1, <4>2, OwnRequest
           DEF Based, FormRender, HandleFeedConfigSave, Abandon,
           ApplyFeedConfig, PersistFailed, CommitUnacknowledged, Persisted,
           RestoreRuntimeFeedConfig
      <4> QED BY <2>2, <4>1, <4>3
    <3>2. CASE ApplyFeedConfig(a) \/ PersistFailed(a) \/ CommitUnacknowledged(a)
      <4>1. req[a] # None /\ req[a].pc \in {"slot", "persist"}
        BY <3>2 DEF ApplyFeedConfig, PersistFailed, CommitUnacknowledged
      <4>2. req'[a].previous = req[a].previous
        BY Zenon, <2>2, <4>1, OwnRequest DEF Based, FormRender, HandleFeedConfigSave,
           SaveReadsOverride, HandleFeedConfigReset
      <4> QED BY <4>1, <4>2 DEF Based
    <3>3. CASE FormRender(a) \/ HandleFeedConfigSave(a)
      BY ZenonT(60), <2>2, <3>3, OwnRequest
         DEF Based, FormRender, HandleFeedConfigSave, SaveReadsOverride,
         HandleFeedConfigReset, ApplyFeedConfig, PersistFailed, CommitUnacknowledged
    <3>4. CASE Abandon(a) \/ Persisted(a) \/ RestoreRuntimeFeedConfig(a)
      BY SMTT(60), <1>t, <2>2, <3>4
         DEF Based, Abandon, Persisted, RestoreRuntimeFeedConfig, TypeOK
    <3> QED BY <3>1, <3>2, <3>3, <3>4 DEF Step
  <2> QED BY <2>1, <2>2
<1>1. CASE UNCHANGED <<row, revs>>
  BY SMTT(60), <1>1, <1>p, <1>t DEF RevInv
<1>2. CASE Persisted(a) \/ CommitUnacknowledged(a)
  <2>1. req[a] \in Requests /\ Write(req[a])
    BY <1>2, <1>t, SettingsFacts DEF Persisted, CommitUnacknowledged
  <2>2. /\ revs <= revs' /\ revs' \in Nat
        /\ row' # None => row'.rev = revs + 1 /\ revs' = revs + 1
    BY <1>t, <2>1, WriteFacts
  <2>3. ASSUME NEW b \in Admins, Based(b)', req'[b].previous # None
        PROVE  /\ req'[b].previous.rev <= revs'
               /\ row' # None => row'.rev # req'[b].previous.rev
    <3>1. req'[b].previous.rev \in Nat /\ req'[b].previous.rev <= revs
      BY <1>m, <1>n, <1>p, <1>t, <2>3 DEF RevInv, Based
    <3> QED BY SMTT(60), <1>n, <2>2, <3>1
  <2> QED BY <1>n, <2>2, <2>3 DEF RevInv
<1> QED BY <1>1, <1>2 DEF Step, FormRender, HandleFeedConfigSave, SaveReadsOverride,
     HandleFeedConfigReset, Abandon, ApplyFeedConfig, PersistFailed, RestoreRuntimeFeedConfig

-----------------------------------------------------------------------------
\* The invariant holds when the server starts.
LEMMA InvInit == Init => IInv
<1> SUFFICES ASSUME Init PROVE IInv
  OBVIOUS
<1> USE SaveAssumption
<1>1. \A a \in Admins : req[a] = None
  BY DEF Init
<1>2. TypeOK
  BY Zenon DEF Init, TypeOK
<1>3. SlotInv /\ RuntimeInv /\ BaseInv /\ RevInv
  BY <1>1 DEF Init, SlotInv, RuntimeInv, BaseInv, RevInv, InSlot, Based, Effective
<1> QED BY <1>2, <1>3 DEF IInv

\* Every step of a handler and a restart keep the invariant.
LEMMA InvStep == IInv /\ [Next]_vars => IInv'
<1> SUFFICES ASSUME IInv, [Next]_vars PROVE IInv'
  OBVIOUS
<1> USE SaveAssumption
<1>t. TypeOK'
  BY TypeStep
<1>1. CASE UNCHANGED vars
  BY <1>1, <1>t DEF IInv, vars, SlotInv, RuntimeInv, BaseInv, RevInv, InSlot, Based,
     Effective, Revision
<1>2. CASE Restart
  <2>1. \A a \in Admins : req'[a] = None
    BY <1>2 DEF Restart
  <2>2. slot' = None /\ row' = row /\ revs' = revs /\ runtime' = Effective(row')
    BY SMTT(60), <1>2 DEF Restart, Effective
  <2>3. SlotInv' /\ RuntimeInv' /\ BaseInv'
    BY SMTT(60), <2>1, <2>2 DEF SlotInv, RuntimeInv, BaseInv, InSlot, Based, Effective
  <2>4. RevInv'
    BY <2>1, <2>2 DEF IInv, RevInv, Based
  <2> QED BY <1>t, <2>3, <2>4 DEF IInv
<1>3. CASE \E a \in Admins : Step(a)
  BY <1>t, <1>3, SlotStep, RuntimeStep, BaseStep, RevStep DEF IInv
<1> QED BY <1>1, <1>2, <1>3 DEF Next, Step

\* The state keeps its type, whatever the numbers of administrators and keys.
THEOREM TypeCorrect == Spec => []TypeOK
<1>1. IInv => TypeOK
  BY DEF IInv
<1> QED BY <1>1, InvInit, InvStep, PTL DEF Spec

\* With the slot free and no lost answer, the server runs with what a restart
\* would give it: the slot of persistAndApplyFeedConfig and its rollback suffice.
THEOREM RuntimeNotBehindStore == Spec => []RuntimeMatchesStore
<1>1. IInv => RuntimeMatchesStore
  BY DEF IInv, RuntimeInv, RuntimeMatchesStore
<1> QED BY <1>1, InvInit, InvStep, PTL DEF Spec

\* The steps that change the row are the commits of the request in the slot.
LEMMA RowChanges ==
    ASSUME IInv, [Next]_vars, row' # row
    PROVE  \E a \in Admins : /\ slot = a /\ req[a] \in Requests /\ Based(a)
                             /\ AtRevision(req[a]) /\ Write(req[a])
<1>1. PICK a \in Admins : Persisted(a) \/ CommitUnacknowledged(a)
  BY ZenonT(60)
     DEF Next, vars, Restart, FormRender, HandleFeedConfigSave, SaveReadsOverride,
     HandleFeedConfigReset, Abandon, ApplyFeedConfig, PersistFailed, RestoreRuntimeFeedConfig
<1>2. InSlot(a) /\ AtRevision(req[a]) /\ Write(req[a])
  BY <1>1 DEF Persisted, CommitUnacknowledged, InSlot
<1>3. slot = a /\ Based(a) /\ req[a] \in Requests
  BY <1>2, SettingsFacts DEF IInv, SlotInv, InSlot, Based
<1> QED BY SMTT(60), <1>2, <1>3

\* No save or reset replaces an override that its form was not rendered for: the
\* check of the form and the conditional write leave no gap between them.
THEOREM NoUnseenOverwrite == Spec => SavesWhatWasRendered
<1>1. ASSUME IInv, [Next]_vars
      PROVE  [\A a \in Admins :
                 slot = a /\ row' # row /\ form[a] # Absent => form[a] = Revision(row)]_vars
  <2>1. ASSUME NEW a \in Admins, slot = a, row' # row, form[a] # Absent
        PROVE  form[a] = Revision(row)
    <3>1. Based(a) /\ AtRevision(req[a])
      BY <1>1, <2>1, RowChanges
    <3> QED BY SMTT(60), <1>1, <2>1, <3>1 DEF IInv, BaseInv, AtRevision
  <2> QED BY SMTT(60), <2>1
<1> QED BY <1>1, InvInit, InvStep, PTL DEF Spec, SavesWhatWasRendered

\* A save that keeps the key of a stored override leaves that key in the row:
\* revisions are unique, so the row it replaces is the row it read.
THEOREM OverrideKeyKept == Spec => KeptKeyOfOverride
<1>1. ASSUME IInv, [Next]_vars
      PROVE  [\A a \in Admins :
                 slot = a /\ row' # row /\ row # None /\ row' # None /\ req[a].form.key = Keep
                    => row'.settings.key = row.settings.key]_vars
  <2>1. ASSUME NEW a \in Admins, slot = a, row' # row, row # None, row' # None,
               req[a].form.key = Keep
        PROVE  row'.settings.key = row.settings.key
    <3>1. req[a] \in Requests /\ Based(a) /\ AtRevision(req[a]) /\ Write(req[a])
      BY SMTT(60), <1>1, <2>1, RowChanges
    <3>2. req[a].form # None /\ row'.settings = req[a].feed
      BY SMTT(60), <1>1, <2>1, <3>1, WriteFacts DEF IInv
    <3>3. req[a].previous # None /\ req[a].previous.rev = row.rev
      <4>1. row.rev \in Nat
        BY SMTT(60), <1>1, <2>1 DEF IInv, TypeOK, Row
      <4> QED BY <2>1, <3>1, <4>1, SaveAssumption DEF AtRevision, Revision
    <3>4. row = req[a].previous
      BY SMTT(60), <1>1, <2>1, <3>1, <3>3 DEF IInv, RevInv
    <3>5. req[a].feed.key = req[a].previous.settings.key
      BY <1>1, <2>1, <3>1, <3>2, <3>3 DEF IInv, BaseInv
    <3> QED BY <3>2, <3>4, <3>5
  <2> QED BY <2>1
<1> QED BY <1>1, InvInit, InvStep, PTL DEF Spec, KeptKeyOfOverride
=============================================================================
