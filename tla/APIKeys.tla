------------------------------- MODULE APIKeys -------------------------------
(***************************************************************************)
(* API keys: the admin's forms that create, revoke and delete them         *)
(* (internal/api/admin/pages.go, postgres/api_keys.go), the middleware     *)
(* that authenticates API requests with them, and its last-used updater    *)
(* (internal/server/middleware/auth.go).                                   *)
(*                                                                         *)
(* One admin session with several tabs: its flash values are the nonce of  *)
(* the form rendered last and the plaintext of the key created last.  The  *)
(* updater's channel holds the keys whose pending entry is queued; their   *)
(* order is left out.  retryAfter is "waiting" until the backoff is over   *)
(* and "due" afterwards; a timer may fire late.                            *)
(***************************************************************************)
EXTENDS Naturals, FiniteSets

CONSTANTS Keys, Tabs, MaxForms, QueueSize, Workers, PendingLimit, MaxTimers

VARIABLES row,        \* api_keys: key -> "none", "active", "revoked", "expired" or "deleted"
          made,       \* key -> the form it was created from
          nonce,      \* flash api_key_create_nonce, 0 when read
          newkey,     \* flash newkey is set
          forms,      \* forms rendered so far
          tab,        \* tab -> the nonce of its form and where its request is
          pending,    \* u.pending: key -> entry
          timers,     \* key -> retry timers outstanding
          debounced   \* keys in u.lastQueued within the interval
vars == <<row, made, nonce, newkey, forms, tab, pending, timers, debounced>>
admin == <<row, made, nonce, newkey, forms, tab>>
updater == <<pending, timers, debounced>>

Absent == [held |-> FALSE, queued |-> FALSE, inFlight |-> FALSE, retry |-> "none", sched |-> FALSE]

\* A new server, or one whose keys were created before it was started again.
Init == /\ \E status \in {"none", "active"} : row = [k \in Keys |-> status]
        /\ made = [k \in Keys |-> 0] /\ nonce = 0 /\ newkey = FALSE /\ forms = 0
        /\ tab = [t \in Tabs |-> [form |-> 0, pc |-> "idle"]]
        /\ pending = [k \in Keys |-> Absent] /\ timers = [k \in Keys |-> 0] /\ debounced = {}

-----------------------------------------------------------------------------
(* Admin forms.                                                            *)

\* The page shows the new key once and carries a fresh nonce.
HandleAdminKeys(t) ==
    /\ tab[t].pc = "idle" /\ forms < MaxForms
    /\ forms' = forms + 1 /\ nonce' = forms + 1 /\ newkey' = FALSE
    /\ tab' = [tab EXCEPT ![t].form = forms + 1]
    /\ UNCHANGED <<row, made, updater>>

\* Mutant: the nonce stays valid after its first use.
consumeNoncePeek(form) == (form = 0 \/ nonce = form) /\ UNCHANGED nonce

\* GetFlash reads and deletes the nonce in one step; a form that is not the
\* one rendered last is turned away, after its nonce too.  A form without a
\* nonce is let through and spends none.
consumeNonce(form) == \/ form = 0 /\ UNCHANGED nonce
                      \/ form # 0 /\ nonce = form /\ nonce' = 0

\* A validated form with the right current password goes on to the insert;
\* any other outcome ends the request with the nonce spent.
HandleKeyCreate(t) ==
    /\ tab[t].pc = "idle"
    /\ \/ consumeNonce(tab[t].form) /\ tab' = [tab EXCEPT ![t].pc = "create"]
       \/ consumeNonce(tab[t].form) /\ UNCHANGED tab
       \/ tab[t].form \notin {0, nonce} /\ nonce' = 0 /\ UNCHANGED tab
    /\ UNCHANGED <<row, made, newkey, forms, updater>>

\* One transaction with its audit row.
CreateAPIKeyWithAudit(t) ==
    /\ tab[t].pc = "create" /\ tab' = [tab EXCEPT ![t].pc = "idle"]
    /\ \/ \E k \in Keys : /\ row[k] = "none"
                          /\ row' = [row EXCEPT ![k] = "active"]
                          /\ made' = [made EXCEPT ![k] = tab[t].form]
                          /\ newkey' = TRUE
       \/ UNCHANGED <<row, made, newkey>>
    /\ UNCHANGED <<nonce, forms, updater>>

\* A browser sends the form again: a reload or a double click.
Resubmit(t, u) ==
    /\ tab[u].pc = "idle" /\ tab[t].form # 0
    /\ tab' = [tab EXCEPT ![u].form = tab[t].form]
    /\ UNCHANGED <<row, made, nonce, newkey, forms, updater>>

\* The key's metadata goes into the audit row of the transaction, which
\* refuses a row another request has changed meanwhile.
handleAPIKeyMutation(k, from, to) ==
    /\ row[k] \in from /\ row' = [row EXCEPT ![k] = to]
    /\ UNCHANGED <<made, nonce, newkey, forms, tab, updater>>
RevokeAPIKey(k) == handleAPIKeyMutation(k, {"active", "expired"}, "revoked")
DeleteAPIKey(k) == handleAPIKeyMutation(k, {"revoked"}, "deleted")
Expires(k) ==
    /\ row[k] = "active" /\ row' = [row EXCEPT ![k] = "expired"]
    /\ UNCHANGED <<made, nonce, newkey, forms, tab, updater>>

-----------------------------------------------------------------------------
(* The last-used updater.  p is the pending map a locked section has built *)
(* so far; every section ends with its effect on the pending map.          *)

Queued(p) == {k \in Keys : p[k].queued}
Free(p) == QueueSize - Cardinality(Queued(p))
InFlight == {k \in Keys : pending[k].inFlight}
Idle(p) == {k \in Keys : p[k].held /\ ~p[k].queued /\ ~p[k].inFlight}
Ready(p) == {k \in Idle(p) : p[k].retry # "waiting"}

enqueue(p, ks) == [k \in Keys |-> IF k \in ks THEN [p[k] EXCEPT !.queued = TRUE, !.retry = "none", !.sched = FALSE]
                                  ELSE p[k]]
\* A saturated channel leaves the entry pending; its retryAfter is spent.
schedulePending(p, k) ==
    IF k \notin Ready(p) THEN p
    ELSE IF Free(p) > 0 THEN enqueue(p, {k}) ELSE [p EXCEPT ![k].retry = "none"]

\* A timer is started for the keys of ks that have none scheduled.
scheduleRetry(p, ks, spent) ==
    LET new == {k \in ks : ~p[k].sched}
    IN  /\ \A k \in new : timers[k] < MaxTimers
        /\ pending' = [k \in Keys |-> IF k \in new THEN [p[k] EXCEPT !.sched = TRUE] ELSE p[k]]
        /\ timers' = [k \in Keys |-> timers[k] + (IF k \in new THEN 1 ELSE 0) - (IF k \in spent THEN 1 ELSE 0)]

\* Mutant: a slot that frees up starts no pending update.
scheduleReadyPendingNever(p, more) == scheduleRetry(p, more, {})

\* The map is walked in any order: ready entries fill the channel until the
\* first that finds it full, where the walk ends; a waiting entry met on the
\* way gets a timer.  more are the keys a timer is due for anyway.
scheduleReadyPending(p, more) ==
    LET waiting == {k \in Keys : p[k].held /\ ~p[k].queued /\ p[k].retry = "waiting"}
    IN  \E ks \in SUBSET Ready(p) : \E met \in SUBSET waiting :
            /\ Cardinality(ks) <= Free(p)
            /\ ks = Ready(p) => met = waiting
            /\ ks # Ready(p) => Cardinality(ks) = Free(p)
            /\ scheduleRetry(enqueue(p, ks), met \cup more, {})

\* A use is noted at most once per interval and while the map has room.
Enqueue(k) ==
    /\ k \notin debounced
    /\ pending[k].held \/ Cardinality({j \in Keys : pending[j].held}) < PendingLimit
    /\ debounced' = debounced \cup {k}
    /\ pending' = schedulePending([pending EXCEPT ![k].held = TRUE], k)

\* The middleware finds active keys only; a use that is not noted is served
\* all the same.
Authenticate(k) == row[k] = "active" /\ Enqueue(k) /\ UNCHANGED <<admin, timers>>

DebounceEnds(k) == k \in debounced /\ debounced' = debounced \ {k} /\ UNCHANGED <<admin, pending, timers>>

markDequeued(k) ==
    /\ k \in Queued(pending) /\ Cardinality(InFlight) < Workers
    /\ pending' = [pending EXCEPT ![k].queued = FALSE, ![k].inFlight = TRUE]
    /\ UNCHANGED <<admin, timers, debounced>>

markSucceeded(k) ==
    /\ k \in InFlight
    /\ scheduleReadyPending([pending EXCEPT ![k] = Absent], {})
    /\ UNCHANGED <<admin, debounced>>

markFailed(k) ==
    /\ k \in InFlight
    /\ scheduleReadyPending([pending EXCEPT ![k].inFlight = FALSE, ![k].retry = "waiting"], {k})
    /\ UNCHANGED <<admin, debounced>>

BackoffEnds(k) ==
    /\ pending[k].retry = "waiting" /\ pending' = [pending EXCEPT ![k].retry = "due"]
    /\ UNCHANGED <<admin, timers, debounced>>

\* The callback of one timer; the entry may have gone, and may be a new one.
TimerFires(k) ==
    /\ timers[k] > 0
    /\ LET p == [pending EXCEPT ![k].sched = FALSE]
       IN  scheduleRetry(schedulePending(p, k), {j \in {k} : p[j].retry = "waiting"}, {k})
    /\ UNCHANGED <<admin, debounced>>

\* The console and the life of the keys; and the updater, which learns of a key
\* only that it is used.
FormsNext == \/ \E t \in Tabs : HandleAdminKeys(t) \/ HandleKeyCreate(t) \/ CreateAPIKeyWithAudit(t)
             \/ \E t, u \in Tabs : Resubmit(t, u)
             \/ \E k \in Keys : RevokeAPIKey(k) \/ DeleteAPIKey(k) \/ Expires(k)

UpdaterNext == \E k \in Keys : \/ RevokeAPIKey(k) \/ Authenticate(k) \/ DebounceEnds(k) \/ markDequeued(k)
                               \/ markSucceeded(k) \/ markFailed(k) \/ BackoffEnds(k) \/ TimerFires(k)

Next == FormsNext \/ UpdaterNext

Spec == Init /\ [][Next]_vars

-----------------------------------------------------------------------------
TypeOK ==
    /\ row \in [Keys -> {"none", "active", "revoked", "expired", "deleted"}]
    /\ \A k \in Keys : timers[k] \in 0..MaxTimers /\ ~(pending[k].queued /\ pending[k].inFlight)
    /\ Cardinality(Queued(pending)) <= QueueSize

\* A rendered form creates at most one key, however often and from however
\* many tabs it is sent: the nonce is spent before the key is inserted.
OneKeyPerForm ==
    \A k, j \in Keys : made[k] = made[j] /\ made[k] # 0 => k = j

\* A retained last-used update is never forgotten: while it waits it has a
\* timer of its own, or some write is queued or under way whose end will
\* schedule it -- a full channel leaves an entry with no timer behind.
UpdateNeverStranded ==
    \A k \in Idle(pending) :
        \/ timers[k] > 0 /\ (pending[k].retry = "waiting" => pending[k].sched)
        \/ pending[k].retry # "waiting" /\ Queued(pending) \cup InFlight # {}
=============================================================================
