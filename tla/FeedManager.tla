----------------------------- MODULE FeedManager -----------------------------
(***************************************************************************)
(* One feed in the feed manager (internal/feed/manager.go): its successive *)
(* registrations, the loop goroutine of each, the syncs that loops and     *)
(* administrators start, and its row in feed_sync_status.  A write of the  *)
(* row follows a check that the registration is still the current one; the *)
(* two are separate steps, as they are in the code.  Start runs beside the *)
(* requests of administrators, and lets them in between its two passes     *)
(* over the feeds.                                                         *)
(***************************************************************************)
EXTENDS Naturals, Sequences

CONSTANTS
    Manuals,      \* manual syncs that may be in progress together
    Enrichment,   \* TRUE: the feed is in phase 2
    MaxAttempts,  \* len(backoffSchedule) + 1
    MaxConfigs,   \* bound on the registrations of one run of the server
    MaxFailures   \* bound on the status writes that the store refuses

ASSUME ManagerAssumption ==
    /\ Enrichment \in BOOLEAN
    /\ {MaxAttempts, MaxConfigs} \subseteq Nat \ {0}
    /\ MaxFailures \in Nat

VARIABLES
    regs,           \* the registrations of the feed; the last one is current
    loop,           \* where the goroutine of each registration is
    done,           \* registrations whose done channel is closed
    sync,           \* the sync of each loop and of each manual request
    status,         \* last_sync_status of the row
    apply,          \* status an ApplyConfig still has to record, or "none"
    start,          \* how far Start is, and what its phase 1 still waits for
    phase1Done, rootCancelled,
    failures

loops == <<regs, loop, done>>
env == <<phase1Done, rootCancelled>>
vars == <<regs, loop, done, sync, status, apply, start, phase1Done, rootCancelled, failures>>

\* A feed in external mode differs from a disabled one in the name of its status.
Kinds == {"self", "disabled"}
Statuses == {"none", "pending", "running", "success", "error", "skipped", "permanent_error", "disabled"}
Loops == 1..MaxConfigs
Actors == Loops \union Manuals
Idle == [pc |-> "idle", reg |-> 0, attempt |-> 0, out |-> "none"]

current == Len(regs)
Cancelled(r) == rootCancelled \/ regs[r].cancelled
\* A manual sync ends early only with the server.
SyncCancelled(p) == IF p \in Manuals THEN rootCancelled ELSE Cancelled(p)

\* managerFeedShouldRun
ShouldRun(r) == regs[r].kind = "self"
\* The first step of a loop goroutine.
Begin == IF Enrichment THEN "recover0" ELSE "recover"

\* startAfter: the done channel the registration was given to wait for; waits:
\* a goroutine does so; onStart: its loop syncs before the first tick.
Registration(kind) ==
    [kind |-> kind, onStart |-> TRUE, cancel |-> FALSE, cancelled |-> FALSE, startAfter |-> 0,
     waits |-> FALSE]

\* A signal of a first sync that nobody will send.
Lost == MaxConfigs + 1

\* A write of the row that the store may refuse.
Record(s) ==
    \/ status' = s /\ UNCHANGED failures
    \/ failures < MaxFailures /\ failures' = failures + 1 /\ UNCHANGED status

\* A server with one registered feed whose Start is about to run in its goroutine.
\* The row is as an earlier run of the server left it, whenever that stopped.
Init ==
    /\ \E kind \in Kinds : regs = <<Registration(kind)>>
    /\ \E onStart \in BOOLEAN : start = [pc |-> "begin", onStart |-> onStart, owed |-> 0]
    /\ status \in Statuses
    /\ loop = [r \in Loops |-> "none"] /\ done = {}
    /\ sync = [p \in Actors |-> Idle]
    /\ apply = "none"
    /\ phase1Done = FALSE /\ rootCancelled = FALSE
    /\ failures = 0

\* startFeedLocked: nothing for a registration with a loop, or after the signal.
startFeedLocked(r, onStart) ==
    IF regs[r].cancel \/ rootCancelled THEN UNCHANGED <<regs, loop>>
    ELSE /\ regs' = [regs EXCEPT ![r].cancel = TRUE, ![r].onStart = onStart]
         /\ loop' = [loop EXCEPT ![r] = Begin]

\* The first pass of Start, under m.mu: base feeds get their loops, which owe phase
\* 1 a signal.  After the shutdown signal there is no loop to send it, be it of
\* this feed or of another base feed.
StartBase ==
    LET mine == ShouldRun(current) /\ ~Enrichment
    IN
    /\ start.pc = "begin"
    /\ IF mine THEN startFeedLocked(current, start.onStart) ELSE UNCHANGED <<regs, loop>>
    /\ \E owed \in IF rootCancelled THEN {Lost} \union (IF mine THEN {} ELSE {0})
                   ELSE {IF mine THEN current ELSE 0} :
          start' = [start EXCEPT !.pc = IF ShouldRun(current) THEN "enrich" ELSE regs[current].kind,
                                 !.owed = owed]
    /\ UNCHANGED <<done, sync, status, apply, env, failures>>

\* After the unlock the status of a feed that does not run is recorded ...
StartRecord ==
    /\ start.pc = "disabled"
    /\ Record(start.pc)
    /\ start' = [start EXCEPT !.pc = "enrich"]
    /\ UNCHANGED <<loops, sync, apply, env>>

\* ... and under m.mu again, enrichment feeds get theirs, as registered by then.
StartEnrichment ==
    /\ start.pc = "enrich"
    /\ IF ShouldRun(current) /\ Enrichment THEN startFeedLocked(current, start.onStart)
       ELSE UNCHANGED <<regs, loop>>
    /\ start' = [start EXCEPT !.pc = "done"]
    /\ UNCHANGED <<done, sync, status, apply, env, failures>>

\* A base loop has had its first sync when it comes to its tick.
SignalInitialDone ==
    start' = IF start.owed \in Loops /\ loop'[start.owed] = "tick" THEN [start EXCEPT !.owed = 0] ELSE start

-----------------------------------------------------------------------------
\* Mutant: a predecessor without a loop is waited for as well.
PreviousDoneAlways(old) == old

\* The done channel the next loop has to wait for: previousDone in ApplyConfig.
PreviousDone(old) == IF regs[old].cancel THEN old ELSE regs[old].startAfter

\* ApplyConfig under m.mu; its status is recorded after the unlock.
ApplyConfig(kind) ==
    LET new == current + 1
        previous == PreviousDone(current)
        run == kind = "self" /\ ~rootCancelled /\ start.pc # "begin"
    IN
    /\ apply = "none"
    /\ current < MaxConfigs
    /\ regs' = Append([regs EXCEPT ![current].cancelled = @ \/ regs[current].cancel],
                      [Registration(kind) EXCEPT !.startAfter = previous,
                                                 !.cancel = run /\ previous = 0,
                                                 !.waits = run /\ previous # 0])
    /\ loop' = [loop EXCEPT ![new] = IF run /\ previous = 0 THEN Begin ELSE "none"]
    /\ apply' = IF kind = "self" THEN "none" ELSE kind
    /\ UNCHANGED <<done, sync, status, start, env, failures>>

ApplyRecord ==
    /\ apply # "none"
    /\ Record(apply)
    /\ apply' = "none"
    /\ UNCHANGED <<loops, sync, start, env>>

\* startFeedAfterPreviousStopsLocked: the goroutine that waits for the old loop.
AfterPrevious(r) ==
    LET go == r = current /\ regs[r].startAfter \in done /\ ~rootCancelled
        launch == go /\ ~regs[r].cancel
    IN
    /\ r <= current /\ regs[r].waits
    /\ regs[r].startAfter \in done \/ rootCancelled
    /\ regs' = [regs EXCEPT ![r].waits = FALSE,
                            ![r].startAfter = IF go THEN 0 ELSE @,
                            ![r].cancel = @ \/ launch]
    /\ loop' = IF launch THEN [loop EXCEPT ![r] = Begin] ELSE loop
    /\ UNCHANGED <<done, sync, status, apply, start, env, failures>>

-----------------------------------------------------------------------------
\* recoverInterruptedRunningStatus reads the row ...
RecoverRead(r) ==
    /\ loop[r] \in {"recover0", "recover"}
    /\ loop' = [loop EXCEPT ![r] =
                  CASE status = "running" /\ @ = "recover0" -> "fix0"
                    [] status = "running" /\ @ = "recover"  -> "fix"
                    [] status # "running" /\ @ = "recover0" -> "phase"
                    [] OTHER                                -> "initial"]
    /\ UNCHANGED <<regs, done, sync, status, apply, start, env, failures>>

\* ... and replaces the running status it found.
RecoverWrite(r) ==
    /\ loop[r] \in {"fix0", "fix"}
    /\ Record("error")
    /\ loop' = [loop EXCEPT ![r] = IF @ = "fix0" THEN "phase" ELSE "initial"]
    /\ UNCHANGED <<regs, done, sync, apply, start, env>>

\* An enrichment loop starts once the base feeds have had their first sync.
PhaseReached(r) ==
    /\ loop[r] = "phase"
    /\ phase1Done
    /\ loop' = [loop EXCEPT ![r] = "recover"]
    /\ UNCHANGED <<regs, done, sync, status, apply, start, env, failures>>

\* The first decision of loop: no sync at startup, a fresh row, or a sync.
Initial(r) ==
    /\ loop[r] = "initial"
    /\ \/ /\ ~regs[r].onStart
          /\ loop' = [loop EXCEPT ![r] = IF status = "none" THEN "pending" ELSE "tick"]
          /\ UNCHANGED sync
       \/ /\ regs[r].onStart
          /\ status = "success" \/ Cancelled(r)
          /\ loop' = [loop EXCEPT ![r] = "tick"]
          /\ UNCHANGED sync
       \/ /\ regs[r].onStart
          /\ ~Cancelled(r)
          /\ loop' = [loop EXCEPT ![r] = "sync"]
          /\ sync' = [sync EXCEPT ![r] = [Idle EXCEPT !.pc = "lock", !.reg = r]]
    /\ SignalInitialDone
    /\ UNCHANGED <<regs, done, status, apply, env, failures>>

\* recordPendingStatusIfMissing, after it found no row.
RecordPending(r) ==
    /\ loop[r] = "pending"
    /\ Record("pending")
    /\ loop' = [loop EXCEPT ![r] = "tick"]
    /\ SignalInitialDone
    /\ UNCHANGED <<regs, done, sync, apply, env>>

\* The interval has passed.
Tick(r) ==
    /\ loop[r] = "tick"
    /\ ~Cancelled(r)
    /\ loop' = [loop EXCEPT ![r] = "sync"]
    /\ sync' = [sync EXCEPT ![r] = [Idle EXCEPT !.pc = "lock", !.reg = r]]
    /\ UNCHANGED <<regs, done, status, apply, start, env, failures>>

\* finishFeedLoop: on cancellation, at the tick or in the wait for phase 1.
FinishFeedLoop(r) ==
    /\ loop[r] \in {"tick", "phase"}
    /\ Cancelled(r)
    /\ loop' = [loop EXCEPT ![r] = "ended"]
    /\ regs' = [regs EXCEPT ![r].cancel = @ /\ r # current]
    /\ done' = done \union {r}
    /\ UNCHANGED <<sync, status, apply, start, env, failures>>

-----------------------------------------------------------------------------
\* SyncOne: a manual sync of the current registration, whatever its mode.
SyncOne(m) ==
    /\ sync[m].pc = "idle"
    /\ ~rootCancelled
    /\ sync' = [sync EXCEPT ![m] = [Idle EXCEPT !.pc = "lock", !.reg = current]]
    /\ UNCHANGED <<loops, status, apply, start, env, failures>>

Holds(p) == sync[p].pc \in {"check", "running", "attempt", "final", "write"}

\* Mutant: every registration of a feed has a mutex of its own.
SyncMuPerRegistration(p) == sync[p].reg

\* feedLockForNameLocked: one mutex for all registrations of a feed.
SyncMu(p) == 0

\* The sync of p returns, and its loop goes back to its tick.
Return(p, next) ==
    /\ sync' = [sync EXCEPT ![p] = IF next = "idle" THEN Idle ELSE [@ EXCEPT !.pc = next]]
    /\ loop' = IF p \notin Manuals /\ next = "idle" THEN [loop EXCEPT ![p] = "tick"] ELSE loop
    /\ SignalInitialDone

AcquireSyncLock(p) ==
    /\ sync[p].pc = "lock"
    /\ \A q \in Actors : Holds(q) => SyncMu(q) # SyncMu(p)
    /\ Return(p, IF SyncCancelled(p) THEN "idle" ELSE "check")
    /\ UNCHANGED <<regs, done, status, apply, env, failures>>

\* A manual sync does not wait for the lock; a cancelled loop stops waiting.
LockNotAcquired(p) ==
    /\ sync[p].pc = "lock"
    /\ \E q \in Actors : Holds(q) /\ SyncMu(q) = SyncMu(p)
    /\ p \in Manuals \/ SyncCancelled(p)
    /\ Return(p, "idle")
    /\ UNCHANGED <<regs, done, status, apply, env, failures>>

\* Mutant: a replaced registration passes for the current one.
IsCurrentAlways(p) == TRUE

\* isCurrentRegisteredFeed
IsCurrent(p) == sync[p].reg = current

CheckRunning(p) ==
    /\ sync[p].pc = "check"
    /\ Return(p, IF IsCurrent(p) THEN "running" ELSE "attempt")
    /\ UNCHANGED <<regs, done, status, apply, env, failures>>

\* recordRunningStatus; without it the sync does not start.
RecordRunningStatus(p) ==
    /\ sync[p].pc = "running"
    /\ \/ status' = "running" /\ Return(p, "attempt") /\ UNCHANGED failures
       \/ /\ failures < MaxFailures /\ failures' = failures + 1
          /\ Return(p, "idle")
          /\ UNCHANGED status
    /\ UNCHANGED <<regs, done, apply, env>>

RetriesLeft(p) == sync[p].attempt + 1 < MaxAttempts

\* An attempt of the syncer: success, a permanent error, another error that ends
\* the sync, or a retryable failure and the delay before the next attempt.
Attempt(p) ==
    /\ sync[p].pc = "attempt"
    /\ \/ \E out \in {"success", "error"} \union (IF SyncCancelled(p) THEN {} ELSE {"skipped"}) :
            sync' = [sync EXCEPT ![p].pc = "final", ![p].out = out]
       \/ /\ ~SyncCancelled(p) /\ RetriesLeft(p)
          /\ sync' = [sync EXCEPT ![p].attempt = @ + 1]
    /\ UNCHANGED <<loops, status, apply, start, env, failures>>

\* After the lock is released, runSync records a permanent error of its own.
AfterSync(p) == IF p \notin Manuals /\ sync[p].out = "skipped" THEN "perm" ELSE "idle"

CheckFinal(p) ==
    /\ sync[p].pc = "final"
    /\ Return(p, IF IsCurrent(p) THEN "write" ELSE AfterSync(p))
    /\ UNCHANGED <<regs, done, status, apply, env, failures>>

\* Mutant: the end of a sync records successes only.
RecordFinalSuccess(p) ==
    /\ sync[p].pc = "write"
    /\ status' = IF sync[p].out = "success" THEN "success" ELSE status
    /\ Return(p, "idle")
    /\ UNCHANGED <<regs, done, apply, env, failures>>

RecordFinal(p) ==
    /\ sync[p].pc = "write"
    /\ Record(sync[p].out)
    /\ Return(p, AfterSync(p))
    /\ UNCHANGED <<regs, done, apply, env>>

CheckPermanent(p) ==
    /\ sync[p].pc = "perm"
    /\ Return(p, IF IsCurrent(p) THEN "permwrite" ELSE "idle")
    /\ UNCHANGED <<regs, done, status, apply, env, failures>>

RecordPermanent(p) ==
    /\ sync[p].pc = "permwrite"
    /\ Record("permanent_error")
    /\ Return(p, "idle")
    /\ UNCHANGED <<regs, done, apply, env>>

SyncStep(p) ==
    \/ AcquireSyncLock(p) \/ LockNotAcquired(p) \/ CheckRunning(p) \/ RecordRunningStatus(p)
    \/ Attempt(p) \/ CheckFinal(p) \/ RecordFinal(p) \/ CheckPermanent(p) \/ RecordPermanent(p)

-----------------------------------------------------------------------------
\* All base feeds have signalled their first sync: the goroutine of Start that
\* waits for them returns.
Phase1Completes ==
    /\ start.pc \in {"enrich", "done"} /\ ~phase1Done
    /\ start.owed = 0
    /\ phase1Done' = TRUE
    /\ UNCHANGED <<loops, sync, status, apply, start, rootCancelled, failures>>

Signal ==
    /\ ~rootCancelled
    /\ rootCancelled' = TRUE
    /\ UNCHANGED <<loops, sync, status, apply, start, phase1Done, failures>>

LoopStep(r) ==
    \/ AfterPrevious(r) \/ RecoverRead(r) \/ RecoverWrite(r) \/ PhaseReached(r) \/ Initial(r)
    \/ RecordPending(r) \/ FinishFeedLoop(r)

\* Every goroutine of the manager has returned, and Wait does.  When the shutdown
\* signal came before the first pass of Start, the goroutine that waits for phase
\* 1 stays, and shutdown gives up waiting for it.
Stopped ==
    /\ rootCancelled
    /\ start.pc = "done" /\ (phase1Done \/ start.owed = Lost)
    /\ \A r \in Loops : loop[r] \in {"none", "ended"}
    /\ \A r \in 1..current : ~regs[r].waits
    /\ \A p \in Actors : sync[p].pc = "idle"
    /\ apply = "none"

Ended == Stopped /\ UNCHANGED vars

Next ==
    \/ Phase1Completes \/ Signal \/ Ended
    \/ StartBase \/ StartRecord \/ StartEnrichment
    \/ ApplyRecord
    \/ \E kind \in Kinds : ApplyConfig(kind)
    \/ \E r \in Loops : LoopStep(r) \/ Tick(r)
    \/ \E m \in Manuals : SyncOne(m)
    \/ \E p \in Actors : SyncStep(p)

Spec == Init /\ [][Next]_vars

\* Goroutines run, the store answers, a syncer returns, intervals pass, and the
\* base feeds end their first sync.  A loop that polls for the lock gets it
\* between manual syncs, which are requests of an administrator.
FairSpec ==
    /\ Spec
    /\ WF_vars(StartBase \/ StartRecord \/ StartEnrichment)
    /\ WF_vars(ApplyRecord) /\ WF_vars(Phase1Completes)
    /\ \A r \in Loops : WF_vars(LoopStep(r)) /\ WF_vars(Tick(r)) /\ SF_vars(AcquireSyncLock(r))
    /\ \A p \in Actors : WF_vars(SyncStep(p))

-----------------------------------------------------------------------------
Regs == [kind : Kinds, onStart : BOOLEAN, cancel : BOOLEAN, cancelled : BOOLEAN,
         startAfter : 0..MaxConfigs, waits : BOOLEAN]
Starts == [pc : {"begin", "disabled", "enrich", "done"}, onStart : BOOLEAN, owed : 0..Lost]
LoopPlaces == {"none", "recover0", "fix0", "phase", "recover", "fix",
               "initial", "pending", "tick", "sync", "ended"}
HoldPlaces == {"check", "running", "attempt", "final", "write"}
SyncPlaces == HoldPlaces \union {"idle", "lock", "perm", "permwrite"}
Syncs == [pc : SyncPlaces, reg : 0..MaxConfigs, attempt : 0..MaxAttempts - 1, out : Statuses]

TypeOK ==
    /\ regs \in Seq(Regs) /\ current \in Loops
    /\ loop \in [Loops -> LoopPlaces]
    /\ done \subseteq Loops
    /\ sync \in [Actors -> Syncs]
    /\ status \in Statuses
    /\ apply \in {"none", "disabled"}
    /\ start \in Starts
    /\ phase1Done \in BOOLEAN /\ rootCancelled \in BOOLEAN
    /\ failures \in 0..MaxFailures

\* The loops of two registrations of a base feed never run together: a replacement
\* waits for the loop it replaces, also when registrations without a loop lie
\* between them (ApplyConfig and startFeedAfterPreviousStopsLocked).  The second
\* pass of Start does not wait: an enrichment feed configured twice between the
\* two passes has a second loop, beside one that is cancelled and ends.
OneLoop ==
    \A r, q \in Loops :
        {loop[r], loop[q]} \intersect {"none", "ended"} = {} /\ r # q =>
           Enrichment /\ (regs[r].cancelled \/ regs[q].cancelled)

\* No two syncs of the feed run together, be they of the loop, of an administrator
\* or of a registration that has been replaced (feedLockForNameLocked).
OneSync ==
    \A p, q \in Actors : sync[p].pc = "attempt" /\ sync[q].pc = "attempt" => p = q

\* Once ApplyConfig has recorded that the feed is disabled or external, no sync of
\* a registration it replaced overwrites that status.
StaleNeverOverwrites ==
    [][\A p \in Actors :
          sync[p].pc # "idle" /\ sync'[p] # sync[p] /\ sync[p].reg # current
             /\ apply = "none" /\ status = regs[current].kind
          => status' = status]_vars

\* A self-managed registration gets its loop past the wait for the old loop and
\* for phase 1, unless it is replaced or the server stops first.
ConfigTakesEffect ==
    \A r \in Loops :
        (r = current /\ ShouldRun(current)) ~>
           (\/ r # current \/ ~ShouldRun(current) \/ rootCancelled
            \/ loop[r] \in {"initial", "pending", "sync", "tick"})

\* The running status of a self-managed feed does not stay for ever, whatever
\* crash, replacement or refused write left it behind: "The next scheduled or
\* manual sync replaces it" (docs/runbook.md).
RunningCleared ==
    (status = "running" /\ ShouldRun(current)) ~>
        (status # "running" \/ ~ShouldRun(current) \/ rootCancelled)

\* After the shutdown signal every goroutine of the manager returns (Wait), but
\* the one that waits for a base feed whose loop the signal kept from starting.
ManagerStops == rootCancelled ~> Stopped

\* No loop waits for ever, neither for its start nor at the end: a replacement
\* waits for the loop it replaces, and shutdown waits for both.
LoopsStartAndStop == ConfigTakesEffect /\ ManagerStops
=============================================================================
