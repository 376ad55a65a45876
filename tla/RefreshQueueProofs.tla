-------------------------- MODULE RefreshQueueProofs --------------------------
(***************************************************************************)
(* Types, claims, the dedup index and the row locks of RefreshQueue, for   *)
(* every number of packages, workers, clients, rows and ticks.  The        *)
(* conjuncts that strengthen the invariant are defined first.              *)
(***************************************************************************)
EXTENDS RefreshQueue, TLAPS

\* The id sequence runs ahead of the table.
FreshRows == \A i \in Ids : i >= nextId => status[i] = "none"

\* A running job has the time of its dequeue.
RunsStamped ==
    \A i \in Ids : status[i] = "processing" => processedAt[i] # 0 /\ processedAt[i] <= now

\* A worker's claim is the latest one of a running job, or is older than the
\* current run, or is older than any claim that can still be made on the job.
ClaimOrder ==
    \A w \in Workers : claimJob[w] # 0 =>
        IF status[claimJob[w]] = "processing"
          THEN \/ claimant[claimJob[w]] = w /\ claimAt[w] = processedAt[claimJob[w]]
               \/ claimAt[w] < processedAt[claimJob[w]]
          ELSE claimAt[w] < now

ClaimInv == FreshRows /\ RunsStamped /\ ClaimOrder

\* The dedup index holds one uncommitted entry of a package.
OneReservation ==
    \A c, d \in Clients :
        txPc[c] = "inserted" /\ txPc[d] = "inserted" /\ txPkg[c] = txPkg[d] => c = d

DedupInv == OneActiveJobPerPackage /\ OneReservation
LockInv == AcceptedRequestHasJob /\ \A c \in Clients : txPc[c] = "bumped" => txRow[c] # 0

-----------------------------------------------------------------------------
(* One step of each kind preserves the types.                               *)

LEMMA ReturnType ==
    ASSUME TypeOK, NEW c \in Clients, EnqueueReturn(c)
    PROVE  /\ txPc' \in [Clients -> {"idle", "insert", "update", "select",
                                     "inserted", "bumped", "found"}]
           /\ txPkg' \in [Clients -> Packages \cup {None}]
           /\ txPrio' \in [Clients -> Nat]
           /\ txAttempt' \in [Clients -> 0..(MaxAttempts - 1)]
           /\ txRow' \in [Clients -> Ids \cup {0}]
BY DEF TypeOK, EnqueueReturn, MaxAttempts

LEMMA TypeStep == TypeOK /\ [Next]_vars => TypeOK'
<1> USE QueueAssumption DEF TypeOK, tableVars, claimVars, txVars
<1> SUFFICES ASSUME TypeOK, [Next]_vars
             PROVE  TypeOK'
  OBVIOUS
<1>1. ASSUME NEW c \in Clients, NEW p \in Packages, NEW n \in Priorities,
             EnqueueBegin(c, p, n)
      PROVE  TypeOK'
  BY <1>1 DEF EnqueueBegin, MaxAttempts
<1>2. ASSUME NEW c \in Clients, EnqueueInsert(c)
      PROVE  TypeOK'
  BY Zenon, <1>2 DEF EnqueueInsert
<1>3. ASSUME NEW c \in Clients, EnqueueUpdate(c)
      PROVE  TypeOK'
  <2>1. ASSUME NEW i \in Ids, txRow' = [txRow EXCEPT ![c] = i],
               txPc' = [txPc EXCEPT ![c] = "bumped"]
        PROVE  TypeOK'
    BY Zenon, <1>3, <2>1 DEF EnqueueUpdate
  <2>2. CASE txPc' = [txPc EXCEPT ![c] = "select"] /\ UNCHANGED txRow
    BY Zenon, <1>3, <2>2 DEF EnqueueUpdate
  <2>3. QED
    BY Zenon, <1>3, <2>1, <2>2 DEF EnqueueUpdate, RowsOf, Rows
<1>4. ASSUME NEW c \in Clients, EnqueueSelectPaused(c)
      PROVE  TypeOK'
  <2>1. ASSUME NEW i \in Ids, txRow' = [txRow EXCEPT ![c] = i],
               txPc' = [txPc EXCEPT ![c] = "found"], UNCHANGED <<txPkg, txPrio, txAttempt>>
        PROVE  TypeOK'
    BY Zenon, <1>4, <2>1 DEF EnqueueSelectPaused
  <2>2. CASE /\ txAttempt[c] + 1 < MaxAttempts
             /\ txPc' = [txPc EXCEPT ![c] = "insert"]
             /\ txAttempt' = [txAttempt EXCEPT ![c] = @ + 1]
             /\ UNCHANGED <<txPkg, txPrio, txRow>>
    BY <1>4, <2>2 DEF EnqueueSelectPaused, MaxAttempts
  <2>3. CASE EnqueueReturn(c)
    BY Zenon, <1>4, <2>3, ReturnType DEF EnqueueSelectPaused
  <2>4. QED
    BY Zenon, <1>4, <2>1, <2>2, <2>3 DEF EnqueueSelectPaused, RowsOf, Rows
<1>5. ASSUME NEW c \in Clients, EnqueueCommit(c)
      PROVE  TypeOK'
  <2>1. CASE txPc[c] = "inserted"
    <3>1. nextId' \in 1..(MaxId + 1)
      BY <1>5, <2>1 DEF EnqueueCommit, PublishInsert, Ids
    <3>2. /\ pkg' \in [Ids -> Packages \cup {None}]
          /\ status' \in [Ids -> Statuses]
          /\ priority' \in [Ids -> Nat]
      BY <1>5, <2>1 DEF EnqueueCommit, PublishInsert, Statuses, Active
    <3>3. QED
      BY Zenon, <1>5, <2>1, <3>1, <3>2, ReturnType DEF EnqueueCommit, PublishInsert
  <2>2. CASE txPc[c] = "bumped"
    BY <1>5, <2>2, ReturnType DEF EnqueueCommit, PublishInsert
  <2>3. CASE txPc[c] = "found"
    BY Zenon, <1>5, <2>3, ReturnType DEF EnqueueCommit, PublishInsert
  <2>4. QED
    BY Zenon, <1>5, <2>1, <2>2, <2>3 DEF EnqueueCommit, PublishInsert
<1>6. ASSUME NEW c \in Clients, EnqueueRollback(c)
      PROVE  TypeOK'
  BY Zenon, <1>6, ReturnType DEF EnqueueRollback
<1>7. ASSUME NEW w \in Workers, DequeueRefresh(w)
      PROVE  TypeOK'
  BY <1>7 DEF DequeueRefresh, Dequeueable, Rows, Statuses, Active
<1>8. ASSUME NEW w \in Workers, NEW r \in Terminal, CompleteClaimedRefresh(w, r)
      PROVE  TypeOK'
  BY <1>8 DEF CompleteClaimedRefresh, DropClaim, Statuses
<1>9. ASSUME NEW w \in Workers, AbandonJob(w)
      PROVE  TypeOK'
  BY Zenon, <1>9 DEF AbandonJob, DropClaim
<1>10. CASE ResetStuckJobs
  BY Zenon, <1>10 DEF ResetStuckJobs, Statuses, Active
<1>11. CASE AdminStep
  <2>1. ASSUME NEW i \in Ids, PauseQueueJob(i) \/ ResumeQueueJob(i) \/ RetryQueueJob(i)
        PROVE  TypeOK'
    BY <2>1 DEF PauseQueueJob, ResumeQueueJob, RetryQueueJob, SetStatus, Statuses, Active
  <2>2. ASSUME NEW i \in Ids, NEW n \in Priorities, UpdateQueueJobPriority(i, n)
        PROVE  TypeOK'
    BY Zenon, <2>2 DEF UpdateQueueJobPriority
  <2>3. ASSUME NEW D, DeleteRows(D)
        PROVE  TypeOK'
    BY Zenon, <2>3 DEF DeleteRows, Statuses
  <2>4. QED
    BY Zenon, <1>11, <2>1, <2>2, <2>3
       DEF AdminStep, ClearQueue, PurgeQueue, PruneRefreshQueue
<1>12. CASE Tick
  BY <1>12 DEF Tick
<1>13. CASE UNCHANGED vars
  BY Zenon, <1>13 DEF vars
<1> HIDE DEF TypeOK
<1>14. QED
  BY Zenon, <1>1, <1>2, <1>3, <1>4, <1>5, <1>6, <1>7, <1>8, <1>9, <1>10, <1>11, <1>12, <1>13
     DEF Next, EnqueueStep, ClockStopped

LEMMA TypeInit == Init => TypeOK
BY QueueAssumption DEF Init, TypeOK, Ids, Statuses, MaxAttempts

\* Every action of the queue keeps its variables in their types
\* (feeds_queue.go and refresh_queue_admin.go write no other status, and a
\* claim always names a row of the table), and enqueueRefresh never counts
\* past its last attempt.
THEOREM TypeCorrect == Spec => []TypeOK
BY TypeInit, TypeStep, PTL DEF Spec

-----------------------------------------------------------------------------
(* The order of claims.                                                     *)

\* Deleting rows that no worker runs keeps the order of claims.
LEMMA DeleteKeepsClaims ==
    ASSUME TypeOK, ClaimInv, NEW D, DeleteRows(D), D \cap Rows({"processing"}) = {}
    PROVE  ClaimInv'
<1> USE DEF TypeOK, claimVars
<1>1. ASSUME NEW i \in Ids
      PROVE  /\ status'[i] = "processing" <=> status[i] = "processing"
             /\ status'[i] = "processing" => processedAt'[i] = processedAt[i]
             /\ status[i] = "none" => status'[i] = "none"
  BY Zenon DEF DeleteRows, Rows
<1>2. UNCHANGED <<nextId, now, claimVars>>
  BY Zenon DEF DeleteRows
<1>3. QED
  BY <1>1, <1>2 DEF ClaimInv, FreshRows, RunsStamped, ClaimOrder

LEMMA ClaimStep == TypeOK /\ ClaimInv /\ [Next]_vars => ClaimInv'
<1> USE QueueAssumption DEF TypeOK, ClaimInv, tableVars, claimVars, txVars
<1> SUFFICES ASSUME TypeOK, ClaimInv, [Next]_vars
             PROVE  ClaimInv'
  OBVIOUS
<1>1. CASE UNCHANGED <<nextId, status, processedAt, now, claimVars>>
  BY Zenon, <1>1 DEF FreshRows, RunsStamped, ClaimOrder
<1>2. ASSUME NEW c \in Clients, EnqueueCommit(c)
      PROVE  ClaimInv'
  <2>1. CASE txPc[c] = "inserted"
    <3>1. status[nextId] = "none" /\ nextId \in Ids
      BY <1>2, <2>1 DEF EnqueueCommit, PublishInsert, FreshRows, Ids, EnqueueReturn
    <3>2. FreshRows'
      BY SMTT(60), <1>2, <2>1, <3>1
         DEF EnqueueCommit, PublishInsert, FreshRows, Ids, EnqueueReturn
    <3>3. RunsStamped'
      BY Zenon, <1>2, <2>1, <3>1 DEF EnqueueCommit, PublishInsert, RunsStamped, EnqueueReturn
    <3>4. \A i \in Ids : status'[i] = "processing" <=> status[i] = "processing"
      BY Zenon, <1>2, <2>1, <3>1 DEF EnqueueCommit, PublishInsert, EnqueueReturn
    <3>5. UNCHANGED <<processedAt, now, claimVars>>
      BY Zenon, <1>2, <2>1 DEF EnqueueCommit, PublishInsert, EnqueueReturn
    <3>6. ClaimOrder'
      BY <3>4, <3>5 DEF ClaimOrder
    <3>7. QED
      BY Zenon, <3>2, <3>3, <3>6
  <2>2. CASE txPc[c] # "inserted"
    BY Zenon, <1>1, <1>2, <2>2 DEF EnqueueCommit, PublishInsert, EnqueueReturn
  <2>3. QED
    BY Zenon, <2>1, <2>2
<1>3. ASSUME NEW w \in Workers, DequeueRefresh(w)
      PROVE  ClaimInv'
  <2>1. PICK i \in Ids :
            /\ status[i] = "pending"
            /\ status' = [status EXCEPT ![i] = "processing"]
            /\ processedAt' = [processedAt EXCEPT ![i] = now]
            /\ claimJob' = [claimJob EXCEPT ![w] = i]
            /\ claimAt' = [claimAt EXCEPT ![w] = now]
            /\ claimant' = [claimant EXCEPT ![i] = w]
            /\ UNCHANGED <<nextId, now>>
    BY Zenon, <1>3 DEF DequeueRefresh, Dequeueable, Rows
  <2>2. FreshRows' /\ RunsStamped'
    BY SMTT(60), <2>1 DEF FreshRows, RunsStamped, Ids
  <2>3. ASSUME NEW v \in Workers, claimJob'[v] # 0
        PROVE  IF status'[claimJob'[v]] = "processing"
                 THEN \/ claimant'[claimJob'[v]] = v /\ claimAt'[v] = processedAt'[claimJob'[v]]
                      \/ claimAt'[v] < processedAt'[claimJob'[v]]
                 ELSE claimAt'[v] < now'
    <3>1. CASE v = w
      BY Zenon, <2>1, <3>1
    <3>2. CASE v # w /\ claimJob[v] = i
      BY Zenon, <2>1, <2>3, <3>2 DEF ClaimOrder
    <3>3. CASE v # w /\ claimJob[v] # i
      BY Zenon, <2>1, <2>3, <3>3 DEF ClaimOrder
    <3>4. QED
      BY Zenon, <3>1, <3>2, <3>3
  <2>4. QED
    BY Zenon, <2>2, <2>3 DEF ClaimOrder
<1>4. ASSUME NEW w \in Workers, NEW r \in Terminal, CompleteClaimedRefresh(w, r)
      PROVE  ClaimInv'
  <2>1. CASE ClaimMatches(w)
    <3>1. claimJob[w] \in Ids /\ status[claimJob[w]] = "processing"
      BY Zenon, <1>4, <2>1 DEF CompleteClaimedRefresh, ClaimMatches
    <3>2. FreshRows' /\ RunsStamped'
      BY ZenonT(60), <1>4, <2>1, <3>1
         DEF CompleteClaimedRefresh, FreshRows, RunsStamped, Terminal, Ids
    <3>3. ASSUME NEW v \in Workers, claimJob'[v] # 0, claimJob[v] = claimJob[w]
          PROVE  claimAt[v] < now
      BY <1>4, <2>1, <3>1, <3>3
         DEF CompleteClaimedRefresh, DropClaim, ClaimMatches, ClaimOrder, RunsStamped
    <3>4. ClaimOrder'
      BY <1>4, <2>1, <3>1, <3>3 DEF CompleteClaimedRefresh, DropClaim, ClaimOrder, Terminal
    <3>5. QED
      BY Zenon, <3>2, <3>4
  <2>2. CASE ~ClaimMatches(w)
    BY Zenon, <1>4, <2>2 DEF CompleteClaimedRefresh, DropClaim, FreshRows, RunsStamped, ClaimOrder
  <2>3. QED
    BY Zenon, <2>1, <2>2
<1>5. ASSUME NEW w \in Workers, AbandonJob(w)
      PROVE  ClaimInv'
  BY Zenon, <1>5 DEF AbandonJob, DropClaim, FreshRows, RunsStamped, ClaimOrder
<1>6. CASE ResetStuckJobs
  <2>1. FreshRows' /\ RunsStamped'
    BY Zenon, <1>6 DEF ResetStuckJobs, StuckJobs, Rows, FreshRows, RunsStamped
  <2>2. ASSUME NEW v \in Workers, claimJob[v] \in StuckJobs
        PROVE  claimAt[v] < now
    <3>1. /\ claimJob[v] \in Ids /\ claimJob[v] # 0
          /\ status[claimJob[v]] = "processing"
          /\ processedAt[claimJob[v]] < now - Stuck
      BY <2>2 DEF StuckJobs, Rows, Ids
    <3>2. claimAt[v] <= processedAt[claimJob[v]]
      BY <3>1 DEF ClaimOrder
    <3>3. QED
      BY <3>1, <3>2
  <2>3. ClaimOrder'
    BY Zenon, <1>6, <2>2 DEF ResetStuckJobs, ClaimOrder
  <2>4. QED
    BY Zenon, <2>1, <2>3
<1>7. CASE AdminStep
  <2>1. ASSUME NEW i \in Ids, PauseQueueJob(i) \/ ResumeQueueJob(i) \/ RetryQueueJob(i)
        PROVE  ClaimInv'
    <3>1. /\ status[i] \notin {"none", "processing"}
          /\ status'[i] \notin {"none", "processing"}
          /\ \A j \in Ids \ {i} : status'[j] = status[j] /\ processedAt'[j] = processedAt[j]
          /\ UNCHANGED <<nextId, now, claimVars>>
      BY <2>1 DEF PauseQueueJob, ResumeQueueJob, RetryQueueJob, SetStatus, Retryable
    <3>2. FreshRows' /\ RunsStamped'
      BY Zenon, <3>1 DEF FreshRows, RunsStamped
    <3>3. ClaimOrder'
      BY <3>1 DEF ClaimOrder
    <3>4. QED
      BY Zenon, <3>2, <3>3
  <2>2. ASSUME NEW i \in Ids, NEW n \in Priorities, UpdateQueueJobPriority(i, n)
        PROVE  ClaimInv'
    BY Zenon, <1>1, <2>2 DEF UpdateQueueJobPriority
  <2>3. ASSUME NEW S \in SUBSET Statuses, ClearQueue(S)
        PROVE  ClaimInv'
    BY Zenon, <2>3, DeleteKeepsClaims DEF ClearQueue, Clearable, Rows
  <2>4. CASE PurgeQueue
    BY Zenon, <2>4, DeleteKeepsClaims DEF PurgeQueue, Terminal, Rows
  <2>5. ASSUME NEW t, PruneRefreshQueue(t)
        PROVE  ClaimInv'
    BY Zenon, <2>5, DeleteKeepsClaims DEF PruneRefreshQueue, Terminal, Rows
  <2>6. QED
    BY Zenon, <1>7, <2>1, <2>2, <2>3, <2>4, <2>5 DEF AdminStep
<1>8. CASE Tick
  BY <1>8 DEF Tick, FreshRows, RunsStamped, ClaimOrder
<1> HIDE DEF ClaimInv
<1>9. QED
  <2>1. ASSUME NEW c \in Clients, EnqueueStep(c)
        PROVE  ClaimInv'
    BY Zenon, <2>1, <1>1, <1>2
       DEF EnqueueStep, EnqueueInsert, EnqueueUpdate, EnqueueSelectPaused, EnqueueReturn
  <2>2. QED
    BY Zenon, <1>1, <1>3, <1>4, <1>5, <1>6, <1>7, <1>8, <2>1
       DEF Next, EnqueueBegin, EnqueueRollback, ClockStopped, vars, EnqueueReturn

LEMMA ClaimInit == Init => ClaimInv
BY QueueAssumption DEF Init, ClaimInv, FreshRows, RunsStamped, ClaimOrder

\* The claim timestamp fences workers for any number of workers, rows and
\* any stuck threshold: the only worker CompleteClaimedRefresh lets finish a
\* job is the one DequeueRefresh gave it to last.
THEOREM ClaimsFenced == Spec => []ClaimFencing
<1>1. Spec => [](TypeOK /\ ClaimInv)
  BY TypeInit, TypeStep, ClaimInit, ClaimStep, PTL DEF Spec
<1>2. TypeOK /\ ClaimInv => ClaimFencing
  BY SMTT(60) DEF TypeOK, ClaimInv, ClaimOrder, ClaimFencing, HoldsLiveClaim
<1>3. QED
  BY <1>1, <1>2, PTL

-----------------------------------------------------------------------------
(* What a step may never do.                                                *)

\* The only step that finishes a running job is a completion by the worker of
\* its latest dequeue, and that worker gives the claim up.
LEMMA CompletionStep ==
    ASSUME TypeOK, ClaimInv, Next, NEW i \in Ids,
           status[i] = "processing", status'[i] \in Terminal
    PROVE  /\ claimant[i] \in Workers
           /\ claimJob[claimant[i]] = i
           /\ claimJob'[claimant[i]] = 0
<1> USE QueueAssumption DEF TypeOK, tableVars, claimVars, txVars, Terminal
<1>1. ASSUME NEW w \in Workers, NEW r \in Terminal, CompleteClaimedRefresh(w, r)
      PROVE  /\ claimant[i] \in Workers
             /\ claimJob[claimant[i]] = i
             /\ claimJob'[claimant[i]] = 0
  <2>1. ClaimMatches(w) /\ claimJob[w] = i /\ i # 0
    BY Zenon, <1>1 DEF CompleteClaimedRefresh, Ids
  <2>2. claimant[i] = w
    BY <2>1 DEF ClaimMatches, ClaimInv, ClaimOrder
  <2>3. QED
    BY <1>1, <2>1, <2>2 DEF CompleteClaimedRefresh, DropClaim
<1>2. ASSUME NEW c \in Clients, EnqueueCommit(c)
      PROVE  FALSE
  BY Zenon, <1>2 DEF EnqueueCommit, PublishInsert, EnqueueReturn
<1>3. ASSUME NEW w \in Workers, DequeueRefresh(w)
      PROVE  FALSE
  BY Zenon, <1>3 DEF DequeueRefresh, Dequeueable, Rows
<1>4. CASE ResetStuckJobs
  BY Zenon, <1>4 DEF ResetStuckJobs
<1>5. CASE AdminStep
  <2>1. ASSUME NEW D, DeleteRows(D)
        PROVE  FALSE
    BY Zenon, <2>1 DEF DeleteRows
  <2>2. ASSUME NEW j \in Ids, PauseQueueJob(j) \/ ResumeQueueJob(j) \/ RetryQueueJob(j)
        PROVE  FALSE
    BY Zenon, <2>2 DEF PauseQueueJob, ResumeQueueJob, RetryQueueJob, SetStatus
  <2>3. QED
    BY Zenon, <1>5, <2>1, <2>2
       DEF AdminStep, UpdateQueueJobPriority, ClearQueue, PurgeQueue, PruneRefreshQueue
<1>6. CASE UNCHANGED status
  BY Zenon, <1>6
<1>7. QED
  <2>1. ASSUME NEW c \in Clients, EnqueueStep(c)
        PROVE  FALSE
    BY Zenon, <2>1, <1>2, <1>6
       DEF EnqueueStep, EnqueueInsert, EnqueueUpdate, EnqueueSelectPaused, EnqueueReturn
  <2>2. QED
    BY SMTT(60), <1>1, <1>3, <1>4, <1>5, <1>6, <2>1
       DEF Next, EnqueueBegin, EnqueueRollback, AbandonJob, Tick, ClockStopped, vars, EnqueueReturn

\* A late worker never finishes another worker's run: a running job reaches
\* done or error only in CompleteClaimedRefresh of the worker DequeueRefresh
\* gave it to last, for any number of workers and stuck resets.
THEOREM LatestClaimantCompletes == Spec => OnlyLatestClaimantCompletes
<1>1. Spec => [](TypeOK /\ ClaimInv)
  BY TypeInit, TypeStep, ClaimInit, ClaimStep, PTL DEF Spec
<1>2. TypeOK /\ ClaimInv /\ [Next]_vars =>
        [\A i \in Ids :
           status[i] = "processing" /\ status'[i] \in Terminal =>
              /\ claimant[i] \in Workers
              /\ claimJob[claimant[i]] = i
              /\ claimJob'[claimant[i]] = 0]_vars
  BY Zenon, CompletionStep
<1>3. QED
  BY <1>1, <1>2, PTL DEF Spec, OnlyLatestClaimantCompletes

\* What one step may do to a paused, a running or a missing row.
RowStep(i) ==
    /\ status[i] = "paused" /\ status'[i] # "paused" => AdminStep
    /\ status[i] = "processing" => status'[i] # "none"
    /\ status[i] = "none" /\ status'[i] # "none" => i = nextId

\* Paused and running rows are only touched by the statements that name them,
\* and the only row that appears is the next one of the id sequence.
LEMMA RowsKept ==
    ASSUME TypeOK, ClaimInv, Next, NEW i \in Ids
    PROVE  RowStep(i)
<1> USE QueueAssumption DEF TypeOK, tableVars, claimVars, txVars
<1>1. ASSUME NEW c \in Clients, EnqueueCommit(c)
      PROVE  RowStep(i)
  <2>1. CASE txPc[c] = "inserted"
    <3>1. nextId \in Ids /\ status[nextId] = "none"
      BY SMTT(60), <1>1, <2>1
         DEF EnqueueCommit, PublishInsert, ClaimInv, FreshRows, Ids, EnqueueReturn
    <3>2. status' = [status EXCEPT ![nextId] = "pending"]
      BY Zenon, <1>1, <2>1 DEF EnqueueCommit, PublishInsert, EnqueueReturn
    <3>3. QED
      BY Zenon, <3>1, <3>2 DEF RowStep
  <2>2. CASE txPc[c] # "inserted"
    BY Zenon, <1>1, <2>2 DEF EnqueueCommit, PublishInsert, RowStep
  <2>3. QED
    BY Zenon, <2>1, <2>2
<1>2. ASSUME NEW w \in Workers, DequeueRefresh(w)
      PROVE  RowStep(i)
  BY Zenon, <1>2 DEF DequeueRefresh, Dequeueable, Rows, RowStep
<1>3. ASSUME NEW w \in Workers, NEW r \in Terminal, CompleteClaimedRefresh(w, r)
      PROVE  RowStep(i)
  BY Zenon, <1>3 DEF CompleteClaimedRefresh, ClaimMatches, Terminal, RowStep
<1>4. CASE ResetStuckJobs
  BY Zenon, <1>4 DEF ResetStuckJobs, StuckJobs, Rows, RowStep
<1>5. CASE AdminStep
  <2>1. ASSUME NEW j \in Ids, PauseQueueJob(j) \/ ResumeQueueJob(j) \/ RetryQueueJob(j)
        PROVE  RowStep(i)
    BY Zenon, <1>5, <2>1 DEF PauseQueueJob, ResumeQueueJob, RetryQueueJob, SetStatus, Retryable, RowStep
  <2>2. ASSUME NEW j \in Ids, NEW n \in Priorities, UpdateQueueJobPriority(j, n)
        PROVE  RowStep(i)
    BY Zenon, <1>5, <2>2 DEF UpdateQueueJobPriority, RowStep
  <2>3. ASSUME NEW D, DeleteRows(D), D \cap Rows({"processing"}) = {}
        PROVE  RowStep(i)
    BY Zenon, <1>5, <2>3 DEF DeleteRows, Rows, RowStep
  <2>4. ASSUME NEW S \in SUBSET Statuses, ClearQueue(S)
        PROVE  RowStep(i)
    BY Zenon, <2>3, <2>4 DEF ClearQueue, Clearable, Rows
  <2>5. CASE PurgeQueue
    BY Zenon, <2>3, <2>5 DEF PurgeQueue, Terminal, Rows
  <2>6. ASSUME NEW t, PruneRefreshQueue(t)
        PROVE  RowStep(i)
    BY Zenon, <2>3, <2>6 DEF PruneRefreshQueue, Terminal, Rows
  <2>7. QED
    BY Zenon, <1>5, <2>1, <2>2, <2>4, <2>5, <2>6 DEF AdminStep
<1>6. CASE UNCHANGED status
  BY Zenon, <1>6 DEF RowStep
<1>7. QED
  <2>1. ASSUME NEW c \in Clients, EnqueueStep(c)
        PROVE  RowStep(i)
    BY Zenon, <2>1, <1>1, <1>6
       DEF EnqueueStep, EnqueueInsert, EnqueueUpdate, EnqueueSelectPaused, EnqueueReturn
  <2>2. QED
    BY Zenon, <1>2, <1>3, <1>4, <1>5, <1>6, <2>1
       DEF Next, EnqueueBegin, EnqueueRollback, AbandonJob, Tick, ClockStopped, vars, EnqueueReturn

\* A paused job is taken out of "paused" only by the admin console, a running
\* job is never deleted by clear, purge or prune, and a row that is gone stays
\* gone, for any number of rows, workers and enqueueing clients.
THEOREM PausedAndRunningKept == Spec => PausedAndRunningJobsKept
<1>1. Spec => [](TypeOK /\ ClaimInv)
  BY TypeInit, TypeStep, ClaimInit, ClaimStep, PTL DEF Spec
<1>2. TypeOK /\ ClaimInv /\ [Next]_vars => [\A i \in Ids : RowStep(i)]_vars
  BY Zenon, RowsKept
<1>3. QED
  BY <1>1, <1>2, PTL DEF Spec, PausedAndRunningJobsKept, RowStep

-----------------------------------------------------------------------------
(* The dedup index.                                                         *)

\* A step that activates no row, moves no row to another package and makes no
\* new reservation keeps the dedup index.
LEMMA NoNewEntry ==
    ASSUME TypeOK, DedupInv,
           \A i \in Ids : status'[i] \in Active => status[i] \in Active /\ pkg'[i] = pkg[i],
           \A c \in Clients :
               txPc'[c] = "inserted" => txPc[c] = "inserted" /\ txPkg'[c] = txPkg[c]
    PROVE  DedupInv'
BY DEF DedupInv, OneActiveJobPerPackage, OneReservation, RowsOf, Rows

LEMMA DedupStep == TypeOK /\ DedupInv /\ [Next]_vars => DedupInv'
<1> USE QueueAssumption DEF TypeOK, tableVars, claimVars, txVars
<1> SUFFICES ASSUME TypeOK, DedupInv, [Next]_vars
             PROVE  DedupInv'
  OBVIOUS
<1>1. ASSUME NEW c \in Clients, EnqueueInsert(c)
      PROVE  DedupInv'
  <2>1. CASE RowsOf(txPkg[c], Active) = {}
    BY <1>1, <2>1
       DEF EnqueueInsert, Reserved, DedupInv, OneActiveJobPerPackage, OneReservation, RowsOf, Rows
  <2>2. CASE RowsOf(txPkg[c], Active) # {}
    BY Zenon, <1>1, <2>2, NoNewEntry DEF EnqueueInsert
  <2>3. QED
    BY Zenon, <2>1, <2>2
<1>2. ASSUME NEW c \in Clients, EnqueueCommit(c)
      PROVE  DedupInv'
  <2>1. CASE txPc[c] = "inserted"
    <3>1. /\ nextId \in Ids
          /\ pkg' = [pkg EXCEPT ![nextId] = txPkg[c]]
          /\ status' = [status EXCEPT ![nextId] = "pending"]
          /\ txPc' = [txPc EXCEPT ![c] = "idle"]
          /\ txPkg' = [txPkg EXCEPT ![c] = None]
      BY Zenon, <1>2, <2>1 DEF EnqueueCommit, PublishInsert, EnqueueReturn
    <3>2. \A i \in Ids : status[i] \in Active => pkg[i] # txPkg[c]
      BY Zenon, <2>1 DEF DedupInv, OneActiveJobPerPackage, RowsOf, Rows
    <3>3. \A d \in Clients : txPc'[d] = "inserted" => txPc[d] = "inserted" /\ txPkg[d] # txPkg[c]
      BY Zenon, <2>1, <3>1 DEF DedupInv, OneReservation
    <3>4. QED
      BY <3>1, <3>2, <3>3 DEF DedupInv, OneActiveJobPerPackage, OneReservation, RowsOf, Rows
  <2>2. CASE txPc[c] # "inserted"
    BY Zenon, <1>2, <2>2, NoNewEntry DEF EnqueueCommit, PublishInsert, EnqueueReturn
  <2>3. QED
    BY Zenon, <2>1, <2>2
<1>3. ASSUME NEW c \in Clients,
             \/ \E p \in Packages, n \in Priorities : EnqueueBegin(c, p, n)
             \/ EnqueueUpdate(c)
             \/ EnqueueSelectPaused(c)
             \/ EnqueueRollback(c)
      PROVE  DedupInv'
  BY <1>3, NoNewEntry
     DEF EnqueueBegin, EnqueueUpdate, EnqueueSelectPaused, EnqueueRollback, EnqueueReturn
<1>4. ASSUME NEW w \in Workers, DequeueRefresh(w)
      PROVE  DedupInv'
  BY Zenon, <1>4, NoNewEntry DEF DequeueRefresh, Dequeueable, Rows, Active
<1>5. ASSUME NEW w \in Workers, NEW r \in Terminal, CompleteClaimedRefresh(w, r)
      PROVE  DedupInv'
  BY Zenon, <1>5, NoNewEntry DEF CompleteClaimedRefresh, Active, Terminal
<1>6. ASSUME NEW w \in Workers, AbandonJob(w)
      PROVE  DedupInv'
  BY Zenon, <1>6, NoNewEntry DEF AbandonJob
<1>7. CASE ResetStuckJobs
  BY Zenon, <1>7, NoNewEntry DEF ResetStuckJobs, StuckJobs, Rows, Active
<1>8. CASE AdminStep
  <2>1. ASSUME NEW i \in Ids, PauseQueueJob(i) \/ ResumeQueueJob(i)
        PROVE  DedupInv'
    BY Zenon, <2>1, NoNewEntry DEF PauseQueueJob, ResumeQueueJob, SetStatus, Active
  <2>2. ASSUME NEW i \in Ids, RetryQueueJob(i)
        PROVE  DedupInv'
    <3>1. \A j \in Ids : status[j] \in Active /\ pkg[j] = pkg[i] => j = i
      BY Zenon, <2>2 DEF RetryQueueJob, RowsOf, Rows
    <3>2. \A c \in Clients : txPc[c] = "inserted" => txPkg[c] # pkg[i]
      BY Zenon, <2>2 DEF RetryQueueJob, Reserved
    <3>3. status' = [status EXCEPT ![i] = "pending"] /\ UNCHANGED <<pkg, txPc, txPkg>>
      BY Zenon, <2>2 DEF RetryQueueJob, SetStatus
    <3>4. QED
      BY <3>1, <3>2, <3>3 DEF DedupInv, OneActiveJobPerPackage, OneReservation, RowsOf, Rows
  <2>3. ASSUME NEW i \in Ids, NEW n \in Priorities, UpdateQueueJobPriority(i, n)
        PROVE  DedupInv'
    BY Zenon, <2>3, NoNewEntry DEF UpdateQueueJobPriority
  <2>4. ASSUME NEW D, DeleteRows(D)
        PROVE  DedupInv'
    BY Zenon, <2>4, NoNewEntry DEF DeleteRows, Active
  <2>5. QED
    BY Zenon, <1>8, <2>1, <2>2, <2>3, <2>4
       DEF AdminStep, ClearQueue, PurgeQueue, PruneRefreshQueue
<1>9. CASE Tick \/ UNCHANGED vars
  BY Zenon, <1>9, NoNewEntry DEF Tick, vars
<1>10. QED
  BY Zenon, <1>1, <1>2, <1>3, <1>4, <1>5, <1>6, <1>7, <1>8, <1>9
     DEF Next, EnqueueStep, ClockStopped

\* A package never has two active jobs, however enqueues, retries, pauses and
\* claims interleave: enqueueRefresh's INSERT and RetryQueueJob both respect
\* the dedup index, the uncommitted entry of another enqueue included.
THEOREM JobsDeduplicated == Spec => []OneActiveJobPerPackage
<1>1. Init => DedupInv
  BY Zenon DEF Init, DedupInv, OneActiveJobPerPackage, OneReservation, Active
<1>2. Spec => [](TypeOK /\ DedupInv)
  BY TypeInit, TypeStep, <1>1, DedupStep, PTL DEF Spec
<1>3. DedupInv => OneActiveJobPerPackage
  BY Zenon DEF DedupInv
<1>4. QED
  BY <1>2, <1>3, PTL

-----------------------------------------------------------------------------
(* The row lock of an open enqueue.                                         *)

\* A step that leaves locked rows drainable and takes no lock keeps the jobs
\* that open enqueues settled on.
LEMMA LocksRespected ==
    ASSUME TypeOK, LockInv,
           \A i \in Ids : Locked(i) /\ status[i] \in Drainable =>
                           status'[i] \in Drainable /\ pkg'[i] = pkg[i],
           \A c \in Clients : txPc'[c] = "bumped" =>
                txPc[c] = "bumped" /\ txPkg'[c] = txPkg[c] /\ txRow'[c] = txRow[c]
    PROVE  LockInv'
<1> SUFFICES ASSUME NEW c \in Clients, txPc'[c] = "bumped"
             PROVE  /\ status'[txRow'[c]] \in Drainable
                    /\ pkg'[txRow'[c]] = txPkg'[c]
                    /\ txRow'[c] # 0
  BY Zenon DEF LockInv, AcceptedRequestHasJob
<1>1. txPc[c] = "bumped" /\ txPkg'[c] = txPkg[c] /\ txRow'[c] = txRow[c]
  OBVIOUS
<1>2. txRow[c] \in Ids /\ status[txRow[c]] \in Drainable /\ pkg[txRow[c]] = txPkg[c]
  BY Zenon, <1>1 DEF LockInv, AcceptedRequestHasJob, TypeOK
<1>3. Locked(txRow[c])
  BY Zenon, <1>1 DEF Locked
<1>4. QED
  BY Zenon, <1>1, <1>2, <1>3 DEF LockInv

LEMMA LockStep == TypeOK /\ ClaimInv /\ LockInv /\ [Next]_vars => LockInv'
<1> USE QueueAssumption DEF TypeOK, tableVars, claimVars, txVars
<1> SUFFICES ASSUME TypeOK, ClaimInv, LockInv, [Next]_vars
             PROVE  LockInv'
  OBVIOUS
<1>1. ASSUME NEW c \in Clients, EnqueueUpdate(c)
      PROVE  LockInv'
  <2>1. CASE RowsOf(txPkg[c], Drainable) = {}
    BY Zenon, <1>1, <2>1, LocksRespected DEF EnqueueUpdate
  <2>2. ASSUME NEW i \in RowsOf(txPkg[c], Drainable), txRow' = [txRow EXCEPT ![c] = i]
        PROVE  LockInv'
    <3>1. /\ i \in Ids /\ i # 0 /\ status[i] \in Drainable /\ pkg[i] = txPkg[c]
          /\ UNCHANGED <<status, pkg, txPkg>>
      BY <1>1, <2>2 DEF EnqueueUpdate, RowsOf, Rows, Ids
    <3>2. \A d \in Clients \ {c} : txPc'[d] = txPc[d] /\ txRow'[d] = txRow[d]
      BY ZenonT(60), <1>1, <2>2 DEF EnqueueUpdate
    <3>3. QED
      BY <2>2, <3>1, <3>2 DEF LockInv, AcceptedRequestHasJob
  <2>3. QED
    BY Zenon, <1>1, <2>1, <2>2 DEF EnqueueUpdate
<1>2. ASSUME NEW c \in Clients, EnqueueCommit(c)
      PROVE  LockInv'
  <2>1. CASE txPc[c] = "inserted"
    <3>1. nextId \in Ids /\ status[nextId] = "none"
      BY SMTT(60), <1>2, <2>1
         DEF EnqueueCommit, PublishInsert, ClaimInv, FreshRows, Ids, EnqueueReturn
    <3>2. QED
      BY <1>2, <2>1, <3>1, LocksRespected
         DEF EnqueueCommit, PublishInsert, Drainable, EnqueueReturn
  <2>2. CASE txPc[c] # "inserted"
    BY Zenon, <1>2, <2>2, LocksRespected DEF EnqueueCommit, PublishInsert, EnqueueReturn
  <2>3. QED
    BY Zenon, <2>1, <2>2
<1>3. ASSUME NEW c \in Clients,
             \/ \E p \in Packages, n \in Priorities : EnqueueBegin(c, p, n)
             \/ EnqueueInsert(c)
             \/ EnqueueSelectPaused(c)
             \/ EnqueueRollback(c)
      PROVE  LockInv'
  BY SMTT(60), <1>3, LocksRespected
     DEF EnqueueBegin, EnqueueInsert, EnqueueSelectPaused, EnqueueRollback, EnqueueReturn
<1>4. ASSUME NEW w \in Workers, DequeueRefresh(w)
      PROVE  LockInv'
  BY Zenon, <1>4, LocksRespected DEF DequeueRefresh, Dequeueable, Drainable
<1>5. ASSUME NEW w \in Workers, NEW r \in Terminal, CompleteClaimedRefresh(w, r)
      PROVE  LockInv'
  BY Zenon, <1>5, LocksRespected DEF CompleteClaimedRefresh
<1>6. ASSUME NEW w \in Workers, AbandonJob(w)
      PROVE  LockInv'
  BY Zenon, <1>6, LocksRespected DEF AbandonJob
<1>7. CASE ResetStuckJobs
  BY Zenon, <1>7, LocksRespected DEF ResetStuckJobs
<1>8. CASE AdminStep
  <2>1. ASSUME NEW i \in Ids, PauseQueueJob(i) \/ ResumeQueueJob(i) \/ RetryQueueJob(i)
        PROVE  LockInv'
    BY Zenon, <2>1, LocksRespected
       DEF PauseQueueJob, ResumeQueueJob, RetryQueueJob, SetStatus, Drainable, Retryable
  <2>2. ASSUME NEW i \in Ids, NEW n \in Priorities, UpdateQueueJobPriority(i, n)
        PROVE  LockInv'
    BY Zenon, <2>2, LocksRespected DEF UpdateQueueJobPriority
  <2>3. ASSUME NEW D, DeleteRows(D)
        PROVE  LockInv'
    BY Zenon, <2>3, LocksRespected DEF DeleteRows
  <2>4. QED
    BY Zenon, <1>8, <2>1, <2>2, <2>3
       DEF AdminStep, ClearQueue, PurgeQueue, PruneRefreshQueue
<1>9. CASE Tick \/ UNCHANGED vars
  BY Zenon, <1>9, LocksRespected DEF Tick, vars
<1>10. QED
  BY Zenon, <1>1, <1>2, <1>3, <1>4, <1>5, <1>6, <1>7, <1>8, <1>9
     DEF Next, EnqueueStep, ClockStopped

\* An enqueue answered with an existing job is answered truthfully: between
\* enqueueRefresh's UPDATE and its commit no worker, stuck reset, admin or
\* retention step takes the job away, because each waits for the row lock.
THEOREM AcceptedRequestsKept == Spec => []AcceptedRequestHasJob
<1>1. Init => LockInv
  BY Zenon DEF Init, LockInv, AcceptedRequestHasJob
<1>2. Spec => [](TypeOK /\ ClaimInv /\ LockInv)
  BY TypeInit, TypeStep, ClaimInit, ClaimStep, <1>1, LockStep, PTL DEF Spec
<1>3. LockInv => AcceptedRequestHasJob
  BY Zenon DEF LockInv
<1>4. QED
  BY <1>2, <1>3, PTL
=============================================================================
