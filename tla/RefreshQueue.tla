----------------------------- MODULE RefreshQueue -----------------------------
(***************************************************************************)
(* The durable refresh queue of packmon-server: the refresh_queue table of *)
(* internal/db/postgres (feeds_queue.go, refresh_queue_admin.go) together  *)
(* with the callers that race on it: enqueueing API requests, the async    *)
(* workers of internal/feed (socket, reversinglabs), the stuck-job scanner *)
(* and the operations of the admin console.                                *)
(*                                                                         *)
(* One source is modelled: every statement of the code is restricted to    *)
(* one source, so queues of different sources do not touch.  A package     *)
(* stands for the (ecosystem, name) pair of the dedup index.  Time is the  *)
(* clock of the database, NULL timestamps are 0.  Statements of READ       *)
(* COMMITTED transactions are atomic steps; a row lock held from a         *)
(* statement to the commit is the fact that some client is in "bumped".    *)
(***************************************************************************)
EXTENDS Integers, FiniteSets

CONSTANTS Packages,   \* packages that can be queued
          Workers,    \* workers that share the source (e.g. two generations)
          Clients,    \* callers of EnqueueRefresh
          Priorities, \* job priorities, a smaller number is more urgent
          MaxId,      \* bound: number of rows ever inserted
          MaxTime,    \* bound: last tick of the clock
          Stuck,      \* stuckThreshold in ticks
          None        \* no package, no worker

ASSUME QueueAssumption ==
    /\ MaxId \in Nat \ {0}
    /\ MaxTime \in Nat
    /\ Stuck \in Nat
    /\ Priorities \subseteq Nat
    /\ None \notin Packages \cup Workers

VARIABLES
    nextId,       \* next value of the id sequence
    pkg,          \* row -> package
    status,       \* row -> status, "none" when there is no such row
    priority,     \* row -> priority
    processedAt,  \* row -> processed_at, 0 when NULL
    now,          \* database clock
    claimJob,     \* worker -> id of the dequeued job it holds, 0 when none
    claimAt,      \* worker -> job.ProcessedAt of that job
    claimant,     \* row -> worker of the latest dequeue (history variable)
    txPc,         \* client -> statement its enqueue transaction is at
    txPkg, txPrio, txAttempt, txRow

tableVars == <<nextId, pkg, status, priority, processedAt>>
claimVars == <<claimJob, claimAt, claimant>>
txVars    == <<txPc, txPkg, txPrio, txAttempt, txRow>>
vars      == <<tableVars, now, claimVars, txVars>>

Ids == 1..MaxId

Active    == {"pending", "processing", "paused"}
Drainable == {"pending", "processing"}
Terminal  == {"done", "error"}
Clearable == {"pending", "paused", "done", "error"}
Retryable == {"done", "error", "paused"}
Statuses  == {"none"} \cup Active \cup Terminal

\* enqueueRefresh gives up after maxAttempts passes over its three statements.
MaxAttempts == 3

Rows(S) == {i \in Ids : status[i] \in S}
RowsOf(p, S) == {i \in Rows(S) : pkg[i] = p}

\* Row lock held by an uncommitted UPDATE of enqueueRefresh, and the dedup
\* index entry held by its uncommitted INSERT.
Locked(i) == \E c \in Clients : txPc[c] = "bumped" /\ txRow[c] = i
Reserved(p) == \E c \in Clients : txPc[c] = "inserted" /\ txPkg[c] = p

Init ==
    /\ nextId = 1
    /\ pkg = [i \in Ids |-> None]
    /\ status = [i \in Ids |-> "none"]
    /\ priority = [i \in Ids |-> 0]
    /\ processedAt = [i \in Ids |-> 0]
    /\ now = 1
    /\ claimJob = [w \in Workers |-> 0]
    /\ claimAt = [w \in Workers |-> 0]
    /\ claimant = [i \in Ids |-> None]
    /\ txPc = [c \in Clients |-> "idle"]
    /\ txPkg = [c \in Clients |-> None]
    /\ txPrio = [c \in Clients |-> 0]
    /\ txAttempt = [c \in Clients |-> 0]
    /\ txRow = [c \in Clients |-> 0]

-----------------------------------------------------------------------------
(* enqueueRefresh: INSERT, else UPDATE, else SELECT paused, else retry.      *)

\* Bound: every open transaction finds a free id.
IdsLeft == nextId + Cardinality({c \in Clients : txPc[c] # "idle"}) <= MaxId

EnqueueBegin(c, p, n) ==
    /\ txPc[c] = "idle"
    /\ IdsLeft
    /\ txPc' = [txPc EXCEPT ![c] = "insert"]
    /\ txPkg' = [txPkg EXCEPT ![c] = p]
    /\ txPrio' = [txPrio EXCEPT ![c] = n]
    /\ txAttempt' = [txAttempt EXCEPT ![c] = 0]
    /\ txRow' = [txRow EXCEPT ![c] = 0]
    /\ UNCHANGED <<tableVars, now, claimVars>>

\* Mutant: the dedup index forgets paused rows.
EnqueueInsertBesidePaused(c) ==
    /\ txPc[c] = "insert"
    /\ ~Reserved(txPkg[c])
    /\ RowsOf(txPkg[c], Drainable) = {}
    /\ txPc' = [txPc EXCEPT ![c] = "inserted"]
    /\ UNCHANGED <<tableVars, now, claimVars, txPkg, txPrio, txAttempt, txRow>>

\* INSERT ... ON CONFLICT DO NOTHING waits for an uncommitted INSERT of the
\* same package and then takes or misses the dedup index entry.
EnqueueInsert(c) ==
    /\ txPc[c] = "insert"
    /\ ~Reserved(txPkg[c])
    /\ \/ /\ RowsOf(txPkg[c], Active) = {}
          /\ txPc' = [txPc EXCEPT ![c] = "inserted"]
       \/ /\ RowsOf(txPkg[c], Active) # {}
          /\ txPc' = [txPc EXCEPT ![c] = "update"]
    /\ UNCHANGED <<tableVars, now, claimVars, txPkg, txPrio, txAttempt, txRow>>

\* UPDATE of a drainable row locks it (waiting for another holder), or misses.
EnqueueUpdate(c) ==
    /\ txPc[c] = "update"
    /\ \/ \E i \in RowsOf(txPkg[c], Drainable) :
            /\ ~Locked(i)
            /\ txPc' = [txPc EXCEPT ![c] = "bumped"]
            /\ txRow' = [txRow EXCEPT ![c] = i]
       \/ /\ RowsOf(txPkg[c], Drainable) = {}
          /\ txPc' = [txPc EXCEPT ![c] = "select"]
          /\ UNCHANGED txRow
    /\ UNCHANGED <<tableVars, now, claimVars, txPkg, txPrio, txAttempt>>

\* enqueueRefresh returns, with its transaction committed or rolled back.
EnqueueReturn(c) ==
    /\ txPc' = [txPc EXCEPT ![c] = "idle"]
    /\ txPkg' = [txPkg EXCEPT ![c] = None]
    /\ txPrio' = [txPrio EXCEPT ![c] = 0]
    /\ txAttempt' = [txAttempt EXCEPT ![c] = 0]
    /\ txRow' = [txRow EXCEPT ![c] = 0]

\* Mutant: a miss retries without counting the attempt.
EnqueueSelectPausedUnbounded(c) ==
    /\ txPc[c] = "select"
    /\ \/ \E i \in RowsOf(txPkg[c], {"paused"}) :
            /\ txPc' = [txPc EXCEPT ![c] = "found"]
            /\ txRow' = [txRow EXCEPT ![c] = i]
       \/ /\ RowsOf(txPkg[c], {"paused"}) = {}
          /\ txPc' = [txPc EXCEPT ![c] = "insert"]
          /\ UNCHANGED txRow
    /\ UNCHANGED <<tableVars, now, claimVars, txPkg, txPrio, txAttempt>>

\* SELECT of a paused row settles without a lock; a miss starts the next
\* attempt, and the last miss returns an error and rolls back.
EnqueueSelectPaused(c) ==
    /\ txPc[c] = "select"
    /\ \/ \E i \in RowsOf(txPkg[c], {"paused"}) :
            /\ txPc' = [txPc EXCEPT ![c] = "found"]
            /\ txRow' = [txRow EXCEPT ![c] = i]
            /\ UNCHANGED <<txPkg, txPrio, txAttempt>>
       \/ /\ RowsOf(txPkg[c], {"paused"}) = {}
          /\ txAttempt[c] + 1 < MaxAttempts
          /\ txPc' = [txPc EXCEPT ![c] = "insert"]
          /\ txAttempt' = [txAttempt EXCEPT ![c] = @ + 1]
          /\ UNCHANGED <<txPkg, txPrio, txRow>>
       \/ /\ RowsOf(txPkg[c], {"paused"}) = {}
          /\ txAttempt[c] + 1 = MaxAttempts
          /\ EnqueueReturn(c)
    /\ UNCHANGED <<tableVars, now, claimVars>>

\* The row an INSERT adds appears when its transaction commits.
PublishInsert(c) ==
    /\ txPc[c] = "inserted"
    /\ nextId \in Ids
    /\ nextId' = nextId + 1
    /\ pkg' = [pkg EXCEPT ![nextId] = txPkg[c]]
    /\ status' = [status EXCEPT ![nextId] = "pending"]
    /\ priority' = [priority EXCEPT ![nextId] = txPrio[c]]
    /\ UNCHANGED processedAt

\* Mutant: an enqueue on a paused job makes it pending again.
EnqueueCommitResurrects(c) ==
    /\ txPc' = [txPc EXCEPT ![c] = "idle"]
    /\ \/ PublishInsert(c)
       \/ /\ txPc[c] \in {"bumped", "found"}
          /\ status' = [status EXCEPT ![txRow[c]] = "pending"]
          /\ UNCHANGED <<nextId, pkg, priority, processedAt>>
    /\ UNCHANGED <<now, claimVars, txPkg, txPrio, txAttempt, txRow>>

\* Commit publishes the inserted row, or LEAST(priority, $4), and the audit row.
EnqueueCommit(c) ==
    /\ EnqueueReturn(c)
    /\ \/ PublishInsert(c)
       \/ /\ txPc[c] = "bumped"
          /\ priority' = [priority EXCEPT ![txRow[c]] =
                            IF txPrio[c] < @ THEN txPrio[c] ELSE @]
          /\ UNCHANGED <<nextId, pkg, status, processedAt>>
       \/ /\ txPc[c] = "found"
          /\ UNCHANGED tableVars
    /\ UNCHANGED <<now, claimVars>>

\* A failed statement, audit insert or commit, or a cancelled request.
EnqueueRollback(c) ==
    /\ txPc[c] # "idle"
    /\ EnqueueReturn(c)
    /\ UNCHANGED <<tableVars, now, claimVars>>

-----------------------------------------------------------------------------
(* Workers.                                                                 *)

\* FOR UPDATE SKIP LOCKED, most urgent first; the order among equal
\* priorities (requested_at, id) is left open.
Dequeueable == {i \in Rows({"pending"}) : ~Locked(i)}

\* Mutant: the claim does not stamp processed_at.
DequeueRefreshUnstamped(w) ==
    /\ claimJob[w] = 0
    /\ now + Stuck < MaxTime
    /\ \E i \in Dequeueable :
         /\ \A j \in Dequeueable : priority[i] <= priority[j]
         /\ status' = [status EXCEPT ![i] = "processing"]
         /\ claimJob' = [claimJob EXCEPT ![w] = i]
         /\ claimant' = [claimant EXCEPT ![i] = w]
    /\ UNCHANGED <<nextId, pkg, priority, processedAt, now, claimAt, txVars>>

DequeueRefresh(w) ==
    /\ claimJob[w] = 0
    /\ now + Stuck < MaxTime          \* bound: the claim can still expire
    /\ \E i \in Dequeueable :
         /\ \A j \in Dequeueable : priority[i] <= priority[j]
         /\ status' = [status EXCEPT ![i] = "processing"]
         /\ processedAt' = [processedAt EXCEPT ![i] = now]
         /\ claimJob' = [claimJob EXCEPT ![w] = i]
         /\ claimAt' = [claimAt EXCEPT ![w] = now]
         /\ claimant' = [claimant EXCEPT ![i] = w]
    /\ UNCHANGED <<nextId, pkg, priority, now, txVars>>

\* Mutant: completion only checks that the job is processing.
ClaimMatchesAnyRun(w) == status[claimJob[w]] = "processing"

\* The row the guarded UPDATE of CompleteClaimedRefresh matches.
ClaimMatches(w) ==
    /\ status[claimJob[w]] = "processing"
    /\ processedAt[claimJob[w]] = claimAt[w]

DropClaim(w) ==
    /\ claimJob' = [claimJob EXCEPT ![w] = 0]
    /\ claimAt' = [claimAt EXCEPT ![w] = 0]
    /\ UNCHANGED claimant

\* Mutant: completion does not wait for the row lock of an open enqueue.
CompleteClaimedRefreshUnlocked(w, result) ==
    /\ claimJob[w] # 0
    /\ DropClaim(w)
    /\ ClaimMatches(w)
    /\ status' = [status EXCEPT ![claimJob[w]] = result]
    /\ processedAt' = [processedAt EXCEPT ![claimJob[w]] = now]
    /\ UNCHANGED <<nextId, pkg, priority, now, txVars>>

CompleteClaimedRefresh(w, result) ==
    /\ claimJob[w] # 0
    /\ ~Locked(claimJob[w])
    /\ DropClaim(w)
    /\ \/ /\ ClaimMatches(w)
          /\ status' = [status EXCEPT ![claimJob[w]] = result]
          /\ processedAt' = [processedAt EXCEPT ![claimJob[w]] = now]
       \/ /\ ~ClaimMatches(w)
          /\ UNCHANGED <<status, processedAt>>
    /\ UNCHANGED <<nextId, pkg, priority, now, txVars>>

\* A rate-limited job is left processing; so is one whose completion fails or
\* whose worker dies.
AbandonJob(w) ==
    /\ claimJob[w] # 0
    /\ DropClaim(w)
    /\ UNCHANGED <<tableVars, now, txVars>>

\* Mutant: every processing job counts as stuck, also one claimed this instant.
StuckJobsTooEarly == {i \in Rows({"processing"}) : processedAt[i] # 0 /\ processedAt[i] <= now}

StuckJobs == {i \in Rows({"processing"}) : processedAt[i] # 0 /\ processedAt[i] < now - Stuck}

ResetStuckJobs ==
    /\ StuckJobs # {}
    /\ \A i \in StuckJobs : ~Locked(i)
    /\ status' = [i \in Ids |-> IF i \in StuckJobs THEN "pending" ELSE status[i]]
    /\ processedAt' = [i \in Ids |-> IF i \in StuckJobs THEN 0 ELSE processedAt[i]]
    /\ UNCHANGED <<nextId, pkg, priority, now, claimVars, txVars>>

-----------------------------------------------------------------------------
(* Admin console and retention.  Mutation and audit row share a transaction. *)

SetStatus(i, s) ==
    /\ status' = [status EXCEPT ![i] = s]
    /\ UNCHANGED <<nextId, pkg, priority, now, claimVars, txVars>>

PauseQueueJob(i) ==
    /\ status[i] = "pending"
    /\ ~Locked(i)
    /\ SetStatus(i, "paused")
    /\ UNCHANGED processedAt

ResumeQueueJob(i) ==
    /\ status[i] = "paused"
    /\ SetStatus(i, "pending")
    /\ processedAt' = [processedAt EXCEPT ![i] = 0]

\* Re-entering the dedup index fails while another active row or an
\* uncommitted INSERT of the package holds it.
RetryQueueJob(i) ==
    /\ status[i] \in Retryable
    /\ RowsOf(pkg[i], Active) \ {i} = {}
    /\ ~Reserved(pkg[i])
    /\ SetStatus(i, "pending")
    /\ processedAt' = [processedAt EXCEPT ![i] = 0]

UpdateQueueJobPriority(i, n) ==
    /\ status[i] # "none"
    /\ ~Locked(i)
    /\ priority' = [priority EXCEPT ![i] = n]
    /\ UNCHANGED <<nextId, pkg, status, processedAt, now, claimVars, txVars>>

DeleteRows(D) ==
    /\ D # {}
    /\ \A i \in D : ~Locked(i)
    /\ status' = [i \in Ids |-> IF i \in D THEN "none" ELSE status[i]]
    /\ processedAt' = [i \in Ids |-> IF i \in D THEN 0 ELSE processedAt[i]]
    /\ UNCHANGED <<nextId, pkg, priority, now, claimVars, txVars>>

\* Mutant: the requested statuses are not normalised.
ClearQueueAnyStatus(S) == DeleteRows(Rows(S))

\* NormalizeClearableRefreshStatuses drops every status that is not clearable.
ClearQueue(S) == DeleteRows(Rows(S \cap Clearable))

PurgeQueue == DeleteRows(Rows(Terminal))

\* A finished row always has processed_at, so COALESCE never falls back.
PruneRefreshQueue(retention) ==
    DeleteRows({i \in Rows(Terminal) : processedAt[i] < now - retention})

-----------------------------------------------------------------------------
Tick ==
    /\ now < MaxTime
    /\ now' = now + 1
    /\ UNCHANGED <<tableVars, claimVars, txVars>>

\* Bound: nothing need happen once the clock has reached its last tick.
ClockStopped == now = MaxTime /\ UNCHANGED vars

EnqueueStep(c) ==
    \/ EnqueueInsert(c)
    \/ EnqueueUpdate(c)
    \/ EnqueueSelectPaused(c)
    \/ EnqueueCommit(c)

AdminStep ==
    \/ \E i \in Ids :
         \/ PauseQueueJob(i)
         \/ ResumeQueueJob(i)
         \/ RetryQueueJob(i)
         \/ \E n \in Priorities : UpdateQueueJobPriority(i, n)
    \/ \E s \in Statuses : ClearQueue({s})
    \/ PurgeQueue
    \/ \E t \in 1..MaxTime : PruneRefreshQueue(t)

Next ==
    \/ \E c \in Clients :
         \/ \E p \in Packages, n \in Priorities : EnqueueBegin(c, p, n)
         \/ EnqueueStep(c)
         \/ EnqueueRollback(c)
    \/ \E w \in Workers :
         \/ DequeueRefresh(w)
         \/ \E r \in Terminal : CompleteClaimedRefresh(w, r)
         \/ AbandonJob(w)
    \/ ResetStuckJobs
    \/ AdminStep
    \/ Tick
    \/ ClockStopped

Spec == Init /\ [][Next]_vars

-----------------------------------------------------------------------------
TypeOK ==
    /\ nextId \in 1..(MaxId + 1)
    /\ pkg \in [Ids -> Packages \cup {None}]
    /\ status \in [Ids -> Statuses]
    /\ priority \in [Ids -> Nat]
    /\ processedAt \in [Ids -> Nat]
    /\ now \in Nat \ {0}
    /\ claimJob \in [Workers -> Ids \cup {0}]
    /\ claimAt \in [Workers -> Nat]
    /\ claimant \in [Ids -> Workers \cup {None}]
    /\ txPc \in [Clients -> {"idle", "insert", "update", "select",
                             "inserted", "bumped", "found"}]
    /\ txPkg \in [Clients -> Packages \cup {None}]
    /\ txPrio \in [Clients -> Nat]
    /\ txAttempt \in [Clients -> 0..(MaxAttempts - 1)]
    /\ txRow \in [Clients -> Ids \cup {0}]

\* The worker holds a claim on the run of the job that is in the table.
HoldsLiveClaim(w) ==
    /\ claimJob[w] # 0
    /\ status[claimJob[w]] = "processing"
    /\ processedAt[claimJob[w]] = claimAt[w]

\* The claim timestamp fences workers: at any time at most one worker can
\* complete a job, and it is the one that dequeued the job last, even after
\* stuck resets, retries and re-claims (CompleteClaimedRefresh's
\* "processed_at = $4" against DequeueRefresh and ResetStuckJobs).
ClaimFencing ==
    \A w \in Workers : HoldsLiveClaim(w) => claimant[claimJob[w]] = w

\* The partial unique index on (ecosystem, name, source): a package never has
\* two active rows, counting the row an uncommitted enqueue is about to add.
OneActiveJobPerPackage ==
    /\ \A i, j \in Ids :
         status[i] \in Active /\ status[j] \in Active /\ pkg[i] = pkg[j] => i = j
    /\ \A c \in Clients : txPc[c] = "inserted" => RowsOf(txPkg[c], Active) = {}

\* An enqueue that settled on an existing job (enqueueRefresh's UPDATE) still
\* finds that job waiting or running when it commits: nobody pauses, finishes
\* or deletes the job between the statement and the commit.
AcceptedRequestHasJob ==
    \A c \in Clients : txPc[c] = "bumped" =>
        /\ status[txRow[c]] \in Drainable
        /\ pkg[txRow[c]] = txPkg[c]

\* A job leaves "processing" for a final status only through the worker that
\* claimed it last; a late worker whose job was reset and claimed again never
\* finishes the other worker's run.
OnlyLatestClaimantCompletes ==
    [][\A i \in Ids :
         status[i] = "processing" /\ status'[i] \in Terminal =>
            /\ claimant[i] \in Workers
            /\ claimJob[claimant[i]] = i
            /\ claimJob'[claimant[i]] = 0]_vars

\* "A job an admin has explicitly paused must never be resurrected" (comment in
\* enqueueRefresh): only an operation of the admin console takes a job out of
\* "paused", whatever enqueues, workers and stuck resets run meanwhile.
\* Clear, purge and prune never remove a job that a worker is processing, and
\* a row that is gone never comes back.
PausedAndRunningJobsKept ==
    [][\A i \in Ids :
         /\ status[i] = "paused" /\ status'[i] # "paused" => AdminStep
         /\ status[i] = "processing" => status'[i] # "none"
         /\ status[i] = "none" /\ status'[i] # "none" => i = nextId]_vars

\* Scheduling: the clock advances, every worker and the queue processor run
\* ResetStuckJobs on each poll tick, and an open transaction goes on.  Strong
\* fairness: a statement that waits for a row or index entry of another
\* transaction is woken in its turn when that transaction ends.
Fairness ==
    /\ WF_vars(Tick)
    /\ SF_vars(ResetStuckJobs)
    /\ \A c \in Clients : SF_vars(EnqueueStep(c))

FairSpec == Spec /\ Fairness

\* A job left in "processing" (crash between dequeue and completion, rate
\* limit, failed completion) does not stay there: the stuck reset returns it.
StuckJobRecovered ==
    \A i \in Ids : (status[i] = "processing") ~> (status[i] # "processing")

\* Every enqueue call returns: the three-statement loop of enqueueRefresh is
\* bounded although other callers keep changing the rows it looks for.
EnqueueReturns ==
    \A c \in Clients : (txPc[c] # "idle") ~> (txPc[c] = "idle")
=============================================================================
