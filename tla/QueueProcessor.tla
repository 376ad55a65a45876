---------------------------- MODULE QueueProcessor ----------------------------
(***************************************************************************)
(* The supervisor of the async feed workers, internal/feed/queue.go.  Run  *)
(* starts a goroutine per worker, restarts a worker that ends with backoff *)
(* and at most maxWorkerRestarts times, scans for stuck jobs on a ticker   *)
(* and, once its context is cancelled, waits for every goroutine.          *)
(***************************************************************************)
EXTENDS Naturals, Sequences, FiniteSets

CONSTANT Workers

VARIABLES
    cancelled,  \* ctx is cancelled
    pc,         \* where Run is
    running,    \* worker -> number of goroutines inside its Run
    waiting,    \* worker -> number of goroutines in the restart backoff
    done,       \* the channel of worker results
    restarts,   \* workerLifecycleState.restartCounts
    exited,     \* workerLifecycleState.exited
    stuck       \* workers whose source has a stuck job

vars == <<cancelled, pc, running, waiting, done, restarts, exited, stuck>>

maxWorkerRestarts == 3
Total == Cardinality(Workers)

\* A worker's Run ends with the error of its context, another error or none.
Errors == {"canceled", "error", "nil"}
Result(w, e) == [name |-> w, err |-> e]

Init ==
    /\ cancelled \in BOOLEAN
    /\ pc = "start"
    /\ running = [w \in Workers |-> 0]
    /\ waiting = [w \in Workers |-> 0]
    /\ done = <<>>
    /\ restarts = [w \in Workers |-> 0]
    /\ exited = 0
    /\ stuck \in SUBSET Workers

Cancel ==
    /\ ~cancelled
    /\ cancelled' = TRUE
    /\ UNCHANGED <<pc, running, waiting, done, restarts, exited, stuck>>

\* resetAllStuckJobs; the store may fail for any source.
ResetAllStuckJobs == \E reset \in SUBSET Workers : stuck' = stuck \ reset

Start ==
    /\ pc = "start"
    /\ pc' = IF Workers = {} THEN "idle" ELSE "loop"
    /\ ResetAllStuckJobs
    /\ running' = [w \in Workers |-> 1]
    /\ UNCHANGED <<cancelled, waiting, done, restarts, exited>>

-----------------------------------------------------------------------------
(* The goroutines.                                                          *)

\* The channel has a slot per worker; a send waits while it is full.
CanSend == Len(done) < Total

WorkerExit(w, e) ==
    /\ running[w] > 0
    /\ CanSend
    /\ e = "canceled" => cancelled
    /\ running' = [running EXCEPT ![w] = @ - 1]
    /\ done' = Append(done, Result(w, e))
    /\ UNCHANGED <<cancelled, pc, waiting, restarts, exited, stuck>>

BackoffElapsed(w) ==
    /\ waiting[w] > 0
    /\ waiting' = [waiting EXCEPT ![w] = @ - 1]
    /\ running' = [running EXCEPT ![w] = @ + 1]
    /\ UNCHANGED <<cancelled, pc, done, restarts, exited, stuck>>

BackoffCancelled(w) ==
    /\ waiting[w] > 0
    /\ cancelled
    /\ CanSend
    /\ waiting' = [waiting EXCEPT ![w] = @ - 1]
    /\ done' = Append(done, Result(w, "canceled"))
    /\ UNCHANGED <<cancelled, pc, running, restarts, exited, stuck>>

\* A worker leaves a job in processing past the threshold (rate limit, failed
\* completion), or resets the stuck jobs of its source on its own poll tick.
LeaveJob(w) ==
    /\ running[w] > 0
    /\ stuck' = stuck \cup {w}
    /\ UNCHANGED <<cancelled, pc, running, waiting, done, restarts, exited>>

WorkerReset(w) ==
    /\ running[w] > 0
    /\ stuck' = stuck \ {w}
    /\ UNCHANGED <<cancelled, pc, running, waiting, done, restarts, exited>>

-----------------------------------------------------------------------------
(* The select loop of Run.                                                  *)

\* claimRestart, and the goroutine that waits for the backoff.
Restart(w) ==
    /\ restarts[w] < maxWorkerRestarts
    /\ restarts' = [restarts EXCEPT ![w] = @ + 1]
    /\ waiting' = [waiting EXCEPT ![w] = @ + 1]
    /\ UNCHANGED exited

MarkExited ==
    /\ exited' = exited + 1
    /\ UNCHANGED <<restarts, waiting>>

IsCanceled(r) == r.err = "canceled" \/ cancelled

\* Mutant: a worker that ends without an error counts as finished.
HandleResultIgnoresNil ==
    /\ pc = "loop"
    /\ done # <<>>
    /\ done' = Tail(done)
    /\ LET r == Head(done) IN
         \/ (IsCanceled(r) \/ r.err = "nil") /\ MarkExited
         \/ ~IsCanceled(r) /\ r.err = "error" /\ Restart(r.name)
         \/ ~IsCanceled(r) /\ r.err = "error" /\ ~(restarts[r.name] < maxWorkerRestarts) /\ MarkExited
    /\ pc' = IF exited' >= Total THEN "idle" ELSE "loop"
    /\ UNCHANGED <<cancelled, running, stuck>>

\* case result := <-done: handleWorkerResult, then allWorkersExited.
HandleResult ==
    /\ pc = "loop"
    /\ done # <<>>
    /\ done' = Tail(done)
    /\ LET r == Head(done) IN
         \/ IsCanceled(r) /\ MarkExited
         \/ ~IsCanceled(r) /\ Restart(r.name)
         \/ ~IsCanceled(r) /\ ~(restarts[r.name] < maxWorkerRestarts) /\ MarkExited
    /\ pc' = IF exited' >= Total THEN "idle" ELSE "loop"
    /\ UNCHANGED <<cancelled, running, stuck>>

\* case <-stuckTicker.C
StuckTick ==
    /\ pc = "loop"
    /\ ResetAllStuckJobs
    /\ UNCHANGED <<cancelled, pc, running, waiting, done, restarts, exited>>

\* case <-ctx.Done(): drainWorkersOnShutdown.
BeginDrain ==
    /\ pc = "loop"
    /\ cancelled
    /\ pc' = "drain"
    /\ UNCHANGED <<cancelled, running, waiting, done, restarts, exited, stuck>>

DrainOne ==
    /\ pc = "drain"
    /\ exited < Total
    /\ done # <<>>
    /\ done' = Tail(done)
    /\ exited' = exited + 1
    /\ UNCHANGED <<cancelled, pc, running, waiting, restarts, stuck>>

\* Mutant: the drain stops one worker early.
ReturnEarly ==
    /\ \/ pc = "drain" /\ exited + 1 >= Total
       \/ pc = "idle" /\ cancelled
    /\ pc' = "returned"
    /\ UNCHANGED <<cancelled, running, waiting, done, restarts, exited, stuck>>

\* Run returns when the drain is complete, or on the shutdown signal after all
\* workers have exited for good.
Return ==
    /\ \/ pc = "drain" /\ exited >= Total
       \/ pc = "idle" /\ cancelled
    /\ pc' = "returned"
    /\ UNCHANGED <<cancelled, running, waiting, done, restarts, exited, stuck>>

Returned == pc = "returned" /\ UNCHANGED vars

Goroutine(w) ==
    \/ \E e \in Errors : WorkerExit(w, e)
    \/ BackoffElapsed(w)
    \/ BackoffCancelled(w)

Next ==
    \/ Cancel
    \/ Start
    \/ \E w \in Workers : Goroutine(w) \/ LeaveJob(w) \/ WorkerReset(w)
    \/ HandleResult
    \/ StuckTick
    \/ BeginDrain
    \/ DrainOne
    \/ Return
    \/ Returned

Spec == Init /\ [][Next]_vars

-----------------------------------------------------------------------------
\* The state keeps its types; a worker is restarted at most three times.
TypeOK ==
    /\ cancelled \in BOOLEAN
    /\ pc \in {"start", "loop", "idle", "drain", "returned"}
    /\ running \in [Workers -> Nat]
    /\ waiting \in [Workers -> Nat]
    /\ done \in Seq([name : Workers, err : Errors])
    /\ restarts \in [Workers -> 0..maxWorkerRestarts]
    /\ exited \in Nat
    /\ stuck \in SUBSET Workers

Live == {w \in Workers : running[w] + waiting[w] > 0}

\* A worker never runs twice at once, and a result still in the channel counts
\* as its run: startWorker and restartWorkerAfterBackoff hand over one
\* goroutine.
InChannel(w) == Cardinality({k \in 1..Len(done) : done[k].name = w})
OneGoroutinePerWorker ==
    \A w \in Workers : running[w] + waiting[w] + InChannel(w) <= 1

\* A goroutine that wants to report finds a free slot of the channel, so none
\* is left blocked on "done <-" when Run has returned.
ReportNeverBlocks == Live # {} => CanSend

\* drainWorkersOnShutdown waits for each goroutine exactly once: the workers
\* not yet counted as exited are those that run, wait or have reported.
ExitsAccounted ==
    pc # "start" => exited + Cardinality(Live) + Len(done) = Total

\* Told to stop is the cancelled context, down is the return of Run.
Service == INSTANCE WorkerService WITH
    phase <- IF pc = "returned" THEN "down" ELSE IF cancelled THEN "stopping" ELSE "up",
    live  <- Live

\* Scheduling: goroutines run; a worker returns once its context is cancelled;
\* a backoff timer fires; the select of Run serves each of its cases; the store
\* does not refuse the stuck reset of a source for ever.
Fairness ==
    /\ WF_vars(Start)
    /\ WF_vars(HandleResult)
    /\ WF_vars(BeginDrain)
    /\ WF_vars(DrainOne)
    /\ WF_vars(Return)
    /\ \A w \in Workers :
         /\ WF_vars(cancelled /\ \E e \in Errors : WorkerExit(w, e))
         /\ WF_vars(BackoffElapsed(w) \/ BackoffCancelled(w))
         /\ SF_vars(StuckTick /\ w \notin stuck')

FairSpec == Spec /\ Fairness

\* Run keeps WorkerService's promise: it returns only on the shutdown signal
\* and after the last worker goroutine has ended, and it does return.
ImplementsService == Service!Spec

\* A worker that ended while the server runs is started again, until it has
\* used up its restarts ("restarted with exponential backoff", doc of Run).
WorkerRestarted ==
    \A w \in Workers :
        (pc = "loop" /\ InChannel(w) > 0 /\ restarts[w] < maxWorkerRestarts)
            ~> (running[w] > 0 \/ cancelled)

\* A stuck job is reset while the processor supervises a worker: not after
\* shutdown, and not after every worker has exited for good.
StuckJobReset ==
    \A w \in Workers : (w \in stuck) ~> (w \notin stuck \/ cancelled \/ pc = "idle")
=============================================================================
