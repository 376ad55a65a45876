----------------------------- MODULE Goroutines -----------------------------
(***************************************************************************)
(* Three bodies of code that start goroutines and have to bring them to an *)
(* end: the queue processor, the server process, and the version lookups   *)
(* of the client.  They share no state: a behaviour is about one of them,  *)
(* and the other two have ended before it begins.                          *)
(*                                                                         *)
(* The proofs hold for any constants.  The queue processor: each worker is *)
(* one goroutine, one wait for its backoff or one result in the channel,   *)
(* so that a report never blocks, the drain on shutdown waits for each of  *)
(* them once, and Run returns after the last one.  The server process: the *)
(* pool is closed when nobody uses it any more, or after a bounded wait    *)
(* has given up.  The version lookups: a key is looked up by one worker at *)
(* a time and every failure is counted.                                    *)
(***************************************************************************)
EXTENDS QueueProcessor, Integers, TLAPS

(* The queue processor *)

Results == [name : Workers, err : Errors]

\* A worker is live once, or has reported once, or is counted as exited.
IInv ==
    /\ TypeOK
    /\ \A w \in Workers : running[w] + waiting[w] <= 1
    /\ \A j, k \in 1..Len(done) : done[j].name = done[k].name => j = k
    /\ \A k \in 1..Len(done) : done[k].name \notin Live
    /\ pc = "start" => Live = {} /\ done = <<>> /\ exited = 0
    /\ ExitsAccounted
    /\ pc \in {"drain", "returned"} => cancelled
    /\ pc \in {"idle", "returned"} => exited >= Total

\* What is used of counting: a finite set of workers has it (SizesHold).
Sizes ==
    /\ Cardinality({}) = 0 /\ \A k \in Nat : Cardinality({k}) = 1
    /\ \A S \in SUBSET Workers :
         /\ Cardinality(S) \in Nat /\ (Cardinality(S) = 0 <=> S = {})
         /\ \A w \in Workers \ S : Cardinality(S \cup {w}) = Cardinality(S) + 1
         /\ \A w \in S : Cardinality(S \ {w}) = Cardinality(S) - 1

\* Counting the workers that are live.
LEMMA LiveFinite ==
    ASSUME Sizes
    PROVE  /\ Total \in Nat /\ Cardinality(Live) \in Nat
           /\ Cardinality(Live) = 0 <=> Live = {}
<1>1. Live \in SUBSET Workers
    BY Zenon DEF Live
<1>2. QED
    BY Zenon, <1>1 DEF Sizes, Total

-----------------------------------------------------------------------------
(* Goroutines and the channel *)

\* A goroutine that ends puts its result into the channel (startWorker,
\* restartWorkerAfterBackoff): one live worker less, one result more.
LEMMA ReportKeepsIInv ==
    ASSUME Sizes, IInv, TypeOK', NEW w \in Live, NEW e \in Errors,
           done' = Append(done, Result(w, e)), Live' = Live \ {w},
           \A v \in Workers : running'[v] + waiting'[v] <= 1,
           UNCHANGED <<cancelled, pc, exited>>
    PROVE  IInv'
<1> DEFINE r == Result(w, e)
<1>1. w \in Workers /\ r \in Results /\ r.name = w /\ done \in Seq(Results) /\ exited \in Nat
    BY Zenon DEF Live, Result, Results, IInv, TypeOK
<1> HIDE DEF r
<1>2. /\ Len(done') = Len(done) + 1 /\ Len(done) \in Nat
      /\ \A k \in 1..Len(done) : done'[k] = done[k]
      /\ done'[Len(done) + 1] = r
    BY <1>1 DEF r
<1>3. \A k \in 1..Len(done') : done'[k].name \notin Live'
    BY <1>1, <1>2 DEF IInv
<1>4. \A j, k \in 1..Len(done') : done'[j].name = done'[k].name => j = k
    <2> SUFFICES ASSUME NEW j \in 1..Len(done'), NEW k \in 1..Len(done'), done'[j].name = done'[k].name
                 PROVE  j = k
        OBVIOUS
    <2>1. CASE j <= Len(done) /\ k <= Len(done)
        BY <1>2, <2>1 DEF IInv
    <2>2. CASE j = Len(done) + 1 \/ k = Len(done) + 1
        BY <1>1, <1>2, <2>2 DEF IInv
    <2>3. QED
        BY <1>2, <2>1, <2>2
<1>5. Cardinality(Live') = Cardinality(Live) - 1
    <2>1. Live \in SUBSET Workers
        BY Zenon DEF Live
    <2>2. QED
        BY Zenon, <2>1 DEF Sizes
<1>6. pc # "start"
    BY Zenon DEF IInv
<1>7. ExitsAccounted'
    <2>1. exited + Cardinality(Live) + Len(done) = Cardinality(Workers)
        BY Zenon, <1>6 DEF IInv, ExitsAccounted, Total
    <2>2. Cardinality(Live) \in Nat
        BY Zenon, LiveFinite
    <2>3. exited' + Cardinality(Live') + Len(done') = Cardinality(Workers)
        <3>1. exited' = exited /\ exited \in Nat /\ Len(done') = Len(done) + 1 /\ Len(done) \in Nat
            BY Zenon, <1>1, <1>2
        <3>2. QED
            BY <1>5, <2>1, <2>2, <3>1, SMTT(30)
    <2>4. QED
        BY Zenon, <2>3 DEF ExitsAccounted, Total
<1>8. QED
    BY Zenon, <1>3, <1>4, <1>6, <1>7 DEF IInv, Total

\* Run takes a result from the channel: its worker is counted as exited, or it
\* waits for a restart.
LEMMA TakeKeepsIInv ==
    ASSUME Sizes, IInv, TypeOK', pc \in {"loop", "drain"}, done # <<>>, done' = Tail(done),
           \/ exited' = exited + 1 /\ Live' = Live
           \/ exited' = exited /\ Live' = Live \cup {Head(done).name},
           \A v \in Workers : running'[v] + waiting'[v] <= 1,
           cancelled' = cancelled, pc' = pc \/ (pc' = "idle" /\ exited' >= Total)
    PROVE  IInv'
<1>1. done \in Seq(Results) /\ exited \in Nat
    BY Zenon DEF Results, IInv, TypeOK
<1>2. /\ Len(done) \in Nat /\ Len(done) > 0 /\ Len(done') = Len(done) - 1 /\ Head(done) = done[1]
      /\ \A k \in 1..Len(done') : done'[k] = done[k + 1] /\ k + 1 \in 1..Len(done)
    BY <1>1
<1>3. done[1].name \notin Live /\ \A k \in 1..Len(done') : done'[k].name # done[1].name
    BY <1>2 DEF IInv
<1>4. \A k \in 1..Len(done') : done'[k].name \notin Live'
    BY Zenon, <1>2, <1>3 DEF IInv
<1>5. \A j, k \in 1..Len(done') : done'[j].name = done'[k].name => j = k
    BY <1>2 DEF IInv
<1>6. exited' + Cardinality(Live') + Len(done') = exited + Cardinality(Live) + Len(done)
    <2>1. Cardinality(Live) \in Nat /\ Live \in SUBSET Workers /\ done[1].name \in Workers
        <3>1. done[1] \in Results
            BY <1>1, <1>2
        <3>2. QED
            BY Zenon, <3>1, LiveFinite DEF Live, Results
    <2>2. CASE exited' = exited + 1 /\ Live' = Live
        BY <1>1, <1>2, <2>1, <2>2
    <2>3. CASE exited' = exited /\ Live' = Live \cup {Head(done).name}
        <3>1. Cardinality(Live') = Cardinality(Live) + 1
            BY <1>2, <1>3, <2>1, <2>3 DEF Sizes
        <3>2. QED
            BY <1>1, <1>2, <2>1, <2>3, <3>1
    <2>4. QED
        BY Zenon, <2>2, <2>3
<1>7. ExitsAccounted'
    BY Zenon, <1>6 DEF IInv, ExitsAccounted, Total
<1>8. QED
    BY Zenon, <1>4, <1>5, <1>7 DEF IInv, Total

-----------------------------------------------------------------------------
(* The steps *)

\* The first result of the channel, and the others.
LEMMA HeadAndTail ==
    ASSUME NEW S, NEW s \in Seq(S), s # <<>>
    PROVE  Head(s) \in S /\ Tail(s) \in Seq(S) /\ Len(Tail(s)) = Len(s) - 1
OBVIOUS

\* Types are kept.
LEMMA StepKeepsTypes ==
    ASSUME IInv, [Next]_vars
    PROVE  TypeOK'
<1> USE DEF Results
<1>0. TypeOK /\ done \in Seq(Results)
    BY Zenon DEF IInv, TypeOK
<1>1. CASE Cancel
    BY Zenon, <1>0, <1>1 DEF TypeOK, Cancel
<1>2. CASE Start
    BY Zenon, <1>0, <1>2 DEF TypeOK, Start, ResetAllStuckJobs
<1>3. ASSUME NEW w \in Workers, NEW e \in Errors, WorkerExit(w, e) PROVE TypeOK'
    <2>1. running'[w] \in Nat /\ running' \in [Workers -> Nat]
        BY <1>0, <1>3 DEF TypeOK, WorkerExit
    <2>2. Result(w, e) \in Results
        BY Zenon DEF Result
    <2>3. done' \in Seq(Results)
        BY <1>0, <1>3, <2>2 DEF WorkerExit
    <2>4. QED
        BY Zenon, <1>0, <1>3, <2>1, <2>3 DEF TypeOK, WorkerExit
<1>4. ASSUME NEW w \in Workers, BackoffElapsed(w) PROVE TypeOK'
    BY <1>0, <1>4 DEF TypeOK, BackoffElapsed
<1>5. ASSUME NEW w \in Workers, BackoffCancelled(w) PROVE TypeOK'
    <2>1. waiting' \in [Workers -> Nat]
        BY <1>0, <1>5 DEF TypeOK, BackoffCancelled
    <2>2. Result(w, "canceled") \in Results
        BY Zenon DEF Result, Errors
    <2>3. done' \in Seq(Results)
        BY <1>0, <1>5, <2>2 DEF BackoffCancelled
    <2>4. QED
        BY Zenon, <1>0, <1>5, <2>1, <2>3 DEF TypeOK, BackoffCancelled
<1>6. ASSUME NEW w \in Workers, LeaveJob(w) \/ WorkerReset(w) PROVE TypeOK'
    BY Zenon, <1>0, <1>6 DEF TypeOK, LeaveJob, WorkerReset
<1>7. CASE HandleResult
    <2>0. done # <<>> /\ done' = Tail(done) /\ pc' \in {"idle", "loop"} /\ UNCHANGED <<cancelled, running, stuck>>
        BY Zenon, <1>7 DEF HandleResult
    <2>1. done' \in Seq(Results) /\ Head(done).name \in Workers
        <3>1. Head(done) \in Results /\ Tail(done) \in Seq(Results)
            BY <1>0, <2>0, HeadAndTail, Zenon
        <3>2. QED
            BY Zenon, <2>0, <3>1
    <2>2. restarts' \in [Workers -> 0..maxWorkerRestarts] /\ waiting' \in [Workers -> Nat] /\ exited' \in Nat
        <3>0. restarts \in [Workers -> 0..maxWorkerRestarts] /\ waiting \in [Workers -> Nat] /\ exited \in Nat
            BY Zenon, <1>0 DEF TypeOK
        <3>1. CASE MarkExited
            BY <3>0, <3>1 DEF MarkExited
        <3>2. CASE Restart(Head(done).name)
            <4> DEFINE w == Head(done).name
            <4>1. w \in Workers /\ Restart(w)
                BY Zenon, <2>1, <3>2
            <4> HIDE DEF w
            <4>2. restarts[w] + 1 \in 0..maxWorkerRestarts
                BY <3>0, <4>1 DEF Restart, maxWorkerRestarts
            <4>3. QED
                BY <3>0, <4>1, <4>2 DEF Restart
        <3>3. QED
            BY Zenon, <1>7, <3>1, <3>2 DEF HandleResult
    <2>3. QED
        BY <1>0, <2>0, <2>1, <2>2, Zenon DEF TypeOK
<1>8. CASE StuckTick \/ BeginDrain \/ Return
    BY Zenon, <1>0, <1>8 DEF TypeOK, StuckTick, ResetAllStuckJobs, BeginDrain, Return
<1>9. CASE DrainOne
    BY <1>0, <1>9 DEF TypeOK, DrainOne
<1>10. CASE Returned \/ UNCHANGED vars
    BY Zenon, <1>0, <1>10 DEF TypeOK, Returned, vars
<1>11. QED
    BY Zenon, <1>1, <1>2, <1>3, <1>4, <1>5, <1>6, <1>7, <1>8, <1>9, <1>10 DEF Next, Goroutine

\* The invariant is inductive.
LEMMA StepKeepsIInv ==
    ASSUME Sizes, IInv, [Next]_vars
    PROVE  IInv'
<1>0. TypeOK /\ TypeOK'
    BY Zenon, StepKeepsTypes DEF IInv
<1>workers. /\ running \in [Workers -> Nat] /\ waiting \in [Workers -> Nat] /\ Live \subseteq Workers
      /\ \A v \in Workers : /\ running[v] \in Nat /\ waiting[v] \in Nat /\ running[v] + waiting[v] <= 1
                            /\ v \in Live <=> running[v] + waiting[v] > 0
    BY <1>0, Zenon DEF IInv, TypeOK, Live
<1>1. CASE Cancel
    BY Zenon, <1>0, <1>1 DEF Cancel, IInv, ExitsAccounted, Live, Total
<1>2. CASE Start
    <2>1. Live' = Workers /\ done' = <<>> /\ exited' = 0
        BY <1>0, <1>2 DEF Start, IInv, Live, TypeOK
    <2>2. ExitsAccounted'
        BY <2>1, LiveFinite DEF ExitsAccounted, Total
    <2>3. pc' = "idle" => exited' >= Total
        BY <1>2, <2>1 DEF Start, Total, Sizes
    <2>4. \A w \in Workers : running'[w] + waiting'[w] <= 1
        BY <1>0, <1>2 DEF Start, IInv, Live, TypeOK
    <2>5. pc' \in {"idle", "loop"}
        BY Zenon, <1>2 DEF Start
    <2>6. QED
        BY <1>0, <2>1, <2>2, <2>3, <2>4, <2>5 DEF IInv, Total
<1>3. ASSUME NEW w \in Workers, NEW e \in Errors, WorkerExit(w, e) PROVE IInv'
    <2>1. running[w] = 1 /\ waiting[w] = 0 /\ w \in Live
        BY <1>workers, <1>3 DEF WorkerExit
    <2>2. \A v \in Workers : running'[v] = (IF v = w THEN 0 ELSE running[v]) /\ waiting'[v] = waiting[v]
        BY <1>workers, <1>3, <2>1 DEF WorkerExit
    <2>3. Live' = Live \ {w} /\ \A v \in Workers : running'[v] + waiting'[v] <= 1
        BY <1>workers, <2>1, <2>2 DEF Live
    <2>4. QED
        BY Zenon, <1>0, <1>3, <2>1, <2>3, ReportKeepsIInv DEF WorkerExit
<1>4. ASSUME NEW w \in Workers, BackoffElapsed(w) PROVE IInv'
    <2>1. running[w] = 0 /\ waiting[w] = 1
        BY <1>workers, <1>4 DEF BackoffElapsed
    <2>2. \A v \in Workers : /\ running'[v] = (IF v = w THEN 1 ELSE running[v])
                             /\ waiting'[v] = (IF v = w THEN 0 ELSE waiting[v])
        BY <1>workers, <1>4, <2>1 DEF BackoffElapsed
    <2>3. Live' = Live /\ \A v \in Workers : running'[v] + waiting'[v] <= 1
        BY <1>workers, <2>1, <2>2 DEF Live
    <2>4. QED
        BY Zenon, <1>0, <1>4, <2>3 DEF BackoffElapsed, IInv, ExitsAccounted, Total
<1>5. ASSUME NEW w \in Workers, BackoffCancelled(w) PROVE IInv'
    <2>1. running[w] = 0 /\ waiting[w] = 1 /\ w \in Live /\ "canceled" \in Errors
        BY <1>workers, <1>5 DEF BackoffCancelled, Errors
    <2>2. \A v \in Workers : waiting'[v] = (IF v = w THEN 0 ELSE waiting[v]) /\ running'[v] = running[v]
        BY <1>workers, <1>5, <2>1 DEF BackoffCancelled
    <2>3. Live' = Live \ {w} /\ \A v \in Workers : running'[v] + waiting'[v] <= 1
        BY <1>workers, <2>1, <2>2 DEF Live
    <2>4. QED
        BY Zenon, <1>0, <1>5, <2>1, <2>3, ReportKeepsIInv DEF BackoffCancelled
<1>6. ASSUME UNCHANGED <<cancelled, pc, running, waiting, done, restarts, exited>> PROVE IInv'
    BY Zenon, <1>0, <1>6 DEF IInv, ExitsAccounted, Live, Total
<1>7. CASE HandleResult
    <2>1. /\ Head(done) = done[1] /\ 1 \in 1..Len(done) /\ Head(done).name \in Workers
          /\ Head(done).name \notin Live
        <3>1. done \in Seq(Results) /\ done # <<>>
            BY Zenon, <1>0, <1>7 DEF HandleResult, TypeOK, Results
        <3>2. Head(done) = done[1] /\ 1 \in 1..Len(done) /\ Head(done) \in Results
            BY <3>1
        <3>3. QED
            BY Zenon, <3>2 DEF IInv, Results
    <2>2. CASE MarkExited
        <3>1. exited' = exited + 1 /\ Live' = Live /\ \A v \in Workers : running'[v] + waiting'[v] <= 1
            BY Zenon, <1>7, <2>2 DEF HandleResult, MarkExited, Live, IInv
        <3>2. QED
            BY Zenon, <1>0, <1>7, <3>1, TakeKeepsIInv DEF HandleResult
    <2>3. CASE Restart(Head(done).name)
        <3> DEFINE w == Head(done).name
        <3>1. w \in Workers /\ running[w] = 0 /\ waiting[w] = 0
            BY <1>workers, <2>1
        <3>2. /\ exited' = exited
              /\ \A v \in Workers : waiting'[v] = (IF v = w THEN 1 ELSE waiting[v]) /\ running'[v] = running[v]
            BY <1>workers, <1>7, <2>3, <3>1 DEF Restart, HandleResult
        <3> HIDE DEF w
        <3>3. Live' = Live \cup {w} /\ \A v \in Workers : running'[v] + waiting'[v] <= 1
            BY <1>workers, <3>1, <3>2 DEF Live
        <3>4. QED
            BY Zenon, <1>0, <1>7, <3>2, <3>3, TakeKeepsIInv DEF HandleResult, w
    <2>4. QED
        BY Zenon, <1>7, <2>2, <2>3 DEF HandleResult
<1>8. CASE BeginDrain
    BY Zenon, <1>0, <1>8 DEF BeginDrain, IInv, ExitsAccounted, Live, Total
<1>9. CASE DrainOne
    <2>1. exited' = exited + 1 /\ Live' = Live /\ \A v \in Workers : running'[v] + waiting'[v] <= 1
        BY Zenon, <1>9 DEF DrainOne, Live, IInv
    <2>2. QED
        BY Zenon, <1>0, <1>9, <2>1, TakeKeepsIInv DEF DrainOne
<1>10. CASE Return
    BY Zenon, <1>0, <1>10 DEF Return, IInv, ExitsAccounted, Live, Total
<1>11. QED
    BY Zenon, <1>1, <1>2, <1>3, <1>4, <1>5, <1>6, <1>7, <1>8, <1>9, <1>10
       DEF Next, Goroutine, LeaveJob, WorkerReset, StuckTick, Returned, vars

\* A processor that has not started accounts for no worker.
LEMMA InitIInv == Init => IInv
<1> SUFFICES ASSUME Init PROVE IInv
    OBVIOUS
<1>1. TypeOK
    BY DEF Init, TypeOK, Errors, maxWorkerRestarts
<1>2. Live = {} /\ done = <<>> /\ exited = 0 /\ pc = "start"
    BY DEF Init, Live
<1>3. \A w \in Workers : running[w] + waiting[w] <= 1
    BY DEF Init
<1>4. QED
    BY <1>1, <1>2, <1>3 DEF IInv, ExitsAccounted

\* The invariant gives what the processor promises of its goroutines.
LEMMA IInvImplies ==
    ASSUME Sizes
    PROVE  IInv => TypeOK /\ OneGoroutinePerWorker /\ ReportNeverBlocks /\ ExitsAccounted
<1> SUFFICES ASSUME IInv
             PROVE  OneGoroutinePerWorker /\ ReportNeverBlocks
    BY Zenon DEF IInv
<1>1. OneGoroutinePerWorker
    <2> SUFFICES ASSUME NEW w \in Workers
                 PROVE  running[w] + waiting[w] + InChannel(w) <= 1
        BY Zenon DEF OneGoroutinePerWorker
    <2> DEFINE slots == {k \in 1..Len(done) : done[k].name = w}
    <2>0. running[w] \in Nat /\ waiting[w] \in Nat /\ running[w] + waiting[w] <= 1
        BY Zenon DEF IInv, TypeOK
    <2>1. CASE slots = {}
        <3>1. InChannel(w) = 0
            BY Zenon, <2>1 DEF InChannel, Sizes
        <3>2. QED
            BY <2>0, <3>1
    <2>2. CASE slots # {}
        <3>1. PICK k \in 1..Len(done) : done[k].name = w
            BY Zenon, <2>2
        <3>2. slots = {k}
            BY Zenon, <3>1 DEF IInv
        <3>3. InChannel(w) = 1
            BY <3>2 DEF InChannel, Sizes
        <3>4. w \notin Live
            BY Zenon, <3>1 DEF IInv
        <3>5. QED
            BY <2>0, <3>3, <3>4 DEF Live
    <2>3. QED
        BY Zenon, <2>1, <2>2
<1>2. ReportNeverBlocks
    <2> SUFFICES ASSUME Live # {}
                 PROVE  Len(done) < Total
        BY Zenon DEF ReportNeverBlocks, CanSend
    <2>1. exited \in Nat /\ Len(done) \in Nat /\ exited + Cardinality(Live) + Len(done) = Total
        BY DEF IInv, TypeOK, ExitsAccounted
    <2>2. Cardinality(Live) \in Nat /\ Cardinality(Live) # 0 /\ Total \in Nat
        BY Zenon, LiveFinite
    <2>3. QED
        BY <2>1, <2>2
<1>3. QED
    BY Zenon, <1>1, <1>2

\* Every step of Run and its goroutines is a step of the promised service or
\* none.
LEMMA ServiceStep ==
    ASSUME Sizes, IInv, IInv', [Next]_vars
    PROVE  [Service!Next]_Service!vars
<1>1. Live' \in SUBSET Workers
    BY Zenon DEF Live
<1>2. pc = "returned" => Live = {} /\ Live' = {} /\ pc' = "returned" /\ cancelled'
    <2> SUFFICES ASSUME pc = "returned"
                 PROVE  Live = {} /\ Live' = {} /\ pc' = "returned" /\ cancelled'
        OBVIOUS
    <2>1. exited \in Nat /\ Len(done) \in Nat /\ exited >= Total /\ cancelled
          /\ exited + Cardinality(Live) + Len(done) = Total
        BY DEF IInv, TypeOK, ExitsAccounted
    <2>2. Live = {} /\ Len(done) = 0
        BY <2>1, LiveFinite
    <2>3. \A w \in Workers : ~(running[w] > 0) /\ ~(waiting[w] > 0)
        BY <2>2 DEF Live, IInv, TypeOK
    <2>4. UNCHANGED <<cancelled, pc, running, waiting>>
        BY <2>1, <2>3, Zenon DEF Next, vars, Cancel, Start, Goroutine, WorkerExit, BackoffElapsed, BackoffCancelled,
           LeaveJob, WorkerReset, HandleResult, StuckTick, BeginDrain, DrainOne, Return, Returned
    <2>5. QED
        BY Zenon, <2>1, <2>2, <2>4 DEF Live
<1>3. CASE pc = "returned"
    BY Zenon, <1>2, <1>3 DEF Service!vars
<1>4. CASE pc # "returned" /\ pc' = "returned"
    <2>1. Return /\ UNCHANGED <<cancelled, running, waiting>>
        BY Zenon, <1>4 DEF Next, vars, Cancel, Start, Goroutine, WorkerExit, BackoffElapsed, BackoffCancelled,
           LeaveJob, WorkerReset, HandleResult, StuckTick, BeginDrain, DrainOne, Return, Returned
    <2>2. cancelled /\ exited >= Total
        BY Zenon, <2>1 DEF Return, IInv
    <2>3. exited \in Nat /\ Len(done) \in Nat /\ exited + Cardinality(Live) + Len(done) = Total
        BY <2>1 DEF Return, IInv, TypeOK, ExitsAccounted
    <2>4. Live = {} /\ Live' = Live
        BY <2>1, <2>2, <2>3, LiveFinite DEF Live
    <2>5. QED
        BY Zenon, <1>4, <2>1, <2>2, <2>4 DEF Service!Next, Service!GoDown
<1>5. CASE pc # "returned" /\ pc' # "returned" /\ cancelled' = cancelled
    BY Zenon, <1>1, <1>5 DEF Service!Next, Service!Work
<1>6. CASE pc # "returned" /\ pc' # "returned" /\ cancelled' # cancelled
    <2>1. Cancel
        BY Zenon, <1>6 DEF Next, vars, Cancel, Start, Goroutine, WorkerExit, BackoffElapsed, BackoffCancelled,
           LeaveJob, WorkerReset, HandleResult, StuckTick, BeginDrain, DrainOne, Return, Returned
    <2>2. QED
        BY Zenon, <1>6, <2>1 DEF Cancel, Live, Service!Next, Service!Stop
<1>7. QED
    BY Zenon, <1>3, <1>4, <1>5, <1>6

LEMMA ServiceStart == Init => Service!Init
BY DEF Init, Service!Init, Live

-----------------------------------------------------------------------------
(* The composition *)

CONSTANTS Services, Syncs, Requests, Detached, Stuck, ShutdownTimeout, HardExitDefault,
          Prunes, HardExitBuffer                                          \* of ServerProcess
CONSTANTS Item, Versions, Wants, LookupWorkers, Threshold, MaxPanics  \* of UpdateLookup

\* The worker set of the server is finite, its tasks are told apart, and the
\* repairs are among the start-up tasks Wait waits for last.
ASSUME TasksApart ==
    /\ IsFiniteSet(Workers)
    /\ "repairs" \in Services
    /\ Services \cap Syncs = {} /\ Services \cap Requests = {} /\ Syncs \cap Requests = {}
    /\ Detached \cap (Services \cup Syncs \cup Requests) = {} /\ "last-used" \in Detached

VARIABLES phase, dev, root, ready, task, gate, store, clock, armed, began, awaited,
          late, prune, result
VARIABLES lookup, next, closed, results, cache, inflight, counts, ctx, panics, report

serverVars == <<phase, dev, root, ready, task, gate, store, clock, armed, began, awaited,
                late, prune, result>>
lookupVars == <<lookup, next, closed, results, cache, inflight, counts, ctx, panics, report>>
allVars == <<vars, serverVars, lookupVars>>

Server == INSTANCE ServerProcess WITH waiting <- awaited
Lookup == INSTANCE UpdateLookup
    WITH Workers <- LookupWorkers, w <- lookup, phase <- counts

QueueEnded ==
    /\ cancelled = TRUE /\ pc = "returned" /\ done = <<>> /\ stuck = {}
    /\ running = [v \in Workers |-> 0] /\ waiting = running
    /\ restarts = running /\ exited = Total

ServerEnded ==
    /\ phase = "exited" /\ dev = FALSE /\ root = TRUE /\ ready = FALSE /\ gate = TRUE
    /\ task = [t \in Server!Tasks |-> "none"] /\ store = "closed"
    /\ clock = 0 /\ armed = 0 /\ began = 0
    /\ awaited = {} /\ late = {} /\ prune = 0 /\ result = "returned"

LookupEnded ==
    /\ lookup = [v \in LookupWorkers |-> Lookup!Idle] /\ next = Len(Item) + 1 /\ closed = TRUE
    /\ results = [n \in DOMAIN Item |-> Lookup!unknownLatestStatus]
    /\ cache = <<>> /\ inflight = <<>> /\ ctx = "cancelled" /\ panics = 0
    /\ counts = [refused |-> 0, oversized |-> 0, skipped |-> 0, consecutive |-> 0,
                 tripped |-> FALSE]
    /\ report = [Lookup!Unfinished EXCEPT !.done = TRUE]

AllInit ==
    \/ Init /\ ServerEnded /\ LookupEnded
    \/ Server!Init /\ QueueEnded /\ LookupEnded
    \/ Lookup!Init /\ QueueEnded /\ ServerEnded

AllNext ==
    \/ Next /\ UNCHANGED <<serverVars, lookupVars>>
    \/ Server!Next /\ UNCHANGED <<vars, lookupVars>>
    \/ Lookup!Next /\ UNCHANGED <<vars, serverVars>>

AllSpec == AllInit /\ [][AllNext]_allVars /\ Fairness /\ Server!Fairness /\ Lookup!Fairness

(* A worker that ended is started again until its restarts are used up,    *)
(* and a stuck job is reset as long as the processor supervises a worker.  *)
WorkersServed == WorkerRestarted /\ StuckJobReset

(* Every goroutine is accounted for: a worker runs once, its report finds  *)
(* a free slot of the channel and is counted once by drainWorkersOnShutdown; *)
(* and shutdownRuntime closes the pool under no request, service or manual *)
(* sync that a bounded wait has not given up on, and under the goroutines  *)
(* that nobody waits for only with their context cancelled.                *)
GoroutinesAccounted ==
    /\ OneGoroutinePerWorker /\ ReportNeverBlocks
    /\ ExitsAccounted
    /\ Server!CloseAwaitsUsers

(* What was told to stop does: the process exits after a signal even when  *)
(* tasks ignore the cancelled context, and the lookup phase of the client  *)
(* ends whatever registries, panics and cancellations do to its workers.   *)
EverythingEnds == Server!ProcessEnds /\ Lookup!PhaseEnds

(* Concurrent lookups of a key share one call and a cached answer is not   *)
(* fetched again (packageUpdateCache); the warnings of the phase name      *)
(* every kind of failure that left a lookup without an answer.             *)
LookupsShared == Lookup!OneCallPerKey /\ Lookup!FailuresReported

-----------------------------------------------------------------------------
(* The version lookups of the client *)

Calling == {"check", "throttle", "sent", "git"}
Counts == [refused : Nat, oversized : Nat, skipped : Nat, consecutive : Nat, tripped : BOOLEAN]

\* A worker's record has its four fields; one that neither calls nor waits
\* names no key.
WorkerOK(x) ==
    /\ lookup[x] = [pc |-> lookup[x].pc, item |-> lookup[x].item, key |-> lookup[x].key, got |-> lookup[x].got]
    /\ lookup[x].pc \in {"idle", "next", "wait"} \cup Calling
    /\ lookup[x].pc \in {"idle", "next"} => lookup[x].key = <<>>

\* What the counters of registryLookupPhase say about a failure in the cache.
Counted(why) ==
    /\ why \in {"answer", "refused", "oversized", "skipped", "cancelled"}
    /\ why = "refused" => counts.refused > counts.oversized
    /\ why = "oversized" => counts.oversized > 0
    /\ why = "skipped" => counts.tripped
    /\ why = "cancelled" => ctx = "cancelled"

\* A worker that calls is the one the key is in flight for, a key is cached
\* or in flight and not both, every failure in the cache is counted, and a
\* finished phase has no worker left and has reported what was counted.
LookupInv ==
    /\ lookup = [x \in LookupWorkers |-> lookup[x]] /\ \A x \in LookupWorkers : WorkerOK(x)
    /\ \A x \in LookupWorkers :
         lookup[x].pc \in Calling => lookup[x].key \in DOMAIN inflight /\ inflight[lookup[x].key] = x
    /\ DOMAIN inflight \cap DOMAIN cache = {} /\ <<>> \notin DOMAIN inflight
    /\ counts \in Counts /\ counts.refused >= counts.oversized
    /\ \A k \in DOMAIN cache : Counted(cache[k].why)
    /\ report.done => closed /\ \A x \in LookupWorkers : lookup[x].pc = "idle"
    /\ Lookup!FailuresReported

\* The counters only grow, so that what they said of a failure stays true.
Grows == /\ counts' \in Counts /\ counts'.refused >= counts'.oversized
         /\ counts'.refused - counts'.oversized >= counts.refused - counts.oversized
         /\ counts'.oversized >= counts.oversized
         /\ counts.tripped => counts'.tripped

LEMMA StaysCounted ==
    ASSUME NEW why, Counted(why), counts \in Counts, Grows, ctx' = ctx \/ ctx' = "cancelled"
    PROVE  Counted(why)'
<1>1. /\ counts.refused \in Nat /\ counts.oversized \in Nat
      /\ counts'.refused \in Nat /\ counts'.oversized \in Nat
    BY Zenon DEF Counts, Grows
<1>2. QED
    BY <1>1 DEF Counted, Grows

\* recordRefusal, recordOversized, recordSuccess and recordSkipped.
LEMMA Records ==
    ASSUME counts \in Counts, counts.refused >= counts.oversized
    PROVE  /\ counts' = counts => Grows
           /\ counts' = Lookup!recordSuccess(counts) => Grows
           /\ counts' = Lookup!recordSkipped(counts) => Grows
           /\ counts' = Lookup!recordRefusal(counts) => Grows /\ counts'.refused > counts'.oversized
           /\ counts' = Lookup!recordOversized(Lookup!recordSuccess(counts)) => Grows /\ counts'.oversized > 0
<1>0. /\ counts.refused \in Nat /\ counts.oversized \in Nat /\ counts.skipped \in Nat
      /\ counts.consecutive \in Nat /\ counts.tripped \in BOOLEAN
      /\ counts = [refused |-> counts.refused, oversized |-> counts.oversized, skipped |-> counts.skipped,
                   consecutive |-> counts.consecutive, tripped |-> counts.tripped]
    BY Zenon DEF Counts
<1>1. counts' = counts => Grows
    BY <1>0 DEF Grows
<1>2. ASSUME counts' = Lookup!recordSuccess(counts) PROVE Grows
    BY <1>0, <1>2 DEF Grows, Lookup!recordSuccess, Counts
<1>3. ASSUME counts' = Lookup!recordSkipped(counts) PROVE Grows
    BY <1>0, <1>3 DEF Grows, Lookup!recordSkipped, Counts
<1>4. ASSUME counts' = Lookup!recordRefusal(counts) PROVE Grows /\ counts'.refused > counts'.oversized
    <2>1. /\ counts'.refused = counts.refused + 1 /\ counts'.oversized = counts.oversized
          /\ counts.tripped => counts'.tripped
        BY Zenon, <1>0, <1>4 DEF Lookup!recordRefusal, Counts
    <2>2. counts' \in Counts
        <3> DEFINE r == counts.refused + 1
                   c == counts.consecutive + 1
                   t == counts.tripped \/ counts.consecutive + 1 >= Threshold
        <3>1. r \in Nat /\ c \in Nat /\ t \in BOOLEAN
            BY <1>0
        <3>2. counts' = [counts EXCEPT !.refused = r, !.consecutive = c, !.tripped = t]
            BY Zenon, <1>4 DEF Lookup!recordRefusal
        <3> HIDE DEF r, c, t
        <3>3. QED
            BY <3>1, <3>2, Zenon DEF Counts
    <2>3. QED
        BY <1>0, <2>1, <2>2 DEF Grows
<1>5. ASSUME counts' = Lookup!recordOversized(Lookup!recordSuccess(counts)) PROVE Grows /\ counts'.oversized > 0
    <2>1. /\ counts'.refused = counts.refused + 1 /\ counts'.oversized = counts.oversized + 1
          /\ counts'.tripped = counts.tripped
        BY Zenon, <1>0, <1>5 DEF Lookup!recordOversized, Lookup!recordSuccess, Counts
    <2>2. counts' \in Counts
        <3> DEFINE r == counts.refused + 1
                   o == counts.oversized + 1
        <3>1. r \in Nat /\ o \in Nat
            BY <1>0
        <3>2. counts' = [counts EXCEPT !.consecutive = 0, !.refused = r, !.oversized = o]
            BY Zenon, <1>0, <1>5 DEF Lookup!recordOversized, Lookup!recordSuccess
        <3> HIDE DEF r, o
        <3>3. QED
            BY <3>1, <3>2, Zenon DEF Counts
    <2>3. QED
        BY <1>0, <2>1, <2>2 DEF Grows
<1>6. QED
    BY Zenon, <1>1, <1>2, <1>3, <1>4, <1>5

\* A worker goes on within its call, waits, or is done with its call's key.
LEMMA WorkerMoves ==
    ASSUME LookupInv, ~report.done, NEW x \in LookupWorkers, NEW r,
           r = [pc |-> r.pc, item |-> r.item, key |-> r.key, got |-> r.got],
           \/ r.pc \in {"idle", "next"} /\ r.key = <<>>
           \/ r.pc = "wait"
           \/ r.pc \in Calling /\ lookup[x].pc \in Calling /\ r.key = lookup[x].key,
           lookup' = [lookup EXCEPT ![x] = r],
           UNCHANGED <<closed, cache, inflight, counts, ctx, report>>
    PROVE  LookupInv'
<1>1. /\ lookup' = [y \in LookupWorkers |-> lookup'[y]] /\ lookup'[x] = r
      /\ \A y \in LookupWorkers \ {x} : lookup'[y] = lookup[y]
    BY Zenon DEF LookupInv
<1>2. r.pc \in {"idle", "next", "wait"} \cup Calling /\ (r.pc \in {"idle", "next"} => r.key = <<>>)
    BY Zenon DEF Calling
<1>3. \A y \in LookupWorkers : WorkerOK(y)'
    BY Zenon, <1>1, <1>2 DEF LookupInv, WorkerOK
<1>4. \A y \in LookupWorkers :
        lookup'[y].pc \in Calling => lookup'[y].key \in DOMAIN inflight' /\ inflight'[lookup'[y].key] = y
    BY <1>1 DEF LookupInv, Calling
<1>5. (\A k \in DOMAIN cache : Counted(cache[k].why))'
    BY Zenon DEF LookupInv, Counted
<1>6. (\A y \in LookupWorkers : WorkerOK(y))' /\ ~report'.done
    BY Zenon, <1>3
<1>7. QED
    BY Zenon, <1>1, <1>4, <1>5, <1>6 DEF LookupInv, Lookup!FailuresReported

\* Settle: the call of x ends, its key moves from the calls in flight to the
\* cache, and its waiters go on with it.
LEMMA CallSettled ==
    ASSUME LookupInv, ~report.done, NEW x \in LookupWorkers, lookup[x].pc \in Calling, NEW value, NEW why,
           Lookup!Settle(x, value, why), Grows, Counted(why)', UNCHANGED <<closed, ctx, report>>
    PROVE  LookupInv'
<1> DEFINE key == lookup[x].key
           Woken(y) == y = x \/ y \in Lookup!Waiters(key)
<1>1. /\ key \in DOMAIN inflight /\ inflight[key] = x /\ key \notin DOMAIN cache
    BY Zenon DEF LookupInv
<1>2. /\ DOMAIN inflight' = DOMAIN inflight \ {key}
      /\ \A k \in DOMAIN inflight' : inflight'[k] = inflight[k]
    BY Zenon DEF Lookup!Settle, Lookup!Restrict
<1>3. /\ DOMAIN cache' = DOMAIN cache \cup {key} /\ cache'[key].why = why
      /\ \A k \in DOMAIN cache : cache'[k] = cache[k]
    BY Zenon, <1>1 DEF Lookup!Settle
<1>4. /\ lookup' = [y \in LookupWorkers |-> lookup'[y]]
      /\ \A y \in LookupWorkers : lookup'[y] = IF Woken(y) THEN Lookup!Got(y, key, value) ELSE lookup[y]
    BY Zenon DEF Lookup!Settle
<1>5. \A y \in LookupWorkers : Woken(y) => WorkerOK(y)' /\ lookup'[y].pc = "next"
    <2> SUFFICES ASSUME NEW y \in LookupWorkers, Woken(y)
                 PROVE  WorkerOK(y)' /\ lookup'[y].pc = "next"
        OBVIOUS
    <2>1. PICK i, g : lookup'[y] = [pc |-> "next", item |-> i, key |-> <<>>, got |-> g]
        BY <1>4, Zenon DEF Lookup!Got
    <2>2. QED
        BY <2>1 DEF WorkerOK
<1>6. \A y \in LookupWorkers : ~Woken(y) => WorkerOK(y)' /\ lookup'[y] = lookup[y]
    BY Zenon, <1>4 DEF LookupInv, WorkerOK
<1> HIDE DEF key, Woken
<1>7. \A y \in LookupWorkers : ~Woken(y) /\ lookup[y].pc \in Calling => lookup[y].key # key
    BY Zenon, <1>1 DEF LookupInv, Woken
<1>8. \A y \in LookupWorkers :
        lookup'[y].pc \in Calling => lookup'[y].key \in DOMAIN inflight' /\ inflight'[lookup'[y].key] = y
    <2> SUFFICES ASSUME NEW y \in LookupWorkers, lookup'[y].pc \in Calling
                 PROVE  lookup'[y].key \in DOMAIN inflight' /\ inflight'[lookup'[y].key] = y
        OBVIOUS
    <2>1. ~Woken(y) /\ lookup'[y] = lookup[y]
        BY Zenon, <1>5, <1>6 DEF Calling
    <2>2. QED
        BY Zenon, <1>2, <1>7, <2>1 DEF LookupInv
<1>9. (\A k \in DOMAIN cache : Counted(cache[k].why))'
    <2> SUFFICES ASSUME NEW k \in DOMAIN cache'
                 PROVE  Counted(cache[k].why)'
        OBVIOUS
    <2>1. CASE k = key
        BY Zenon, <1>3, <2>1 DEF Counted
    <2>2. CASE k \in DOMAIN cache
        <3>1. PICK c : c = cache[k].why /\ Counted(c)
            BY Zenon, <2>2 DEF LookupInv
        <3>2. Counted(c)'
            BY Zenon, <3>1, StaysCounted DEF LookupInv
        <3>3. QED
            BY Zenon, <1>3, <2>2, <3>1, <3>2 DEF Counted
    <2>3. QED
        BY Zenon, <1>3, <2>1, <2>2
<1>10. DOMAIN inflight' \cap DOMAIN cache' = {} /\ <<>> \notin DOMAIN inflight'
    BY Zenon, <1>1, <1>2, <1>3 DEF LookupInv
<1>11. (\A y \in LookupWorkers : WorkerOK(y))' /\ ~report'.done
    BY Zenon, <1>5, <1>6
<1>12. QED
    BY Zenon, <1>4, <1>8, <1>9, <1>10, <1>11 DEF LookupInv, Lookup!FailuresReported, Grows

\* The record of a worker that moves on to a place and a key.
LEMMA RecordMoves ==
    ASSUME NEW v, v = [pc |-> v.pc, item |-> v.item, key |-> v.key, got |-> v.got], NEW place, NEW key,
           NEW r, r = [v EXCEPT !.pc = place, !.key = key]
    PROVE  r = [pc |-> r.pc, item |-> r.item, key |-> r.key, got |-> r.got] /\ r.pc = place /\ r.key = key
<1>1. PICK a, i, k, g : v = [pc |-> a, item |-> i, key |-> k, got |-> g]
    OBVIOUS
<1>2. r = [pc |-> place, item |-> i, key |-> key, got |-> g]
    BY <1>1, Zenon
<1>3. QED
    BY <1>2, Zenon

\* Lookup: an answer from the cache, a wait for the call in flight, or a call
\* of its own.
LEMMA LookupBegins ==
    ASSUME LookupInv, ~report.done, NEW x \in LookupWorkers, lookup[x].pc = "next", NEW key, key # <<>>,
           Lookup!Lookup(x, key), UNCHANGED <<closed, cache, counts, ctx, report>>
    PROVE  LookupInv'
<1>0. WorkerOK(x) /\ lookup = [y \in LookupWorkers |-> lookup[y]]
    BY Zenon DEF LookupInv
<1>1. CASE key \in DOMAIN cache
    <2>1. PICK i, g : Lookup!Got(x, key, cache[key].value) = [pc |-> "next", item |-> i, key |-> <<>>, got |-> g]
        BY Zenon DEF Lookup!Got
    <2> DEFINE r == [pc |-> "next", item |-> i, key |-> <<>>, got |-> g]
    <2>2. /\ r = [pc |-> r.pc, item |-> r.item, key |-> r.key, got |-> r.got]
          /\ r.pc = "next" /\ r.key = <<>>
        OBVIOUS
    <2> HIDE DEF r
    <2>3. lookup' = [lookup EXCEPT ![x] = r]
        BY Zenon, <1>1, <2>1 DEF Lookup!Lookup, r
    <2>4. inflight' = inflight
        BY Zenon, <1>1 DEF Lookup!Lookup
    <2>5. QED
        BY <2>2, <2>3, <2>4, WorkerMoves, Zenon
<1>2. CASE key \notin DOMAIN cache /\ key \in DOMAIN inflight
    <2> DEFINE r == [lookup[x] EXCEPT !.pc = "wait", !.key = key]
    <2>1. r = [lookup[x] EXCEPT !.pc = "wait", !.key = key]
        OBVIOUS
    <2>2. lookup' = [lookup EXCEPT ![x] = r]
        BY Zenon, <1>2 DEF Lookup!Lookup
    <2>3. inflight' = inflight
        BY Zenon, <1>2 DEF Lookup!Lookup
    <2> HIDE DEF r
    <2>4. r = [pc |-> r.pc, item |-> r.item, key |-> r.key, got |-> r.got] /\ r.pc = "wait"
        BY <1>0, <2>1, RecordMoves, Zenon DEF WorkerOK
    <2>5. QED
        BY <2>2, <2>3, <2>4, WorkerMoves, Zenon
<1>3. CASE key \notin DOMAIN cache /\ key \notin DOMAIN inflight
    <2>1. PICK place : place = Lookup!Start(x, key)
        OBVIOUS
    <2>2. place \in Calling
        BY Zenon, <2>1 DEF Lookup!Start, Calling
    <2> DEFINE r == [lookup[x] EXCEPT !.pc = place, !.key = key]
    <2>3. r = [lookup[x] EXCEPT !.pc = place, !.key = key]
        OBVIOUS
    <2>4. lookup' = [lookup EXCEPT ![x] = r]
        BY Zenon, <1>3, <2>1 DEF Lookup!Lookup
    <2>5. /\ DOMAIN inflight' = DOMAIN inflight \cup {key} /\ inflight'[key] = x
          /\ \A k \in DOMAIN inflight : inflight'[k] = inflight[k]
        BY Zenon, <1>3 DEF Lookup!Lookup
    <2> HIDE DEF r
    <2>shape. r = [pc |-> r.pc, item |-> r.item, key |-> r.key, got |-> r.got] /\ r.pc = place /\ r.key = key
        BY <1>0, <2>3, RecordMoves, Zenon DEF WorkerOK
    <2>6. /\ lookup' = [y \in LookupWorkers |-> lookup'[y]] /\ lookup'[x] = r
          /\ \A y \in LookupWorkers \ {x} : lookup'[y] = lookup[y]
        BY Zenon, <1>0, <2>4
    <2>7. \A y \in LookupWorkers : WorkerOK(y)'
        BY <2>2, <2>shape, <2>6 DEF LookupInv, WorkerOK, Calling
    <2>8. \A y \in LookupWorkers :
            lookup'[y].pc \in Calling => lookup'[y].key \in DOMAIN inflight' /\ inflight'[lookup'[y].key] = y
        BY <2>shape, <2>5, <2>6 DEF LookupInv
    <2>9. (\A k \in DOMAIN cache : Counted(cache[k].why))' /\ ~report'.done
        BY Zenon DEF LookupInv, Counted
    <2>10. (\A y \in LookupWorkers : WorkerOK(y))'
        BY Zenon, <2>7
    <2>11. DOMAIN inflight' \cap DOMAIN cache' = {} /\ <<>> \notin DOMAIN inflight'
        BY <1>3, <2>5 DEF LookupInv
    <2>12. QED
        BY Zenon, <2>6, <2>8, <2>9, <2>10, <2>11 DEF LookupInv, Lookup!FailuresReported
<1>4. QED
    BY Zenon, <1>1, <1>2, <1>3

\* Every lookup a package still needs has a key.
LEMMA PendingKeys ==
    ASSUME NEW p, NEW got, NEW key \in Lookup!Pending(p, got)
    PROVE  key # <<>>
<1>1. CASE key = <<"latest", p.name>>
    BY Zenon, <1>1
<1>2. CASE \E q \in p.parents : key = <<"meta", q>>
    BY <1>2
<1>3. CASE key = <<"meta", p.name>> \/ key = <<"tag", p.name>>
    BY <1>3
<1>4. QED
    BY Zenon, <1>1, <1>2, <1>3 DEF Lookup!Pending

\* A resolver panic ends the call of x: its waiters go on, nothing is cached.
LEMMA CallPanics ==
    ASSUME LookupInv, ~report.done, NEW x \in LookupWorkers, Lookup!ResolverPanics(x)
    PROVE  LookupInv'
<1> DEFINE key == lookup[x].key
           Woken(y) == y \in Lookup!Waiters(key)
<1>0. /\ lookup[x].pc \in Calling /\ UNCHANGED <<closed, cache, counts, ctx, report>>
      /\ lookup' = [y \in LookupWorkers |-> IF y = x THEN Lookup!Idle
                                           ELSE IF Woken(y) THEN Lookup!Got(y, key, 0) ELSE lookup[y]]
    BY Zenon DEF Lookup!ResolverPanics, Lookup!PanicCompletes, Calling
<1>1. key \in DOMAIN inflight /\ inflight[key] = x
    BY <1>0, Zenon DEF LookupInv
<1>2. /\ DOMAIN inflight' = DOMAIN inflight \ {key}
      /\ \A k \in DOMAIN inflight' : inflight'[k] = inflight[k]
    BY Zenon DEF Lookup!ResolverPanics, Lookup!Restrict
<1>3. \A y \in LookupWorkers : y = x \/ Woken(y) => WorkerOK(y)' /\ lookup'[y].pc \in {"idle", "next"}
    <2> SUFFICES ASSUME NEW y \in LookupWorkers, y = x \/ Woken(y)
                 PROVE  WorkerOK(y)' /\ lookup'[y].pc \in {"idle", "next"}
        OBVIOUS
    <2>1. lookup'[y] = Lookup!Idle \/ lookup'[y] = Lookup!Got(y, key, 0)
        BY Zenon, <1>0
    <2>2. \E i, g : \/ lookup'[y] = [pc |-> "idle", item |-> i, key |-> <<>>, got |-> g]
                   \/ lookup'[y] = [pc |-> "next", item |-> i, key |-> <<>>, got |-> g]
        BY <2>1, Zenon DEF Lookup!Idle, Lookup!Got
    <2>3. QED
        BY <2>2 DEF WorkerOK
<1>4. \A y \in LookupWorkers : ~(y = x \/ Woken(y)) => WorkerOK(y)' /\ lookup'[y] = lookup[y]
    BY Zenon, <1>0 DEF LookupInv, WorkerOK
<1>5. lookup' = [y \in LookupWorkers |-> lookup'[y]]
    BY Zenon, <1>0
<1> HIDE DEF key, Woken
<1>6. \A y \in LookupWorkers : y # x /\ lookup[y].pc \in Calling => lookup[y].key # key
    BY Zenon, <1>1 DEF LookupInv
<1>7. \A y \in LookupWorkers :
        lookup'[y].pc \in Calling => lookup'[y].key \in DOMAIN inflight' /\ inflight'[lookup'[y].key] = y
    <2> SUFFICES ASSUME NEW y \in LookupWorkers, lookup'[y].pc \in Calling
                 PROVE  lookup'[y].key \in DOMAIN inflight' /\ inflight'[lookup'[y].key] = y
        OBVIOUS
    <2>1. y # x /\ lookup'[y] = lookup[y]
        BY <1>3, <1>4, Zenon DEF Calling
    <2>2. QED
        BY Zenon, <1>2, <1>6, <2>1 DEF LookupInv
<1>8. (\A k \in DOMAIN cache : Counted(cache[k].why))' /\ ~report'.done
    BY Zenon, <1>0 DEF LookupInv, Counted
<1>9. (\A y \in LookupWorkers : WorkerOK(y))'
    BY Zenon, <1>3, <1>4
<1>10. DOMAIN inflight' \cap DOMAIN cache' = {} /\ <<>> \notin DOMAIN inflight'
    BY Zenon, <1>0, <1>2 DEF LookupInv
<1>11. QED
    BY <1>0, <1>5, <1>7, <1>8, <1>9, <1>10, Zenon DEF LookupInv, Lookup!FailuresReported

\* A worker within its call goes on to another place of it.
LEMMA CallMoves ==
    ASSUME LookupInv, ~report.done, NEW x \in LookupWorkers, lookup[x].pc \in Calling, NEW place \in Calling,
           lookup' = [lookup EXCEPT ![x].pc = place], UNCHANGED <<closed, cache, inflight, counts, ctx, report>>
    PROVE  LookupInv'
<1> DEFINE r == [lookup[x] EXCEPT !.pc = place]
<1>0. WorkerOK(x) /\ lookup = [y \in LookupWorkers |-> lookup[y]]
    BY Zenon DEF LookupInv
<1>1. lookup' = [lookup EXCEPT ![x] = r]
    OBVIOUS
<1>2. r = [lookup[x] EXCEPT !.pc = place, !.key = lookup[x].key]
    BY <1>0, Zenon DEF WorkerOK
<1> HIDE DEF r
<1>3. r = [pc |-> r.pc, item |-> r.item, key |-> r.key, got |-> r.got] /\ r.pc = place /\ r.key = lookup[x].key
    BY <1>0, <1>2, RecordMoves, Zenon DEF WorkerOK
<1>4. QED
    BY <1>1, <1>3, WorkerMoves, Zenon

\* Settle with the counters the action leaves behind.
LEMMA CallEnds ==
    ASSUME LookupInv, ~report.done, NEW x \in LookupWorkers, lookup[x].pc \in Calling, NEW value, NEW why,
           Lookup!Settle(x, value, why), UNCHANGED <<closed, ctx, report>>,
           \/ why = "answer" /\ (counts' = counts \/ counts' = Lookup!recordSuccess(counts))
           \/ why = "refused" /\ counts' = Lookup!recordRefusal(counts)
           \/ why = "oversized" /\ counts' = Lookup!recordOversized(Lookup!recordSuccess(counts))
           \/ why = "skipped" /\ counts.tripped /\ counts' = Lookup!recordSkipped(counts)
           \/ why = "cancelled" /\ ctx = "cancelled" /\ counts' = counts
    PROVE  LookupInv'
<1>0. counts \in Counts /\ counts.refused >= counts.oversized
    BY Zenon DEF LookupInv
<1>1. /\ Grows
      /\ why = "refused" => counts'.refused > counts'.oversized
      /\ why = "oversized" => counts'.oversized > 0
    BY Zenon, <1>0, Records
<1>2. why = "skipped" => counts'.tripped
    BY Zenon, <1>1 DEF Grows
<1>3. Counted(why)'
    BY <1>1, <1>2, Zenon DEF Counted
<1>4. QED
    BY Zenon, <1>1, <1>3, CallSettled

\* The report of a phase nobody cancelled names what the counters counted.
LEMMA ReportNames ==
    ASSUME LookupInv, Lookup!resolveOutdatedStatuses
    PROVE  LookupInv'
<1>0. /\ closed /\ \A x \in LookupWorkers : lookup[x].pc = "idle"
      /\ UNCHANGED <<lookup, closed, cache, inflight, counts, ctx>>
      /\ report' = Lookup!applyOutdatedStatusesToReport
    BY Zenon DEF Lookup!resolveOutdatedStatuses
<1>1. ctx # "cancelled" => report'.warnings = Lookup!registryLookupPhaseReportWarnings(counts)
    BY Zenon, <1>0 DEF Lookup!applyOutdatedStatusesToReport, Lookup!Cancelled
<1>2. counts.refused \in Nat /\ counts.oversized \in Nat
    BY Zenon DEF LookupInv, Counts
<1>3. ASSUME NEW k \in DOMAIN cache, ctx # "cancelled", cache[k].why # "answer"
      PROVE  cache[k].why \in Lookup!registryLookupPhaseReportWarnings(counts)
    <2>1. /\ cache[k].why \in {"refused", "oversized", "skipped"}
          /\ cache[k].why = "refused" => counts.refused > counts.oversized
          /\ cache[k].why = "oversized" => counts.oversized > 0
          /\ cache[k].why = "skipped" => counts.tripped
        BY Zenon, <1>3 DEF LookupInv, Counted
    <2>2. cache[k].why = "refused" => counts.refused - counts.oversized > 0
        BY <1>2, <2>1
    <2>3. QED
        BY <2>1, <2>2, Zenon DEF Lookup!registryLookupPhaseReportWarnings
<1>4. Lookup!FailuresReported'
    BY <1>0, <1>1, <1>3, Zenon DEF Lookup!FailuresReported, Lookup!Cancelled
<1>5. (\A x \in LookupWorkers : WorkerOK(x))' /\ (\A k \in DOMAIN cache : Counted(cache[k].why))'
    BY <1>0, Zenon DEF LookupInv, WorkerOK, Counted
<1>6. QED
    BY Zenon, <1>0, <1>4, <1>5 DEF LookupInv

\* One package: a lookup it still needs, or its result.
LEMMA PackageStep ==
    ASSUME LookupInv, ~report.done, NEW x \in LookupWorkers, Lookup!resolvePackageUpdateStatus(x)
    PROVE  LookupInv'
<1>0. lookup[x].pc = "next" /\ UNCHANGED <<closed, cache, counts, ctx, report>>
    BY Zenon DEF Lookup!resolvePackageUpdateStatus
<1>1. CASE \E p, got : \E key \in Lookup!Pending(p, got) : Lookup!Lookup(x, key)
    <2>1. PICK p, got : \E key \in Lookup!Pending(p, got) : Lookup!Lookup(x, key)
        BY Zenon, <1>1
    <2>2. PICK key \in Lookup!Pending(p, got) : Lookup!Lookup(x, key)
        BY Zenon, <2>1
    <2>3. key # <<>>
        BY Zenon, PendingKeys
    <2>4. QED
        BY Zenon, <1>0, <2>2, <2>3, LookupBegins
<1>2. CASE lookup' = [lookup EXCEPT ![x] = Lookup!Idle] /\ UNCHANGED inflight
    <2> DEFINE r == Lookup!Idle
    <2>1. r = [pc |-> r.pc, item |-> r.item, key |-> r.key, got |-> r.got] /\ r.pc = "idle" /\ r.key = <<>>
        BY Zenon DEF Lookup!Idle
    <2> HIDE DEF r
    <2>2. lookup' = [lookup EXCEPT ![x] = r]
        BY Zenon, <1>2 DEF r
    <2>3. QED
        BY <1>0, <1>2, <2>1, <2>2, WorkerMoves, Zenon
<1>3. QED
    BY <1>1, <1>2, Zenon DEF Lookup!resolvePackageUpdateStatus, Lookup!fetchLatestVersion, Lookup!fetchNPMMetadata,
                      Lookup!gitRemoteTagCommit

\* The record of a worker that takes an index.
LEMMA RecordTakes ==
    ASSUME NEW v, v = [pc |-> v.pc, item |-> v.item, key |-> v.key, got |-> v.got], NEW place, NEW n,
           NEW r, r = [v EXCEPT !.pc = place, !.item = n]
    PROVE  r = [pc |-> r.pc, item |-> r.item, key |-> r.key, got |-> r.got] /\ r.pc = place /\ r.key = v.key
<1>1. PICK a, i, k, g : v = [pc |-> a, item |-> i, key |-> k, got |-> g]
    OBVIOUS
<1>2. r = [pc |-> place, item |-> n, key |-> k, got |-> g]
    BY <1>1, Zenon
<1>3. QED
    BY <1>1, <1>2, Zenon

\* Every step of the lookup phase keeps its invariant.
LEMMA LookupStep ==
    ASSUME LookupInv, [Lookup!Next]_lookupVars
    PROVE  LookupInv'
<1>0. /\ \A x \in LookupWorkers : WorkerOK(x)
      /\ \A x \in LookupWorkers : lookup[x].pc # "idle" => ~report.done
      /\ lookup = [x \in LookupWorkers |-> lookup[x]] /\ (~closed => ~report.done)
    BY Zenon DEF LookupInv
<1>1. CASE Lookup!CloseJobs
    <2>1. UNCHANGED <<lookup, cache, inflight, counts, ctx, report>> /\ ~report.done
        BY Zenon, <1>0, <1>1 DEF Lookup!CloseJobs
    <2>2. (\A x \in LookupWorkers : WorkerOK(x))' /\ (\A k \in DOMAIN cache : Counted(cache[k].why))'
        BY Zenon, <2>1 DEF LookupInv, WorkerOK, Counted
    <2>3. QED
        BY Zenon, <2>1, <2>2 DEF LookupInv, Lookup!FailuresReported
<1>2. CASE Lookup!resolveOutdatedStatuses
    BY Zenon, <1>2, ReportNames
<1>3. CASE Lookup!Cancel
    <2>1. UNCHANGED <<lookup, closed, cache, inflight, counts, report>> /\ ctx' = "cancelled"
        BY Zenon, <1>3 DEF Lookup!Cancel
    <2>2. (\A k \in DOMAIN cache : Counted(cache[k].why))'
        BY Zenon, <2>1 DEF LookupInv, Counted
    <2>3. (\A x \in LookupWorkers : WorkerOK(x))'
        BY Zenon, <2>1 DEF LookupInv, WorkerOK
    <2>4. QED
        BY Zenon, <2>1, <2>2, <2>3 DEF LookupInv, Lookup!FailuresReported, Lookup!Cancelled
<1>4. ASSUME NEW x \in LookupWorkers, Lookup!Receive(x) PROVE LookupInv'
    <2>1. lookup[x].pc = "idle" /\ ~report.done /\ UNCHANGED <<closed, cache, inflight, counts, ctx, report>>
        BY Zenon, <1>0, <1>4 DEF Lookup!Receive
    <2> DEFINE r == IF ctx = "cancelled" THEN lookup[x] ELSE [lookup[x] EXCEPT !.pc = "next", !.item = next]
    <2>2. lookup' = [lookup EXCEPT ![x] = r]
        BY <1>0, <1>4, Zenon DEF Lookup!Receive, Lookup!Cancelled
    <2>3. /\ lookup[x] = [pc |-> lookup[x].pc, item |-> lookup[x].item, key |-> lookup[x].key, got |-> lookup[x].got]
          /\ lookup[x].key = <<>>
        BY Zenon, <1>0, <2>1 DEF WorkerOK
    <2>4. r = lookup[x] \/ r = [lookup[x] EXCEPT !.pc = "next", !.item = next]
        OBVIOUS
    <2> HIDE DEF r
    <2>5. r = [pc |-> r.pc, item |-> r.item, key |-> r.key, got |-> r.got] /\ r.pc \in {"idle", "next"} /\ r.key = <<>>
        BY <2>1, <2>3, <2>4, RecordTakes, Zenon
    <2>6. QED
        BY <2>1, <2>2, <2>5, WorkerMoves, Zenon
<1>5. ASSUME NEW x \in LookupWorkers, Lookup!resolvePackageUpdateStatus(x) PROVE LookupInv'
    BY Zenon, <1>0, <1>5, PackageStep DEF Lookup!resolvePackageUpdateStatus
<1>6. ASSUME NEW x \in LookupWorkers, Lookup!AbandonWait(x) PROVE LookupInv'
    <2> DEFINE r == Lookup!Got(x, lookup[x].key, 0)
    <2>1. ~report.done /\ UNCHANGED <<closed, cache, inflight, counts, ctx, report>> /\ lookup' = [lookup EXCEPT ![x] = r]
        BY Zenon, <1>0, <1>6 DEF Lookup!AbandonWait
    <2>2. PICK i, g : r = [pc |-> "next", item |-> i, key |-> <<>>, got |-> g]
        BY Zenon DEF Lookup!Got
    <2> HIDE DEF r
    <2>3. r = [pc |-> r.pc, item |-> r.item, key |-> r.key, got |-> r.got] /\ r.pc = "next" /\ r.key = <<>>
        BY Zenon, <2>2
    <2>4. QED
        BY <2>1, <2>3, WorkerMoves, Zenon
<1>7. ASSUME NEW x \in LookupWorkers, Lookup!CheckBreaker(x) PROVE LookupInv'
    <2>1. lookup[x].pc = "check" /\ lookup[x].pc \in Calling /\ ~report.done /\ UNCHANGED <<closed, ctx, report>>
        BY Zenon, <1>0, <1>7 DEF Lookup!CheckBreaker, Calling
    <2>2. CASE counts.tripped
        BY Zenon, <1>7, <2>1, <2>2, CallEnds DEF Lookup!CheckBreaker
    <2>3. CASE ~counts.tripped
        BY Zenon, <1>7, <2>1, <2>3, CallMoves DEF Lookup!CheckBreaker, Calling
    <2>4. QED
        BY Zenon, <2>2, <2>3
<1>8. ASSUME NEW x \in LookupWorkers, Lookup!waitForRegistryThrottle(x) PROVE LookupInv'
    <2>1. /\ lookup[x].pc = "throttle" /\ lookup[x].pc \in Calling /\ ~report.done
          /\ UNCHANGED <<closed, counts, ctx, report>>
        BY Zenon, <1>0, <1>8 DEF Lookup!waitForRegistryThrottle, Calling
    <2>2. CASE lookup' = [lookup EXCEPT ![x].pc = "sent"] /\ UNCHANGED <<cache, inflight>>
        BY <2>1, <2>2, CallMoves, Zenon DEF Calling
    <2>3. CASE Lookup!Cancelled /\ Lookup!Settle(x, 0, "cancelled")
        BY <2>1, <2>3, CallEnds, Zenon DEF Lookup!Cancelled
    <2>4. QED
        BY Zenon, <1>8, <2>2, <2>3 DEF Lookup!waitForRegistryThrottle
<1>9. ASSUME NEW x \in LookupWorkers, Lookup!registryGet(x) PROVE LookupInv'
    <2>1. lookup[x].pc \in Calling /\ ~report.done /\ UNCHANGED <<closed, ctx, report>>
        BY Zenon, <1>0, <1>9 DEF Lookup!registryGet, Calling
    <2>2. ASSUME NEW value, Lookup!Settle(x, value, "answer"), counts' = Lookup!recordSuccess(counts) PROVE LookupInv'
        BY Zenon, <2>1, <2>2, CallEnds
    <2>3. CASE Lookup!Settle(x, 0, "refused") /\ counts' = Lookup!recordRefusal(counts)
        BY Zenon, <2>1, <2>3, CallEnds
    <2>4. CASE Lookup!Settle(x, 0, "oversized") /\ counts' = Lookup!recordOversized(Lookup!recordSuccess(counts))
        BY Zenon, <2>1, <2>4, CallEnds
    <2>5. CASE Lookup!Cancelled /\ Lookup!Settle(x, 0, "cancelled") /\ counts' = counts
        BY Zenon, <2>1, <2>5, CallEnds DEF Lookup!Cancelled
    <2>6. QED
        BY <1>9, <2>2, <2>3, <2>4, <2>5, Zenon DEF Lookup!registryGet
<1>10. ASSUME NEW x \in LookupWorkers, Lookup!gitLookup(x) PROVE LookupInv'
    <2>1. lookup[x].pc \in Calling /\ ~report.done /\ UNCHANGED <<closed, ctx, report>>
        BY Zenon, <1>0, <1>10 DEF Lookup!gitLookup, Calling
    <2>2. ASSUME NEW value, Lookup!Settle(x, value, "answer"), counts' = counts PROVE LookupInv'
        BY <2>1, <2>2, CallEnds
    <2>3. CASE Lookup!Settle(x, 0, "refused") /\ counts' = Lookup!recordRefusal(counts)
        BY Zenon, <2>1, <2>3, CallEnds
    <2>4. CASE Lookup!Cancelled /\ Lookup!Settle(x, 0, "cancelled") /\ counts' = counts
        BY Zenon, <2>1, <2>4, CallEnds DEF Lookup!Cancelled
    <2>5. QED
        BY Zenon, <1>10, <2>2, <2>3, <2>4 DEF Lookup!gitLookup
<1>11. ASSUME NEW x \in LookupWorkers, Lookup!ResolverPanics(x) PROVE LookupInv'
    BY <1>0, <1>11, CallPanics, Zenon DEF Lookup!ResolverPanics
<1>12. CASE UNCHANGED lookupVars
    <2>1. UNCHANGED <<lookup, closed, cache, inflight, counts, ctx, report>>
        BY <1>12, Zenon DEF lookupVars
    <2>2. (\A x \in LookupWorkers : WorkerOK(x))' /\ (\A k \in DOMAIN cache : Counted(cache[k].why))'
        BY Zenon, <2>1 DEF LookupInv, WorkerOK, Counted
    <2>3. QED
        BY Zenon, <2>1, <2>2 DEF LookupInv, Lookup!FailuresReported, Lookup!Cancelled
<1>13. QED
    BY <1>1, <1>2, <1>3, <1>4, <1>5, <1>6, <1>7, <1>8, <1>9, <1>10, <1>11, <1>12, Zenon DEF Lookup!Next, Lookup!Worker

LEMMA LookupInvImplies == LookupInv => LookupsShared
<1> SUFFICES ASSUME LookupInv
             PROVE  Lookup!OneCallPerKey
    BY Zenon DEF LookupsShared, LookupInv
<1> SUFFICES ASSUME NEW x \in LookupWorkers, NEW y \in LookupWorkers, lookup[x].pc \in Calling
             PROVE  /\ lookup[x].key \notin DOMAIN cache
                    /\ lookup[y].key = lookup[x].key => x = y \/ lookup[y].pc = "wait"
    BY Zenon DEF Lookup!OneCallPerKey, Calling
<1>1. lookup[x].key \in DOMAIN inflight /\ inflight[lookup[x].key] = x /\ lookup[x].key # <<>>
    BY Zenon DEF LookupInv
<1>2. \/ lookup[y].pc = "wait"
      \/ lookup[y].key = <<>>
      \/ lookup[y].key \in DOMAIN inflight /\ inflight[lookup[y].key] = y
    BY Zenon DEF LookupInv, WorkerOK
<1>3. QED
    BY <1>1, <1>2, Zenon DEF LookupInv

LEMMA LookupStarts == Lookup!Init \/ LookupEnded => LookupInv
<1> SUFFICES ASSUME Lookup!Init \/ LookupEnded
             PROVE  LookupInv
    OBVIOUS
<1>1. /\ lookup = [x \in LookupWorkers |-> Lookup!Idle] /\ DOMAIN cache = {} /\ DOMAIN inflight = {}
      /\ counts = [refused |-> 0, oversized |-> 0, skipped |-> 0, consecutive |-> 0, tripped |-> FALSE]
    BY DEF Lookup!Init, LookupEnded
<1>2. report.done => closed
    BY DEF Lookup!Init, LookupEnded, Lookup!Unfinished
<1>3. \A x \in LookupWorkers : WorkerOK(x) /\ lookup[x].pc = "idle"
    BY Zenon, <1>1 DEF WorkerOK, Lookup!Idle
<1>4. counts \in Counts /\ counts.refused >= counts.oversized
    BY <1>1 DEF Counts
<1>5. QED
    BY Zenon, <1>1, <1>2, <1>3, <1>4 DEF LookupInv, Lookup!FailuresReported, Calling

-----------------------------------------------------------------------------
(* The server process *)

TaskStates == {"none", "asked", "running", "ended"}

\* From the end of the HTTP drain on, as long as the end is the orderly one.
ShuttingDown == phase \in {"wait", "close"} \/ result = "returned"

\* Only a manual sync passes the gate.  After the drain a request still runs
\* only when the drain was late; a service that Wait is done with has ended;
\* the repairs come last, behind the closed gate and the manual syncs.
ServerInv ==
    /\ task \in [Server!Tasks -> TaskStates]
    /\ \A t \in Server!Tasks : task[t] = "asked" => t \in Syncs
    /\ result = "returned" => phase = "exited"
    /\ ShuttingDown =>
         /\ \A t \in Requests : task[t] = "running" => "http" \in late
         /\ \A t \in Services \ awaited : task[t] # "running"
         /\ "repairs" \notin awaited => gate /\ \A t \in Syncs : task[t] # "running"
         /\ root
    /\ phase = "close" \/ result = "returned" => "background" \in late \/ Server!Stopped

\* A step that leaves the tasks and Wait alone keeps the invariant, unless it
\* ends the drain or the wait.
LEMMA QuietStep ==
    ASSUME ServerInv, UNCHANGED <<task, gate, awaited, late>>, root => root',
           ShuttingDown' => ShuttingDown, result' = "returned" => phase' = "exited",
           phase' = "close" \/ result' = "returned" => phase = "close" \/ result = "returned"
    PROVE  ServerInv'
BY Zenon DEF ServerInv, Server!Stopped

\* A task ends.
LEMMA TaskEnds ==
    ASSUME ServerInv, NEW t \in Server!Tasks, task' = [task EXCEPT ![t] = "ended"],
           UNCHANGED <<phase, root, gate, awaited, late, result>>
    PROVE  ServerInv'
<1>1. /\ task' \in [Server!Tasks -> TaskStates]
      /\ \A u \in Server!Tasks : task'[u] \in {"asked", "running"} => task'[u] = task[u]
    BY Zenon DEF ServerInv, TaskStates
<1>2. Requests \subseteq Server!Tasks /\ Services \subseteq Server!Tasks /\ Syncs \subseteq Server!Tasks
    BY Zenon DEF Server!Tasks
<1>3. QED
    BY Zenon, <1>1, <1>2 DEF ServerInv, ShuttingDown, Server!Stopped

\* Every step of the process, its tasks and Wait keeps the invariant.
LEMMA ServerStep ==
    ASSUME ServerInv, [Server!Next]_serverVars
    PROVE  ServerInv'
<1>0. /\ Requests \subseteq Server!Tasks /\ Services \subseteq Server!Tasks /\ Syncs \subseteq Server!Tasks
      /\ "repairs" \in Services /\ Services \cap Syncs = {} /\ Services \cap Requests = {}
      /\ Syncs \cap Requests = {} /\ task \in [Server!Tasks -> TaskStates]
      /\ result = "returned" => phase = "exited"
    BY Zenon, TasksApart DEF Server!Tasks, ServerInv
<1>1. CASE \/ Server!loadAndValidateRuntimeConfig \/ Server!bootstrapRuntimeDatabase
           \/ Server!openRuntimeStore \/ Server!applyStoredRuntimeState
    <2>1. /\ UNCHANGED <<root, task, gate, awaited, late>> /\ phase \in {"config", "schema", "open", "state"}
          /\ \/ phase' \in {"schema", "open", "state", "build"} /\ result' = result
             \/ phase' = "exited" /\ result' = "failed"
        BY Zenon, <1>1 DEF Server!loadAndValidateRuntimeConfig, Server!bootstrapRuntimeDatabase,
           Server!openRuntimeStore, Server!applyStoredRuntimeState, Server!Exit
    <2>2. QED
        BY <1>0, <2>1, QuietStep, Zenon DEF ShuttingDown
<1>2. CASE Server!startBackgroundServices
    <2>1. CASE phase' = "serve" /\ result' = result
        <3>1. phase = "build" /\ \A t \in Server!Tasks : task'[t] \in {"none", "running"}
            BY Zenon, <1>2, <2>1 DEF Server!startBackgroundServices, Server!Exit
        <3>2. task' \in [Server!Tasks -> TaskStates]
            BY Zenon, <1>2, <2>1 DEF Server!startBackgroundServices, Server!Exit, TaskStates
        <3>3. QED
            BY <1>0, <2>1, <3>1, <3>2, Zenon DEF ServerInv, ShuttingDown
    <2>2. CASE phase' = "exited" /\ result' = "failed" /\ UNCHANGED <<task, gate, awaited, late>> /\ root'
        BY <2>2, QuietStep, Zenon DEF ShuttingDown
    <2>3. QED
        BY <1>2, <2>1, <2>2, Zenon DEF Server!startBackgroundServices, Server!Exit
<1>3. ASSUME NEW t \in Server!Tasks, Server!Arrives(t) PROVE ServerInv'
    <2>1. /\ phase = "serve" /\ task' = [task EXCEPT ![t] = "running"]
          /\ UNCHANGED <<phase, root, gate, awaited, late, result>>
        BY Zenon, <1>3 DEF Server!Arrives
    <2>2. /\ task' \in [Server!Tasks -> TaskStates]
          /\ \A u \in Server!Tasks : task'[u] = "asked" => task[u] = "asked"
        BY Zenon, <1>0, <2>1 DEF TaskStates
    <2>3. QED
        BY <1>0, <2>1, <2>2 DEF ServerInv, ShuttingDown
<1>4. ASSUME NEW t \in Server!Tasks, Server!HandleFeedSyncNow(t) PROVE ServerInv'
    <2>1. /\ phase \in {"serve", "drain"} /\ t \in Syncs /\ task' = [task EXCEPT ![t] = "asked"]
          /\ UNCHANGED <<phase, root, gate, awaited, late, result>>
        BY Zenon, <1>4 DEF Server!HandleFeedSyncNow, Server!Serving
    <2>2. /\ task' \in [Server!Tasks -> TaskStates]
          /\ \A u \in Server!Tasks : task'[u] = "asked" => task[u] = "asked" \/ u \in Syncs
        BY Zenon, <1>0, <2>1 DEF TaskStates
    <2>3. QED
        BY Zenon, <1>0, <2>1, <2>2 DEF ServerInv, ShuttingDown
<1>5. ASSUME NEW t \in Server!Tasks, Server!RunManualFeedSync(t) PROVE ServerInv'
    <2>1. /\ task[t] = "asked" /\ task' = [task EXCEPT ![t] = IF gate THEN "ended" ELSE "running"]
          /\ UNCHANGED <<phase, root, gate, awaited, late, result>>
        BY Zenon, <1>5 DEF Server!RunManualFeedSync, Server!beginManualSyncTask
    <2>2. t \in Syncs /\ t \notin Services /\ t \notin Requests
        BY Zenon, <1>0, <2>1 DEF ServerInv
    <2>3. CASE gate
        BY <2>1, <2>3, TaskEnds, Zenon
    <2>4. CASE ~gate
        <3>1. /\ task' \in [Server!Tasks -> TaskStates]
              /\ \A u \in Server!Tasks \ {t} : task'[u] = task[u]
              /\ task'[t] = "running"
            BY Zenon, <1>0, <2>1, <2>4 DEF TaskStates
        <3>2. ShuttingDown => "repairs" \in awaited
            BY Zenon, <2>4 DEF ServerInv
        <3>3. QED
            BY <1>0, <2>1, <2>2, <2>4, <3>1, <3>2, Zenon DEF ServerInv, ShuttingDown, Server!Stopped
    <2>5. QED
        BY Zenon, <2>3, <2>4
<1>6. ASSUME NEW t \in Server!Tasks, Server!Ends(t) PROVE ServerInv'
    BY <1>6, TaskEnds, Zenon DEF Server!Ends
<1>7. CASE Server!runAuditRetentionOnce \/ Server!Tick
    <2>1. UNCHANGED <<phase, root, task, gate, awaited, late, result>>
        BY Zenon, <1>7 DEF Server!runAuditRetentionOnce, Server!Tick
    <2>2. QED
        BY Zenon, <1>0, <2>1, QuietStep DEF ShuttingDown
<1>8. CASE Server!Signal \/ Server!armHardExitDeadline
    <2>1. /\ UNCHANGED <<task, gate, awaited, late>> /\ phase # "exited"
          /\ \/ phase' = phase /\ result' = result
             \/ phase' = "exited" /\ result' \in {"killed", "forced"}
        BY Zenon, <1>8 DEF Server!Signal, Server!armHardExitDeadline, Server!Exit
    <2>2. ~root \/ root' = root
        BY Zenon, <1>8 DEF Server!Signal, Server!armHardExitDeadline
    <2>3. QED
        BY <1>0, <2>1, <2>2, QuietStep DEF ShuttingDown
<1>9. CASE Server!Run
    BY <1>0, <1>9, QuietStep DEF Server!Run, ShuttingDown
<1>10. CASE Server!shutdown
    <2>1. /\ phase = "drain" /\ phase' = "wait" /\ awaited' = Services /\ root'
          /\ UNCHANGED <<task, gate, result>>
          /\ Server!Running(Requests) = {} \/ "http" \in late'
        BY Zenon, <1>10 DEF Server!shutdown
    <2>2. QED
        BY Zenon, <1>0, <2>1 DEF ServerInv, ShuttingDown, Server!Running
<1>11. CASE Server!WaitSteps
    <2>1. phase \in {"wait", "close"} /\ UNCHANGED <<phase, root, task, late, result>>
        BY Zenon, <1>11 DEF Server!WaitSteps
    <2>2. CASE Server!waitManualSyncTasks
        BY <2>1, <2>2 DEF Server!waitManualSyncTasks, ServerInv, ShuttingDown, Server!Stopped
    <2>3. ASSUME NEW s \in awaited, Server!waitService(s) PROVE ServerInv'
        <3>1. /\ task[s] # "running" /\ awaited' = awaited \ {s} /\ gate' = gate
              /\ s = "repairs" => gate /\ \A t \in Syncs : task[t] # "running"
            BY Zenon, <2>3 DEF Server!waitService, Server!Running
        <3>2. QED
            BY <2>1, <3>1 DEF ServerInv, ShuttingDown, Server!Stopped
    <2>4. QED
        BY <1>11, <2>2, <2>3 DEF Server!WaitSteps
<1>12. CASE Server!Wait
    <2>1. /\ phase = "wait" /\ phase' = "close" /\ UNCHANGED <<root, task, gate, awaited, result>>
          /\ late \subseteq late'
          /\ Server!Stopped \/ "background" \in late'
        BY Zenon, <1>12 DEF Server!Wait
    <2>2. ShuttingDown /\ result' # "returned" /\ (Server!Stopped' <=> Server!Stopped)
        BY <1>0, <2>1 DEF ShuttingDown, Server!Stopped
    <2>3. QED
        BY <2>1, <2>2 DEF ServerInv
<1>13. CASE Server!shutdownRuntime
    BY <1>0, <1>13, QuietStep, Zenon DEF Server!shutdownRuntime, Server!Exit, ShuttingDown
<1>14. CASE UNCHANGED serverVars
    BY <1>0, <1>14, QuietStep DEF serverVars, ShuttingDown
<1>15. ASSUME NEW t \in Server!Tasks, Server!ScheduleReversingLabsAsync(t) PROVE ServerInv'
    <2>1. /\ ~root /\ t \in Detached /\ task' = [task EXCEPT ![t] = "running"]
          /\ UNCHANGED <<phase, root, gate, awaited, late, result>>
        BY Zenon, <1>15 DEF Server!ScheduleReversingLabsAsync
    <2>2. /\ task' \in [Server!Tasks -> TaskStates]
          /\ \A u \in Server!Tasks : task'[u] = "asked" => task[u] = "asked"
        BY Zenon, <1>0, <2>1 DEF TaskStates
    <2>3. ~ShuttingDown /\ phase # "close" /\ result # "returned"
        BY Zenon, <2>1 DEF ServerInv, ShuttingDown
    <2>4. QED
        BY Zenon, <2>1, <2>2, <2>3 DEF ServerInv, ShuttingDown
<1>16. QED
    BY <1>1, <1>2, <1>3, <1>4, <1>5, <1>6, <1>7, <1>8, <1>9, <1>10, <1>11, <1>12, <1>13, <1>14, <1>15, Zenon DEF Server!Next

LEMMA ServerInvImplies == ServerInv => Server!CloseAwaitsUsers
<1> SUFFICES ASSUME ServerInv, result = "returned"
             PROVE  /\ Server!Running(Requests) # {} => "http" \in late
                    /\ Server!Running(Services \cup Syncs) # {} => "background" \in late
                    /\ Server!Running(Detached) # {} => root
    BY Zenon DEF Server!CloseAwaitsUsers
<1>1. /\ \A t \in Requests : task[t] = "running" => "http" \in late
      /\ \A t \in Services \ awaited : task[t] # "running"
      /\ "repairs" \notin awaited => \A t \in Syncs : task[t] # "running"
      /\ "background" \in late \/ awaited = {}
      /\ root
    BY Zenon DEF ServerInv, ShuttingDown, Server!Stopped
<1>2. QED
    BY Zenon, <1>1 DEF Server!Running

LEMMA ServerStarts == Server!Init \/ ServerEnded => ServerInv
<1>1. ASSUME Server!Init PROVE ServerInv
    BY Zenon, <1>1 DEF Server!Init, ServerInv, ShuttingDown, TaskStates
<1>2. ASSUME ServerEnded PROVE ServerInv
    <2>1. \A t \in Server!Tasks : task[t] = "none"
        BY Zenon, <1>2 DEF ServerEnded
    <2>2. Requests \subseteq Server!Tasks /\ Services \subseteq Server!Tasks /\ Syncs \subseteq Server!Tasks
        BY Zenon DEF Server!Tasks
    <2>3. QED
        BY <1>2, <2>1, <2>2 DEF ServerEnded, ServerInv, ShuttingDown, TaskStates, Server!Stopped
<1>3. QED
    BY Zenon, <1>1, <1>2

-----------------------------------------------------------------------------
(* The three together *)

\* A processor that returned before the behaviour begins has counted every
\* worker.
LEMMA EndedIInv ==
    ASSUME Sizes, QueueEnded
    PROVE  IInv
<1>0. Total \in Nat
    BY Zenon, LiveFinite
<1>1. TypeOK
    BY <1>0 DEF QueueEnded, TypeOK, Errors, maxWorkerRestarts
<1>2. /\ done = <<>> /\ exited = Total /\ pc = "returned" /\ cancelled = TRUE
      /\ \A w \in Workers : running[w] = 0 /\ waiting[w] = 0
    BY Zenon DEF QueueEnded
<1>3. Live = {} /\ \A w \in Workers : running[w] + waiting[w] <= 1
    BY <1>2 DEF Live
<1>4. Cardinality(Live) = 0
    BY Zenon, <1>3 DEF Sizes
<1>5. ExitsAccounted
    BY <1>0, <1>2, <1>4 DEF ExitsAccounted
<1>6. QED
    BY <1>0, <1>1, <1>2, <1>3, <1>5 DEF IInv

-----------------------------------------------------------------------------
(* The theorems *)

INSTANCE FiniteSetTheorems

LEMMA SizesHold == IsFiniteSet(Workers) => Sizes
<1> SUFFICES ASSUME IsFiniteSet(Workers), NEW S \in SUBSET Workers
             PROVE  /\ Cardinality({}) = 0 /\ \A k \in Nat : Cardinality({k}) = 1
                    /\ Cardinality(S) \in Nat /\ (Cardinality(S) = 0 <=> S = {})
                    /\ \A w \in Workers \ S : Cardinality(S \cup {w}) = Cardinality(S) + 1
                    /\ \A w \in S : Cardinality(S \ {w}) = Cardinality(S) - 1
    BY DEF Sizes
<1>1. IsFiniteSet(S)
    BY FS_Subset, Zenon
<1>2. Cardinality({}) = 0 /\ \A k \in Nat : Cardinality({k}) = 1
    BY FS_EmptySet, FS_Singleton, Zenon
<1>3. Cardinality(S) \in Nat /\ (Cardinality(S) = 0 <=> S = {})
    BY <1>1, FS_CardinalityType, FS_EmptySet, Zenon
<1>4. \A w \in Workers \ S : Cardinality(S \cup {w}) = Cardinality(S) + 1
    BY <1>1, FS_AddElement, Zenon
<1>5. \A w \in S : Cardinality(S \ {w}) = Cardinality(S) - 1
    BY <1>1, FS_RemoveElement, Zenon
<1>6. QED
    BY <1>2, <1>3, <1>4, <1>5, Zenon

\* A worker is a goroutine, a backoff or a result at most once; a goroutine that
\* wants to report finds a free slot of the channel; and the workers not counted
\* as exited are those that run, wait or have reported, so that
\* drainWorkersOnShutdown waits for each exactly once.
THEOREM WorkersAccounted ==
    IsFiniteSet(Workers) => (Spec => [](TypeOK /\ OneGoroutinePerWorker /\ ReportNeverBlocks /\ ExitsAccounted))
<1> SUFFICES ASSUME Sizes
             PROVE  Spec => [](TypeOK /\ OneGoroutinePerWorker /\ ReportNeverBlocks /\ ExitsAccounted)
    BY SizesHold
<1>1. IInv /\ [Next]_vars => IInv'
    BY StepKeepsIInv
<1>2. IInv => TypeOK /\ OneGoroutinePerWorker /\ ReportNeverBlocks /\ ExitsAccounted
    BY IInvImplies
<1>3. QED
    BY <1>1, <1>2, InitIInv, PTL DEF Spec

\* Every step of Run and its goroutines is a step of the promised service, or
\* none: Run returns only on the shutdown signal and after the last goroutine,
\* and no worker runs afterwards.
THEOREM RefinesService ==
    IsFiniteSet(Workers) => (Spec => Service!Safety)
<1> SUFFICES ASSUME Sizes
             PROVE  Spec => Service!Safety
    BY SizesHold
<1>1. IInv /\ [Next]_vars => IInv'
    BY Zenon, StepKeepsIInv
<1>2. IInv /\ IInv' /\ [Next]_vars => [Service!Next]_Service!vars
    BY ServiceStep
<1>3. QED
    BY <1>1, <1>2, InitIInv, ServiceStart, PTL DEF Spec, Service!Safety

\* Whichever of the three runs, each invariant is kept.
LEMMA AllStart == AllInit => IInv /\ ServerInv /\ LookupInv
<1>1. Init \/ QueueEnded => IInv
    BY InitIInv, EndedIInv, SizesHold, TasksApart, Zenon
<1>2. QED
    BY <1>1, ServerStarts, LookupStarts, Zenon DEF AllInit

LEMMA AllStep ==
    ASSUME IInv /\ ServerInv /\ LookupInv, [AllNext]_allVars
    PROVE  (IInv /\ ServerInv /\ LookupInv)'
<1>1. [Next]_vars /\ [Server!Next]_serverVars /\ [Lookup!Next]_lookupVars
    BY Zenon DEF AllNext, allVars
<1>2. IInv'
    BY <1>1, StepKeepsIInv, SizesHold, TasksApart, Zenon
<1>3. ServerInv'
    BY <1>1, ServerStep, Zenon
<1>4. LookupInv'
    BY <1>1, LookupStep, Zenon
<1>5. QED
    BY <1>2, <1>3, <1>4, Zenon

\* For any finite set of workers and any services, syncs and requests: a worker
\* of the queue processor runs once, its report never blocks and is counted
\* once, and shutdownRuntime closes the pool under no request, service or
\* manual sync that a bounded wait has not given up on, and under the last-used
\* updater and the schedulings, which nobody waits for, only once their context
\* is cancelled.
THEOREM EveryGoroutineAccounted == AllSpec => []GoroutinesAccounted
<1>1. IInv /\ ServerInv /\ LookupInv => GoroutinesAccounted
    BY IInvImplies, ServerInvImplies, SizesHold, TasksApart, Zenon DEF GoroutinesAccounted
<1>2. QED
    BY <1>1, AllStart, AllStep, PTL DEF AllSpec

\* For any inventory, registry contents, number of workers and breaker
\* threshold: concurrent lookups of a key share one call, a cached answer is
\* not fetched again, and a phase nobody cancelled warns of every kind of
\* failure that left a lookup without an answer (packageUpdateCache and the
\* counters of registryLookupPhase).
THEOREM EveryLookupShared == AllSpec => []LookupsShared
<1>1. IInv /\ ServerInv /\ LookupInv => LookupsShared
    BY Zenon, LookupInvImplies
<1>2. QED
    BY <1>1, AllStart, AllStep, PTL DEF AllSpec

(* The inventory the version lookups resolve in the run *)

\* "a" is met twice and is its own parent, so that three lookups share two
\* answers; "c" is a pinned action.
Package(name, kind, installed, parents) ==
    [name |-> name, kind |-> kind, installed |-> installed, pinned |-> kind = "action",
     declared |-> 0, direct |-> parents = {}, parents |-> parents, mirror |-> FALSE, refs |-> {}]
Inventory == <<Package("a", "npm", 1, {"a"}), Package("a", "npm", 2, {}), Package("c", "action", 1, {})>>
Published == [a |-> {1, 2, 3}, c |-> {2}]
Ranges == [a |-> [a |-> {1, 2}, c |-> {}]]
=============================================================================
