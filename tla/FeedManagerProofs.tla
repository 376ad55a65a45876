-------------------------- MODULE FeedManagerProofs --------------------------
(***************************************************************************)
(* Why a feed has one sync and, but for what Start overtakes, one loop,    *)
(* for any number of registrations, manual syncs and refused writes, and   *)
(* however the passes of Start interleave with them.                       *)
(***************************************************************************)
EXTENDS FeedManager, TLAPS

Active(r) == loop[r] \notin {"none", "ended"}

\* The second pass of Start gave the feed a loop without waiting for this one.
Overtaken(r) == Enrichment /\ start.pc = "done" /\ regs[r].cancelled

\* A loop that runs is the one the next registration would wait for, or one that
\* Start has overtaken; its registration has a cancel function, which has been
\* called if it was replaced.
LoopInv(r) ==
    /\ r <= current
    /\ r = PreviousDone(current) \/ Overtaken(r)
    /\ IF r = current THEN regs[r].cancel ELSE regs[r].cancelled

\* Before Start there is no loop; the current registration is not cancelled, and
\* its loop ends with the server only.
IInv ==
    /\ TypeOK
    /\ \A r \in Loops : Active(r) => LoopInv(r)
    /\ start.pc = "begin" => PreviousDone(current) = 0
    /\ ~regs[current].cancelled /\ (loop[current] = "ended" => rootCancelled)
    /\ \A r \in done : loop[r] = "ended"
    /\ \A r \in Loops : r > current => loop[r] = "none"
    /\ \A r \in Loops \ Manuals : sync[r].pc # "idle" => loop[r] = "sync"
    /\ \A p, q \in Actors : Holds(p) /\ Holds(q) => p = q

\* What the other lemmas use of the bounds.
LEMMA Bounds ==
    /\ 1 \in Loops /\ Idle \in Syncs /\ MaxConfigs \in Nat /\ MaxAttempts \in Nat
    /\ MaxFailures \in Nat
BY ManagerAssumption DEF Loops, Idle, Syncs, SyncPlaces, Statuses

\* A loop begins at one of two places.
LEMMA BeginActive == Begin \in {"recover0", "recover"}
BY DEF Begin

\* A write of the row keeps its type, whether the store takes it or not.
LEMMA RecordTyped ==
    ASSUME NEW s \in Statuses, Record(s), status \in Statuses, failures \in 0..MaxFailures
    PROVE  status' \in Statuses /\ failures' \in 0..MaxFailures
BY Bounds DEF Record

\* The signal of a first sync does not move Start.
LEMMA SignalTyped ==
    ASSUME start \in Starts, SignalInitialDone
    PROVE  start' \in Starts /\ start'.pc = start.pc
<1>1. CASE start' = [start EXCEPT !.owed = 0]
    <2>1. 0 \in 0..Lost
        BY Bounds DEF Lost
    <2>2. QED
        BY <1>1, <2>1 DEF Starts
<1>2. CASE start' = start
    BY <1>2
<1>3. QED
    BY <1>1, <1>2 DEF SignalInitialDone

\* A registration is replaced by another.
LEMMA RegReplaced ==
    ASSUME NEW rs \in Seq(Regs), NEW i \in 1..Len(rs), NEW k \in Regs
    PROVE  /\ [rs EXCEPT ![i] = k] \in Seq(Regs) /\ Len([rs EXCEPT ![i] = k]) = Len(rs)
           /\ [rs EXCEPT ![i] = k][i] = k
           /\ \A j \in 1..Len(rs) : j # i => [rs EXCEPT ![i] = k][j] = rs[j]
OBVIOUS

LEMMA InitIInv == Init => IInv
<1> SUFFICES ASSUME Init PROVE IInv
    OBVIOUS
<1>1. PICK kind \in Kinds : regs = <<Registration(kind)>>
    BY DEF Init
<1>2. PICK onStart \in BOOLEAN : start = [pc |-> "begin", onStart |-> onStart, owed |-> 0]
    BY DEF Init
<1>3. Registration(kind) \in Regs /\ PreviousDone(current) = 0 /\ ~regs[current].cancelled
      /\ current = 1 /\ regs \in Seq(Regs)
    <2>1. Registration(kind) \in Regs
        BY Bounds DEF Registration, Regs
    <2>2. current = 1 /\ regs[1] = Registration(kind) /\ regs \in Seq(Regs)
        BY <1>1, <2>1 DEF current
    <2>3. QED
        BY <2>1, <2>2 DEF PreviousDone, Registration
<1>4. start \in Starts
    BY <1>2, Bounds DEF Starts, Lost
<1>5. \A p \in Actors : sync[p] = Idle /\ sync[p].pc = "idle"
    BY DEF Init, Idle
<1>6. sync \in [Actors -> Syncs]
    BY Bounds DEF Init
<1>7. loop \in [Loops -> LoopPlaces] /\ \A r \in Loops : loop[r] = "none"
    BY DEF Init, LoopPlaces
<1>8. TypeOK
    <2>1. failures \in 0..MaxFailures /\ current \in Loops
        BY <1>3, Bounds DEF Init
    <2>2. QED
        BY <1>3, <1>4, <1>6, <1>7, <2>1, Zenon DEF TypeOK, Init
<1>9. \A r \in Loops : ~Active(r)
    BY <1>7 DEF Active
<1>10. \A p \in Actors : ~Holds(p)
    BY <1>5 DEF Holds
<1>11. loop[current] # "ended" /\ done = {}
    BY <1>3, <1>7, Bounds DEF Init
<1>12. \A r \in Loops \ Manuals : sync[r].pc = "idle"
    BY <1>5 DEF Actors
<1>13. QED
    BY <1>3, <1>7, <1>8, <1>9, <1>10, <1>11, <1>12 DEF IInv

-----------------------------------------------------------------------------
(* Registrations and their loops *)

\* The current registration and the one the next would wait for have their types.
LEMMA PreviousTyped ==
    ASSUME TypeOK
    PROVE  /\ current \in Nat /\ current \in Loops /\ regs[current] \in Regs
           /\ regs \in Seq(Regs) /\ current \in 1..Len(regs) /\ PreviousDone(current) \in 0..MaxConfigs
<1>1. current \in Nat /\ current \in Loops /\ regs \in Seq(Regs) /\ current \in 1..Len(regs)
    BY Bounds DEF TypeOK, Regs, Loops, current
<1>2. regs[current] \in Regs
    BY <1>1
<1>3. PreviousDone(current) \in 0..MaxConfigs
    BY <1>1, <1>2, Bounds DEF PreviousDone, Regs, Loops
<1>4. QED
    BY <1>1, <1>2, <1>3

\* Before Start has made its first pass no loop runs.
LEMMA NoneBeforeStart ==
    ASSUME IInv, start.pc = "begin"
    PROVE  \A r \in Loops : ~Active(r)
<1> SUFFICES ASSUME NEW r \in Loops, Active(r) PROVE FALSE
    OBVIOUS
<1>1. LoopInv(r) /\ PreviousDone(current) = 0
    BY DEF IInv
<1>2. r # 0
    BY DEF Loops
<1>3. QED
    BY <1>1, <1>2 DEF LoopInv, Overtaken

\* A step that leaves loops and syncs alone, and of the registrations what
\* cancels them and what the next one waits for.
LEMMA QuietKeepsIInv ==
    ASSUME IInv, UNCHANGED <<loop, done, sync>>,
           regs' \in Seq(Regs), Len(regs') = Len(regs),
           \A q \in 1..Len(regs) : regs'[q].cancel = regs[q].cancel /\ regs'[q].cancelled = regs[q].cancelled,
           PreviousDone(current)' = PreviousDone(current),
           start' \in Starts, start.pc = "done" => start'.pc = "done",
           start'.pc = "begin" => start.pc = "begin",
           status' \in Statuses /\ failures' \in 0..MaxFailures /\ apply' \in {"none", "disabled"},
           phase1Done' \in BOOLEAN /\ rootCancelled' \in BOOLEAN, rootCancelled => rootCancelled'
    PROVE  IInv'
<1>1. current' = current /\ current \in 1..Len(regs) /\ current \in Loops /\ current \in Nat
    BY PreviousTyped DEF IInv, current
<1>2. TypeOK'
    BY <1>1, Zenon DEF IInv, TypeOK
<1>3. \A r \in Loops : Active(r)' => LoopInv(r)'
    <2> SUFFICES ASSUME NEW r \in Loops, Active(r)' PROVE LoopInv(r)'
        OBVIOUS
    <2>1. LoopInv(r)
        BY DEF IInv, Active
    <2>2. r \in 1..Len(regs)
        BY <2>1 DEF LoopInv, current, Loops
    <2>3. QED
        BY <1>1, <2>1, <2>2 DEF LoopInv, Overtaken
<1>4. start'.pc = "begin" => PreviousDone(current)' = 0
    BY DEF IInv
<1>5. ~regs'[current'].cancelled /\ (loop'[current'] = "ended" => rootCancelled')
    BY <1>1 DEF IInv
<1>6. QED
    BY <1>1, <1>2, <1>3, <1>4, <1>5 DEF IInv, Holds

\* The current registration gets its loop, and what else runs is overtaken.
LEMMA LaunchKeepsIInv ==
    ASSUME IInv, NEW k \in Regs, k.cancel, ~k.cancelled, ~regs[current].cancel, ~rootCancelled,
           regs' = [regs EXCEPT ![current] = k], loop' = [loop EXCEPT ![current] = Begin],
           UNCHANGED <<done, sync, status, apply, env, failures>>,
           start' \in Starts, start'.pc # "begin",
           \A q \in Loops : Active(q) => Enrichment /\ start'.pc = "done" /\ regs[q].cancelled
    PROVE  IInv'
<1>1. TypeOK /\ current \in Nat /\ current \in Loops /\ regs \in Seq(Regs) /\ current \in 1..Len(regs)
    BY PreviousTyped DEF IInv
<1>2. regs' \in Seq(Regs) /\ current' = current /\ regs'[current] = k
      /\ \A q \in 1..Len(regs) : q # current => regs'[q] = regs[q]
    BY <1>1, RegReplaced DEF current
<1>3. PreviousDone(current)' = current
    BY <1>2 DEF PreviousDone
<1>4. loop' \in [Loops -> LoopPlaces] /\ \A q \in Loops : loop'[q] = IF q = current THEN Begin ELSE loop[q]
    BY <1>1, BeginActive DEF TypeOK, LoopPlaces
<1>5. TypeOK'
    BY <1>1, <1>2, <1>4, Zenon DEF TypeOK, env
<1>6. ~Active(current) /\ loop[current] = "none" /\ current \notin done
    <2>1. ~Active(current)
        BY <1>1 DEF IInv, LoopInv
    <2>2. loop[current] # "ended"
        BY DEF IInv
    <2>3. QED
        BY <2>1, <2>2 DEF IInv, Active
<1>7. \A r \in Loops : Active(r)' => LoopInv(r)'
    <2> SUFFICES ASSUME NEW r \in Loops, Active(r)' PROVE LoopInv(r)'
        OBVIOUS
    <2>1. CASE r = current
        BY <1>1, <1>2, <1>3, <2>1 DEF LoopInv
    <2>2. CASE r # current
        <3>1. Active(r)
            BY <1>4, <2>2 DEF Active
        <3>2. r <= current /\ Enrichment /\ start'.pc = "done" /\ regs[r].cancelled
            BY <3>1 DEF IInv, LoopInv
        <3>a. r \in 1..Len(regs)
            BY <1>1, <3>2 DEF Loops, current
        <3>3. regs'[r] = regs[r]
            BY <1>2, <2>2, <3>a, Zenon
        <3>4. Overtaken(r)' /\ r <= current' /\ r # current' /\ regs'[r].cancelled
            BY <1>2, <2>2, <3>2, <3>3, Zenon DEF Overtaken
        <3>5. QED
            BY <3>4, Zenon DEF LoopInv
    <2>3. QED
        BY <2>1, <2>2
<1>8. ~regs'[current'].cancelled /\ loop'[current'] # "ended"
    BY <1>1, <1>2, <1>4, BeginActive
<1>9. \A q \in done' : loop'[q] = "ended"
    BY <1>1, <1>4, <1>6 DEF IInv, TypeOK
<1>10. \A q \in Loops : q > current' => loop'[q] = "none"
    BY <1>1, <1>2, <1>4 DEF IInv, Loops
<1>11. \A q \in Loops \ Manuals : sync'[q].pc # "idle" => loop'[q] = "sync"
    BY <1>4, <1>6 DEF IInv
<1>12. \A p, q \in Actors : Holds(p)' /\ Holds(q)' => p = q
    BY DEF IInv, Holds
<1>13. QED
    BY <1>5, <1>7, <1>8, <1>9, <1>10, <1>11, <1>12 DEF IInv

\* A step of one loop that is neither its start nor its end: the registrations,
\* the other loops and the mutex stay.
LEMMA LoopMoves ==
    ASSUME IInv, NEW r \in Loops, NEW place \in LoopPlaces \ {"none", "ended"},
           Active(r), loop' = [loop EXCEPT ![r] = place],
           sync[r].pc # "idle" /\ r \notin Manuals => place = "sync",
           UNCHANGED <<regs, done, apply, env>>, sync' = sync,
           start' \in Starts, start'.pc = start.pc,
           status' \in Statuses /\ failures' \in 0..MaxFailures
    PROVE  IInv'
<1>1. loop' \in [Loops -> LoopPlaces] /\ \A q \in Loops : loop'[q] = IF q = r THEN place ELSE loop[q]
    BY DEF IInv, TypeOK, LoopPlaces
<1>2. current' = current /\ PreviousDone(current)' = PreviousDone(current)
    BY DEF current, PreviousDone
<1>3. TypeOK'
    BY <1>1, <1>2, Zenon DEF IInv, TypeOK, env
<1>4. \A q \in Loops : Active(q)' => LoopInv(q)'
    <2> SUFFICES ASSUME NEW q \in Loops, Active(q)' PROVE LoopInv(q)'
        OBVIOUS
    <2>1. LoopInv(q)
        BY <1>1, Zenon DEF IInv, Active
    <2>2. QED
        BY <1>2, <2>1, Zenon DEF LoopInv, Overtaken
<1>a. (start'.pc = "begin" => PreviousDone(current)' = 0) /\ ~regs'[current'].cancelled
      /\ (loop'[current'] = "ended" => rootCancelled')
    BY <1>1, <1>2, PreviousTyped DEF IInv, env
<1>5. \A q \in done' : loop'[q] = "ended"
    <2>1. r \notin done
        BY DEF IInv, Active
    <2>2. QED
        BY <1>1, <2>1 DEF IInv, TypeOK
<1>6. \A q \in Loops : q > current' => loop'[q] = "none"
    BY <1>1, <1>2 DEF IInv, Active
<1>7. \A q \in Loops \ Manuals : sync'[q].pc # "idle" => loop'[q] = "sync"
    BY <1>1 DEF IInv
<1>8. \A p, q \in Actors : Holds(p)' /\ Holds(q)' => p = q
    BY DEF IInv, Holds
<1>9. QED
    BY <1>3, <1>4, <1>5, <1>6, <1>7, <1>8, <1>a DEF IInv

\* ApplyConfig: the new registration runs at once only if there is no loop to wait
\* for; the loop of the one it replaces is cancelled.
LEMMA ApplyConfigKeepsIInv ==
    ASSUME IInv, NEW kind \in Kinds, ApplyConfig(kind)
    PROVE  IInv'
<1> DEFINE new == current + 1
           previous == PreviousDone(current)
           run == kind = "self" /\ ~rootCancelled /\ start.pc # "begin"
           k == [regs[current] EXCEPT !.cancelled = @ \/ regs[current].cancel]
           old == [regs EXCEPT ![current].cancelled = @ \/ regs[current].cancel]
           reg == [Registration(kind) EXCEPT !.startAfter = previous,
                                             !.cancel = run /\ previous = 0,
                                             !.waits = run /\ previous # 0]
           place == IF run /\ previous = 0 THEN Begin ELSE "none"
<1>1. TypeOK /\ current \in Nat /\ current \in Loops /\ regs[current] \in Regs /\ regs \in Seq(Regs)
      /\ current \in 1..Len(regs) /\ previous \in 0..MaxConfigs
    BY PreviousTyped DEF IInv
<1>2. regs' = Append(old, reg) /\ loop' = [loop EXCEPT ![new] = place] /\ new \in Loops
      /\ apply' \in {"none", "disabled"} /\ UNCHANGED <<done, sync, status, start, env, failures>>
    BY <1>1, Bounds DEF ApplyConfig, Loops, Kinds
<1>3. old \in Seq(Regs) /\ Len(old) = current /\ old[current] = k
      /\ (\A q \in 1..current : q # current => old[q] = regs[q])
      /\ (regs[current].cancel => k.cancelled)
    <2>1. k \in Regs
        BY <1>1, Zenon DEF Regs
    <2>2. old = [regs EXCEPT ![current] = k]
        OBVIOUS
    <2>3. regs[current].cancel => k.cancelled
        BY <1>1 DEF Regs
    <2> HIDE DEF k, old
    <2>4. QED
        BY <1>1, <2>1, <2>2, <2>3, RegReplaced DEF current
<1>4. reg \in Regs /\ reg.cancel = (run /\ previous = 0) /\ reg.startAfter = previous /\ ~reg.cancelled
    <2>1. Registration(kind) \in Regs /\ ~Registration(kind).cancelled
        BY Bounds DEF Registration, Regs
    <2>2. (run /\ previous = 0) \in BOOLEAN /\ (run /\ previous # 0) \in BOOLEAN
        OBVIOUS
    <2> HIDE DEF previous, run
    <2>3. QED
        BY <1>1, <2>1, <2>2, Zenon DEF Regs
<1>5. place \in LoopPlaces /\ place # "ended" /\ (place # "none" => run /\ previous = 0)
    BY BeginActive DEF LoopPlaces
<1> HIDE DEF k, old, reg, place
<1>6. regs' \in Seq(Regs) /\ current' = new /\ regs'[new] = reg
      /\ \A q \in 1..current : regs'[q] = old[q]
    BY <1>2, <1>3, <1>4, <1>1 DEF current
<1>7. PreviousDone(current)' = IF run /\ previous = 0 THEN new ELSE previous
    <2> HIDE DEF run, previous
    <2>1. QED
        BY <1>4, <1>6, Zenon DEF PreviousDone
<1>8. /\ loop' \in [Loops -> LoopPlaces]
      /\ \A q \in Loops : loop'[q] = IF q = new THEN place ELSE loop[q]
    BY <1>1, <1>2, <1>5 DEF TypeOK
<1>9. loop[new] = "none"
    BY <1>1, <1>2 DEF IInv
<1>10. TypeOK'
    BY <1>1, <1>2, <1>6, <1>8, Zenon DEF TypeOK, env
<1>11. \A q \in Loops : Active(q)' => LoopInv(q)'
    <2> SUFFICES ASSUME NEW q \in Loops, Active(q)' PROVE LoopInv(q)'
        OBVIOUS
    <2>1. CASE q = new
        <3>1. place # "none"
            BY <1>8, <2>1 DEF Active
        <3>2. q = PreviousDone(current)' /\ q = current' /\ regs'[q].cancel
            BY <1>4, <1>5, <1>6, <1>7, <2>1, <3>1
        <3>3. q <= current'
            BY <1>1, <1>6, <2>1
        <3>4. QED
            BY <3>2, <3>3, Zenon DEF LoopInv
    <2>2. CASE q # new
        <3>1. Active(q)
            BY <1>8, <2>2 DEF Active
        <3>2. LoopInv(q) /\ q \in 1..current /\ q # 0
            BY <1>1, <3>1 DEF IInv, LoopInv, Loops
        <3>3. regs'[q].cancelled
            <4>1. CASE q = current
                BY <1>3, <1>6, <3>2, <4>1, Zenon DEF LoopInv
            <4>2. CASE q # current
                BY <1>3, <1>6, <3>2, <4>2, Zenon DEF LoopInv
            <4>3. QED
                BY <4>1, <4>2
        <3>4. q = PreviousDone(current)' \/ Overtaken(q)'
            <4>1. CASE q = previous
                BY <1>7, <3>2, <4>1
            <4>2. CASE Overtaken(q)
                BY <1>2, <3>3, <4>2, Zenon DEF Overtaken
            <4>3. QED
                BY <3>2, <4>1, <4>2 DEF LoopInv
        <3>5. q <= current' /\ q # current'
            BY <1>1, <1>6, <2>2, <3>2
        <3>6. QED
            BY <3>3, <3>4, <3>5, Zenon DEF LoopInv
    <2>3. QED
        BY <2>1, <2>2
<1>12. start'.pc = "begin" => PreviousDone(current)' = 0
    BY <1>2, <1>7 DEF IInv
<1>13. ~regs'[current'].cancelled /\ loop'[current'] # "ended"
    BY <1>2, <1>4, <1>5, <1>6, <1>8
<1>14. \A q \in done' : loop'[q] = "ended"
    <2>1. new \notin done
        BY <1>9 DEF IInv
    <2>2. QED
        BY <1>1, <1>2, <1>8, <2>1 DEF IInv, TypeOK
<1>15. \A q \in Loops : q > current' => loop'[q] = "none"
    <2> TAKE q \in Loops
    <2> HAVE q > current'
    <2>1. q > current /\ q # new
        BY <1>1, <1>6 DEF Loops
    <2>2. QED
        BY <1>8, <2>1 DEF IInv
<1>16. \A q \in Loops \ Manuals : sync'[q].pc # "idle" => loop'[q] = "sync"
    BY <1>2, <1>8, <1>9 DEF IInv
<1>17. \A p, q \in Actors : Holds(p)' /\ Holds(q)' => p = q
    BY <1>2 DEF IInv, Holds
<1>18. QED
    BY <1>10, <1>11, <1>12, <1>13, <1>14, <1>15, <1>16, <1>17 DEF IInv

\* startFeedAfterPreviousStopsLocked: when the done channel it waits for is
\* closed, what still runs has been overtaken.
LEMMA AfterPreviousKeepsIInv ==
    ASSUME IInv, NEW r \in Loops, AfterPrevious(r)
    PROVE  IInv'
<1> DEFINE go == r = current /\ regs[r].startAfter \in done /\ ~rootCancelled
           launch == go /\ ~regs[r].cancel
           k == [regs[r] EXCEPT !.waits = FALSE, !.startAfter = IF go THEN 0 ELSE @,
                                !.cancel = @ \/ launch]
<1>1. TypeOK /\ current \in Nat /\ current \in Loops /\ regs \in Seq(Regs) /\ current \in 1..Len(regs)
    BY PreviousTyped DEF IInv
<1>2. r \in 1..Len(regs) /\ regs[r] \in Regs
    BY <1>1 DEF AfterPrevious, Loops, current
<1>3. regs' = [regs EXCEPT ![r] = k] /\ UNCHANGED <<done, sync, status, apply, start, env, failures>>
      /\ loop' = IF launch THEN [loop EXCEPT ![r] = Begin] ELSE loop
    BY DEF AfterPrevious
<1>4. k \in Regs /\ k.cancel = (regs[r].cancel \/ launch) /\ k.cancelled = regs[r].cancelled
      /\ k.startAfter = IF go THEN 0 ELSE regs[r].startAfter
    <2>1. 0 \in 0..MaxConfigs
        BY Bounds
    <2> HIDE DEF go
    <2>2. QED
        BY <1>2, <2>1, Zenon DEF Regs
<1> HIDE DEF k
<1>5. start \in Starts /\ status \in Statuses /\ failures \in 0..MaxFailures /\ apply \in {"none", "disabled"}
      /\ phase1Done \in BOOLEAN /\ rootCancelled \in BOOLEAN
    BY <1>1, Zenon DEF TypeOK
<1>6. CASE launch
    <2>1. k.cancel /\ ~k.cancelled /\ ~regs[current].cancel /\ ~rootCancelled
        BY <1>4, <1>6 DEF IInv
    <2>2. \A q \in Loops : Active(q) => Enrichment /\ start'.pc = "done" /\ regs[q].cancelled
        <3> SUFFICES ASSUME NEW q \in Loops, Active(q)
                     PROVE  Enrichment /\ start'.pc = "done" /\ regs[q].cancelled
            OBVIOUS
        <3>1. PreviousDone(current) \in done
            BY <1>6, <2>1 DEF PreviousDone
        <3>2. q # PreviousDone(current)
            BY <3>1 DEF IInv, Active
        <3>3. QED
            BY <1>3, <3>2 DEF IInv, LoopInv, Overtaken
    <2>3. start'.pc # "begin"
        <3>1. PreviousDone(current) \in done /\ 0 \notin done
            BY <1>1, <1>6, <2>1 DEF PreviousDone, TypeOK, Loops
        <3>2. QED
            BY <1>3, <3>1 DEF IInv
    <2>4. r = current /\ loop' = [loop EXCEPT ![current] = Begin] /\ regs' = [regs EXCEPT ![current] = k]
        BY <1>3, <1>6
    <2> HIDE DEF go, launch
    <2>5. QED
        BY <1>3, <1>4, <1>5, <2>1, <2>2, <2>3, <2>4, LaunchKeepsIInv, Zenon
<1>7. CASE ~launch
    <2>1. regs' \in Seq(Regs) /\ Len(regs') = Len(regs) /\ regs'[r] = k
          /\ \A q \in 1..Len(regs) : q # r => regs'[q] = regs[q]
        BY <1>1, <1>2, <1>3, <1>4, RegReplaced
    <2>2. k.cancel = regs[r].cancel
        BY <1>2, <1>4, <1>7 DEF Regs
    <2>3. \A q \in 1..Len(regs) : regs'[q].cancel = regs[q].cancel /\ regs'[q].cancelled = regs[q].cancelled
        BY <1>4, <2>1, <2>2, Zenon
    <2>4. current' = current
        BY <2>1 DEF current
    <2>5. PreviousDone(current)' = PreviousDone(current)
        <3>1. CASE r # current
            BY <1>1, <2>1, <2>4, <3>1 DEF PreviousDone
        <3>2. CASE r = current /\ regs[r].cancel
            BY <2>1, <2>2, <2>4, <3>2 DEF PreviousDone
        <3>3. CASE r = current /\ ~regs[r].cancel
            BY <1>4, <1>7, <2>1, <2>2, <2>4, <3>3 DEF PreviousDone
        <3>4. QED
            BY <3>1, <3>2, <3>3
    <2> HIDE DEF go
    <2>6. QED
        BY <1>3, <1>5, <1>7, <2>1, <2>3, <2>5, QuietKeepsIInv DEF env
<1>8. QED
    BY <1>6, <1>7

\* A pass of Start gives the current registration its loop or leaves it alone.
LEMMA StartKeepsIInv ==
    ASSUME IInv, startFeedLocked(current, start.onStart) \/ UNCHANGED <<regs, loop>>,
           UNCHANGED <<done, sync, status, apply, env, failures>>,
           start' \in Starts, start'.pc # "begin", start.pc # "done",
           start.pc = "begin" \/ (Enrichment /\ start'.pc = "done") \/ UNCHANGED <<regs, loop>>
    PROVE  IInv'
<1>1. TypeOK /\ regs[current] \in Regs /\ start.onStart \in BOOLEAN
    BY PreviousTyped DEF IInv, TypeOK, Starts
<1>2. status \in Statuses /\ failures \in 0..MaxFailures /\ apply \in {"none", "disabled"}
      /\ phase1Done \in BOOLEAN /\ rootCancelled \in BOOLEAN /\ regs \in Seq(Regs)
    BY <1>1, Zenon DEF TypeOK
<1>3. CASE UNCHANGED <<regs, loop>>
    <2>1. PreviousDone(current)' = PreviousDone(current)
        BY <1>3 DEF PreviousDone, current
    <2>2. QED
        BY <1>2, <1>3, <2>1, QuietKeepsIInv DEF env
<1>4. CASE ~UNCHANGED <<regs, loop>>
    <2> DEFINE k == [regs[current] EXCEPT !.cancel = TRUE, !.onStart = start.onStart]
    <2>1. ~regs[current].cancel /\ ~rootCancelled
          /\ regs' = [regs EXCEPT ![current] = k] /\ loop' = [loop EXCEPT ![current] = Begin]
        BY <1>4 DEF startFeedLocked
    <2>2. k \in Regs /\ k.cancel /\ k.cancelled = regs[current].cancelled
        BY <1>1, Zenon DEF Regs
    <2> HIDE DEF k
    <2>3. ~k.cancelled
        BY <2>2 DEF IInv
    <2>4. \A q \in Loops : Active(q) => Enrichment /\ start'.pc = "done" /\ regs[q].cancelled
        <3> SUFFICES ASSUME NEW q \in Loops, Active(q)
                     PROVE  Enrichment /\ start'.pc = "done" /\ regs[q].cancelled
            OBVIOUS
        <3>1. start.pc # "begin"
            BY NoneBeforeStart, Zenon
        <3>2. regs[q].cancelled
            BY <2>1 DEF IInv, LoopInv
        <3>3. QED
            BY <1>4, <3>1, <3>2
    <2>5. QED
        BY <2>1, <2>2, <2>3, <2>4, LaunchKeepsIInv, Zenon
<1>5. QED
    BY <1>3, <1>4

LEMMA StartBaseKeepsIInv ==
    ASSUME IInv, StartBase
    PROVE  IInv'
<1>1. PICK owed \in 0..Lost, pc \in {"disabled", "enrich"} : start' = [start EXCEPT !.pc = pc, !.owed = owed]
    <2>1. current \in 0..Lost /\ 0 \in 0..Lost /\ Lost \in 0..Lost
        BY PreviousTyped, Bounds DEF IInv, Lost, Loops
    <2>2. regs[current].kind \in Kinds
        BY PreviousTyped DEF IInv, Regs
    <2>3. ~ShouldRun(current) => regs[current].kind = "disabled"
        BY <2>2 DEF ShouldRun, Kinds
    <2>4. QED
        BY <2>1, <2>3 DEF StartBase
<1>2. start' \in Starts /\ start'.pc # "begin"
    BY <1>1, Zenon DEF IInv, TypeOK, Starts
<1>3. start.pc = "begin" /\ UNCHANGED <<done, sync, status, apply, env, failures>>
      /\ (startFeedLocked(current, start.onStart) \/ UNCHANGED <<regs, loop>>)
    BY Zenon DEF StartBase
<1>4. QED
    BY <1>2, <1>3, StartKeepsIInv, Zenon

LEMMA StartEnrichmentKeepsIInv ==
    ASSUME IInv, StartEnrichment
    PROVE  IInv'
<1>1. start' \in Starts /\ start'.pc = "done"
    BY Zenon DEF StartEnrichment, IInv, TypeOK, Starts
<1>2. start.pc = "enrich" /\ UNCHANGED <<done, sync, status, apply, env, failures>>
      /\ ((Enrichment /\ startFeedLocked(current, start.onStart)) \/ UNCHANGED <<regs, loop>>)
    BY Zenon DEF StartEnrichment
<1>3. QED
    BY <1>1, <1>2, StartKeepsIInv, Zenon

\* finishFeedLoop closes the done channel of a loop that was cancelled.
LEMMA FinishKeepsIInv ==
    ASSUME IInv, NEW r \in Loops, FinishFeedLoop(r)
    PROVE  IInv'
<1> DEFINE k == [regs[r] EXCEPT !.cancel = @ /\ r # current]
<1>1. TypeOK /\ current \in Nat /\ current \in Loops /\ regs \in Seq(Regs) /\ current \in 1..Len(regs)
    BY PreviousTyped DEF IInv
<1>2. /\ loop[r] \in {"tick", "phase"} /\ Active(r) /\ Cancelled(r)
      /\ done' = done \union {r} /\ UNCHANGED <<sync, status, apply, start, env, failures>>
    BY DEF FinishFeedLoop, Active
<1>3. LoopInv(r) /\ r \in 1..Len(regs)
    <2>1. LoopInv(r)
        BY <1>2 DEF IInv
    <2>2. QED
        BY <2>1 DEF LoopInv, current, Loops
<1>4. regs[r] \in Regs
    BY <1>1, <1>3
<1>a. k \in Regs /\ k.cancelled = regs[r].cancelled
    BY <1>4, Zenon DEF Regs
<1>5. regs' = [regs EXCEPT ![r] = k] /\ loop' = [loop EXCEPT ![r] = "ended"]
    BY DEF FinishFeedLoop
<1> HIDE DEF k
<1>6. regs' \in Seq(Regs) /\ current' = current /\ regs'[r] = k
      /\ \A q \in 1..Len(regs) : q # r => regs'[q] = regs[q]
    BY <1>1, <1>3, <1>a, <1>5, RegReplaced DEF current
<1>7. loop' \in [Loops -> LoopPlaces] /\ \A q \in Loops : loop'[q] = IF q = r THEN "ended" ELSE loop[q]
    BY <1>1, <1>5 DEF TypeOK, LoopPlaces
<1>8. TypeOK'
    <2>1. done' \subseteq Loops
        BY <1>1, <1>2 DEF TypeOK
    <2>2. QED
        BY <1>1, <1>2, <1>6, <1>7, <2>1, Zenon DEF TypeOK, env
<1>9. \A q \in Loops : Active(q)' => LoopInv(q)'
    <2> SUFFICES ASSUME NEW q \in Loops, Active(q)' PROVE LoopInv(q)'
        OBVIOUS
    <2>1. q # r /\ Active(q)
        BY <1>7 DEF Active
    <2>2. LoopInv(q)
        BY <2>1 DEF IInv
    <2>3. regs'[q] = regs[q]
        BY <1>6, <2>1, <2>2 DEF LoopInv, current, Loops
    <2>4. q = PreviousDone(current) => PreviousDone(current)' = PreviousDone(current)
        <3> HAVE q = PreviousDone(current)
        <3>1. r # current
            BY <1>3, <2>1 DEF LoopInv, PreviousDone
        <3>2. QED
            BY <1>1, <1>6, <3>1 DEF PreviousDone
    <2>5. Overtaken(q) => Overtaken(q)'
        BY <1>2, <2>3 DEF Overtaken
    <2>6. QED
        BY <1>6, <2>2, <2>3, <2>4, <2>5, Zenon DEF LoopInv
<1>10. start'.pc # "begin"
    BY <1>2, NoneBeforeStart
<1>11. ~regs'[current'].cancelled /\ (loop'[current'] = "ended" => rootCancelled')
    <2>1. CASE r = current
        BY <1>2, <1>6, <1>a, <2>1 DEF IInv, Cancelled, env
    <2>2. CASE r # current
        BY <1>1, <1>2, <1>6, <1>7, <2>2 DEF IInv, env
    <2>3. QED
        BY <2>1, <2>2
<1>12. \A q \in done' : loop'[q] = "ended"
    BY <1>1, <1>2, <1>7 DEF IInv, TypeOK
<1>13. \A q \in Loops : q > current' => loop'[q] = "none"
    BY <1>2, <1>6, <1>7 DEF IInv, Active
<1>14. \A q \in Loops \ Manuals : sync'[q].pc # "idle" => loop'[q] = "sync"
    BY <1>2, <1>7 DEF IInv
<1>15. \A p, q \in Actors : Holds(p)' /\ Holds(q)' => p = q
    BY <1>2 DEF IInv, Holds
<1>16. QED
    BY <1>8, <1>9, <1>10, <1>11, <1>12, <1>13, <1>14, <1>15 DEF IInv

-----------------------------------------------------------------------------
(* Syncs *)

\* A sync begins at the wait for the mutex.
LEMMA SyncBegins ==
    ASSUME IInv, NEW p \in Actors, NEW reg \in 0..MaxConfigs,
           sync' = [sync EXCEPT ![p] = [Idle EXCEPT !.pc = "lock", !.reg = reg]],
           UNCHANGED <<regs, done, status, apply, env, failures>>,
           start' \in Starts, start'.pc = start.pc,
           \/ p \in Manuals /\ loop' = loop
           \/ p \in Loops /\ Active(p) /\ loop' = [loop EXCEPT ![p] = "sync"]
    PROVE  IInv'
<1> DEFINE k == [Idle EXCEPT !.pc = "lock", !.reg = reg]
<1>1. k \in Syncs /\ k.pc = "lock"
    BY Bounds, Zenon DEF Idle, Syncs, SyncPlaces
<1> HIDE DEF k
<1>2. sync' \in [Actors -> Syncs] /\ \A q \in Actors : sync'[q] = IF q = p THEN k ELSE sync[q]
    BY <1>1 DEF IInv, TypeOK, Syncs, k
<1>3. loop' \in [Loops -> LoopPlaces]
      /\ \A q \in Loops : loop'[q] = loop[q] \/ (q = p /\ Active(p) /\ loop'[q] = "sync")
    BY DEF IInv, TypeOK, LoopPlaces
<1>4. current' = current /\ PreviousDone(current)' = PreviousDone(current)
    BY DEF current, PreviousDone
<1>5. TypeOK'
    BY <1>2, <1>3, <1>4, Zenon DEF IInv, TypeOK, env
<1>6. \A q \in Loops : Active(q)' => LoopInv(q)'
    <2> SUFFICES ASSUME NEW q \in Loops, Active(q)' PROVE LoopInv(q)'
        OBVIOUS
    <2>1. LoopInv(q)
        BY <1>3, Zenon DEF IInv, Active
    <2>2. QED
        BY <1>4, <2>1, Zenon DEF LoopInv, Overtaken
<1>a. (start'.pc = "begin" => PreviousDone(current)' = 0) /\ ~regs'[current'].cancelled
      /\ (loop'[current'] = "ended" => rootCancelled')
    BY <1>3, <1>4, PreviousTyped DEF IInv, env
<1>7. \A q \in done' : loop'[q] = "ended"
    BY <1>3 DEF IInv, TypeOK, Active
<1>8. \A q \in Loops : q > current' => loop'[q] = "none"
    BY <1>3, <1>4 DEF IInv, Active
<1>9. \A q \in Loops \ Manuals : sync'[q].pc # "idle" => loop'[q] = "sync"
    BY <1>2, <1>3 DEF IInv, Actors
<1>10. \A q \in Actors : Holds(q)' => Holds(q)
    BY <1>1, <1>2 DEF Holds
<1>11. QED
    BY <1>5, <1>6, <1>7, <1>8, <1>9, <1>10, <1>a DEF IInv

\* A sync goes on to its next place, or returns to its loop; it takes the mutex
\* only when nobody holds it.
LEMMA SyncMoves ==
    ASSUME IInv, NEW p \in Actors, NEW k \in Syncs, sync[p].pc # "idle",
           sync' = [sync EXCEPT ![p] = k],
           loop' = IF p \notin Manuals /\ k.pc = "idle" THEN [loop EXCEPT ![p] = "tick"] ELSE loop,
           k.pc \in HoldPlaces => Holds(p) \/ \A q \in Actors : ~Holds(q),
           UNCHANGED <<regs, done, apply, env>>, start' \in Starts, start'.pc = start.pc,
           status' \in Statuses /\ failures' \in 0..MaxFailures
    PROVE  IInv'
<1>1. sync' \in [Actors -> Syncs] /\ \A q \in Actors : sync'[q] = IF q = p THEN k ELSE sync[q]
    BY DEF IInv, TypeOK, Syncs
<1>2. p \notin Manuals => p \in Loops /\ loop[p] = "sync"
    BY DEF IInv, Actors
<1>3. loop' \in [Loops -> LoopPlaces]
      /\ \A q \in Loops : loop'[q] = IF q = p /\ p \notin Manuals /\ k.pc = "idle" THEN "tick" ELSE loop[q]
    BY <1>2 DEF IInv, TypeOK, LoopPlaces
<1>4. current' = current /\ PreviousDone(current)' = PreviousDone(current)
    BY DEF current, PreviousDone
<1>5. TypeOK'
    BY <1>1, <1>3, <1>4, Zenon DEF IInv, TypeOK, env
<1>6. \A q \in Loops : Active(q)' => LoopInv(q)'
    <2> SUFFICES ASSUME NEW q \in Loops, Active(q)' PROVE LoopInv(q)'
        OBVIOUS
    <2>1. Active(q)
        BY <1>2, <1>3 DEF Active
    <2>2. LoopInv(q)
        BY <2>1 DEF IInv
    <2>3. QED
        BY <1>4, <2>2, Zenon DEF LoopInv, Overtaken
<1>a. (start'.pc = "begin" => PreviousDone(current)' = 0) /\ ~regs'[current'].cancelled
      /\ (loop'[current'] = "ended" => rootCancelled')
    BY <1>3, <1>4, PreviousTyped DEF IInv, env
<1>7. \A q \in done' : loop'[q] = "ended"
    BY <1>2, <1>3 DEF IInv, TypeOK
<1>8. \A q \in Loops : q > current' => loop'[q] = "none"
    BY <1>2, <1>3, <1>4 DEF IInv
<1>9. \A q \in Loops \ Manuals : sync'[q].pc # "idle" => loop'[q] = "sync"
    BY <1>1, <1>2, <1>3 DEF IInv, Actors
<1>10. \A q, o \in Actors : Holds(q)' /\ Holds(o)' => q = o
    BY <1>1 DEF IInv, Holds, HoldPlaces
<1>11. QED
    BY <1>5, <1>6, <1>7, <1>8, <1>9, <1>10, <1>a DEF IInv

\* The same for the steps that end with Return.
LEMMA ReturnKeepsIInv ==
    ASSUME IInv, NEW p \in Actors, NEW next \in SyncPlaces, sync[p].pc # "idle", Return(p, next),
           next \in HoldPlaces => Holds(p) \/ \A q \in Actors : ~Holds(q),
           UNCHANGED <<regs, done, apply, env>>,
           status' \in Statuses /\ failures' \in 0..MaxFailures
    PROVE  IInv'
<1> DEFINE k == IF next = "idle" THEN Idle ELSE [sync[p] EXCEPT !.pc = next]
<1>1. sync[p] \in Syncs
    BY DEF IInv, TypeOK, Syncs
<1>2. k \in Syncs /\ k.pc = next
    <2>1. CASE next = "idle"
        BY <2>1, Bounds DEF Idle
    <2>2. CASE next # "idle"
        BY <1>1, <2>2 DEF Syncs, SyncPlaces
    <2>3. QED
        BY <2>1, <2>2
<1>3. sync' = [sync EXCEPT ![p] = k]
    BY DEF Return
<1> HIDE DEF k
<1>4. loop' = IF p \notin Manuals /\ k.pc = "idle" THEN [loop EXCEPT ![p] = "tick"] ELSE loop
    BY <1>2 DEF Return
<1>5. start' \in Starts /\ start'.pc = start.pc
    BY SignalTyped DEF Return, IInv, TypeOK
<1>6. QED
    BY <1>2, <1>3, <1>4, <1>5, SyncMoves, Zenon

-----------------------------------------------------------------------------
(* The theorem *)

LEMMA LoopStepKeepsIInv ==
    ASSUME IInv, NEW r \in Loops, LoopStep(r) \/ Tick(r)
    PROVE  IInv'
<1> USE DEF LoopPlaces, env
<1>1. status \in Statuses /\ failures \in 0..MaxFailures /\ r \in Actors /\ r \in 0..MaxConfigs
      /\ {"error", "pending"} \subseteq Statuses
    BY Bounds DEF IInv, TypeOK, Actors, Loops, Statuses
<1>2. loop[r] # "sync" => sync[r].pc = "idle" \/ r \in Manuals
    BY DEF IInv
<1>a. start \in Starts /\ (SignalInitialDone => start' \in Starts /\ start'.pc = start.pc)
    BY SignalTyped DEF IInv, TypeOK
<1>3. CASE AfterPrevious(r)
    BY <1>3, AfterPreviousKeepsIInv
<1>4. CASE RecoverRead(r)
    <2>1. PICK place \in {"fix0", "fix", "phase", "initial"} : loop' = [loop EXCEPT ![r] = place]
        BY <1>4, Zenon DEF RecoverRead
    <2>2. Active(r) /\ UNCHANGED <<regs, done, sync, status, apply, start, env, failures>> /\ loop[r] # "sync"
        BY <1>4 DEF RecoverRead, Active
    <2>3. QED
        BY <1>1, <1>2, <2>1, <2>2, <1>a, LoopMoves, Zenon
<1>5. CASE RecoverWrite(r)
    <2>1. PICK place \in {"phase", "initial"} : loop' = [loop EXCEPT ![r] = place]
        BY <1>5, Zenon DEF RecoverWrite
    <2>2. Active(r) /\ UNCHANGED <<regs, done, sync, apply, start, env>> /\ loop[r] # "sync"
        BY <1>5 DEF RecoverWrite, Active
    <2>3. status' \in Statuses /\ failures' \in 0..MaxFailures
        BY <1>1, <1>5, RecordTyped DEF RecoverWrite
    <2>4. QED
        BY <1>2, <2>1, <2>2, <2>3, <1>a, LoopMoves, Zenon
<1>6. CASE PhaseReached(r)
    <2>1. Active(r) /\ UNCHANGED <<regs, done, sync, status, apply, start, env, failures>> /\ loop[r] # "sync"
          /\ loop' = [loop EXCEPT ![r] = "recover"]
        BY <1>6 DEF PhaseReached, Active
    <2>2. QED
        BY <1>1, <1>2, <2>1, <1>a, LoopMoves, Zenon
<1>7. CASE Initial(r)
    <2>1. Active(r) /\ UNCHANGED <<regs, done, status, apply, env, failures>> /\ loop[r] # "sync"
          /\ SignalInitialDone
        BY <1>7 DEF Initial, Active
    <2>2. CASE \E place \in {"pending", "tick"} : loop' = [loop EXCEPT ![r] = place] /\ UNCHANGED sync
        <3>1. PICK place \in {"pending", "tick"} : loop' = [loop EXCEPT ![r] = place] /\ UNCHANGED sync
            BY <2>2, Zenon
        <3>2. QED
            BY <1>1, <1>2, <2>1, <3>1, <1>a, LoopMoves, Zenon
    <2>3. CASE /\ loop' = [loop EXCEPT ![r] = "sync"]
               /\ sync' = [sync EXCEPT ![r] = [Idle EXCEPT !.pc = "lock", !.reg = r]]
        BY <1>1, <2>1, <2>3, <1>a, SyncBegins, Zenon
    <2>4. QED
        BY <1>7, <2>2, <2>3 DEF Initial
<1>8. CASE RecordPending(r)
    <2>1. Active(r) /\ UNCHANGED <<regs, done, sync, apply, env>> /\ loop[r] # "sync"
          /\ loop' = [loop EXCEPT ![r] = "tick"] /\ SignalInitialDone
        BY <1>8 DEF RecordPending, Active
    <2>2. status' \in Statuses /\ failures' \in 0..MaxFailures
        BY <1>1, <1>8, RecordTyped DEF RecordPending
    <2>3. QED
        BY <1>2, <2>1, <2>2, <1>a, LoopMoves, Zenon
<1>9. CASE FinishFeedLoop(r)
    BY <1>9, FinishKeepsIInv
<1>10. CASE Tick(r)
    <2>1. Active(r) /\ UNCHANGED <<regs, done, status, apply, start, env, failures>>
          /\ loop' = [loop EXCEPT ![r] = "sync"]
          /\ sync' = [sync EXCEPT ![r] = [Idle EXCEPT !.pc = "lock", !.reg = r]]
        BY <1>10 DEF Tick, Active
    <2>2. QED
        BY <1>1, <2>1, <1>a, SyncBegins, Zenon
<1>11. QED
    BY <1>3, <1>4, <1>5, <1>6, <1>7, <1>8, <1>9, <1>10 DEF LoopStep

LEMMA SyncStepKeepsIInv ==
    ASSUME IInv, NEW p \in Actors, SyncStep(p)
    PROVE  IInv'
<1> USE DEF SyncPlaces, HoldPlaces
<1>1. /\ status \in Statuses /\ failures \in 0..MaxFailures /\ sync[p] \in Syncs
      /\ {"running", "permanent_error", "success", "error", "skipped"} \subseteq Statuses
      /\ sync[p].out \in Statuses /\ sync[p].attempt \in Nat
    BY Bounds DEF IInv, TypeOK, Syncs, Statuses
<1>a. start \in Starts
    BY DEF IInv, TypeOK
<1>2. AfterSync(p) \in {"perm", "idle"}
    BY DEF AfterSync
<1>3. CASE AcquireSyncLock(p)
    <2>1. \A q \in Actors : ~Holds(q)
        BY <1>3 DEF AcquireSyncLock, SyncMu
    <2>2. PICK next \in {"idle", "check"} : Return(p, next)
        BY <1>3 DEF AcquireSyncLock
    <2>3. sync[p].pc # "idle" /\ UNCHANGED <<regs, done, status, apply, env, failures>>
        BY <1>3 DEF AcquireSyncLock
    <2>4. QED
        BY <1>1, <2>1, <2>2, <2>3, ReturnKeepsIInv
<1>4. CASE LockNotAcquired(p)
    <2>1. sync[p].pc # "idle" /\ Return(p, "idle") /\ UNCHANGED <<regs, done, status, apply, env, failures>>
        BY <1>4 DEF LockNotAcquired
    <2>2. QED
        BY <1>1, <2>1, ReturnKeepsIInv
<1>5. CASE CheckRunning(p)
    <2>1. PICK next \in {"running", "attempt"} : Return(p, next)
        BY <1>5 DEF CheckRunning
    <2>2. Holds(p) /\ sync[p].pc # "idle" /\ UNCHANGED <<regs, done, status, apply, env, failures>>
        BY <1>5 DEF CheckRunning, Holds
    <2>3. QED
        BY <1>1, <2>1, <2>2, ReturnKeepsIInv
<1>6. CASE RecordRunningStatus(p)
    <2>1. PICK next \in {"attempt", "idle"} : Return(p, next)
        BY <1>6 DEF RecordRunningStatus
    <2>2. Holds(p) /\ sync[p].pc # "idle" /\ UNCHANGED <<regs, done, apply, env>>
        BY <1>6 DEF RecordRunningStatus, Holds
    <2>3. status' \in Statuses /\ failures' \in 0..MaxFailures
        BY <1>1, <1>6, RecordTyped DEF RecordRunningStatus, Record
    <2>4. QED
        BY <2>1, <2>2, <2>3, ReturnKeepsIInv
<1>7. CASE Attempt(p)
    <2>1. Holds(p) /\ sync[p].pc = "attempt" /\ UNCHANGED <<loops, status, apply, start, env, failures>>
        BY <1>7 DEF Attempt, Holds
    <2>2. CASE \E out \in Statuses : sync' = [sync EXCEPT ![p].pc = "final", ![p].out = out]
        <3>1. PICK out \in Statuses : sync' = [sync EXCEPT ![p].pc = "final", ![p].out = out]
            BY <2>2, Zenon
        <3> DEFINE k == [sync[p] EXCEPT !.pc = "final", !.out = out]
        <3>2. k \in Syncs /\ k.pc = "final"
            BY <1>1, Zenon DEF Syncs
        <3>3. sync' = [sync EXCEPT ![p] = k]
            BY <3>1, Zenon
        <3> HIDE DEF k
        <3>4. QED
            BY <1>1, <1>a, <2>1, <3>2, <3>3, SyncMoves, Zenon DEF loops
    <2>3. CASE RetriesLeft(p) /\ sync' = [sync EXCEPT ![p].attempt = @ + 1]
        <3> DEFINE g == sync[p].attempt + 1
        <3>1. g \in 0..MaxAttempts - 1
            BY <1>1, <2>3, Bounds DEF RetriesLeft
        <3>2. sync' = [sync EXCEPT ![p].attempt = g]
            BY <2>3
        <3> HIDE DEF g
        <3> DEFINE k == [sync[p] EXCEPT !.attempt = g]
        <3>3. k \in Syncs /\ k.pc = "attempt"
            BY <1>1, <2>1, <3>1 DEF Syncs
        <3>4. sync' = [sync EXCEPT ![p] = k]
            BY <3>2
        <3> HIDE DEF k
        <3>5. QED
            BY <1>1, <1>a, <2>1, <3>3, <3>4, SyncMoves, Zenon DEF loops
    <2>4. QED
        BY <1>1, <1>7, <2>2, <2>3 DEF Attempt
<1>8. CASE CheckFinal(p)
    <2>1. PICK next \in {"write", "perm", "idle"} : Return(p, next)
        BY <1>2, <1>8 DEF CheckFinal
    <2>2. Holds(p) /\ sync[p].pc # "idle" /\ UNCHANGED <<regs, done, status, apply, env, failures>>
        BY <1>8 DEF CheckFinal, Holds
    <2>3. QED
        BY <1>1, <2>1, <2>2, ReturnKeepsIInv
<1>9. CASE RecordFinal(p)
    <2>1. PICK next \in {"perm", "idle"} : Return(p, next)
        BY <1>2, <1>9 DEF RecordFinal
    <2>2. Holds(p) /\ sync[p].pc # "idle" /\ UNCHANGED <<regs, done, apply, env>>
        BY <1>9 DEF RecordFinal, Holds
    <2>3. status' \in Statuses /\ failures' \in 0..MaxFailures
        BY <1>1, <1>9, RecordTyped DEF RecordFinal
    <2>4. QED
        BY <2>1, <2>2, <2>3, ReturnKeepsIInv
<1>10. CASE CheckPermanent(p)
    <2>1. PICK next \in {"permwrite", "idle"} : Return(p, next)
        BY <1>10 DEF CheckPermanent
    <2>2. sync[p].pc # "idle" /\ UNCHANGED <<regs, done, status, apply, env, failures>>
        BY <1>10 DEF CheckPermanent
    <2>3. QED
        BY <1>1, <2>1, <2>2, ReturnKeepsIInv
<1>11. CASE RecordPermanent(p)
    <2>1. Return(p, "idle") /\ sync[p].pc # "idle" /\ UNCHANGED <<regs, done, apply, env>>
        BY <1>11 DEF RecordPermanent
    <2>2. status' \in Statuses /\ failures' \in 0..MaxFailures
        BY <1>1, <1>11, RecordTyped DEF RecordPermanent
    <2>3. QED
        BY <2>1, <2>2, ReturnKeepsIInv
<1>12. QED
    BY <1>3, <1>4, <1>5, <1>6, <1>7, <1>8, <1>9, <1>10, <1>11 DEF SyncStep

\* What changes neither registrations, loops nor syncs changes none of this.
LEMMA OthersKeepIInv ==
    ASSUME IInv, UNCHANGED <<regs, loop, done, sync>>,
           start' \in Starts, start.pc = "done" => start'.pc = "done",
           start'.pc = "begin" => start.pc = "begin",
           status' \in Statuses /\ failures' \in 0..MaxFailures /\ apply' \in {"none", "disabled"},
           phase1Done' \in BOOLEAN /\ rootCancelled' \in BOOLEAN, rootCancelled => rootCancelled'
    PROVE  IInv'
<1>1. PreviousDone(current)' = PreviousDone(current) /\ regs \in Seq(Regs)
    BY DEF current, PreviousDone, IInv, TypeOK
<1>2. QED
    BY <1>1, QuietKeepsIInv

\* Two syncs of the feed never run together, and two loops of a base feed neither,
\* however often ApplyConfig replaces a registration while the loop of an earlier
\* one is still stopping, whoever asks for a sync, and whatever happens between
\* the passes of Start.  Of the loops of an enrichment feed that do run together,
\* all but one have been told to stop.
THEOREM OneLoopAndOneSync == Spec => [](TypeOK /\ OneLoop /\ OneSync)
<1>1. Init => IInv
    BY InitIInv
<1>2. IInv /\ [Next]_vars => IInv'
    <2> SUFFICES ASSUME IInv, [Next]_vars PROVE IInv'
        OBVIOUS
    <2> USE DEF loops, env
    <2>0. start \in Starts /\ status \in Statuses /\ failures \in 0..MaxFailures
          /\ apply \in {"none", "disabled"} /\ phase1Done \in BOOLEAN /\ rootCancelled \in BOOLEAN
        BY Zenon DEF IInv, TypeOK
    <2>1. CASE Phase1Completes
        BY <2>0, <2>1, OthersKeepIInv DEF Phase1Completes
    <2>2. CASE Signal
        BY <2>0, <2>2, OthersKeepIInv DEF Signal
    <2>3. CASE UNCHANGED vars
        BY <2>0, <2>3, OthersKeepIInv DEF vars
    <2>4. CASE ApplyRecord
        <3>1. apply \in Statuses
            BY <2>0 DEF Statuses
        <3>2. status' \in Statuses /\ failures' \in 0..MaxFailures
            BY <2>0, <2>4, <3>1, RecordTyped DEF ApplyRecord
        <3>3. QED
            BY <2>0, <2>4, <3>2, OthersKeepIInv DEF ApplyRecord
    <2>5. CASE StartRecord
        <3>1. start.pc = "disabled" /\ start.pc \in Statuses
            BY <2>5 DEF StartRecord, Statuses
        <3>2. status' \in Statuses /\ failures' \in 0..MaxFailures
            BY <2>0, <2>5, <3>1, RecordTyped DEF StartRecord
        <3>3. start' \in Starts /\ start'.pc = "enrich"
            BY <2>0, <2>5, Zenon DEF StartRecord, Starts
        <3>4. QED
            BY <2>0, <2>5, <3>1, <3>2, <3>3, OthersKeepIInv DEF StartRecord
    <2>6. CASE StartBase
        BY <2>6, StartBaseKeepsIInv
    <2>7. CASE StartEnrichment
        BY <2>7, StartEnrichmentKeepsIInv
    <2>8. CASE \E kind \in Kinds : ApplyConfig(kind)
        BY <2>8, ApplyConfigKeepsIInv
    <2>9. CASE \E r \in Loops : LoopStep(r) \/ Tick(r)
        BY <2>9, LoopStepKeepsIInv
    <2>10. CASE \E m \in Manuals : SyncOne(m)
        <3>1. PICK m \in Manuals : SyncOne(m)
            BY <2>10
        <3>2. current \in 0..MaxConfigs /\ m \in Actors
            BY PreviousTyped, Bounds DEF IInv, Loops, Actors
        <3>3. QED
            BY <2>0, <3>1, <3>2, SyncBegins, Zenon DEF SyncOne
    <2>11. CASE \E p \in Actors : SyncStep(p)
        BY <2>11, SyncStepKeepsIInv
    <2>12. QED
        BY <2>1, <2>2, <2>3, <2>4, <2>5, <2>6, <2>7, <2>8, <2>9, <2>10, <2>11 DEF Next, Ended
<1>3. IInv => TypeOK /\ OneLoop /\ OneSync
    <2> SUFFICES ASSUME IInv PROVE TypeOK /\ OneLoop /\ OneSync
        OBVIOUS
    <2>1. OneLoop
        <3> SUFFICES ASSUME NEW r \in Loops, NEW q \in Loops, r # q, Active(r), Active(q)
                     PROVE  Enrichment /\ (regs[r].cancelled \/ regs[q].cancelled)
            BY Zenon DEF OneLoop, Active
        <3>1. LoopInv(r) /\ LoopInv(q)
            BY Zenon DEF IInv
        <3>2. QED
            BY <3>1, Zenon DEF LoopInv, Overtaken
    <2>2. OneSync
        BY DEF IInv, OneSync, Holds
    <2>3. QED
        BY <2>1, <2>2 DEF IInv
<1>4. QED
    BY <1>1, <1>2, <1>3, PTL DEF Spec
=============================================================================
