------------------------------ MODULE StatsCache ------------------------------
(***************************************************************************)
(* The cache of the dashboard's aggregates                                 *)
(* (internal/db/postgres/dashboard_stats_cache.go): one value per store,   *)
(* loaded by one request while the others wait, invalidated by every write *)
(* after its commit, and valid no longer than the database's day.  The     *)
(* aggregates are abstracted to the last commit and the day they show.     *)
(***************************************************************************)
EXTENDS Integers, TLAPS

CONSTANTS Callers,     \* requests for the dashboard
          TTL,         \* dashboardStatsFallbackTTL
          DayLength,
          MaxTime, MaxCommits, \* bounds: clock, writes
          None

VARIABLES now,
          db,       \* commits so far, and how many of them have been followed by invalidate()
          memo,     \* generation, value, validUntil, and the caller that is loading
          call      \* caller -> where its get() stands
vars == <<now, db, memo, call>>

Today == now \div DayLength
Midnight(day) == (day + 1) * DayLength

\* floor is what had been committed and invalidated, and which day it was, when
\* get was called (history); at is the time last read.
Idle == [pc |-> "idle", at |-> 0, gen |-> 0, value |-> None, floor |-> None]

Init == /\ now = 0 /\ db = [commits |-> 0, told |-> 0]
        /\ memo = [gen |-> 0, value |-> None, until |-> 0, loading |-> None]
        /\ call = [c \in Callers |-> Idle]

Tick == now < MaxTime /\ now' = now + 1 /\ UNCHANGED <<db, memo, call>>

\* A write commits, and its writer invalidates the cache afterwards.
Commit == /\ db.commits < MaxCommits /\ db' = [db EXCEPT !.commits = @ + 1]
          /\ UNCHANGED <<now, memo, call>>

invalidate == /\ db.told < db.commits
              /\ \E n \in (db.told + 1)..db.commits : db' = [db EXCEPT !.told = n]
              /\ memo' = [memo EXCEPT !.gen = @ + 1, !.value = None, !.until = 0]
              /\ UNCHANGED <<now, call>>

-----------------------------------------------------------------------------
Begin(c) == /\ call[c].pc \in {"idle", "done"}
            /\ call' = [call EXCEPT ![c] = [Idle EXCEPT !.pc = "time", !.floor = [told |-> db.told, day |-> Today]]]
            /\ UNCHANGED <<now, db, memo>>

\* currentTime is read before the mutex is taken.
currentTime(c) == /\ call[c].pc = "time"
                  /\ call' = [call EXCEPT ![c].pc = "lock", ![c].at = now]
                  /\ UNCHANGED <<now, db, memo>>

Served(c, v) == [call EXCEPT ![c].pc = "done", ![c].value = v]

\* The first critical section: serve the value, wait for a load, or start one.
get(c) ==
    /\ call[c].pc = "lock"
    /\ IF memo.value # None /\ call[c].at < memo.until
       THEN call' = Served(c, memo.value) /\ UNCHANGED memo
       ELSE IF memo.loading # None
       THEN call' = [call EXCEPT ![c].pc = "wait"] /\ UNCHANGED memo
       ELSE /\ call' = [call EXCEPT ![c].pc = "load", ![c].gen = memo.gen]
            /\ memo' = [memo EXCEPT !.loading = c]
    /\ UNCHANGED <<now, db>>

\* The query sees one state of the database.
load(c) == /\ call[c].pc = "load"
           /\ call' = [call EXCEPT ![c].pc = "loaded", ![c].value = [commits |-> db.commits, day |-> Today]]
           /\ UNCHANGED <<now, db, memo>>

LoadedAt(c) == /\ call[c].pc = "loaded"
               /\ call' = [call EXCEPT ![c].pc = "store", ![c].at = now]
               /\ UNCHANGED <<now, db, memo>>

Least(a, b) == IF a < b THEN a ELSE b

\* close(loading.done): a waiter goes round the loop, or returns the error of
\* the load unless it is that of the loader's context.
Woken(err) == [c \in Callers |-> IF call[c].pc # "wait" THEN call[c]
                                 ELSE IF err = "failed" THEN [call[c] EXCEPT !.pc = "done"]
                                 ELSE [call[c] EXCEPT !.pc = "time"]]

\* Mutant: a write during the load is not noticed.
generationUnchecked(c) == FALSE

generationChanged(c) == call[c].gen # memo.gen

databaseDayChanged(c) == Midnight(call[c].value.day) <= call[c].at

\* The second critical section, after a load that succeeded.
Store(c) ==
    LET stale == generationChanged(c) \/ databaseDayChanged(c)
        v == call[c].value
    IN  /\ call[c].pc = "store"
        /\ memo' = IF stale THEN [memo EXCEPT !.loading = None]
                   ELSE [memo EXCEPT !.loading = None, !.value = v,
                                     !.until = Least(call[c].at + TTL, Midnight(v.day))]
        /\ call' = [Woken("") EXCEPT ![c].pc = IF stale THEN "time" ELSE "done",
                                     ![c].value = IF stale THEN None ELSE v]
        /\ UNCHANGED <<now, db>>

\* The same after an error of the query or of the request's context.
LoadFails(c) ==
    /\ call[c].pc = "load"
    /\ memo' = [memo EXCEPT !.loading = None]
    /\ \E err \in {"failed", "cancelled"} : call' = [Woken(err) EXCEPT ![c].pc = "done"]
    /\ UNCHANGED <<now, db>>

\* A request that is dropped at the top of the loop or while it waits.
Cancelled(c) == /\ call[c].pc \in {"time", "wait"}
                /\ call' = [call EXCEPT ![c].pc = "done"]
                /\ UNCHANGED <<now, db, memo>>

Next == \/ Tick \/ Commit \/ invalidate
        \/ \E c \in Callers : \/ Begin(c) \/ currentTime(c) \/ get(c) \/ load(c) \/ LoadedAt(c)
                              \/ Store(c) \/ LoadFails(c) \/ Cancelled(c)

Spec == Init /\ [][Next]_vars

-----------------------------------------------------------------------------
Values == [commits : Nat, day : Nat]
Floors == [told : Nat, day : Nat]
Calls == [pc : {"idle", "time", "lock", "wait", "load", "loaded", "store", "done"}, at : Nat, gen : Nat,
          value : Values \cup {None}, floor : Floors \cup {None}]

\* The state keeps its types, and no more writes are told than were committed.
TypeOK ==
    /\ now \in Nat /\ db \in [commits : Nat, told : Nat] /\ db.told <= db.commits
    /\ memo \in [gen : Nat, value : Values \cup {None}, until : Nat, loading : Callers \cup {None}]
    /\ call \in [Callers -> Calls]

\* Statistics a request is shown include every write whose writer had
\* invalidated the cache when the request came, and are of no earlier day than
\* the request: a load that a write or midnight overtook is neither cached nor
\* returned.
StatsFresh ==
    \A c \in Callers : call[c].pc = "done" /\ call[c].value # None =>
        call[c].value.commits >= call[c].floor.told /\ call[c].value.day >= call[c].floor.day

\* One request loads at a time, and a request waits only while another loads.
OneLoad ==
    LET loading == {c \in Callers : call[c].pc \in {"load", "loaded", "store"}}
    IN  loading = IF memo.loading = None THEN {} ELSE {memo.loading}

-----------------------------------------------------------------------------
(* Why requests are shown fresh statistics, for any callers, day length and  *)
(* fallback TTL.                                                             *)

Premises ==
    /\ DayLength \in Nat \ {0} /\ TTL \in Nat /\ MaxTime \in Nat /\ MaxCommits \in Nat
    /\ None \notin Callers /\ None \notin Values /\ None \notin Floors

Loading == {"load", "loaded", "store"}

\* The cached value has every write that was followed by an invalidation.
MemoOK ==
    memo.value # None => memo.value.commits >= db.told /\ memo.until <= Midnight(memo.value.day)

\* A call began when its floor was true; what it loads is of no earlier day, and
\* as complete as the cache has to be unless the generation has changed.
CallOK(c) ==
    /\ call[c].pc # "idle" =>
         call[c].floor \in Floors /\ call[c].floor.told <= db.told /\ call[c].floor.day <= Today
    /\ call[c].pc = "lock" => call[c].floor.day * DayLength <= call[c].at
    /\ call[c].pc \in Loading => call[c].gen <= memo.gen /\ memo.loading = c
    /\ call[c].pc \in {"loaded", "store"} =>
         /\ call[c].value \in Values /\ call[c].value.day >= call[c].floor.day
         /\ call[c].gen = memo.gen => call[c].value.commits >= db.told
    /\ call[c].pc \in {"idle", "time", "lock", "wait", "load"} => call[c].value = None
    /\ call[c].pc = "done" /\ call[c].value # None =>
         call[c].value.commits >= call[c].floor.told /\ call[c].value.day >= call[c].floor.day

IInv ==
    /\ TypeOK /\ MemoOK
    /\ \A c \in Callers : CallOK(c)
    /\ memo.loading # None => call[memo.loading].pc \in Loading

\* Days do not go back.
LEMMA DayBounds ==
    ASSUME NEW t \in Nat, NEW L \in Nat \ {0}
    PROVE  t \div L \in Nat /\ (t \div L) * L <= t /\ t < (t \div L + 1) * L
OBVIOUS

LEMMA DayBefore ==
    ASSUME NEW m \in Nat, NEW n \in Nat, NEW L \in Nat \ {0}, NEW t \in Nat, m * L <= t, t < (n + 1) * L
    PROVE  m <= n
<1>1. m * L \in Nat /\ (n + 1) * L \in Nat
    OBVIOUS
<1>2. m * L < (n + 1) * L
    BY <1>1
<1>3. QED
    BY <1>2

LEMMA DaysPass ==
    ASSUME NEW t \in Nat, NEW u \in Nat, t <= u, NEW L \in Nat \ {0}
    PROVE  t \div L <= u \div L
<1> DEFINE m == t \div L
           n == u \div L
<1>1. m \in Nat /\ n \in Nat /\ m * L <= t /\ u < (n + 1) * L
    BY DayBounds
<1> HIDE DEF m, n
<1>2. m * L \in Nat /\ m * L <= u
    BY <1>1
<1>3. m <= n
    BY <1>1, <1>2, DayBefore
<1>4. QED
    BY <1>3 DEF m, n

\* A call that does not move stays as it was, whatever is committed, invalidated
\* or loaded meanwhile.
LEMMA CallKept ==
    ASSUME Premises, TypeOK, TypeOK', NEW c \in Callers, CallOK(c), call'[c] = call[c],
           db.told <= db'.told, now <= now',
           call[c].pc \in Loading =>
              /\ memo'.loading = c /\ memo.gen <= memo'.gen
              /\ memo.gen = memo'.gen => db'.told = db.told
    PROVE  CallOK(c)'
<1>1. call[c] \in Calls /\ db.told \in Nat /\ db'.told \in Nat /\ memo.gen \in Nat /\ memo'.gen \in Nat
    BY DEF TypeOK
<1>2. Today \in Nat /\ Today' \in Nat /\ Today <= Today'
    BY DayBounds, DaysPass, Zenon DEF Today, TypeOK, Premises
<1>3. call[c].pc # "idle" => call[c].floor.told <= db'.told /\ call[c].floor.day <= Today'
    BY <1>1, <1>2 DEF CallOK, Floors
<1>4. call[c].pc \in Loading => call[c].gen <= memo'.gen /\ memo'.loading = c
    BY <1>1 DEF CallOK, Calls
<1>5. call[c].pc \in Loading /\ call[c].gen = memo'.gen => call[c].gen = memo.gen /\ db'.told = db.told
    BY <1>1 DEF CallOK, Calls
<1>6. QED
    BY <1>3, <1>4, <1>5 DEF CallOK, Loading

\* A call that waited goes on, the others stay where they are (Woken).
LEMMA WokenKept ==
    ASSUME Premises, TypeOK, TypeOK', NEW c \in Callers, CallOK(c), call[c].pc \notin Loading, UNCHANGED <<now, db>>,
           NEW next \in {"time", "done"},
           call'[c] = IF call[c].pc # "wait" THEN call[c] ELSE [call[c] EXCEPT !.pc = next]
    PROVE  CallOK(c)'
<1>1. CASE call[c].pc # "wait"
    <2>1. now <= now' /\ db.told <= db'.told
        BY DEF TypeOK
    <2>2. QED
        BY <1>1, <2>1, CallKept
<1>2. CASE call[c].pc = "wait"
    <2>1. call[c] \in Calls
        BY DEF TypeOK
    <2>2. /\ call'[c].pc = next /\ call'[c].value = None /\ call'[c].floor = call[c].floor
        BY <1>2, <2>1 DEF Calls, CallOK
    <2>3. QED
        BY <1>2, <2>2 DEF CallOK, Loading, Today
<1>3. QED
    BY <1>1, <1>2

\* The clock, a commit and an invalidation.
LEMMA StoreStep ==
    ASSUME Premises, IInv, Tick \/ Commit \/ invalidate
    PROVE  IInv'
<1>1. /\ TypeOK /\ MemoOK /\ call' = call /\ memo'.loading = memo.loading
      /\ now \in Nat /\ now' \in Nat /\ now <= now'
      /\ db.told \in Nat /\ db'.told \in Nat /\ db.told <= db'.told /\ db' \in [commits : Nat, told : Nat] /\ db'.told <= db'.commits
      /\ memo' \in [gen : Nat, value : Values \cup {None}, until : Nat, loading : Callers \cup {None}]
      /\ (memo' = memo /\ db'.told = db.told) \/ (memo'.gen = memo.gen + 1 /\ memo'.value = None)
    <2>0. TypeOK /\ MemoOK
        BY DEF IInv
    <2>1. CASE Tick
        BY <2>0, <2>1 DEF Tick, TypeOK
    <2>2. CASE Commit
        BY <2>0, <2>2 DEF Commit, TypeOK
    <2>3. CASE invalidate
        <3>1. PICK n \in (db.told + 1)..db.commits : db' = [db EXCEPT !.told = n]
            BY <2>3 DEF invalidate
        <3>2. /\ db'.told = n /\ n \in Nat /\ n <= db.commits /\ db'.commits = db.commits /\ db.told <= n
              /\ db' \in [commits : Nat, told : Nat]
            BY <2>0, <3>1 DEF TypeOK
        <3>3. /\ memo' = [memo EXCEPT !.gen = @ + 1, !.value = None, !.until = 0] /\ now' = now /\ call' = call
            BY <2>3 DEF invalidate
        <3>4. /\ memo' \in [gen : Nat, value : Values \cup {None}, until : Nat, loading : Callers \cup {None}]
              /\ memo'.loading = memo.loading /\ memo'.gen = memo.gen + 1 /\ memo'.value = None
            <4> DEFINE g == memo.gen + 1
            <4>1. g \in Nat /\ memo' = [memo EXCEPT !.gen = g, !.value = None, !.until = 0]
                BY <2>0, <3>3 DEF TypeOK
            <4> HIDE DEF g
            <4>2. /\ memo' \in [gen : Nat, value : Values \cup {None}, until : Nat, loading : Callers \cup {None}]
                  /\ memo'.loading = memo.loading /\ memo'.gen = g /\ memo'.value = None
                BY <2>0, <4>1, Zenon DEF TypeOK
            <4>3. QED
                BY <4>2 DEF g
        <3>5. QED
            BY <2>0, <3>2, <3>3, <3>4 DEF TypeOK
    <2>4. QED
        BY <2>1, <2>2, <2>3
<1>2. TypeOK'
    BY <1>1 DEF TypeOK
<1>3. MemoOK'
    BY <1>1 DEF MemoOK, Midnight
<1>4. memo.gen \in Nat /\ memo'.gen \in Nat /\ memo.gen <= memo'.gen /\ (memo.gen = memo'.gen => db'.told = db.told)
    BY <1>1 DEF TypeOK
<1>5. ASSUME NEW c \in Callers PROVE CallOK(c)'
    <2>1. CallOK(c) /\ (call[c].pc \in Loading => memo'.loading = c)
        BY <1>1 DEF IInv, CallOK
    <2>2. QED
        BY <1>1, <1>2, <1>4, <2>1, CallKept
<1>6. QED
    BY <1>1, <1>2, <1>3, <1>5 DEF IInv

\* A step of one call that leaves the cache and the database alone.
LEMMA CallStep ==
    ASSUME Premises, IInv, NEW c \in Callers, UNCHANGED <<now, db, memo>>, NEW k \in Calls,
           call' = [call EXCEPT ![c] = k], CallOK(c)', call[c].pc \in Loading => k.pc \in Loading
    PROVE  IInv'
<1>1. TypeOK /\ MemoOK /\ TypeOK' /\ MemoOK'
    BY DEF IInv, TypeOK, MemoOK, Midnight
<1>2. call'[c] = k /\ \A d \in Callers \ {c} : call'[d] = call[d]
    BY <1>1 DEF TypeOK
<1>3. now <= now' /\ db.told <= db'.told /\ memo.gen <= memo'.gen
    BY <1>1 DEF TypeOK
<1>4. ASSUME NEW d \in Callers \ {c} PROVE CallOK(d)'
    <2>1. CallOK(d) /\ (call[d].pc \in Loading => memo'.loading = d)
        BY DEF IInv, CallOK
    <2>2. QED
        BY <1>1, <1>2, <1>3, <2>1, CallKept
<1>5. memo'.loading # None => call'[memo'.loading].pc \in Loading
    BY <1>1, <1>2 DEF IInv, TypeOK
<1>6. QED
    BY <1>1, <1>4, <1>5 DEF IInv

\* The steps of get that only read: the call begins, reads the time, loads, reads
\* the time of the load, or is dropped.
LEMMA ReadingStep ==
    ASSUME Premises, IInv, NEW c \in Callers,
           Begin(c) \/ currentTime(c) \/ load(c) \/ LoadedAt(c) \/ Cancelled(c)
    PROVE  IInv'
<1>1. /\ TypeOK /\ CallOK(c) /\ call[c] \in Calls /\ now \in Nat /\ db \in [commits : Nat, told : Nat] /\ db.told <= db.commits
      /\ DayLength \in Nat \ {0} /\ None \notin Values /\ None \notin Floors
    BY DEF IInv, TypeOK, Premises
<1>2. Today \in Nat /\ Today * DayLength <= now
    BY <1>1, DayBounds DEF Today
<1>3. CASE Begin(c)
    <2> DEFINE k == [Idle EXCEPT !.pc = "time", !.floor = [told |-> db.told, day |-> Today]]
    <2>1. /\ k \in Calls /\ k.pc = "time" /\ k.value = None /\ k.floor \in Floors
          /\ k.floor.told = db.told /\ k.floor.day = Today
        BY <1>1, <1>2, Zenon DEF Idle, Calls, Floors
    <2>2. call' = [call EXCEPT ![c] = k] /\ UNCHANGED <<now, db, memo>> /\ call[c].pc \notin Loading
        BY <1>3 DEF Begin, Loading
    <2> HIDE DEF k
    <2>3. call'[c] = k
        BY <1>1, <2>2 DEF TypeOK
    <2>4. CallOK(c)'
        BY <1>1, <1>2, <2>1, <2>2, <2>3 DEF CallOK, Today, Loading
    <2>5. QED
        BY <2>1, <2>2, <2>4, CallStep, Zenon
<1>4. CASE currentTime(c)
    <2> DEFINE k == [call[c] EXCEPT !.pc = "lock", !.at = now]
    <2>1. k \in Calls /\ k.pc = "lock" /\ k.at = now /\ k.value = call[c].value /\ k.floor = call[c].floor
        BY <1>1, Zenon DEF Calls
    <2>2. call' = [call EXCEPT ![c] = k] /\ UNCHANGED <<now, db, memo>> /\ call[c].pc = "time"
        BY <1>1, <1>4, Zenon DEF currentTime, TypeOK
    <2> HIDE DEF k
    <2>3. call'[c] = k
        BY <1>1, <2>2 DEF TypeOK
    <2>4. call[c].floor.day * DayLength <= now
        <3>1. call[c].floor.day \in Nat /\ call[c].floor.day <= Today
            BY <1>1, <2>2 DEF CallOK, Floors
        <3>2. call[c].floor.day * DayLength <= Today * DayLength
            BY <1>1, <1>2, <3>1
        <3>3. QED
            BY <1>1, <1>2, <3>1, <3>2
    <2>5. CallOK(c)'
        BY <1>1, <2>1, <2>2, <2>3, <2>4 DEF CallOK, Today, Loading
    <2>6. QED
        BY <2>1, <2>2, <2>5, CallStep, Zenon DEF Loading
<1>5. CASE load(c)
    <2> DEFINE v == [commits |-> db.commits, day |-> Today]
               k == [call[c] EXCEPT !.pc = "loaded", !.value = v]
    <2>1. /\ k \in Calls /\ k.pc = "loaded" /\ k.gen = call[c].gen /\ k.value = v /\ k.floor = call[c].floor
          /\ v \in Values /\ v.commits = db.commits /\ v.day = Today
        BY <1>1, <1>2, Zenon DEF Calls, Values
    <2>2. call' = [call EXCEPT ![c] = k] /\ UNCHANGED <<now, db, memo>> /\ call[c].pc = "load"
        BY <1>1, <1>5, Zenon DEF load, TypeOK
    <2> HIDE DEF k, v
    <2>3. call'[c] = k
        BY <1>1, <2>2 DEF TypeOK
    <2>4. CallOK(c)'
        BY <1>1, <2>1, <2>2, <2>3 DEF CallOK, Today, Loading
    <2>5. QED
        BY <2>1, <2>2, <2>4, CallStep, Zenon DEF Loading
<1>6. CASE LoadedAt(c)
    <2> DEFINE k == [call[c] EXCEPT !.pc = "store", !.at = now]
    <2>1. k \in Calls /\ k.pc = "store" /\ k.gen = call[c].gen /\ k.value = call[c].value /\ k.floor = call[c].floor
        BY <1>1, Zenon DEF Calls
    <2>2. call' = [call EXCEPT ![c] = k] /\ UNCHANGED <<now, db, memo>> /\ call[c].pc = "loaded"
        BY <1>1, <1>6, Zenon DEF LoadedAt, TypeOK
    <2> HIDE DEF k
    <2>3. call'[c] = k
        BY <1>1, <2>2 DEF TypeOK
    <2>4. CallOK(c)'
        BY <1>1, <2>1, <2>2, <2>3 DEF CallOK, Today, Loading
    <2>5. QED
        BY <2>1, <2>2, <2>4, CallStep, Zenon DEF Loading
<1>7. CASE Cancelled(c)
    <2> DEFINE k == [call[c] EXCEPT !.pc = "done"]
    <2>1. k \in Calls /\ k.pc = "done" /\ k.value = call[c].value /\ k.floor = call[c].floor
        BY <1>1 DEF Calls
    <2>2. call' = [call EXCEPT ![c] = k] /\ UNCHANGED <<now, db, memo>> /\ call[c].pc \in {"time", "wait"}
        BY <1>1, <1>7 DEF Cancelled, TypeOK
    <2> HIDE DEF k
    <2>3. call'[c] = k
        BY <1>1, <2>2 DEF TypeOK
    <2>4. CallOK(c)'
        BY <1>1, <2>1, <2>2, <2>3 DEF CallOK, Today, Loading
    <2>5. QED
        BY <2>1, <2>2, <2>4, CallStep, Zenon DEF Loading
<1>8. QED
    BY <1>3, <1>4, <1>5, <1>6, <1>7

\* The first critical section of get.
LEMMA GetStep ==
    ASSUME Premises, IInv, NEW c \in Callers, get(c)
    PROVE  IInv'
<1>1. /\ TypeOK /\ MemoOK /\ CallOK(c) /\ call[c] \in Calls /\ call[c].pc = "lock" /\ UNCHANGED <<now, db>>
      /\ call[c].floor \in Floors /\ call[c].floor.told <= db.told /\ call[c].floor.day <= Today /\ call[c].value = None
      /\ call[c].floor.day * DayLength <= call[c].at
      /\ DayLength \in Nat \ {0} /\ None \notin Values /\ None \notin Callers
    BY DEF IInv, TypeOK, Premises, get, CallOK
<1>2. CASE memo.value # None /\ call[c].at < memo.until
    <2> DEFINE k == [call[c] EXCEPT !.pc = "done", !.value = memo.value]
    <2>1. memo.value \in Values /\ memo.until \in Nat
        BY <1>1, <1>2 DEF TypeOK
    <2>2. k \in Calls /\ k.pc = "done" /\ k.value = memo.value /\ k.floor = call[c].floor
        BY <1>1, <2>1, Zenon DEF Calls
    <2>3. call' = [call EXCEPT ![c] = k] /\ memo' = memo
        BY <1>1, <1>2, Zenon DEF get, Served, TypeOK
    <2> HIDE DEF k
    <2>4. call'[c] = k
        BY <1>1, <2>3 DEF TypeOK
    <2>5. memo.value.commits >= call[c].floor.told
        BY <1>1, <1>2, <2>1 DEF MemoOK, Values, Floors, TypeOK
    <2>6. memo.value.day >= call[c].floor.day
        <3>1. /\ memo.value.day \in Nat /\ call[c].floor.day \in Nat /\ call[c].at \in Nat
              /\ call[c].at < (memo.value.day + 1) * DayLength
            BY <1>1, <1>2, <2>1 DEF MemoOK, Values, Floors, Midnight, Calls
        <3>2. QED
            BY <1>1, <3>1, DayBefore
    <2>7. CallOK(c)'
        BY <1>1, <2>2, <2>4, <2>5, <2>6 DEF CallOK, Today, Loading
    <2>8. QED
        BY <1>1, <2>2, <2>3, <2>7, CallStep, Zenon DEF Loading
<1>3. CASE ~(memo.value # None /\ call[c].at < memo.until) /\ memo.loading # None
    <2> DEFINE k == [call[c] EXCEPT !.pc = "wait"]
    <2>1. k \in Calls /\ k.pc = "wait" /\ k.value = None /\ k.floor = call[c].floor
        BY <1>1 DEF Calls
    <2>2. call' = [call EXCEPT ![c] = k] /\ memo' = memo
        BY <1>1, <1>3 DEF get, TypeOK
    <2> HIDE DEF k
    <2>3. call'[c] = k
        BY <1>1, <2>2 DEF TypeOK
    <2>4. CallOK(c)'
        BY <1>1, <2>1, <2>3 DEF CallOK, Today, Loading
    <2>5. QED
        BY <1>1, <2>1, <2>2, <2>4, CallStep, Zenon DEF Loading
<1>4. CASE ~(memo.value # None /\ call[c].at < memo.until) /\ memo.loading = None
    <2> DEFINE k == [call[c] EXCEPT !.pc = "load", !.gen = memo.gen]
    <2>1. k \in Calls /\ k.pc = "load" /\ k.gen = memo.gen /\ k.value = None /\ k.floor = call[c].floor
        BY <1>1, Zenon DEF Calls, TypeOK
    <2>2. call' = [call EXCEPT ![c] = k] /\ memo' = [memo EXCEPT !.loading = c]
        BY <1>1, <1>4, Zenon DEF get, TypeOK
    <2> HIDE DEF k
    <2>3. /\ memo' \in [gen : Nat, value : Values \cup {None}, until : Nat, loading : Callers \cup {None}]
          /\ memo'.gen = memo.gen /\ memo'.value = memo.value /\ memo'.until = memo.until /\ memo'.loading = c
          /\ memo.gen \in Nat
        BY <1>1, <2>2 DEF TypeOK
    <2>4. call'[c] = k /\ \A d \in Callers \ {c} : call'[d] = call[d]
        BY <1>1, <2>2 DEF TypeOK
    <2>5. TypeOK'
        BY <1>1, <2>1, <2>2, <2>3 DEF TypeOK
    <2>6. MemoOK'
        BY <1>1, <2>3 DEF MemoOK, Midnight
    <2>7. CallOK(c)'
        BY <1>1, <2>1, <2>3, <2>4, SMTT(30) DEF CallOK, Today, Loading
    <2>8. ASSUME NEW d \in Callers \ {c} PROVE CallOK(d)'
        <3>1. CallOK(d) /\ call[d].pc \notin Loading /\ now <= now' /\ db.told <= db'.told
            BY <1>1, <1>4, SMTT(30) DEF IInv, CallOK, TypeOK
        <3>2. QED
            BY <1>1, <2>4, <2>5, <3>1, CallKept, SMTT(30)
    <2>9. QED
        BY <2>1, <2>3, <2>4, <2>5, <2>6, <2>7, <2>8 DEF IInv, Loading
<1>5. QED
    BY <1>2, <1>3, <1>4

\* The end of a load: the loader goes on, or starts over, and the waiters wake.
LEMMA LoadEnds ==
    ASSUME Premises, IInv, NEW c \in Callers, call[c].pc \in Loading, UNCHANGED <<now, db>>,
           NEW k \in Calls, k.pc \notin Loading, NEW next \in {"time", "done"},
           call' = [d \in Callers |-> IF d = c THEN k
                                      ELSE IF call[d].pc # "wait" THEN call[d] ELSE [call[d] EXCEPT !.pc = next]],
           memo' \in [gen : Nat, value : Values \cup {None}, until : Nat, loading : Callers \cup {None}],
           memo'.loading = None, MemoOK', CallOK(c)'
    PROVE  IInv'
<1>1. TypeOK /\ memo.loading = c /\ None \notin Callers
    BY DEF IInv, CallOK, Premises
<1>2. ASSUME NEW d \in Callers PROVE call'[d] \in Calls
    <2>1. call[d] \in Calls
        BY <1>1 DEF TypeOK
    <2>2. [call[d] EXCEPT !.pc = next] \in Calls
        BY <2>1 DEF Calls
    <2>3. QED
        BY <2>1, <2>2
<1>3. TypeOK'
    BY <1>1, <1>2 DEF TypeOK
<1>4. ASSUME NEW d \in Callers \ {c} PROVE CallOK(d)'
    <2>1. CallOK(d) /\ call[d].pc \notin Loading
        BY <1>1 DEF IInv, CallOK
    <2>2. call'[d] = IF call[d].pc # "wait" THEN call[d] ELSE [call[d] EXCEPT !.pc = next]
        OBVIOUS
    <2>3. QED
        BY <1>1, <1>3, <2>1, <2>2, WokenKept, Zenon
<1>5. QED
    BY <1>3, <1>4 DEF IInv

\* The second critical section: a load that a write or midnight overtook is
\* neither cached nor returned.
LEMMA StoredStep ==
    ASSUME Premises, IInv, NEW c \in Callers, Store(c)
    PROVE  IInv'
<1> DEFINE v == call[c].value
           stale == generationChanged(c) \/ databaseDayChanged(c)
           k == [call[c] EXCEPT !.pc = IF stale THEN "time" ELSE "done", !.value = IF stale THEN None ELSE v]
<1>1. /\ TypeOK /\ MemoOK /\ CallOK(c) /\ call[c] \in Calls /\ call[c].pc = "store" /\ UNCHANGED <<now, db>>
      /\ call[c].floor \in Floors /\ call[c].floor.told <= db.told /\ call[c].floor.day <= Today
      /\ v \in Values /\ v.day >= call[c].floor.day /\ (call[c].gen = memo.gen => v.commits >= db.told)
      /\ db.told \in Nat /\ DayLength \in Nat \ {0} /\ TTL \in Nat /\ None \notin Values /\ None \notin Callers
    BY DEF IInv, TypeOK, Premises, Store, CallOK, Loading
<1>2. k \in Calls /\ k.pc = (IF stale THEN "time" ELSE "done") /\ k.value = (IF stale THEN None ELSE v) /\ k.floor = call[c].floor
    BY <1>1, Zenon DEF Calls
<1>3. call' = [d \in Callers |-> IF d = c THEN k
                                 ELSE IF call[d].pc # "wait" THEN call[d] ELSE [call[d] EXCEPT !.pc = "time"]]
    BY <1>1, Zenon DEF Store, Woken
<1>4. /\ memo' \in [gen : Nat, value : Values \cup {None}, until : Nat, loading : Callers \cup {None}] /\ memo'.loading = None
      /\ IF stale THEN memo'.value = memo.value /\ memo'.until = memo.until
                  ELSE memo'.value = v /\ memo'.until <= Midnight(v.day)
    <2>1. CASE stale
        <3>1. memo' = [memo EXCEPT !.loading = None]
            BY <2>1 DEF Store
        <3>2. QED
            BY <1>1, <2>1, <3>1 DEF TypeOK
    <2>2. CASE ~stale
        <3> DEFINE u == Least(call[c].at + TTL, Midnight(v.day))
        <3>1. memo' = [memo EXCEPT !.loading = None, !.value = v, !.until = u]
            BY <2>2 DEF Store
        <3>2. call[c].at + TTL \in Nat /\ Midnight(v.day) \in Nat
            BY <1>1 DEF Calls, Values, Midnight
        <3>3. u \in Nat /\ u <= Midnight(v.day)
            BY <3>2 DEF Least
        <3> HIDE DEF u, v, stale
        <3>4. QED
            BY <1>1, <2>2, <3>1, <3>3, Zenon DEF TypeOK
    <2>3. QED
        BY <2>1, <2>2
<1> HIDE DEF k
<1>5. call'[c] = k
    BY <1>3
<1>6. ~stale => v.commits >= db.told
    BY <1>1 DEF generationChanged
<1> HIDE DEF stale
<1>7. MemoOK'
    BY <1>1, <1>4, <1>6 DEF MemoOK, Midnight
<1>8. CallOK(c)'
    <2>1. CASE stale
        BY <1>1, <1>2, <1>5, <2>1 DEF CallOK, Today, Loading
    <2>2. CASE ~stale
        <3>1. v.commits >= call[c].floor.told
            BY <1>1, <1>6, <2>2, SMTT(30) DEF Values, Floors
        <3>2. QED
            BY <1>1, <1>2, <1>5, <2>2, <3>1 DEF CallOK, Today, Loading
    <2>3. QED
        BY <2>1, <2>2
<1>9. QED
    BY <1>1, <1>2, <1>3, <1>4, <1>7, <1>8, LoadEnds DEF Loading

\* A load that fails.
LEMMA FailedStep ==
    ASSUME Premises, IInv, NEW c \in Callers, LoadFails(c)
    PROVE  IInv'
<1> DEFINE k == [call[c] EXCEPT !.pc = "done"]
<1>1. /\ TypeOK /\ MemoOK /\ CallOK(c) /\ call[c] \in Calls /\ call[c].pc = "load" /\ UNCHANGED <<now, db>>
      /\ call[c].value = None /\ memo' = [memo EXCEPT !.loading = None]
    BY DEF IInv, TypeOK, LoadFails, CallOK
<1>2. k \in Calls /\ k.pc = "done" /\ k.value = None /\ k.floor = call[c].floor
    BY <1>1 DEF Calls
<1>3. PICK next \in {"time", "done"} :
         call' = [d \in Callers |-> IF d = c THEN k
                                    ELSE IF call[d].pc # "wait" THEN call[d] ELSE [call[d] EXCEPT !.pc = next]]
    <2>1. PICK err \in {"failed", "cancelled"} : call' = [Woken(err) EXCEPT ![c].pc = "done"]
        BY Zenon DEF LoadFails
    <2>2. CASE err = "failed"
        BY <1>1, <2>1, <2>2, Zenon DEF Woken
    <2>3. CASE err = "cancelled"
        BY <1>1, <2>1, <2>3, Zenon DEF Woken
    <2>4. QED
        BY <2>2, <2>3
<1> HIDE DEF k
<1>4. /\ memo' \in [gen : Nat, value : Values \cup {None}, until : Nat, loading : Callers \cup {None}] /\ memo'.loading = None
      /\ memo'.value = memo.value /\ memo'.until = memo.until
    BY <1>1 DEF TypeOK
<1>5. MemoOK' /\ call'[c] = k
    BY <1>1, <1>3, <1>4 DEF MemoOK, Midnight
<1>6. CallOK(c)'
    BY <1>1, <1>2, <1>5 DEF CallOK, Today, Loading
<1>7. QED
    BY <1>1, <1>2, <1>3, <1>4, <1>5, <1>6, LoadEnds, Zenon DEF Loading

\* No request is shown statistics that miss a write told to the cache before it
\* came, or that are of an earlier day, and one request loads at a time, however
\* many requests, writes and midnights meet in get.
THEOREM StatsStayFresh == Premises => (Spec => [](StatsFresh /\ OneLoad))
<1> SUFFICES ASSUME Premises PROVE Spec => [](StatsFresh /\ OneLoad)
    OBVIOUS
<1>1. Init => IInv
    BY SMTT(30) DEF Premises, Init, IInv, TypeOK, MemoOK, CallOK, Idle, Calls, Loading
<1>2. IInv /\ [Next]_vars => IInv'
    <2> SUFFICES ASSUME IInv, [Next]_vars PROVE IInv'
        OBVIOUS
    <2>1. CASE UNCHANGED vars
        BY <2>1 DEF vars, IInv, TypeOK, MemoOK, Midnight, CallOK, Today
    <2>2. QED
        BY <2>1, StoreStep, ReadingStep, GetStep, StoredStep, FailedStep DEF Next
<1>3. IInv => StatsFresh /\ OneLoad
    <2> SUFFICES ASSUME IInv PROVE StatsFresh /\ OneLoad
        OBVIOUS
    <2>1. StatsFresh
        BY DEF IInv, CallOK, StatsFresh
    <2>2. OneLoad
        BY SMTT(30) DEF IInv, TypeOK, CallOK, OneLoad, Loading, Premises
    <2>3. QED
        BY <2>1, <2>2
<1>4. QED
    BY <1>1, <1>2, <1>3, PTL DEF Spec
=============================================================================
