-------------------------- MODULE ReputationLookups --------------------------
(***************************************************************************)
(* The ReversingLabs reputation of one package: check requests schedule    *)
(* lookups (internal/feed/reputation/scheduler.go), the cache holds a row  *)
(* per version (internal/db/postgres/reputation.go) and the worker looks   *)
(* due rows up in batches (internal/feed/reversinglabs/worker.go).  Time   *)
(* is left out: a row is due, due later or never due, and the token bucket *)
(* (SocketWorker) grants or refuses a token at any moment.                 *)
(***************************************************************************)
EXTENDS Integers, FiniteSets

CONSTANTS
    Versions,     \* versions of the package
    Unsupported,  \* the versions no package URL can be built for
    Checks,       \* check requests running at the same time
    Slots,        \* reversingLabsScheduleWorkers
    Budget,       \* ReversingLabsMaxSchedulePerCheck
    Batch,        \* batchSize
    Replies,      \* what the upstream may say of a package
    None

VARIABLES
    cfg,      \* the scheduler's settings: active, excluded (namespace policy)
    slots,    \* async slots in use
    check,    \* check request -> its progress in ScheduleReversingLabs
    rows,     \* version -> cache row
    job,      \* status of the package's refresh job
    worker    \* what the worker holds

vars == <<cfg, slots, check, rows, job, worker>>
schedulerVars == <<cfg, slots, check>>

Definitive == {"malicious", "removed", "risk", "clean", "not_found"}   \* isDefinitiveStatus
DueStatuses == Definitive \union {"pending", "error"}
Row(status, next) == [status |-> status, next |-> next]
Idle == [pc |-> "idle", todo |-> {}, admitted |-> 0, async |-> FALSE]
Resting == [pc |-> "idle", batch |-> None, failed |-> FALSE]

Init ==
    /\ cfg = [active |-> TRUE, excluded |-> FALSE]
    /\ slots = 0 /\ check = [c \in Checks |-> Idle]
    /\ rows = [v \in Versions |-> None] /\ job = "none"
    /\ worker = Resting

-----------------------------------------------------------------------------
\* The cache.

IsDue(row) == row # None /\ row.status \in DueStatuses /\ row.next = "due"

\* markPackageReputationDueSQL: does the statement touch the row?
Markable(row) == row = None \/ (row.status \in DueStatuses /\ row.next \in {"due", "never"})

MarkPackageReputationDue(v) ==
    rows' = [rows EXCEPT ![v] = IF @ = None THEN Row("pending", "due")
                                ELSE IF Markable(@) THEN [@ EXCEPT !.next = "due"] ELSE @]

UpsertPackageReputation(v, row) == rows' = [rows EXCEPT ![v] = row]

\* reputationToFinding: the statuses that make a finding, and its type.
FindingTypeOf == [malicious |-> "malicious", removed |-> "supply_chain_risk", risk |-> "supply_chain_risk"]

\* FindReputationFindings and its batch form, for every version of the package.
FindReputationFindings ==
    {[version |-> v, type |-> FindingTypeOf[rows[v].status]] :
        v \in {u \in Versions : rows[u] # None /\ rows[u].status \in DOMAIN FindingTypeOf}}

\* PrunePackageReputation: the rows old enough, of the statuses that may go.
Prunable(v) == rows[v] # None /\ rows[v].status \in {"clean", "not_found", "unsupported", "error"}

\* The lookup TTL of a row runs out.
Expire(v) ==
    /\ rows[v] # None /\ rows[v].next = "later"
    /\ rows' = [rows EXCEPT ![v].next = "due"]
    /\ UNCHANGED <<schedulerVars, job, worker>>

-----------------------------------------------------------------------------
\* The scheduler.

Configure(active, excluded) ==
    /\ cfg' = [active |-> active, excluded |-> excluded]
    /\ cfg' # cfg
    /\ UNCHANGED <<slots, check, rows, job, worker>>

\* A check asks for versions of which todo are not covered by findings of other
\* feeds.  With every slot taken it does the work itself instead of starting a goroutine.
ScheduleReversingLabsAsync(c, todo) ==
    /\ check[c].pc = "idle" /\ cfg.active
    /\ check' = [check EXCEPT ![c] = [Idle EXCEPT !.pc = "begin", !.todo = todo,
                                                  !.async = slots < Slots]]
    /\ slots' = IF slots < Slots THEN slots + 1 ELSE slots
    /\ UNCHANGED <<cfg, rows, job, worker>>

\* The settings are read once; excluded packages leave nothing to do.
Snapshot(c) ==
    /\ check[c].pc = "begin"
    /\ check' = [check EXCEPT ![c].pc = "loop",
                              ![c].todo = IF cfg.active /\ ~cfg.excluded THEN @ ELSE {}]
    /\ UNCHANGED <<cfg, slots, rows, job, worker>>

\* One candidate within the budget: an unsupported row, or a row marked due and
\* a job to enqueue.  A store call that fails (three times) is logged.
Admit(c, v) ==
    /\ check[c].pc = "loop" /\ v \in check[c].todo
    /\ check[c].admitted < Budget
    /\ \E stored \in BOOLEAN :
         /\ IF ~stored THEN UNCHANGED rows
            ELSE IF v \in Unsupported THEN UpsertPackageReputation(v, Row("unsupported", "never"))
            ELSE MarkPackageReputationDue(v)
         /\ check' = [check EXCEPT ![c].todo = @ \ {v}, ![c].admitted = @ + 1,
                 ![c].pc = IF stored /\ v \notin Unsupported /\ Markable(rows[v]) THEN "enqueue" ELSE "loop"]
    /\ UNCHANGED <<cfg, slots, job, worker>>

\* EnqueueRefresh settles on an open job, or fails.
EnqueueRefresh(c) ==
    /\ check[c].pc = "enqueue"
    /\ check' = [check EXCEPT ![c].pc = "loop"]
    /\ job' \in {job, IF job \in {"pending", "processing"} THEN job ELSE "pending"}
    /\ UNCHANGED <<cfg, slots, rows, worker>>

\* Mutant of FreeSlot: the slot is given back whoever did the work.
FreeSlotAlways(c) == slots' = slots - 1

\* Candidates or budget are used up, or the goroutine panics: the slot is freed.
FreeSlot(c) == slots' = IF check[c].async THEN slots - 1 ELSE slots

Finish(c) ==
    /\ check[c].pc = "loop" /\ (check[c].todo = {} \/ check[c].admitted >= Budget)
    /\ check' = [check EXCEPT ![c] = Idle]
    /\ FreeSlot(c)
    /\ UNCHANGED <<cfg, rows, job, worker>>

Panic(c) ==
    /\ check[c].pc # "idle" /\ check[c].async
    /\ check' = [check EXCEPT ![c] = Idle]
    /\ FreeSlot(c)
    /\ UNCHANGED <<cfg, rows, job, worker>>

-----------------------------------------------------------------------------
\* The worker.

\* A poll tick up to the dequeue: prune, reset a stuck job, take a token, and
\* give it back when there is no job.
Poll ==
    /\ worker.pc = "idle"
    /\ \E old \in SUBSET {v \in Versions : Prunable(v)} :
         rows' = [v \in Versions |-> IF v \in old THEN None ELSE rows[v]]
    /\ \E ready \in {job, IF job = "processing" THEN "pending" ELSE job} :
         \/ job' = ready /\ UNCHANGED worker
         \/ ready = "pending" /\ job' = "processing" /\ worker' = [worker EXCEPT !.pc = "list"]
    /\ UNCHANGED schedulerVars

\* No request is going to be made: the token goes back, the job is completed.
NoRequest(failed) == worker' = [Resting EXCEPT !.pc = "complete", !.failed = failed]

\* ListDuePackageReputations, at most a batch of them.  Rows the worker must not
\* or cannot look up become unsupported; the first failing write ends the job.
ListDue ==
    LET due == {v \in Versions : IsDue(rows[v])}
        rejected(batch) == {v \in batch : cfg.excluded \/ v \in Unsupported}
    IN /\ worker.pc = "list"
       /\ \/ NoRequest(TRUE) /\ UNCHANGED rows
          \/ \E batch \in SUBSET due :
               /\ Cardinality(batch) = IF Cardinality(due) < Batch THEN Cardinality(due) ELSE Batch
               /\ \E written \in SUBSET rejected(batch) :
                    /\ rows' = [v \in Versions |-> IF v \in written THEN Row("unsupported", "never") ELSE rows[v]]
                    /\ IF written # rejected(batch) THEN NoRequest(TRUE)
                       ELSE IF written = batch THEN NoRequest(FALSE)
                       ELSE worker' = [worker EXCEPT !.pc = "lookup",
                                !.batch = [v \in batch \ written |-> rows[v].status]]
       /\ UNCHANGED <<schedulerVars, job>>

\* Mutant of ErrorResult: a failed lookup overwrites the verdict.
ErrorResultForgets(status) == Row("error", "later")

\* errorResult: the row keeps a verdict that an earlier answer gave.
ErrorResult(status) == Row(IF status \in Definitive THEN status ELSE "error", "later")

\* resultFromPackage: malware signals come before the signs of a removal.
ResultFromPackage(signals) ==
    Row(IF "malware" \in signals THEN "malicious" ELSE IF "removal" \in signals THEN "removed" ELSE "clean", "later")

\* mapLookupResponse: a reply is a set of signals, a per-package error, or
\* missing, which counts as not found.
MapLookupResponse(listed, reply) ==
    CASE reply \in {"404", "missing"} -> Row("not_found", "later")
      [] reply = "fails" -> ErrorResult(listed)
      [] OTHER -> ResultFromPackage({reply})

\* The results replace the batch.
Store(reply, failed) ==
    worker' = [pc |-> "store", failed |-> failed,
               batch |-> [v \in DOMAIN worker.batch |-> MapLookupResponse(worker.batch[v], reply[v])]]

\* The upstream answers the batch.
LookupAnswered ==
    /\ worker.pc = "lookup"
    /\ \E reply \in [DOMAIN worker.batch -> Replies] : Store(reply, FALSE)
    /\ UNCHANGED <<schedulerVars, rows, job>>

\* The request fails, is refused (401, 402, 403, other) or cannot be parsed.
LookupFails ==
    /\ worker.pc = "lookup"
    /\ Store([v \in DOMAIN worker.batch |-> "fails"], TRUE)
    /\ UNCHANGED <<schedulerVars, rows, job>>

\* 429: the bucket is drained and the job left in processing.
LookupLimited ==
    /\ worker.pc = "lookup"
    /\ worker' = Resting
    /\ UNCHANGED <<schedulerVars, rows, job>>

\* 413: a single package fails; a batch is asked for one by one, each with a
\* token of its own, and a refused token leaves the job in processing.
Lookup413Fallback ==
    /\ worker.pc = "lookup"
    /\ IF Cardinality(DOMAIN worker.batch) = 1 THEN LookupFails
       ELSE LookupAnswered \/ LookupFails \/ LookupLimited

\* The results are written one by one; the first failing write ends the job.
StoreResult(v) ==
    /\ worker.pc = "store" /\ v \in DOMAIN worker.batch
    /\ \/ UpsertPackageReputation(v, worker.batch[v])
          /\ worker' = [worker EXCEPT !.batch = [u \in DOMAIN @ \ {v} |-> @[u]],
                        !.pc = IF DOMAIN worker.batch = {v} THEN "complete" ELSE "store"]
       \/ worker' = [worker EXCEPT !.pc = "complete", !.failed = TRUE] /\ UNCHANGED rows
    /\ UNCHANGED <<schedulerVars, job>>

\* CompleteClaimedRefresh, which may fail and leave the job in processing.
Complete ==
    /\ worker.pc = "complete"
    /\ job' \in {"processing", IF worker.failed THEN "failed" ELSE "completed"}
    /\ worker' = Resting
    /\ UNCHANGED <<schedulerVars, rows>>

Next ==
    \/ \E v \in Versions : Expire(v) \/ StoreResult(v)
    \/ \E active, excluded \in BOOLEAN : Configure(active, excluded)
    \/ \E c \in Checks :
         \/ \E todo \in SUBSET Versions : ScheduleReversingLabsAsync(c, todo)
         \/ Snapshot(c) \/ EnqueueRefresh(c) \/ Finish(c) \/ Panic(c)
         \/ \E v \in Versions : Admit(c, v)
    \/ Poll \/ ListDue
    \/ LookupAnswered \/ LookupFails \/ LookupLimited \/ Lookup413Fallback
    \/ Complete

Spec == Init /\ [][Next]_vars
-----------------------------------------------------------------------------
\* The async slots in use are those of the running goroutines, never more than
\* there are, whichever path did the work and however it ended: a slot that
\* leaks, or is given back twice, stops or blocks every later schedule.
SlotsMatchGoroutines ==
    /\ slots = Cardinality({c \in Checks : check[c].async})
    /\ slots <= Slots

\* A finding stays until the upstream answers otherwise or the namespace policy
\* retires it: not a failed lookup, not a prune, not a further check takes it
\* away or changes its type (errorResult, PrunePackageReputation).
FindingKept ==
    \A f \in FindReputationFindings \ FindReputationFindings' :
       \/ worker.pc = "store" /\ rows'[f.version].status \in Definitive
       \/ rows'[f.version] = Row("unsupported", "never")
=============================================================================
