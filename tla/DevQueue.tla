------------------------------- MODULE DevQueue -------------------------------
(***************************************************************************)
(* The refresh queue of the in-memory development store                    *)
(* (internal/devstore/noop_refresh_queue.go).  Every operation holds the   *)
(* store's mutex from its first read to its last write, the audit entry    *)
(* included, so each is one step; the jobs are a slice in order of         *)
(* insertion.  One source is modelled: no operation mixes sources.         *)
(***************************************************************************)
EXTENDS Integers, FiniteSets, SequencesExt

CONSTANTS Packages, Workers, Priorities,
          MaxId,    \* bound: jobs ever inserted
          MaxTime,  \* bound: last reading of the clock
          Stuck     \* stuckThreshold

VARIABLES jobs,    \* refreshJobs: id, package, status, priority, requested and processed at
          nextJobID, now,
          claim    \* worker -> the job it dequeued: id (0: none) and claim time
vars == <<jobs, nextJobID, now, claim>>

Active    == {"pending", "processing", "paused"}
Drainable == {"pending", "processing"}
Terminal  == {"done", "error"}
Clearable == {"pending", "paused", "done", "error"}
Retryable == {"done", "error", "paused"}

Init == jobs = <<>> /\ nextJobID = 0 /\ now = 1 /\ claim = [w \in Workers |-> [id |-> 0, at |-> 0]]

Tick == now < MaxTime /\ now' = now + 1 /\ UNCHANGED <<jobs, nextJobID, claim>>

\* An active job of the package takes the request and the higher priority.
enqueueRefreshLocked(p, n) ==
    LET same == {i \in DOMAIN jobs : jobs[i].pkg = p /\ jobs[i].status \in Active}
        first == CHOOSE i \in same : \A j \in same : i <= j
    IN  \/ /\ same # {}
           /\ jobs' = [jobs EXCEPT ![first].prio = IF n < @ THEN n ELSE @]
           /\ UNCHANGED nextJobID
        \/ /\ same = {} /\ nextJobID < MaxId
           /\ nextJobID' = nextJobID + 1
           /\ jobs' = Append(jobs, [id |-> nextJobID', pkg |-> p, status |-> "pending", prio |-> n,
                                    req |-> now, proc |-> 0])

EnqueueRefresh(p, n) == enqueueRefreshLocked(p, n) /\ UNCHANGED <<now, claim>>

\* Mutant: positions follow the id and not the time of the request.
noopRefreshJobBeforeByID(a, b) == a.prio < b.prio \/ (a.prio = b.prio /\ a.id < b.id)

noopRefreshJobBefore(a, b) ==
    \/ a.prio < b.prio
    \/ a.prio = b.prio /\ a.req < b.req
    \/ a.prio = b.prio /\ a.req = b.req /\ a.id < b.id

\* The place in the queue EnqueueRefresh reports for a job.
queuePositionLocked(i) ==
    IF jobs[i].status \notin Drainable THEN 0
    ELSE 1 + Cardinality({j \in DOMAIN jobs : /\ jobs[j].status \in Drainable /\ jobs[j].id # jobs[i].id
                                              /\ noopRefreshJobBefore(jobs[j], jobs[i])})

\* The scan keeps its best job until one is strictly more urgent.
Best(i) ==
    /\ jobs[i].status = "pending"
    /\ \A j \in DOMAIN jobs : jobs[j].status = "pending" =>
          LET a == jobs[i]  b == jobs[j]
          IN  a.prio < b.prio \/ (a.prio = b.prio /\ (a.req < b.req \/ (a.req = b.req /\ i <= j)))

DequeueRefresh(w) ==
    /\ claim[w].id = 0
    /\ \E i \in DOMAIN jobs :
          /\ Best(i)
          /\ jobs' = [jobs EXCEPT ![i].status = "processing", ![i].proc = now]
          /\ claim' = [claim EXCEPT ![w] = [id |-> jobs[i].id, at |-> now]]
    /\ UNCHANGED <<nextJobID, now>>

Claimed(w) == {i \in DOMAIN jobs : jobs[i].id = claim[w].id /\ jobs[i].status = "processing" /\ jobs[i].proc = claim[w].at}

completeRefreshJob(I, result) ==
    jobs' = [i \in DOMAIN jobs |-> IF i \in I THEN [jobs[i] EXCEPT !.status = result, !.proc = now] ELSE jobs[i]]

CompleteClaimedRefresh(w, result) ==
    /\ claim[w].id # 0
    /\ completeRefreshJob(Claimed(w), result)
    /\ claim' = [claim EXCEPT ![w] = [id |-> 0, at |-> 0]]
    /\ UNCHANGED <<nextJobID, now>>

ResetStuckJobs ==
    /\ jobs' = [i \in DOMAIN jobs |-> IF jobs[i].status = "processing" /\ now - jobs[i].proc > Stuck
                                      THEN [jobs[i] EXCEPT !.status = "pending", !.proc = 0] ELSE jobs[i]]
    /\ UNCHANGED <<nextJobID, now, claim>>

\* The admin console's operations on one job.
UpdateQueueJobPriority(i, n) == jobs' = [jobs EXCEPT ![i].prio = n]
PauseQueueJob(i) == jobs[i].status = "pending" /\ jobs' = [jobs EXCEPT ![i].status = "paused"]
ResumeQueueJob(i) == jobs[i].status = "paused" /\ jobs' = [jobs EXCEPT ![i].status = "pending", ![i].proc = 0]
RetryQueueJob(i) ==
    /\ jobs[i].status \in Retryable
    /\ jobs' = [jobs EXCEPT ![i].status = "pending", ![i].req = now, ![i].proc = 0]

\* Purge, prune and clear remove finished or clearable jobs.
Drop(S) == jobs' = SelectSeq(jobs, LAMBDA j : j.status \notin S)
PurgeQueue == Drop(Terminal)
ClearQueue(S) == Drop(S \cap Clearable)
PruneRefreshQueue(retention) ==
    jobs' = SelectSeq(jobs, LAMBDA j : ~(j.status \in Terminal /\ j.proc < now - retention))

Admin == /\ \/ \E i \in DOMAIN jobs : \/ PauseQueueJob(i) \/ ResumeQueueJob(i) \/ RetryQueueJob(i)
                                      \/ \E n \in Priorities : UpdateQueueJobPriority(i, n)
            \/ PurgeQueue \/ PruneRefreshQueue(1) \/ \E s \in Active : ClearQueue({s})
         /\ UNCHANGED <<nextJobID, now, claim>>

Next == \/ Tick \/ Admin \/ ResetStuckJobs
        \/ \E p \in Packages, n \in Priorities : EnqueueRefresh(p, n)
        \/ \E w \in Workers : DequeueRefresh(w) \/ \E r \in Terminal : CompleteClaimedRefresh(w, r)

Spec == Init /\ [][Next]_vars

-----------------------------------------------------------------------------
TypeOK == /\ \A i \in DOMAIN jobs : jobs[i].id \in 1..nextJobID /\ jobs[i].status \in Active \cup Terminal
          /\ \A w \in Workers : claim[w].id \in 0..nextJobID

\* The position EnqueueRefresh reports is the order in which jobs are served:
\* whatever retries, pauses, resets and priority changes happened, the job a
\* worker dequeues is, of all pending jobs, the one reported first.
PositionIsServiceOrder ==
    \A w \in Workers : claim[w].id = 0 /\ claim'[w].id # 0 =>
      \A i, j \in DOMAIN jobs :
         jobs[i].id = claim'[w].id /\ jobs[j].status = "pending" => queuePositionLocked(i) <= queuePositionLocked(j)

\* "Jobs are deduplicated by ecosystem, package name, and source while
\* active": a package never has two active jobs.
\* Not so of the development store, and in no run: a retry makes a finished job
\* pending although a newer job of the package is active.
OneActiveJob ==
    \A i, j \in DOMAIN jobs :
        jobs[i].pkg = jobs[j].pkg /\ jobs[i].status \in Active /\ jobs[j].status \in Active => i = j
=============================================================================
