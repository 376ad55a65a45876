---------------------------- MODULE SocketWorker ----------------------------
(***************************************************************************)
(* The Socket.dev worker, internal/feed/socket/worker.go: on every poll it *)
(* resets stuck jobs and then takes jobs as long as the token bucket and   *)
(* the queue give it any.  A call to the API yields issues that become     *)
(* malicious findings; the package counts as checked only after all of     *)
(* them are stored.  Jobs are the rows of RefreshQueue seen by one worker. *)
(* The bucket is the limiter that the worker shares with its successors,   *)
(* internal/feed/ratelimit, with the default limit: a record, with the     *)
(* fraction of a token in units of 1 / Hour.                               *)
(***************************************************************************)
EXTENDS Integers, FiniteSets

CONSTANTS
    Hour,         \* ticks in an hour
    Packages,
    Rejected,     \* packages of an unsupported ecosystem or a private namespace
    Issues,       \* issue types that the worker maps to a risk type
    Limits,       \* the calls per hour of NewRateLimiter
    Stuck,        \* stuckThreshold, in ticks
    MaxTime,      \* bound on the clock
    None

-----------------------------------------------------------------------------
(* The limiter *)

Least(a, b) == IF a < b THEN a ELSE b

New(callsPerHour, defaultCallsPerHour, now) ==
    LET positive == {n \in {callsPerHour, defaultCallsPerHour} : n > 0}
        limit == IF callsPerHour > 0 THEN callsPerHour
                 ELSE IF positive # {} THEN defaultCallsPerHour ELSE 1
    IN [tokens |-> limit, limit |-> limit, lastRefill |-> now, fractional |-> 0]

Refill(b, now) ==
    LET earned == b.fractional + (now - b.lastRefill) * b.limit
    IN IF now <= b.lastRefill THEN b
       ELSE [b EXCEPT !.lastRefill = now,
                      !.fractional = earned % Hour,
                      !.tokens = Least(b.limit, b.tokens + earned \div Hour)]

CanAcquire(b, now) == Refill(b, now).tokens > 0

Acquire(b, now) ==
    IF CanAcquire(b, now) THEN [Refill(b, now) EXCEPT !.tokens = @ - 1] ELSE Refill(b, now)

Return(b) == IF b.tokens < b.limit THEN [b EXCEPT !.tokens = @ + 1] ELSE b

Drain(b, now) == [b EXCEPT !.tokens = 0, !.fractional = 0, !.lastRefill = now]

-----------------------------------------------------------------------------
(* The worker *)

VARIABLES
    now,
    bucket,     \* the shared RateLimiter
    job,        \* package -> status of its job, "none" without one
    claimed,    \* package -> processed_at of its job
    pc,         \* where the worker is
    current,    \* the job it holds: package and claim timestamp
    failed,     \* jobErr # nil
    findings,   \* package -> issue types stored in malicious_findings
    checked,    \* package -> the issues of the answer its check status records
    calls       \* history: instant -> requests with a token taken at it

vars == <<now, bucket, job, claimed, pc, current, failed, findings, checked, calls>>

Statuses == {"none", "pending", "processing", "completed", "failed"}

Init ==
    /\ now = 0
    /\ bucket \in {New(n, 1, 0) : n \in Limits}
    /\ job = [p \in Packages |-> "none"]
    /\ claimed = [p \in Packages |-> 0]
    /\ pc = "idle" /\ current = None /\ failed = FALSE
    /\ findings = [p \in Packages |-> {}]
    /\ checked = [p \in Packages |-> None]
    /\ calls = [t \in 0..MaxTime |-> 0]

Tick ==
    /\ now < MaxTime
    /\ now' = now + 1
    /\ UNCHANGED <<bucket, job, claimed, pc, current, failed, findings, checked, calls>>

\* A check request asks for the package.
Request(p) ==
    /\ job[p] \notin {"pending", "processing"}
    /\ job' = [job EXCEPT ![p] = "pending"]
    /\ UNCHANGED <<now, bucket, claimed, pc, current, failed, findings, checked, calls>>

StuckJobs == {p \in Packages : job[p] = "processing" /\ claimed[p] < now - Stuck}

\* A poll tick: resetStuckJobs, which the store may refuse, then the jobs.
Poll ==
    /\ pc = "idle"
    /\ pc' = "next"
    /\ \/ job' = [p \in Packages |-> IF p \in StuckJobs THEN "pending" ELSE job[p]]
       \/ StuckJobs # {} /\ UNCHANGED job
    /\ UNCHANGED <<now, bucket, claimed, current, failed, findings, checked, calls>>

\* No token, or no job (the dequeue may also fail): the token goes back.
NothingToDo ==
    /\ pc = "next"
    /\ pc' = "idle"
    /\ bucket' = IF CanAcquire(bucket, now) THEN Return(Acquire(bucket, now)) ELSE Acquire(bucket, now)
    /\ UNCHANGED <<now, job, claimed, current, failed, findings, checked, calls>>

\* Mutant of Dequeue: the call is made without a token being taken.
DequeueFree(p) ==
    /\ pc = "next" /\ CanAcquire(bucket, now)
    /\ job[p] = "pending"
    /\ job' = [job EXCEPT ![p] = "processing"]
    /\ claimed' = [claimed EXCEPT ![p] = now]
    /\ current' = [pkg |-> p, at |-> now]
    /\ failed' = (p \in Rejected)
    /\ pc' = IF p \in Rejected THEN "complete" ELSE "check"
    /\ bucket' = Return(Acquire(bucket, now))
    /\ UNCHANGED <<now, findings, checked, calls>>

\* DequeueRefresh.  A job that cannot lead to a request gives its token back.
Dequeue(p) ==
    /\ pc = "next" /\ CanAcquire(bucket, now)
    /\ job[p] = "pending"
    /\ job' = [job EXCEPT ![p] = "processing"]
    /\ claimed' = [claimed EXCEPT ![p] = now]
    /\ current' = [pkg |-> p, at |-> now]
    /\ failed' = (p \in Rejected)
    /\ pc' = IF p \in Rejected THEN "complete" ELSE "check"
    /\ bucket' = IF p \in Rejected THEN Return(Acquire(bucket, now)) ELSE Acquire(bucket, now)
    /\ UNCHANGED <<now, findings, checked, calls>>

Called == calls' = [calls EXCEPT ![current.at] = @ + 1]

\* The request fails, or the answer is an error or cannot be parsed.
CheckFails ==
    /\ pc = "check"
    /\ Called
    /\ pc' = "complete" /\ failed' = TRUE
    /\ UNCHANGED <<now, bucket, job, claimed, current, findings, checked>>

\* 429: the bucket is drained and the job left in processing.
CheckLimited ==
    /\ pc = "check"
    /\ Called
    /\ bucket' = Drain(bucket, now)
    /\ pc' = "idle" /\ current' = None
    /\ UNCHANGED <<now, job, claimed, failed, findings, checked>>

\* Mutant of CheckAnswered: a finding that could not be stored is only logged.
CheckAnsweredLogsOnly(issues) ==
    /\ pc = "check"
    /\ Called
    /\ \E stored \in SUBSET issues, recorded \in BOOLEAN :
         /\ findings' = [findings EXCEPT ![current.pkg] = @ \union stored]
         /\ checked' = IF recorded THEN [checked EXCEPT ![current.pkg] = issues] ELSE checked
         /\ failed' = ~recorded
    /\ pc' = "complete"
    /\ UNCHANGED <<now, bucket, job, claimed, current>>

\* 404 or an answer with issues: processIssues stores what it can, and only if
\* nothing failed does updateCheckStatus record the answer, which may fail too.
CheckAnswered(issues) ==
    /\ pc = "check"
    /\ Called
    /\ \E stored \in SUBSET issues, recorded \in BOOLEAN :
         /\ findings' = [findings EXCEPT ![current.pkg] = @ \union stored]
         /\ recorded => stored = issues
         /\ checked' = IF recorded THEN [checked EXCEPT ![current.pkg] = issues] ELSE checked
         /\ failed' = ~recorded
    /\ pc' = "complete"
    /\ UNCHANGED <<now, bucket, job, claimed, current>>

\* CompleteClaimedRefresh: it only matches the claim it was given, and it may
\* fail.  The loop goes on unless the context was cancelled meanwhile.
Complete ==
    /\ pc = "complete"
    /\ \/ /\ job[current.pkg] = "processing" /\ claimed[current.pkg] = current.at
          /\ job' = [job EXCEPT ![current.pkg] = IF failed THEN "failed" ELSE "completed"]
       \/ UNCHANGED job
    /\ pc' \in {"next", "idle"}
    /\ current' = None /\ failed' = FALSE
    /\ UNCHANGED <<now, bucket, claimed, findings, checked, calls>>

Next ==
    \/ Tick
    \/ \E p \in Packages : Request(p) \/ Dequeue(p)
    \/ Poll \/ NothingToDo
    \/ CheckFails \/ CheckLimited
    \/ \E issues \in SUBSET Issues : CheckAnswered(issues)
    \/ Complete

Spec == Init /\ [][Next]_vars

-----------------------------------------------------------------------------
\* The state has its types.
TypeOK ==
    /\ now \in 0..MaxTime
    /\ bucket.tokens \in 0..bucket.limit /\ bucket.limit \in Limits
    /\ bucket.lastRefill \in 0..now /\ bucket.fractional \in 0..(Hour - 1)
    /\ job \in [Packages -> Statuses] /\ claimed \in [Packages -> 0..MaxTime]
    /\ pc \in {"idle", "next", "check", "complete"}
    /\ current \in [pkg : Packages, at : 0..MaxTime] \union {None}
    /\ failed \in BOOLEAN
    /\ findings \in [Packages -> SUBSET Issues]
    /\ checked \in [Packages -> SUBSET Issues \union {None}]

CallsBetween[s \in Int, t \in Int] == IF t < s THEN 0 ELSE calls[t] + CallsBetween[s, t - 1]

\* However jobs, refusals and returned tokens follow each other, no stretch of
\* time sees more requests than a full bucket and what it refills meanwhile
\* (Acquire, Return, Drain, refillLocked); an hour at most twice the limit.
HourlyCallsBounded ==
    \A s, t \in 0..now : s <= t =>
        CallsBetween[s, t] <= bucket.limit + ((t - s) * bucket.limit + Hour - 1) \div Hour

\* A package whose check status records an answer has every issue of that
\* answer among its findings: a failed write of one of them must keep the
\* package unchecked (processIssues before updateCheckStatus).
CheckedMeansStored ==
    \A p \in Packages : checked[p] # None => checked[p] \subseteq findings[p]
=============================================================================
