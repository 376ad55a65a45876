------------------------------ MODULE CheckAPI ------------------------------
(* POST /api/v1/check (internal/api/v1/handler.go): concurrent check           *)
(* requests, their idempotency keys, the scan_log row that is the evidence of  *)
(* a decision, and the response cache that answers replays                     *)
(* (check_response_cache.go).  The blocking policy is domain/scan.go, the      *)
(* aggregate feed status feed/health.go.  Beside it the endpoints of a single  *)
(* package (its findings, and the request to refresh it) and of the feeds.     *)
(*                                                                             *)
(* A request is one handler invocation; its packages are abstracted to the     *)
(* digest of the request, and a response to the findings it reports.           *)
(* The locals a handler no longer needs are reset.  What feeds and imports     *)
(* write is the environment's: a lookup sees any of Stores, the feed status    *)
(* read any of FeedStates.  A finding is [by, type, sev, history]: the lookup  *)
(* that returned it, its type, its severity rank and whether its risk type is *)
(* malware_history.  A feed row is                                             *)
(* [feed, status, synced, entries].                                            *)
EXTENDS Integers, FiniteSets, Functions

CONSTANTS Reqs,         \* handler invocations
          Keys,         \* idempotency keys a client may send
          Digests,      \* request digests
          Malformed,    \* the digests of requests parseCheckRequest refuses
          Stores,       \* the sets of findings the lookups may return
          Thresholds,   \* the block thresholds an operator may set; 0 is NONE
          FeedStates,   \* the contents feed_sync_status may have
          TTL,          \* checkResponseCacheTTL
          MaxEntries,   \* checkResponseCacheMaxEntries
          MaxTime,      \* bound on the clock
          MaxJobs,      \* bound on the refresh jobs
          None

VARIABLES req,          \* req[r]: the handler's locals
          log,          \* the scan_log rows
          cache,        \* checkResponseCache.entries: key and digest -> response
          threshold,    \* RuntimeSettings' block threshold
          now,
          jobs,         \* the refresh queue has a job of the package
          created,      \* history: jobs created for it
          budget,       \* its next check is due: "past" or "future"
          audits        \* package_refresh_enqueue audit rows, by their `new`

vars == <<req, log, cache, threshold, now, jobs, created, budget, audits>>
checkVars == <<log, cache, threshold, now>>
packageVars == <<jobs, created, budget, audits>>

OptionalLookups == {"reputation", "lifecycle"}
Idle == [pc |-> "idle", key |-> None, digest |-> None, replay |-> FALSE,
         degraded |-> FALSE, found |-> {}, result |-> None, code |-> 0]
Finished == {"done", "found", "queued", "feeds"}
InFlight(r) == req[r].pc \notin Finished \cup {"idle", "lost"}

-----------------------------------------------------------------------------
(* The blocking policy. *)

FindingIsInformational(f) == f.type = "supply_chain_risk" /\ f.history

FindingAlwaysBlocks(f) ==
    /\ ~FindingIsInformational(f)
    /\ f.type \in {"malicious", "supply_chain_risk"}

FindingBlocks(f, t) ==
    /\ ~FindingIsInformational(f)
    /\ FindingAlwaysBlocks(f) \/ (t # 0 /\ f.sev >= t)

FindingsBlock(F, t) == \E f \in F : FindingBlocks(f, t)

-----------------------------------------------------------------------------
(* Feed health. *)

HasFreshFeedEntries(s) == s.synced = "recent" /\ s.entries

FeedStatusHealth(s) ==
    CASE s.status \in {"error", "permanent_error", "rejected"} -> "error"
      [] s.status = "disabled" -> "disabled"
      [] s.status = "external" -> "configured"
      [] s.status \in {"running", "pending"} -> "pending"
      [] s.status = "skipped" -> "warning"
      [] OTHER -> IF s.synced = "never" THEN "error"
                  ELSE IF HasFreshFeedEntries(s) THEN "healthy" ELSE "warning"

Active(S) == {s \in S : /\ s.feed # "nvd"
                        /\ FeedStatusHealth(s) \notin {"disabled", "configured"}}

\* Mutant: a feed that never succeeded counts as usable.
UsableWhenPending(s) == FeedStatusHealth(s) \in {"healthy", "pending"}

Usable(s) == \/ FeedStatusHealth(s) = "healthy"
             \/ FeedStatusHealth(s) = "pending" /\ HasFreshFeedEntries(s)

OverallFeedStatus(S) ==
    IF /\ \E s \in S : s.feed # "nvd" /\ FeedStatusHealth(s) # "disabled"
       /\ \A s \in Active(S) : Usable(s)
    THEN "healthy" ELSE "degraded"

-----------------------------------------------------------------------------
(* The response cache. *)

Live(at) == at + TTL > now

deleteExpired(c) == Restrict(c, {k \in DOMAIN c : Live(c[k].at)})

\* deleteOldestLocked: map order decides between entries of the same age.
deleteOldest(c) ==
    {Restrict(c, DOMAIN c \ {k}) :
        k \in {k \in DOMAIN c : \A j \in DOMAIN c : c[k].at <= c[j].at}}

CacheSet(k, found) ==
    LET c == deleteExpired(cache)
    IN  \E room \in IF k \notin DOMAIN c /\ Cardinality(DOMAIN c) >= MaxEntries
                    THEN deleteOldest(c) ELSE {c} :
            cache' = [j \in DOMAIN room \cup {k} |->
                        IF j = k THEN [at |-> now, found |-> found] ELSE room[j]]

-----------------------------------------------------------------------------
(* The scan log. *)

RowOf(key) == {row \in log : row.key = key}

\* ON CONFLICT (idempotency_key) DO NOTHING; keyless rows never conflict.
InsertScanLog(row) ==
    IF row.key # None /\ RowOf(row.key) # {} THEN log ELSE log \cup {row}

\* History: the keyed request that wrote the row.
Author(r) == IF req[r].key = None THEN None ELSE r

\* Mutant: the evidence row takes the threshold of the moment it is written.
logScanRereads(r) ==
    LET q == req[r]
    IN  [key |-> q.key, digest |-> q.digest, findings |-> q.found, by |-> Author(r),
         threshold |-> threshold, blocking |-> q.result.blocking]

\* logScan: the evidence is what the result was decided on.
logScan(r) ==
    LET q == req[r]
    IN  [key |-> q.key, digest |-> q.digest, findings |-> q.found, by |-> Author(r),
         threshold |-> q.result.threshold, blocking |-> q.result.blocking]

Conflicts(q) == \E row \in RowOf(q.key) : row.digest # q.digest

-----------------------------------------------------------------------------
(* One handler invocation. *)

Step(r, pc, f) ==
    req' = [req EXCEPT ![r] = [x \in DOMAIN Idle |->
              CASE x = "pc" -> pc [] x \in DOMAIN f -> f[x] [] OTHER -> req[r][x]]]

Decided == [degraded |-> FALSE, result |-> None]

\* The response is written; of the locals only the request is of interest then,
\* and of a scan result its findings.
Answer(r, code) ==
    req' = [req EXCEPT ![r] = [Idle EXCEPT !.pc = "done", !.code = code,
                                           !.key = req[r].key, !.digest = req[r].digest]]
AnswerFound(r, found) ==
    req' = [req EXCEPT ![r] = [Idle EXCEPT !.pc = "done", !.code = 200, !.found = found,
                                           !.key = req[r].key, !.digest = req[r].digest]]

Init ==
    /\ req = [r \in Reqs |-> Idle]
    /\ log = {} /\ cache = [k \in {} |-> None]
    /\ threshold \in Thresholds /\ now = 0
    /\ jobs = FALSE /\ created = 0 /\ budget = "past"
    /\ audits = [new |-> 0, again |-> 0]

parseCheckRequest(r) ==
    /\ req[r].pc = "idle"
    /\ \E key \in Keys \cup {None}, d \in Digests :
          IF d \in Malformed THEN Answer(r, 400)
          ELSE Step(r, "resolve", [key |-> key, digest |-> d])
    /\ UNCHANGED <<checkVars, packageVars>>

resolveCheckIdempotency(r) ==
    LET q == req[r] IN
    /\ q.pc = "resolve"
    /\ \/ q.key = None /\ Step(r, "collect", <<>>)
       \/ q.key # None /\ Answer(r, 500)     \* the lookup fails
       \/ /\ q.key # None
          /\ IF Conflicts(q) THEN Answer(r, 409)
             ELSE LET replay == RowOf(q.key) # {}
                  IN  Step(r, IF replay THEN "cached" ELSE "collect", [replay |-> replay])
    /\ UNCHANGED <<checkVars, packageVars>>

cachedCheckResponse(r) ==
    LET k == <<req[r].key, req[r].digest>>
        hit == k \in DOMAIN cache /\ Live(cache[k].at)
    IN  /\ req[r].pc = "cached"
        /\ IF hit THEN AnswerFound(r, cache[k].found) ELSE Step(r, "collect", <<>>)
        /\ cache' = IF hit THEN cache ELSE Restrict(cache, DOMAIN cache \ {k})
        /\ UNCHANGED <<log, threshold, now, packageVars>>

\* The four lookups: a failing vulnerability or malicious lookup ends the
\* request, a failing optional one drops its findings and degrades coverage.
collectFindingsForCheck(r) ==
    /\ req[r].pc = "collect"
    /\ \/ Answer(r, 500)
       \/ \E failed \in SUBSET OptionalLookups, stored \in Stores :
            Step(r, "decide", [found |-> {f \in stored : f.by \notin failed},
                               degraded |-> failed # {}])
    /\ UNCHANGED <<checkVars, packageVars>>

\* buildCheckResult: the threshold is read once; a failing feed status read
\* counts as degraded.
buildCheckResult(r) ==
    LET q == req[r] IN
    /\ q.pc = "decide"
    /\ \E feeds \in FeedStates : \E status \in {OverallFeedStatus(feeds), "degraded"} :
          LET result == [blocking |-> FindingsBlock(q.found, threshold),
                         threshold |-> threshold, feeds |-> feeds,
                         status |-> IF q.degraded THEN "degraded" ELSE status]
          IN  IF q.replay THEN Step(r, "cache", Decided)
              ELSE Step(r, "log", [result |-> result])
    /\ UNCHANGED <<checkVars, packageVars>>

\* Without a key a failed insert is only logged.
LogFailed(q) == q.key = None

persistCheckScanLog(r) ==
    LET q == req[r] IN
    /\ q.pc = "log"
    /\ \/ log' = InsertScanLog(logScan(r)) /\ Step(r, "verify", Decided)
       \/ /\ log' = log
          /\ IF LogFailed(q) THEN Step(r, "cache", Decided) ELSE Answer(r, 500)
    /\ UNCHANGED <<cache, threshold, now, packageVars>>

\* Mutant: an answer is sent although its evidence belongs to another request.
verifyAccepts(r) ==
    req[r].pc = "verify" /\ Step(r, "cache", Decided)
    /\ UNCHANGED <<checkVars, packageVars>>

verifyCheckIdempotencyAfterLog(r) ==
    LET q == req[r] IN
    /\ q.pc = "verify"
    /\ \/ q.key # None /\ Answer(r, 500)     \* the second lookup fails
       \/ IF q.key # None /\ Conflicts(q) THEN Answer(r, 409)
          ELSE Step(r, "cache", Decided)
    /\ UNCHANGED <<checkVars, packageVars>>

cacheCheckResponse(r) ==
    LET q == req[r] IN
    /\ q.pc = "cache"
    /\ AnswerFound(r, q.found)
    /\ IF q.key = None THEN cache' = cache ELSE CacheSet(<<q.key, q.digest>>, q.found)
    /\ UNCHANGED <<log, threshold, now, packageVars>>

-----------------------------------------------------------------------------
(* The environment. *)

\* An operator saves the runtime settings.
SetBlockThreshold ==
    /\ threshold' \in Thresholds \ {threshold}
    /\ UNCHANGED <<req, log, cache, now, packageVars>>

Tick ==
    /\ now < MaxTime /\ now' = now + 1
    /\ UNCHANGED <<req, log, cache, threshold, packageVars>>

\* The server process dies: requests in flight get no answer, the log stays.
Restart ==
    /\ \E r \in Reqs : InFlight(r)
    /\ req' = [r \in Reqs |-> IF InFlight(r) THEN [Idle EXCEPT !.pc = "lost"] ELSE req[r]]
    /\ cache' = [k \in {} |-> None]
    /\ UNCHANGED <<log, threshold, now, packageVars>>

CheckNext ==
    \/ \E r \in Reqs :
          \/ parseCheckRequest(r) \/ resolveCheckIdempotency(r)
          \/ cachedCheckResponse(r) \/ collectFindingsForCheck(r)
          \/ buildCheckResult(r) \/ persistCheckScanLog(r)
          \/ verifyCheckIdempotencyAfterLog(r) \/ cacheCheckResponse(r)
    \/ SetBlockThreshold \/ Tick \/ Restart

-----------------------------------------------------------------------------
(* The endpoints of one package.  A request is a method and what is wrong      *)
(* with its path, its version or its body, in the order the code looks; the    *)
(* path of a POST ends in /refresh unless it is "fine".                        *)

PackageRequests == [method : {"GET", "HEAD", "POST", "PUT"}, path : {"fine", "refresh", "bad"},
                    version : {"none", "given", "bad"}, body : {"absent", "object", "untyped", "other"}]

\* Why the refresh provider may refuse: none, not this ecosystem, private
\* namespace, no source.
Refreshes == {"active", "refused"}

HandlePackageDetail(q) ==
    CASE q.path = "bad" \/ q.version = "bad" -> 400
      [] q.method = "HEAD" -> 200
      [] OTHER -> 0

handleRefresh(q, provider) ==
    CASE q.path = "bad" -> 400
      [] q.path = "fine" -> 405           \* no /refresh suffix
      [] q.body = "untyped" -> 415
      [] q.body = "other" -> 400
      [] provider = "refused" -> 409
      [] OTHER -> 0

\* The dispatcher; 0 goes on to the store.
HandlePackage(r) ==
    /\ req[r].pc = "idle"
    /\ \E q \in PackageRequests, provider \in Refreshes :
          LET code == CASE q.method \in {"GET", "HEAD"} -> HandlePackageDetail(q)
                        [] q.method = "POST" -> handleRefresh(q, provider)
                        [] OTHER -> 405
          IN  IF code # 0 THEN Answer(r, code)
              ELSE Step(r, IF q.method = "POST" THEN "budget" ELSE "detail",
                        [key |-> q.version])
    /\ UNCHANGED <<checkVars, packageVars>>

\* The four lookups one after the other: the required ones end the request,
\* an optional one that fails is left out; without a version there is no
\* lifecycle lookup.
FindPackage(r) ==
    /\ req[r].pc = "detail"
    /\ \/ Answer(r, 500)
       \/ \E failed \in SUBSET OptionalLookups, stored \in Stores \cup {{}} :
             LET skipped == failed \cup IF req[r].key = "none" THEN {"lifecycle"} ELSE {}
                 found == {f \in stored : f.by \notin skipped}
             IN  Step(r, "found", [found |-> found, degraded |-> skipped # {},
                                   code |-> IF found = {} THEN 404 ELSE 200])
    /\ UNCHANGED <<checkVars, packageVars>>

\* The budget of the last check is read before the job is written.
GetPackageCheckStatus(r) ==
    /\ req[r].pc = "budget"
    /\ \/ Answer(r, 500)
       \/ IF budget = "future" THEN Answer(r, 202) ELSE Step(r, "enqueue", <<>>)
    /\ UNCHANGED <<checkVars, packageVars>>

\* Job and audit row are written in one transaction, or neither.
enqueuePackageRefreshWithAudit(r) ==
    /\ req[r].pc = "enqueue"
    /\ \/ Answer(r, 500) /\ UNCHANGED packageVars
       \/ /\ jobs \/ created < MaxJobs
          /\ jobs' = TRUE
          /\ created' = IF jobs THEN created ELSE created + 1
          /\ audits' = IF jobs THEN [audits EXCEPT !.again = @ + 1]
                       ELSE [audits EXCEPT !.new = @ + 1]
          /\ Step(r, "queued", [result |-> [new |-> ~jobs], code |-> 202])
          /\ UNCHANGED budget
    /\ UNCHANGED checkVars

\* A failing read is answered with the degraded status and no feeds.
HandleFeedStatus(r) ==
    /\ req[r].pc = "idle"
    /\ \/ Answer(r, 405)
       \/ Step(r, "feeds", [result |-> [status |-> "degraded", items |-> {}], code |-> 200])
       \/ \E feeds \in FeedStates :
             Step(r, "feeds", [code |-> 200, result |->
                [status |-> OverallFeedStatus(feeds),
                 items |-> {[name |-> s.feed, status |-> FeedStatusHealth(s), fresh |-> HasFreshFeedEntries(s)] : s \in feeds}]])
    /\ UNCHANGED <<checkVars, packageVars>>


\* The worker has checked the package; later its next check is due again.
RefreshDone ==
    /\ jobs /\ jobs' = FALSE
    /\ budget' \in {"past", "future"}
    /\ UNCHANGED <<req, checkVars, created, audits>>

CheckDue ==
    /\ budget = "future" /\ budget' = "past"
    /\ UNCHANGED <<req, checkVars, jobs, created, audits>>

PackageNext ==
    \/ \E r \in Reqs :
          \/ HandlePackage(r) \/ FindPackage(r) \/ GetPackageCheckStatus(r)
          \/ enqueuePackageRefreshWithAudit(r) \/ HandleFeedStatus(r)
    \/ RefreshDone \/ CheckDue \/ Restart

Next == CheckNext \/ PackageNext

Spec == Init /\ [][Next]_vars

-----------------------------------------------------------------------------
TypeOK ==
    /\ \A r \in Reqs : /\ req[r].code \in {0, 200, 202, 400, 404, 405, 409, 415, 500}
                       /\ (req[r].code # 0) <=> (req[r].pc \in Finished)
    /\ Cardinality(DOMAIN cache) <= MaxEntries
    /\ \A row \in log : row.key # None => RowOf(row.key) = {row}

\* A check answered with 200 under an idempotency key has its scan_log row, and
\* the row names this very request: whatever the interleaving of requests that
\* carry the same key, of failing inserts and of a restart, no two different
\* requests are both accepted under one key (persistCheckScanLog and the
\* re-read in verifyCheckIdempotencyAfterLog).  The handler that wrote the row
\* has answered the findings in it.  Another answer under the key need not
\* have them: a replay that misses the cache, and the request that lost the
\* race for the row, report what they looked up themselves, unlogged.
KeyedAnswerLogged ==
    \A r \in Reqs :
        req[r].code = 200 /\ req[r].key # None =>
            \E row \in RowOf(req[r].key) :
                /\ row.digest = req[r].digest
                /\ row.by = r => row.findings = req[r].found

\* The evidence of a decision is consistent: findings_blocking is what the
\* policy says of the logged findings under the logged threshold, even when an
\* operator changes the threshold while the check is answered (logScan).
EvidenceConsistent ==
    \A row \in log : row.blocking = FindingsBlock(row.findings, row.threshold)

\* A check says "healthy" only if every lookup answered and every feed that
\* Packmon itself keeps, NVD excepted, has fresh entries - a feed that is
\* syncing included (OverallFeedStatus in feed/health.go, buildCheckResult).
HealthyMeansFresh ==
    \A r \in Reqs : req[r].pc = "log" /\ req[r].result.status = "healthy" =>
        /\ ~req[r].degraded
        /\ \A s \in req[r].result.feeds :
              s.feed # "nvd" /\ s.status \notin {"disabled", "external"}
                  => HasFreshFeedEntries(s)

\* The feeds page and its headline agree: under "healthy" every feed it lists,
\* NVD excepted, is switched off, external, or has fresh entries
\* (HandleFeedStatus).
FeedPageConsistent ==
    \A r \in Reqs : req[r].pc = "feeds" /\ req[r].result.status = "healthy" =>
        \A i \in req[r].result.items :
            i.name = "nvd" \/ i.status \in {"disabled", "configured"} \/ i.fresh

\* Every refresh job a client caused is on record, once, and every answer that
\* says it queued one has its audit row, also when requests race with each
\* other and with the worker, a transaction fails or the server stops
\* (enqueuePackageRefreshWithAudit).
RefreshesAudited ==
    LET Told(new) == {r \in Reqs : req[r].pc = "queued" /\ req[r].result.new = new}
    IN  /\ created = audits.new
        /\ Cardinality(Told(TRUE)) <= audits.new
        /\ Cardinality(Told(FALSE)) <= audits.again

=============================================================================
