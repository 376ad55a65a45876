---------------------------- MODULE UpdateLookup ----------------------------
(* The latest-version lookup phase of the CLI (cmd/packmon/update_lookup.go,   *)
(* registry_failures.go, outdated.go): a worker pool resolves the packages of  *)
(* the inventory through a shared cache that runs each lookup once, a request  *)
(* throttle and a failure breaker, while the user may cancel.                  *)
(*                                                                             *)
(* Package n of the inventory is Item[n] = [name, kind, installed, pinned,     *)
(* declared, direct, parents, mirror, refs].  Versions are numbers, a failed   *)
(* lookup ("" or not ok) is 0, and the commit of a tag is the tag's number; a  *)
(* declared version is a hint at least as precise as the latest tag, or 0.     *)
(* A cache key is <<"latest" | "meta" | "tag", name>>.                         *)
EXTENDS Integers, Sequences, FiniteSets, FiniteSetsExt, Functions

CONSTANTS Item,         \* the packages to resolve, in order
          Versions,     \* Versions[name]: what the registry publishes
          Wants,        \* Wants[parent][name]: the range a parent's manifest sets, or {}
          Workers,      \* the worker goroutines
          Threshold,    \* registryBreakerThreshold
          MaxPanics     \* bound on resolver panics

VARIABLES w,            \* w[x]: what worker x is doing
          next,         \* the next index to hand out
          closed,       \* the jobs channel is closed
          results,      \* results[n]
          cache,        \* packageUpdateCache: key -> [value, why]
          inflight,     \* key -> the worker that runs the lookup
          phase,        \* registryLookupPhase
          ctx,          \* "live" or "cancelled"
          panics,
          report        \* the report; done once it is finished

vars == <<w, next, closed, results, cache, inflight, phase, ctx, panics, report>>

Idle == [pc |-> "idle", item |-> 0, key |-> <<>>, got |-> <<>>]
Unfinished == [done |-> FALSE, outdated |-> {}, upToDate |-> {}, unknown |-> {},
               warnings |-> {}]
unknownLatestStatus == [latest |-> 0, update |-> "unknown"]
Cancelled == ctx = "cancelled"

-----------------------------------------------------------------------------
(* registryLookupPhase *)

recordRefusal(p) ==
    [p EXCEPT !.refused = @ + 1, !.consecutive = @ + 1,
              !.tripped = @ \/ p.consecutive + 1 >= Threshold]

recordOversized(p) == [p EXCEPT !.refused = @ + 1, !.oversized = @ + 1]

recordSuccess(p) == [p EXCEPT !.consecutive = 0]

recordSkipped(p) == [p EXCEPT !.skipped = @ + 1]

\* The warnings of a phase that was not cancelled, by kind.
registryLookupPhaseReportWarnings(p) ==
    {k \in {"refused", "oversized", "skipped"} :
        CASE k = "refused" -> p.refused - p.oversized > 0
          [] k = "oversized" -> p.oversized > 0
          [] k = "skipped" -> p.tripped}

-----------------------------------------------------------------------------
(* What one package needs and what its answers mean. *)

publicLookupAllowedForSourceRefs(p) == \A ref \in p.refs : ref = "public"

latestLookupAllowed(p) == p.mirror \/ publicLookupAllowedForSourceRefs(p)

\* npmParentDependencyRangesWithLookup, over the parents answered so far.
ParentRanges(p, got) ==
    {Wants[q][p.name] : q \in {q \in p.parents : <<"meta", q>> \in DOMAIN got
                                                 /\ got[<<"meta", q>>] # 0}} \ {{}}

selectNPMWantedVersion(name, ranges) ==
    LET fit == {v \in Versions[name] : \A r \in ranges : v \in r}
    IN  IF fit = {} THEN 0 ELSE Max(fit)

\* resolveNPMWantedVersionWithLookup: the newest version all parents allow,
\* never below the installed one, and the latest when nothing is known.
resolveNPMWantedVersion(p, latest, got) ==
    LET ranges == ParentRanges(p, got)
        wanted == selectNPMWantedVersion(p.name, ranges)
    IN  IF ranges = {} \/ got[<<"meta", p.name>>] = 0 \/ wanted = 0 THEN latest
        ELSE Max({wanted, p.installed})

updateStatus(installed, target) ==
    [latest |-> target, update |-> IF target > installed THEN "yes" ELSE "-"]

resolveGitHubActionSHAPinStatus(p, target, got) ==
    IF p.declared # 0 THEN updateStatus(p.declared, target)
    ELSE LET commit == got[<<"tag", p.name>>]
         IN  [latest |-> target, update |-> CASE commit = 0 -> "unknown"
                                              [] commit = p.installed -> "-"
                                              [] OTHER -> "yes"]

\* The lookups resolvePackageUpdateStatusWithLookup still has to make.
Pending(p, got) ==
    LET latest == <<"latest", p.name>>
        parents == {<<"meta", q>> : q \in p.parents} \ DOMAIN got
        ranged == p.kind = "npm" /\ ~p.direct
    IN  CASE latest \notin DOMAIN got -> {latest}
          [] got[latest] = 0 -> {}
          [] ranged /\ parents # {} -> parents
          [] ranged /\ ParentRanges(p, got) # {} -> {<<"meta", p.name>>} \ DOMAIN got
          [] p.pinned /\ p.declared = 0 -> {<<"tag", p.name>>} \ DOMAIN got
          [] OTHER -> {}

Status(p, got) ==
    LET latest == got[<<"latest", p.name>>]
    IN  CASE latest = 0 -> unknownLatestStatus
          [] p.kind = "npm" /\ ~p.direct ->
                updateStatus(p.installed, resolveNPMWantedVersion(p, latest, got))
          [] p.pinned -> resolveGitHubActionSHAPinStatus(p, latest, got)
          [] OTHER -> updateStatus(p.installed, latest)

selectLatestVersion(versions) == IF versions = {} THEN 0 ELSE Max(versions)

\* What the registry of the ecosystem names as the latest version.
fetchLatestFromBase(name) == selectLatestVersion(Versions[name])

\* What the newest version tag of the repository is.
fetchGitLatest(name) == selectLatestVersion(Versions[name])

-----------------------------------------------------------------------------
(* The cache: fetchLatestVersion, fetchNPMMetadata and gitRemoteTagCommit are  *)
(* three copies of one single-flight protocol.                                 *)

Got(x, key, value) == [pc |-> "next", item |-> w[x].item, key |-> <<>>,
                       got |-> [k \in DOMAIN w[x].got \cup {key} |->
                                  IF k = key THEN value ELSE w[x].got[k]]]

\* Where a lookup starts: git lookups are not throttled.
Start(x, key) ==
    IF Item[w[x].item].kind = "action" THEN "git" ELSE "check"

\* Mutant: a second caller starts a request of its own.
LookupUnshared(x, key) ==
    /\ w' = [w EXCEPT ![x] = IF key \in DOMAIN cache THEN Got(x, key, cache[key].value)
                             ELSE [@ EXCEPT !.pc = Start(x, key), !.key = key]]
    /\ inflight' = [k \in DOMAIN inflight \cup {key} |-> x]

Lookup(x, key) ==
    /\ w' = [w EXCEPT ![x] =
                IF key \in DOMAIN cache THEN Got(x, key, cache[key].value)
                ELSE IF key \in DOMAIN inflight THEN [@ EXCEPT !.pc = "wait", !.key = key]
                ELSE [@ EXCEPT !.pc = Start(x, key), !.key = key]]
    /\ inflight' = IF key \in DOMAIN cache \cup DOMAIN inflight THEN inflight
                   ELSE [k \in DOMAIN inflight \cup {key} |->
                            IF k = key THEN x ELSE inflight[k]]

fetchLatestVersion(x, p) ==
    LET key == <<"latest", p.name>>
    IN  key \in Pending(p, w[x].got) /\ Lookup(x, key)

fetchNPMMetadata(x, p) ==
    \E key \in Pending(p, w[x].got) : key[1] = "meta" /\ Lookup(x, key)

gitRemoteTagCommit(x, p) ==
    LET key == <<"tag", p.name>>
    IN  key \in Pending(p, w[x].got) /\ Lookup(x, key)

Waiters(key) == {y \in Workers : w[y].pc = "wait" /\ w[y].key = key}

\* Mutant: a panic leaves the call unfinished.
PanicForgets(x) ==
    w' = [w EXCEPT ![x] = Idle]

\* A resolver panic still completes the call: the waiters see a failed lookup.
PanicCompletes(x) ==
    w' = [y \in Workers |-> IF y = x THEN Idle
                            ELSE IF y \in Waiters(w[x].key) THEN Got(y, w[x].key, 0)
                            ELSE w[y]]

\* The deferred completion: the value reaches the cache and every waiter.
Settle(x, value, why) ==
    LET key == w[x].key IN
    /\ cache' = [k \in DOMAIN cache \cup {key} |->
                    IF k = key THEN [value |-> value, why |-> why] ELSE cache[k]]
    /\ inflight' = Restrict(inflight, DOMAIN inflight \ {key})
    /\ w' = [y \in Workers |-> IF y \in Waiters(key) \cup {x} THEN Got(y, key, value)
                               ELSE w[y]]

-----------------------------------------------------------------------------
(* Steps of a worker. *)

\* resolveLatestWithWorkerPool: the unbuffered channel hands over an index; a
\* worker drops it when the context has ended.
Receive(x) ==
    /\ w[x].pc = "idle" /\ ~closed /\ next <= Len(Item)
    /\ next' = next + 1
    /\ w' = IF Cancelled THEN w ELSE [w EXCEPT ![x].pc = "next", ![x].item = next]
    /\ UNCHANGED <<closed, results, cache, inflight, phase, ctx, panics, report>>

resolvePackageUpdateStatus(x) ==
    LET p == Item[w[x].item]
        allowed == latestLookupAllowed(p)
    IN  /\ w[x].pc = "next"
        /\ \/ /\ allowed
              /\ fetchLatestVersion(x, p) \/ fetchNPMMetadata(x, p) \/ gitRemoteTagCommit(x, p)
              /\ UNCHANGED results
           \/ /\ allowed => Pending(p, w[x].got) = {}
              /\ results' = [results EXCEPT ![w[x].item] =
                                IF allowed THEN Status(p, w[x].got) ELSE unknownLatestStatus]
              /\ w' = [w EXCEPT ![x] = Idle]
              /\ UNCHANGED inflight
        /\ UNCHANGED <<next, closed, cache, phase, ctx, panics, report>>

\* A waiter whose context ends does not wait for the call.
AbandonWait(x) ==
    /\ w[x].pc = "wait" /\ Cancelled
    /\ w' = [w EXCEPT ![x] = Got(x, w[x].key, 0)]
    /\ UNCHANGED <<next, closed, results, cache, inflight, phase, ctx, panics, report>>

\* registryGetLimitedWithHeaders up to the throttle.
CheckBreaker(x) ==
    /\ w[x].pc = "check"
    /\ IF phase.tripped
       THEN phase' = recordSkipped(phase) /\ Settle(x, 0, "skipped")
       ELSE /\ w' = [w EXCEPT ![x].pc = "throttle"]
            /\ UNCHANGED <<phase, cache, inflight>>
    /\ UNCHANGED <<next, closed, results, ctx, panics, report>>

waitForRegistryThrottle(x) ==
    /\ w[x].pc = "throttle"
    /\ \/ w' = [w EXCEPT ![x].pc = "sent"] /\ UNCHANGED <<cache, inflight>>
       \/ Cancelled /\ Settle(x, 0, "cancelled")
    /\ UNCHANGED <<next, closed, results, phase, ctx, panics, report>>

\* The answer: a 404 resets the streak, an incomplete body is a refusal, a
\* body over the limit resets the streak and is still counted.
registryGet(x) ==
    /\ w[x].pc = "sent"
    /\ \/ phase' = recordSuccess(phase) /\ Settle(x, fetchLatestFromBase(w[x].key[2]), "answer")
       \/ phase' = recordSuccess(phase) /\ Settle(x, 0, "answer")   \* 404, or not decodable
       \/ ~Cancelled /\ phase' = recordRefusal(phase) /\ Settle(x, 0, "refused")
       \/ phase' = recordOversized(recordSuccess(phase)) /\ Settle(x, 0, "oversized")
       \/ Cancelled /\ phase' = phase /\ Settle(x, 0, "cancelled")
    /\ UNCHANGED <<next, closed, results, ctx, panics, report>>

\* gitRemoteTags and the git ls-remote of one tag: only failures are recorded.
gitLookup(x) ==
    /\ w[x].pc = "git"
    /\ \/ phase' = phase /\ Settle(x, fetchGitLatest(w[x].key[2]), "answer")
       \/ ~Cancelled /\ phase' = recordRefusal(phase) /\ Settle(x, 0, "refused")
       \/ Cancelled /\ phase' = phase /\ Settle(x, 0, "cancelled")
    /\ UNCHANGED <<next, closed, results, ctx, panics, report>>

\* The pool recovers: the package stays unresolved and the worker goes on.
ResolverPanics(x) ==
    /\ w[x].pc \in {"sent", "git"} /\ panics < MaxPanics
    /\ panics' = panics + 1
    /\ PanicCompletes(x)
    /\ inflight' = Restrict(inflight, DOMAIN inflight \ {w[x].key})
    /\ UNCHANGED <<next, closed, results, cache, phase, ctx, report>>

-----------------------------------------------------------------------------
(* The command. *)

Init ==
    /\ w = [x \in Workers |-> Idle] /\ next = 1 /\ closed = FALSE
    /\ results = [n \in DOMAIN Item |-> unknownLatestStatus]
    /\ cache = [k \in {} |-> 0] /\ inflight = [k \in {} |-> 0]
    /\ phase = [refused |-> 0, oversized |-> 0, skipped |-> 0, consecutive |-> 0,
                tripped |-> FALSE]
    /\ ctx = "live" /\ panics = 0 /\ report = Unfinished

CloseJobs ==
    /\ ~closed /\ (next > Len(Item) \/ Cancelled)
    /\ closed' = TRUE
    /\ UNCHANGED <<w, next, results, cache, inflight, phase, ctx, panics, report>>

applyOutdatedStatusesToReport ==
    [done |-> TRUE,
     outdated |-> {n \in DOMAIN Item : results[n].update = "yes"},
     upToDate |-> {n \in DOMAIN Item : results[n].update = "-"},
     unknown |-> {n \in DOMAIN Item : results[n].update = "unknown"},
     warnings |-> IF Cancelled THEN {} ELSE registryLookupPhaseReportWarnings(phase)]

\* wg.Wait, then the report.
resolveOutdatedStatuses ==
    /\ closed /\ ~report.done /\ \A x \in Workers : w[x].pc = "idle"
    /\ report' = applyOutdatedStatusesToReport
    /\ UNCHANGED <<w, next, closed, results, cache, inflight, phase, ctx, panics>>

Cancel ==
    /\ ctx = "live" /\ ~report.done /\ ctx' = "cancelled"
    /\ UNCHANGED <<w, next, closed, results, cache, inflight, phase, panics, report>>

Worker(x) ==
    \/ Receive(x) \/ resolvePackageUpdateStatus(x) \/ AbandonWait(x) \/ CheckBreaker(x)
    \/ waitForRegistryThrottle(x) \/ registryGet(x) \/ gitLookup(x)

Next == CloseJobs \/ resolveOutdatedStatuses \/ Cancel
        \/ \E x \in Workers : Worker(x) \/ ResolverPanics(x)

\* Goroutines run, requests end by their own timeout.
Fairness == /\ WF_vars(CloseJobs) /\ WF_vars(resolveOutdatedStatuses)
            /\ \A x \in Workers : WF_vars(Worker(x))

Spec == Init /\ [][Next]_vars /\ Fairness

-----------------------------------------------------------------------------
TypeOK ==
    /\ phase.tripped \in BOOLEAN
    /\ \A n \in DOMAIN Item : results[n].update \in {"yes", "-", "unknown"}
    /\ \A k \in DOMAIN inflight : inflight[k] \in Workers

\* Concurrent callers of a lookup share one invocation, and a cached answer is
\* never fetched again (packageUpdateCache).
OneCallPerKey ==
    \A x, y \in Workers :
        w[x].pc \in {"check", "throttle", "sent", "git"} =>
            /\ w[x].key \notin DOMAIN cache
            /\ w[y].key = w[x].key => x = y \/ w[y].pc = "wait"

\* The warnings of a finished phase name every kind of failure that left a
\* lookup without an answer: a registry that refuses, a response over the size
\* limit, a lookup the breaker skipped (the counters of registryLookupPhase).
FailuresReported ==
    report.done /\ ~Cancelled =>
        \A k \in DOMAIN cache : cache[k].why # "answer" => cache[k].why \in report.warnings

\* The phase ends whatever the registries do, a panicking resolver or a
\* cancellation included: nobody waits for a call that is never completed.
PhaseEnds == <>(report.done)

\* "registryBreakerThreshold is the number of consecutive failed registry
\* requests after which the lookup phase stops issuing new requests."
\* Not so, and in no run: the breaker is checked before the throttle, and a
\* request that waits there is sent after the breaker tripped.
BreakerStopsRequests ==
    [][\A x \in Workers : w[x].pc # "sent" /\ w'[x].pc = "sent" => ~phase.tripped]_vars

=============================================================================
