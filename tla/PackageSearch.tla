--------------------------- MODULE PackageSearch ---------------------------
(***************************************************************************)
(* The package search of the web interface: HandleSearch pages through     *)
(* SearchPackages of the server's store (Postgres, one goroutine per       *)
(* collector) or of the CLI's local store (SQLite, one collector after the *)
(* other).  Each collector is a query with its own LIMIT; the page is cut  *)
(* from the merged answers.                                                *)
(*                                                                         *)
(* A package is a triple <<name, ecosystem, version>> of naturals (version *)
(* 0 is the empty one), a finding row a record: the table it is in, its    *)
(* state there, its package, its severity and its id.                      *)
(***************************************************************************)
EXTENDS Integers, Sequences, FiniteSets, FiniteSetsExt, SequencesExt

CONSTANTS
    Requests,  \* the request: store, its rows and the order in which its
               \* collation puts names, query, severity, finding and page
    PageSize,  \* searchResultLimit
    IdLimit,   \* searchIDPreviewLimit and SearchVulnerabilityIDPreviewLimit
    MaxInt     \* the largest int

VARIABLES
    request,   \* the search the browser walks through
    page,      \* the page asked for
    phase,     \* "idle", "collecting", "done"
    gone,      \* the browser has dropped the request
    tasks,     \* collector -> "running", "ok", "failed", "cancelled"
    partial,   \* collector -> packages its query returned
    shown,     \* results of all pages shown so far
    answer     \* the last page: its error, its results, whether there is more

vars == <<request, page, phase, gone, tasks, partial, shown, answer>>

----------------------------------------------------------------------------
\* The order of sortSearchResults: name, ecosystem, version.
Before(a, b) ==
    \/ a[1] < b[1]
    \/ a[1] = b[1] /\ a[2] < b[2]
    \/ a[1] = b[1] /\ a[2] = b[2] /\ a[3] < b[3]

\* Of a set of packages, those in positions offset .. offset + limit - 1.
Slice(packages, limit, offset) ==
    {p \in packages : LET rank == Cardinality({q \in packages : Before(q, p)})
                      IN  offset <= rank /\ rank < offset + limit}

packageSearchCollectorPlan(finding) ==
    CASE finding = ""                  -> <<"vulnerability", "malicious", "reputation_malicious",
                                            "reputation_supply_chain", "lifecycle_eol", "lifecycle_warning">>
      [] finding = "vulnerability"     -> <<"vulnerability">>
      [] finding = "malicious"         -> <<"malicious", "reputation_malicious">>
      [] finding = "supply_chain_risk" -> <<"reputation_supply_chain", "lifecycle_eol">>
      [] finding = "lifecycle"         -> <<"lifecycle_warning">>

\* Which rows each collector selects, and the finding type it reports.
collectVulnerability == [table |-> "vulnerability", states |-> {"active"}, type |-> "vulnerability"]
collectMalicious == [table |-> "malicious", states |-> {"active"}, type |-> "malicious"]
collectReputationMalicious == [table |-> "reputation", states |-> {"malicious"}, type |-> "malicious"]
collectReputationSupplyChain ==
    [table |-> "reputation", states |-> {"removed", "risk"}, type |-> "supply_chain_risk"]
collectLifecycleEOL == [table |-> "lifecycle", states |-> {"eol"}, type |-> "supply_chain_risk"]
collectLifecycleWarning == [table |-> "lifecycle", states |-> {"eol_soon", "eoas"}, type |-> "lifecycle"]

packageSearchTasks ==
    [vulnerability |-> collectVulnerability, malicious |-> collectMalicious,
     reputation_malicious |-> collectReputationMalicious,
     reputation_supply_chain |-> collectReputationSupplyChain,
     lifecycle_eol |-> collectLifecycleEOL, lifecycle_warning |-> collectLifecycleWarning]

----------------------------------------------------------------------------
\* HandleSearch: what is searched for, whether at all, and from where.
searchQuery == IF request.query.length = "ok" THEN request.query.names ELSE {}

normalizeSearchSeverity(raw) == IF raw \in {"", "CRITICAL", "HIGH", "MEDIUM", "LOW"} THEN raw ELSE ""

normalizeSearchFindingType(raw) ==
    IF raw \in {"", "vulnerability", "malicious", "supply_chain_risk", "lifecycle"} THEN raw ELSE ""

invalidSearchFilterError ==
    \/ request.severity # "" /\ normalizeSearchSeverity(request.severity) = ""
    \/ request.finding # "" /\ normalizeSearchFindingType(request.finding) = ""

shouldSearch ==
    /\ request.query.length \in {"none", "ok"}
    /\ ~invalidSearchFilterError
    /\ request.query.length = "ok" \/ request.severity # "" \/ request.finding # ""

parseSearchPage(raw) == IF raw < 1 THEN 1 ELSE Min({raw, MaxInt \div PageSize})

searchPageOffset == (page - 1) * PageSize

limit == PageSize + 1

\* Mutant: a collector reads one page, whatever the offset.
collectorLimitPageOnly == limit

\* limit + offset, or the largest int where that would overflow.
collectorLimit == IF limit > MaxInt - searchPageOffset THEN MaxInt ELSE limit + searchPageOffset

plan == packageSearchCollectorPlan(request.finding)

\* The rows collector c selects: the table's, filtered by name and severity.
Rows(c) ==
    LET t == packageSearchTasks[c]
    IN  {r \in request.rows : /\ r.table = t.table /\ r.state \in t.states
                              /\ request.query.length = "none" \/ r.package[1] \in searchQuery
                              /\ request.severity \in {"", r.severity}}

Packages(c) == {r.package : r \in Rows(c)}

\* Any `size' packages that come first in an order which leaves ties open.
FirstOf(packages, size, Lower(_, _)) ==
    {T \in SUBSET packages : /\ Cardinality(T) = Min({size, Cardinality(packages)})
                             /\ \A p \in T, q \in packages \ T : ~Lower(q, p)}

\* Postgres: ORDER BY name, ecosystem LIMIT n says nothing of versions, and
\* compares names by the collation of the database, not byte by byte.
NameEcosystem(a, b) ==
    Before(<<request.collation[a[1]], a[2], 0>>, <<request.collation[b[1]], b[2], 0>>)
postgresCollects(c) == FirstOf(Packages(c), collectorLimit, NameEcosystem)

\* Mutant: the LIMIT also cuts rows that are filtered by name afterwards.
localSearchSQLNameFilterLimited == collectorLimit

\* SQLite: a query with a non-ASCII name has no LIKE and no LIMIT, Go filters
\* the names; otherwise the groups come in key order and are sorted by name.
localSearchSQLNameFilter ==
    IF request.query.length = "ok" /\ ~request.query.ascii THEN Cardinality(request.rows) ELSE collectorLimit
sqliteTable(c) ==
    {r \in request.rows : /\ r.table = packageSearchTasks[c].table
                          /\ r.state \in packageSearchTasks[c].states
                          /\ request.severity \in {"", r.severity}
                          /\ (request.query.length = "ok" /\ request.query.ascii) => r.package[1] \in searchQuery}
sqliteCollects(c) ==
    {T \cap Packages(c) : T \in FirstOf({r.package : r \in sqliteTable(c)}, localSearchSQLNameFilter, Before)}

Collects(c) == IF request.store = "postgres" THEN postgresCollects(c) ELSE sqliteCollects(c)

----------------------------------------------------------------------------
\* The merged result of one package over the collectors that returned it.
mergePackageSearchResultMaps(p, collectors) ==
    LET ids == {r.id : r \in UNION {Rows(c) : c \in collectors \cap {"vulnerability"}}
                       \cap {r \in request.rows : r.package = p}}
        rows == UNION {{<<c, r>> : r \in {x \in Rows(c) : x.package = p}} : c \in collectors}
    IN  [package |-> p, count |-> Cardinality(rows), vulnerabilities |-> Cardinality(ids),
         preview |-> {i \in ids : Cardinality({j \in ids : j < i}) < IdLimit},
         types |-> {packageSearchTasks[c].type : c \in collectors}]

\* FormatSearchVulnerabilityIDPreview: at most IdLimit parts and "+N more".
\* The web formats once more what the store formatted: "more" is then a part.
Format(parts, more, total) ==
    LET cut == more > 0 /\ Cardinality(parts) = IdLimit
        len == Cardinality(parts) + IF more > 0 /\ ~cut THEN 1 ELSE 0
    IN  IF parts = {} THEN <<>> ELSE (IF more > 0 /\ ~cut THEN <<more>> ELSE <<>>)
                                     \o IF total > len THEN <<total - len>> ELSE <<>>
FormatSearchVulnerabilityIDPreview(r) == Format(r.preview, 0, r.vulnerabilities)
formatSearchVulnerabilityIDPreview(r) ==
    LET stored == FormatSearchVulnerabilityIDPreview(r)
    IN  Format(r.preview, IF stored = <<>> THEN 0 ELSE stored[1], r.vulnerabilities)

View(r) == [package |-> r.package, count |-> r.count, types |-> r.types,
            ids |-> r.preview, more |-> formatSearchVulnerabilityIDPreview(r)]

finishPackageSearchResults(got) ==
    LET packages == UNION {got[c] : c \in DOMAIN got}
    IN  {mergePackageSearchResultMaps(p, {c \in DOMAIN got : p \in got[c]}) :
           p \in Slice(packages, limit, searchPageOffset)}

----------------------------------------------------------------------------
NoAnswer == [error |-> "", results |-> {}, more |-> FALSE]

Init ==
    /\ request \in Requests
    /\ page = parseSearchPage(request.page)
    /\ phase = "idle" /\ gone = FALSE
    /\ tasks = <<>> /\ partial = <<>>
    /\ shown = {} /\ answer = NoAnswer

\* All collectors at once for the server's unfiltered search, else in order.
Concurrent == request.store = "postgres" /\ request.finding = ""

HandleSearch ==
    /\ phase = "idle"
    /\ IF shouldSearch
         THEN /\ phase' = "collecting"
              /\ tasks' = [c \in ToSet(plan) |-> "running"]
              /\ partial' = [c \in ToSet(plan) |-> {}]
              /\ UNCHANGED answer
         ELSE /\ phase' = "done"
              /\ answer' = [NoAnswer EXCEPT !.error = IF request.query.length \in {"short", "long"}
                                                         \/ invalidSearchFilterError
                                                        THEN "input" ELSE ""]
              /\ UNCHANGED <<tasks, partial>>
    /\ UNCHANGED <<request, page, gone, shown>>

Turn(c) ==
    /\ phase = "collecting" /\ c \in DOMAIN tasks /\ tasks[c] = "running"
    /\ Concurrent \/ \A i \in DOMAIN plan : (\E j \in DOMAIN plan : i < j /\ plan[j] = c) => tasks[plan[i]] = "ok"

CollectorAnswers(c) ==
    /\ Turn(c)
    /\ partial' \in {[partial EXCEPT ![c] = T] : T \in Collects(c)}
    /\ tasks' = [tasks EXCEPT ![c] = "ok"]
    /\ UNCHANGED <<request, page, phase, gone, shown, answer>>

CollectorFails(c) ==
    /\ Turn(c)
    /\ tasks' = [tasks EXCEPT ![c] = "failed"]
    /\ UNCHANGED <<request, page, phase, gone, partial, shown, answer>>

\* runCtx is cancelled by the request's end or by another collector's failure.
CollectorCancelled(c) ==
    /\ Turn(c)
    /\ gone \/ (Concurrent /\ \E d \in DOMAIN tasks : tasks[d] \in {"failed", "cancelled"})
    /\ tasks' = [tasks EXCEPT ![c] = "cancelled"]
    /\ UNCHANGED <<request, page, phase, gone, partial, shown, answer>>

BrowserLeaves ==
    /\ phase = "collecting" /\ ~gone
    /\ gone' = TRUE
    /\ UNCHANGED <<request, page, phase, tasks, partial, shown, answer>>

\* Mutant: the first error in collector order is reported.
firstErrorInOrder ==
    LET bad == {i \in DOMAIN plan : tasks[plan[i]] \in {"failed", "cancelled"}}
    IN  IF bad = {} THEN "" ELSE tasks[plan[Min(bad)]]

\* The error runPackageSearchCollectors returns: the first collector's own
\* failure, and only without one the first cancellation.
firstError ==
    IF \E c \in DOMAIN tasks : tasks[c] = "failed" THEN "failed"
    ELSE IF \E c \in DOMAIN tasks : tasks[c] = "cancelled" THEN "cancelled" ELSE ""

runPackageSearchCollectors ==
    /\ phase = "collecting"
    /\ IF Concurrent THEN \A c \in DOMAIN tasks : tasks[c] # "running"
       ELSE firstError # "" \/ \A c \in DOMAIN tasks : tasks[c] = "ok"
    /\ LET results == IF firstError = "" THEN finishPackageSearchResults(partial) ELSE {}
           fit == Slice({r.package : r \in results}, PageSize, 0)
       IN  /\ answer' = [error |-> firstError, results |-> {View(r) : r \in {x \in results : x.package \in fit}},
                         more |-> Cardinality(results) > PageSize]
           /\ shown' = shown \cup answer'.results
    /\ phase' = "done"
    /\ UNCHANGED <<request, page, gone, tasks, partial>>

\* The browser follows NextURL.
NextPage ==
    /\ phase = "done" /\ answer.more /\ ~gone
    /\ page' = parseSearchPage(page + 1) /\ page' # page
    /\ phase' = "idle"
    /\ UNCHANGED <<request, gone, tasks, partial, shown, answer>>

Next ==
    \/ HandleSearch \/ BrowserLeaves \/ runPackageSearchCollectors \/ NextPage
    \/ \E c \in DOMAIN tasks : CollectorAnswers(c) \/ CollectorFails(c) \/ CollectorCancelled(c)

Spec == Init /\ [][Next]_vars

----------------------------------------------------------------------------
Matching == UNION {Packages(c) : c \in ToSet(plan)}

\* A matching package with every finding of it counted and every id listed or
\* among the "more".
Whole(p) ==
    LET of == {c \in ToSet(plan) : p \in Packages(c)}
        rows == UNION {{<<c, r>> : r \in {x \in Rows(c) : x.package = p}} : c \in of}
        ids == {r.id : r \in {x \in request.rows : "vulnerability" \in of /\ x \in Rows("vulnerability")
                                                     /\ x.package = p}}
        ranked == {i \in ids : Cardinality({j \in ids : j < i}) < IdLimit}
    IN  [package |-> p, count |-> Cardinality(rows),
         types |-> {packageSearchTasks[c].type : c \in of}, ids |-> ranked,
         more |-> IF ids = ranked THEN <<>> ELSE <<Cardinality(ids) - Cardinality(ranked)>>]

\* Every matching package from a position of the merged order on.
Expected(from) ==
    {Whole(p) : p \in {q \in Matching : Cardinality({x \in Matching : Before(x, q)}) >= from}}

\* Postgres cuts a collector's answer in another order than the pages are cut
\* in: two versions of one package may come in either order, and the collation
\* may put two names the other way round.
CutsDiffer ==
    /\ request.store = "postgres"
    /\ \E p, q \in Matching : Before(p, q) /\ ~NameEcosystem(p, q)

\* The page that offers no next one shows exactly what is left from its offset
\* on, each package with all of its findings counted, although each collector's
\* query is cut at its own LIMIT and the pages are cut from the merged answers.
\* So does the whole walk along NextURL if the queries are cut in the order of
\* the merge; where they are not, an earlier page may have skipped or repeated
\* a package (SearchPackages of both stores).
WalkShowsEveryResult ==
    (phase = "done" /\ shouldSearch /\ answer.error = "" /\ ~answer.more) =>
        /\ answer.results = Expected(searchPageOffset)
        /\ CutsDiffer \/ shown = Expected((parseSearchPage(request.page) - 1) * PageSize)

\* While the browser waits, a search that fails reports the collector that
\* failed and not the cancellation that failure caused in the others
\* (runPackageSearchCollectors).
FailureNotMasked == (phase = "done" /\ answer.error = "cancelled") => gone

TypeOK ==
    /\ page \in 1..MaxInt /\ phase \in {"idle", "collecting", "done"} /\ gone \in BOOLEAN
    /\ \A c \in DOMAIN tasks : tasks[c] \in {"running", "ok", "failed", "cancelled"}
    /\ answer.error \in {"", "input", "failed", "cancelled"}
============================================================================
