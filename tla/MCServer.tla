------------------------------ MODULE MCServer -------------------------------
(***************************************************************************)
(* The server: its upstream workers, the check API, the matching of        *)
(* versions and packages behind it, the admin console with its keys and    *)
(* audit log, the configuration it starts with, the schema migrations and  *)
(* the in-memory store of development mode.  The components share no       *)
(* state: a behaviour is about one of them, and s1, s2, ... are its        *)
(* variables.                                                              *)
(***************************************************************************)
EXTENDS Integers, Sequences, FiniteSets, TLC

CONSTANTS None, Off, Junk, pkg1, pkg2, v1, v2, k1, k2, a1, a2

\* A blocking vulnerability, a reputation risk with history and
\* a version out of support.
Finding(by, type, history) == [by |-> by, type |-> type, sev |-> 3, history |-> history]
LookupResults ==
    {{Finding("vulnerability", "vulnerability", FALSE),
      Finding("reputation", "supply_chain_risk", TRUE), Finding("lifecycle", "lifecycle", FALSE)}}
StatusRows ==
    {{[feed |-> "osv", status |-> "success", synced |-> "recent", entries |-> TRUE]},
     {[feed |-> "osv", status |-> "running", synced |-> "old", entries |-> TRUE]}}

\* Migration 2 only builds two indexes outside a transaction, migration 3 also
\* alters a table there; databases that are empty, one migration behind,
\* migrated by an older release or by a fork.
IndexBuilds == <<<<>>, <<"x", "y">>, <<"sql", "z">>>>
SchemaRow(meta) == [dirty |-> FALSE, meta |-> meta]
Databases ==
    {<<SchemaRow("none"), SchemaRow("none"), SchemaRow("none")>>,
     <<SchemaRow("own"), SchemaRow("own"), SchemaRow("none")>>,
     <<SchemaRow("none"), SchemaRow("bare"), SchemaRow("none")>>,
     <<SchemaRow("foreign"), SchemaRow("own"), SchemaRow("none")>>,
     <<SchemaRow("own"), SchemaRow("own"), SchemaRow("bare")>>}

\* Versions as token sequences, and OSV ranges over them.
SomeVersions ==
    {<<"1">>, <<"1", ".", "0">>, <<"2", ".", "1">>, <<"1", "-", "rc", "1">>,
     <<"1", "-", "1", "0">>, <<"1", "-", "1", "a">>, <<"1", "-", "2">>, <<"1", "rc", "2">>,
     <<"1", ".", "post", "1", ".", "dev", "2">>, <<"1", "-", "beta", "-", "1">>, <<"v", "1", "+", "a">>,
     <<"1", "!", "0">>, <<"sha">>, <<"0", "-", "rc", "1">>, <<"1", ".", ".", "0">>}
RangeBounds == {<<"0">>, <<"1", "-", "rc", "1">>, <<"2", ".", "1">>}
NoEvent == [introduced |-> <<>>, fixed |-> <<>>, last |-> <<>>, limit |-> <<>>]
Introduced(b) == [NoEvent EXCEPT !.introduced = b]
Closings(b) == {[NoEvent EXCEPT !.fixed = b], [NoEvent EXCEPT !.last = b], [NoEvent EXCEPT !.limit = b]}
Range_(type, evs) == [type |-> type, events |-> evs, top |-> NoEvent]
Reintroductions ==
    LET Again == <<"1", ".", "post", "1">>
    IN UNION {{<<Introduced(<<"0">>), e, Introduced(Again)>>, <<Introduced(<<"0">>), e, Introduced(Again), d>>} :
                 e \in Closings(<<"1", "-", "rc", "1">>), d \in Closings(<<"2", ".", "1">>)}
Ranges_ == {Range_(type, evs) : type \in {"SEMVER", "ECOSYSTEM"},
              evs \in {<<Introduced(b)>> : b \in RangeBounds}
                       \cup UNION {{<<Introduced(b), e>> : e \in Closings(d)} : b, d \in RangeBounds}
                       \cup Reintroductions}
FirstRanges == {Range_("SEMVER", <<Introduced(<<"0">>), [NoEvent EXCEPT !.fixed = <<"1">>]>>), Range_("GIT", <<Introduced(<<"sha">>)>>)}
Lookups == [installed : SomeVersions, eco : {"npm", "pypi", "maven"}, bad : {FALSE}, versions : {{}},
            ranges : {<<>>} \cup {<<y, x>> : y \in FirstRanges, x \in Ranges_}]

\* Tables with rows of two packages, one of them under two spellings.
Row(kind, id, key_, hits, bad, active) ==
    [kind |-> kind, id |-> id, key |-> key_, hits |-> hits, bad |-> bad, active |-> active]
FindingTables ==
    {<<Row("vulnerability", "v1", "p", {"1"}, FALSE, TRUE), Row("vulnerability", "v2", "q", {"2"}, FALSE, active),
       Row("vulnerability", "v3", "p", {}, TRUE, TRUE), Row("malicious", "m1", "q", hits, FALSE, TRUE),
       Row("malicious", "m2", "p", {"1", "2"}, FALSE, active), Row("reputation", "r1", "p", {"1"}, FALSE, TRUE),
       Row("reputation", "r2", "q", {"2"}, FALSE, TRUE)>> : active \in BOOLEAN, hits \in {{}, {"1"}, {"1", "2"}}}

\* Environments: a production server with TLS, its variations in one variable
\* each, and every combination of the variables its transport depends on.
Served ==
    [set |-> "TLS_CERT_FILE" :> "cert" @@ "TLS_KEY_FILE" :> "key" @@
             "ENCRYPTION_KEY" :> "e1" @@ "ADMIN_AUDIT_HMAC_KEY" :> "h1",
     bad |-> {}, enabled |-> <<>>, mode |-> <<>>, url |-> <<>>, key |-> <<>>]
With(x, v) == [Served EXCEPT !.set = x :> v @@ @]
Transports ==
    {[Served EXCEPT !.set =
        "TLS_KEY_FILE" :> file @@ "TRUSTED_PROXIES" :> proxies @@
        "ALLOW_INSECURE_LOCAL_HTTP" :> allow @@ "SERVER_PUBLIC_HOST" :> host @@ @] :
     file \in {"", "key"}, proxies \in {{}, {"10.0.0.1"}, {Junk}}, allow \in BOOLEAN,
     host \in {"local", "other"}}
Variations ==
    UNION {{With(v[1], x) : x \in v[2]} : v \in {
       <<"SERVER_MODE", {"development", "other"}>>, <<"SERVER_STOP_GRACE_PERIOD", {9, 10}>>,
       <<"DB_MAX_CONNS", {0, 1}>>, <<"METRICS_HOST", {"other"}>>,
       <<"ADMIN_AUDIT_HMAC_KEY", {"", Junk}>>, <<"ENCRYPTION_KEY", {"", Junk, "e2"}>>,
       <<"FEED_SYNC_INTERVAL", {899, 900}>>}}
    \cup {[Served EXCEPT !.bad = {x}] : x \in {"SERVER_PORT", "DB_PORT", "FEED_SYNC_ON_STARTUP"}}
    \cup {[Served EXCEPT !.set = "DB_HOST" :> host @@ "DB_SSLMODE" :> ssl @@ @] :
            host \in {"local", "other"}, ssl \in {"disable", "require"}}
    \cup {[Served EXCEPT !.enabled = "nvd" :> x] : x \in {FALSE, Junk}}
    \cup {[Served EXCEPT !.mode = f :> "external"] : f \in {"nvd", "vulncheck", "endoflife", "reversinglabs"}}
    \cup {[Served EXCEPT !.url = f :> u] : f \in {"nvd", "reversinglabs"},
            u \in {"http", "local", "blank", Junk}}
    \cup {[Served EXCEPT !.key = f :> "env"] : f \in {"vulncheck", "reversinglabs"}}
    \cup {[Served EXCEPT !.key = "reversinglabs" :> "env", !.url = "reversinglabs" :> "http"]}

Deployments == Transports \cup Variations

\* Overrides of an earlier release: below the minimum interval, unencrypted.
KnownFeeds == {"vulncheck", "nvd", "reversinglabs", "endoflife"}
NoRows == [f \in KnownFeeds |-> None]
OldRow == [enabled |-> TRUE, mode |-> "self", interval |-> 0, key |-> "", sealed |-> ""]
OverrideTables ==
    {NoRows, [NoRows EXCEPT !["nvd"] = [OldRow EXCEPT !.interval = 600]],
     [NoRows EXCEPT !["nvd"] = [OldRow EXCEPT !.key = "old"]],
     [NoRows EXCEPT !["vulncheck"] = [OldRow EXCEPT !.interval = 600, !.mode = "external"]]}

\* The concurrent actors of every component, and the API keys, digests of
\* well-formed requests or advisories they work on: both are interchangeable.
Actors == {a1, a2}
Items == {k1, k2}
Symmetry == Permutations(Actors) \cup Permutations(Items)

VARIABLE part  \* the component this behaviour is about
VARIABLES s1, s2, s3, s4, s5, s6, s7, s8, s9, s10  \* its state

Work == INSTANCE SocketWorker
    WITH Hour <- 2, Packages <- {pkg1, pkg2}, Rejected <- {pkg2},
         Issues <- {"malware"}, Limits <- {1, 2}, Stuck <- 1, MaxTime <- 3,
         now <- s1, bucket <- s2, job <- s3, claimed <- s4,
         pc <- s5, current <- s6, failed <- s7, findings <- s8, checked <- s9,
         calls <- s10
Rep == INSTANCE ReputationLookups
    WITH Versions <- {v1, v2}, Unsupported <- {v2}, Checks <- Actors,
         Slots <- 1, Budget <- 1, Batch <- 2, Replies <- {"malware", "fails"},
         cfg <- s1, slots <- s2, check <- s3, rows <- s4, job <- s5,
         worker <- s6
Check == INSTANCE CheckAPI
    WITH Reqs <- Actors, Keys <- {"k"}, Digests <- Items \cup {Junk},
         Malformed <- {Junk}, Stores <- LookupResults, Thresholds <- {0, 3},
         FeedStates <- StatusRows, TTL <- 1, MaxEntries <- 1, MaxTime <- 1,
         MaxJobs <- 2, req <- s1, log <- s2, cache <- s3, threshold <- s4,
         now <- s5, jobs <- s6, created <- s7, budget <- s8, audits <- s9
Sess == INSTANCE AdminSession
    WITH Browsers <- Actors, MaxAttempts <- 1, MaxPassword <- 3, Ids <- 1..3,
         auth <- s1, sess <- s2, cookie <- s3, form <- s4, attempts <- s5,
         req <- s6
Keys == INSTANCE APIKeys
    WITH Keys <- Items, Tabs <- Actors, MaxForms <- 2, QueueSize <- 1,
         Workers <- 1, PendingLimit <- 3, MaxTimers <- 2, row <- s1,
         made <- s2, nonce <- s3, newkey <- s4, forms <- s5, tab <- s6,
         pending <- s7, timers <- s8, debounced <- s9
Audit == INSTANCE AuditLog
    WITH Procs <- Actors, Subjects <- {}, MaxId <- 3, MaxTime <- 2,
         Retention <- 0, rows <- s1, nextId <- s2, now <- s3, key <- s4,
         lock <- s5, rev <- s6, live <- s7, tx <- s8, unacked <- s9
Schema == INSTANCE SchemaMigrations
    WITH Runs <- {1, 2}, ExpectedVersion <- 3, Builds <- IndexBuilds,
         InitRows <- Databases, MaxFaults <- 3, rows <- s1, effect <- s2,
         index <- s3, events <- s4, lock <- s5, run <- s6, opened <- s7,
         faults <- s8
DevQ == INSTANCE DevQueue
    WITH Packages <- {"p", "q"}, Workers <- {"w"}, Priorities <- {1, 2},
         MaxId <- 2, MaxTime <- 3, Stuck <- 1, jobs <- s1, nextJobID <- s2,
         now <- s3, claim <- s4
DevS == INSTANCE DevStore
    WITH Ids <- Items, Feeds <- {"osv"}, Forms <- Actors, MaxTime <- 3,
         vulnerable <- s1, malicious <- s2, maliciousDel <- s3, client <- s4,
         config <- s5, form <- s6, now <- s7
Stats == INSTANCE StatsCache
    WITH Callers <- Actors, TTL <- 1, DayLength <- 2, MaxTime <- 2,
         MaxCommits <- 1, now <- s1, db <- s2, memo <- s3, call <- s4
Match == INSTANCE VersionRanges
    WITH Requests <- Lookups, Candidates <- SomeVersions, request <- s1,
         answer <- s2
Find == INSTANCE FindingLookup
    WITH Tables <- FindingTables,
         Spellings <- [p |-> "p", P |-> "p", q |-> "q"],
         Versions <- {"", "1", "2"}, MaxQueries <- 3, ChunkSize <- 1,
         rows <- s1, batch <- s2
Conf == INSTANCE ServerConfig
    WITH Feeds <- KnownFeeds, Environments <- Deployments,
         Tables <- OverrideTables, Intervals <- {0, 600, 900},
         MaxOverrides <- 1, status <- s1, env <- s2, cfg <- s3, rows <- s4,
         memory <- s5

vars == <<part, s1, s2, s3, s4, s5, s6, s7, s8, s9, s10>>
after9 == s10
after8 == <<s9, s10>>
after7 == <<s8, s9, s10>>
after6 == <<s7, s8, s9, s10>>
after5 == <<s6, s7, s8, s9, s10>>
after4 == <<s5, s6, s7, s8, s9, s10>>
after2 == <<s3, s4, s5, s6, s7, s8, s9, s10>>

\* The variables a component has no use for are off.
Off9 == s10 = Off
Off8 == s9 = Off /\ Off9
Off7 == s8 = Off /\ Off8
Off6 == s7 = Off /\ Off7
Off5 == s6 = Off /\ Off6
Off4 == s5 = Off /\ Off5
Off2 == s3 = Off /\ s4 = Off /\ Off4

Init ==
    \/ part = "worker" /\ Work!Init
    \/ part = "reputation" /\ Rep!Init /\ Off6
    \/ part = "check" /\ Check!Init /\ Off9
    \/ part = "packages" /\ Check!Init /\ Off9
    \/ part = "session" /\ Sess!Init /\ Off6
    \/ part \in {"keys", "lastused"} /\ Keys!Init /\ Off9
    \/ part = "audit" /\ Audit!Init /\ Off9
    \/ part = "schema" /\ Schema!Init /\ Off8
    \/ part = "queue" /\ DevQ!Init /\ Off4
    \/ part = "store" /\ DevS!Init /\ Off7
    \/ part = "stats" /\ Stats!Init /\ Off4
    \/ part = "ranges" /\ Match!Init /\ Off2
    \/ part = "lookup" /\ Find!Init /\ Off2
    \/ part = "config" /\ Conf!Init /\ Off5

Next ==
    /\ UNCHANGED part
    /\ \/ part = "worker" /\ Work!Next
       \/ part = "reputation" /\ Rep!Next /\ UNCHANGED after6
       \/ part = "check" /\ Check!CheckNext /\ UNCHANGED after9
       \/ part = "packages" /\ Check!PackageNext /\ UNCHANGED after9
       \/ part = "session" /\ Sess!Next /\ UNCHANGED after6
       \/ part = "keys" /\ Keys!FormsNext /\ UNCHANGED after9
       \/ part = "lastused" /\ Keys!UpdaterNext /\ UNCHANGED after9
       \/ part = "audit" /\ Audit!Next /\ UNCHANGED after9
       \/ part = "schema" /\ Schema!Next /\ UNCHANGED after8
       \/ part = "queue" /\ DevQ!Next /\ UNCHANGED after4
       \/ part = "store" /\ DevS!Next /\ UNCHANGED after7
       \/ part = "stats" /\ Stats!Next /\ UNCHANGED after4
       \/ part = "ranges" /\ Match!Next /\ UNCHANGED after2
       \/ part = "lookup" /\ Find!Next /\ UNCHANGED after2
       \/ part = "config" /\ Conf!Next /\ UNCHANGED after5

Spec == Init /\ [][Next]_vars

(* Limits hold and what is reserved comes back: no stretch of time sees    *)
(* more upstream calls than the rate limit allows, a schedule slot is held *)
(* by exactly the lookups that run, one request at a time loads the        *)
(* dashboard statistics, a pending last-used update has somebody who will  *)
(* write it, no two transactions wait for each other, and no feed is       *)
(* synchronized more often than the minimum interval allows.               *)
LimitsHold ==
    /\ part = "worker" => Work!HourlyCallsBounded
    /\ part = "reputation" => Rep!SlotsMatchGoroutines
    /\ part = "stats" => Stats!OneLoad
    /\ part = "lastused" => Keys!UpdateNeverStranded
    /\ part = "audit" => Audit!NoLockCycle
    /\ part = "config" => Conf!SyncSpaced

(* What the server tells a client is backed by what it has stored: a       *)
(* package counts as checked with the findings of that answer, a 200 for a *)
(* keyed check has the one evidence row of its request, with the findings  *)
(* the request that wrote it answered, "healthy" means a fresh feed, also  *)
(* on the feeds page, a refresh that was promised has its job and its      *)
(* audit row, the dashboard shows every write that was reported to its     *)
(* cache, the settings in force are those committed last unless the        *)
(* acknowledgement of a commit was lost, a restart keeps them, and a       *)
(* development client that syncs holds what the store holds.               *)
AnswersBacked ==
    /\ part = "worker" => Work!CheckedMeansStored
    /\ part = "check" => Check!KeyedAnswerLogged /\ Check!EvidenceConsistent /\ Check!HealthyMeansFresh
    /\ part = "packages" => Check!RefreshesAudited /\ Check!FeedPageConsistent
    /\ part = "stats" => Stats!StatsFresh
    /\ part = "audit" => Audit!LiveIsCommitted
    /\ part = "config" => Conf!RestartKeepsSettings /\ Conf!ShownInForce
    /\ part = "store" => DevS!ClientCatchesUp

(* What an administrator did is on record: a session outlives its login    *)
(* only with its audit row, a lockout is recorded once per window, a form  *)
(* creates one key however often it is sent, and every listed row verifies *)
(* against its predecessor.                                                *)
ActionsOnRecord ==
    /\ part = "session" => Sess!SessionAudited /\ Sess!LockoutAuditedOnce
    /\ part = "keys" => Keys!OneKeyPerForm
    /\ part = "audit" => Audit!ListedVerified

(* A server runs only on what its start checked: a migration recorded as   *)
(* complete has taken effect, its indexes valid unless their table is      *)
(* gone, and the schema is migrated, whatever was killed in between; in    *)
(* production stored keys are sealed with the key it runs with, and a      *)
(* ReversingLabs key is used over https or on this machine, whatever       *)
(* environments and overrides came before.                                 *)
RunningMeansReady ==
    /\ part = "schema" => Schema!CompleteMeansApplied /\ Schema!CheckedMeansMigrated
    /\ part = "config" => Conf!KeysProtected

(* Matching is exact: versions are totally ordered, a range holds what the *)
(* OSV schema says, the fix named is an upgrade, and batches, chunks and   *)
(* the local database find what single lookups on the server find.         *)
MatchingExact ==
    /\ part = "ranges" => Match!OrderLaws /\ Match!RangeSemantics /\ Match!FixAboveInstalled
    /\ part = "lookup" => Find!LookupsAgree

(* A change replaces what its author saw: the password that was verified,  *)
(* the revision of settings the form showed (a request without a revision  *)
(* shows none and replaces any), also in development mode; a reputation    *)
(* finding is replaced only by a definitive answer; and the development    *)
(* queue serves jobs in the order of the positions it shows.               *)
ChangesReplaceWhatWasSeen ==
    [][ /\ part = "session" => Sess!ReplacesVerifiedPassword
        /\ part = "audit" => Audit!ReplacesWhatItSaw
        /\ part = "store" => DevS!SaveReplacesWhatItShowed
        /\ part = "reputation" => Rep!FindingKept
        /\ part = "queue" => DevQ!PositionIsServiceOrder ]_vars
==============================================================================
