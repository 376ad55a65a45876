----------------------------- MODULE LocalStore -----------------------------
(***************************************************************************)
(* The CLI's local SQLite file, opened by several `packmon` processes at   *)
(* once: sqlite.New creates and migrates the schema under a lock file and  *)
(* rewrites the package names older builds stored; then the command runs:  *)
(* db sync, scan (freshness and history), history clear, report or db      *)
(* export.  A process can be killed between any two statements; the lock   *)
(* file it holds then stays until somebody removes it.                     *)
(***************************************************************************)
EXTENDS Integers, Sequences, FiniteSets

CONSTANTS
    Procs,      \* packmon processes
    Databases,  \* files left by earlier builds (or none)
    Page,       \* vulnerability rows a sync page may bring, names as served
    MaxPerRepo, \* PACKMON_HISTORY_MAX_SCANS_PER_REPO
    MaxAge,     \* PACKMON_HISTORY_MAX_AGE
    WarnAfter,  \* PACKMON_DB_WARN_AFTER_DAYS
    MaxTime, MaxStarts, \* bounds: days, process starts
    None

VARIABLES
    db,     \* the file: tables, columns, rows, history, last_sync_at
    lock,   \* the process that created the migration lock file, or None
    proc,   \* what each process is doing
    now, starts

vars == <<db, lock, proc, now, starts>>

----------------------------------------------------------------------------
\* schemaSQL: the columns of the current tables that older builds lack.
schemaSQL ==
    [vulnerabilities_local |-> {"row_key", "versions_affected", "references_json", "epss_percentile", "v.source"},
     malicious_local |-> {"reference_urls", "version_ranges", "m.source"},
     reputation_findings_local |-> {}, lifecycle_releases_local |-> {},
     scan_history |-> {"commit"}]

Tables == DOMAIN schemaSQL
Columns == UNION {schemaSQL[t] : t \in Tables}

createSchema(d) ==
    [d EXCEPT !.tables = Tables, !.columns = @ \cup UNION {schemaSQL[t] : t \in Tables \ d.tables}]

normalizePackageName(ecosystem, name) ==
    IF ecosystem \in {"pypi", "nuget"} /\ name = "Foo" THEN "foo" ELSE name

RowKey(r) == <<r.id, r.ecosystem, r.name>>
Normalized(r) == [r EXCEPT !.name = normalizePackageName(r.ecosystem, r.name)]
Unnormalized(rows) == {r \in rows : Normalized(r) # r}

\* One transaction: the table rebuilt with a key of id, ecosystem and name.
migrateVulnerabilityRowKeys(d) ==
    IF "row_key" \in d.columns THEN d
    ELSE [d EXCEPT !.columns = @ \cup schemaSQL.vulnerabilities_local,
                   !.vulns = {[r EXCEPT !.key = RowKey(r)] : r \in @}]

\* The ALTER TABLE statements, one by one, each only if the column is missing.
ensureVulnerabilityLocalColumns == <<"versions_affected", "references_json", "epss_percentile", "v.source">>
ensureMaliciousLocalColumns == <<"reference_urls", "version_ranges", "m.source">>
ensureScanHistorySchema == <<"commit">>

\* Mutant: only the first table is normalized.
normalizedTablesFirst == <<"malicious_local">>

normalizedTables == <<"malicious_local", "reputation_findings_local", "lifecycle_releases_local">>

\* migrateSchema, statement by statement.
migrateSchema ==
    <<"schema", "row_keys">> \o ensureVulnerabilityLocalColumns \o ensureMaliciousLocalColumns
      \o ensureScanHistorySchema \o <<"vulnerabilities_local">> \o normalizedTables \o <<"permissions">>

IsRewrite(s) == s \in Tables

Statement(d, s) ==
    CASE s = "schema"      -> createSchema(d)
      [] s = "row_keys"    -> migrateVulnerabilityRowKeys(d)
      [] s = "permissions" -> d
      [] OTHER             -> [d EXCEPT !.columns = @ \cup {s}]

----------------------------------------------------------------------------
Idle == [at |-> "idle", command |-> "", step |-> 0, items |-> {}, item |-> None,
         stale |-> FALSE, out |-> <<>>, exit |-> ""]

Init ==
    /\ db \in Databases
    /\ lock = None /\ proc = [p \in Procs |-> Idle]
    /\ now = 0 /\ starts = 0

Set(p, at) == proc' = [proc EXCEPT ![p].at = at]
Exit(p, how) == proc' = [proc EXCEPT ![p] = [Idle EXCEPT !.exit = how, !.command = proc[p].command]]

\* The user starts a command; an export or info of a missing file stops here.
Start(p, command) ==
    /\ proc[p].at = "idle" /\ starts < MaxStarts
    /\ ~(command = "export" /\ db.tables = {})
    /\ starts' = starts + 1
    /\ proc' = [proc EXCEPT ![p] = [Idle EXCEPT !.at = "lock", !.command = command]]
    /\ UNCHANGED <<db, lock, now>>

\* Mutant: an existing lock file does not stop the migration.
lockIgnored == TRUE

\* O_CREATE|O_EXCL: the open fails while the file exists.
lockFree == lock = None

acquireSQLiteMigrationLock(p) ==
    /\ proc[p].at = "lock" /\ lockFree
    /\ lock' = p
    /\ proc' = [proc EXCEPT ![p].at = "migrate", ![p].step = 1]
    /\ UNCHANGED <<db, now, starts>>

LockTimesOut(p) ==
    /\ proc[p].at = "lock" /\ ~lockFree
    /\ Exit(p, "error")
    /\ UNCHANGED <<db, lock, now, starts>>

Migrate(p) ==
    /\ proc[p].at = "migrate" /\ proc[p].step <= Len(migrateSchema)
    /\ LET s == migrateSchema[proc[p].step]
       IN  IF IsRewrite(s)
             THEN /\ proc' = [proc EXCEPT ![p].at = "rewrite", ![p].items =
                                Unnormalized(IF s = "vulnerabilities_local" THEN db.vulns ELSE db.named[s])]
                  /\ UNCHANGED db
             ELSE /\ db' = Statement(db, s)
                  /\ proc' = [proc EXCEPT ![p].step = @ + 1]
    /\ UNCHANGED <<lock, now, starts>>

\* normalizeExistingVulnerabilityPackageNames, for one of the rows read
\* before: first the row that already has the normalized key goes ...
deleteDuplicate(p) ==
    /\ proc[p].at = "rewrite" /\ proc[p].item = None
    /\ migrateSchema[proc[p].step] = "vulnerabilities_local"
    /\ \E r \in proc[p].items :
         LET key == RowKey(Normalized(r))
         IN  /\ db' = [db EXCEPT !.vulns = {v \in @ : ~(v.key = key /\ v.key # r.key)}]
             /\ proc' = [proc EXCEPT ![p].item = r]
    /\ UNCHANGED <<lock, now, starts>>

\* ... then this row takes the key; a row that took it meanwhile is an error.
normalizeExistingVulnerabilityPackageNames(p) ==
    LET r == proc[p].item
        renamed == [Normalized(r) EXCEPT !.key = RowKey(Normalized(r))]
    IN  /\ proc[p].at = "rewrite" /\ r # None
        /\ \A v \in db.vulns : v.key = renamed.key => v.key = r.key
        /\ db' = [db EXCEPT !.vulns = {IF v.key = r.key THEN renamed ELSE v : v \in @}]
        /\ proc' = [proc EXCEPT ![p].item = None, ![p].items = @ \ {r}]
        /\ UNCHANGED <<lock, now, starts>>

normalizeExistingNamedRows(p) ==
    LET t == migrateSchema[proc[p].step]
    IN  /\ proc[p].at = "rewrite" /\ t # "vulnerabilities_local"
        /\ \E r \in proc[p].items :
             /\ db' = [db EXCEPT !.named[t] = {IF v.id = r.id THEN Normalized(r) ELSE v : v \in @}]
             /\ proc' = [proc EXCEPT ![p].items = @ \ {r}]
        /\ UNCHANGED <<lock, now, starts>>

Rewritten(p) ==
    /\ proc[p].at = "rewrite" /\ proc[p].items = {}
    /\ proc' = [proc EXCEPT ![p].at = "migrate", ![p].step = @ + 1]
    /\ UNCHANGED <<db, lock, now, starts>>

\* A statement fails: New closes the database and tries to remove the lock file.
MigrationFails(p) ==
    /\ proc[p].at \in {"migrate", "rewrite"}
    /\ lock' \in {None, lock}
    /\ Exit(p, "error")
    /\ UNCHANGED <<db, now, starts>>

\* The lock file is removed; if it cannot be, the store is closed again.
releaseSQLiteMigrationLock(p) ==
    /\ proc[p].at = "migrate" /\ proc[p].step > Len(migrateSchema)
    /\ \/ lock' = None /\ proc' = [proc EXCEPT ![p].at = "open", ![p].step = 0]
       \/ lock' = lock /\ Exit(p, "error")
    /\ UNCHANGED <<db, now, starts>>

Killed(p) ==
    /\ proc[p].at # "idle"
    /\ Exit(p, "killed")
    /\ UNCHANGED <<db, lock, now, starts>>

\* The user deletes the lock file of a process that is gone.
RemoveLockFile ==
    /\ lock # None /\ proc[lock].at = "idle"
    /\ lock' = None
    /\ UNCHANGED <<db, proc, now, starts>>

----------------------------------------------------------------------------
Running(p, command, step) == proc[p].at = "open" /\ proc[p].command = command /\ proc[p].step = step
Then(p, step) == proc' = [proc EXCEPT ![p].step = step]

\* A page of sqlite.Sync: the first of a full pass or one of a delta, the
\* advisories it withdraws, the rows it brings of the others and, if it vouches
\* that those are complete, the advisories that are left without a package.
Pages ==
    {pg \in [full : BOOLEAN, withdrawn : SUBSET {r.id : r \in Page}, rows : SUBSET Page,
             complete : BOOLEAN, without : SUBSET {r.id : r \in Page}] :
        /\ {r.id : r \in pg.rows} \cap pg.withdrawn = {}
        /\ pg.without \cap (pg.withdrawn \cup {r.id : r \in pg.rows}) = {}
        /\ (pg.full => ~pg.complete) /\ (~pg.complete => pg.without = {})}

Stored(pg) == {[Normalized(r) EXCEPT !.key = RowKey(Normalized(r))] : r \in pg.rows}

clearSyncTables(d) == [d EXCEPT !.vulns = {}, !.named = [t \in DOMAIN @ |-> {}]]

applySyncVulnerabilities(d, pg) ==
    [d EXCEPT !.vulns = {v \in @ : v.id \notin pg.withdrawn /\ v.key \notin {n.key : n \in Stored(pg)}} \cup Stored(pg)]

\* newSyncAffectedReplacement: the advisories whose packages the page replaces.
Received(pg) == IF pg.complete THEN {r.id : r \in pg.rows} \cup pg.without ELSE {}

replaceSyncAffectedPackages(d, pg) ==
    [d EXCEPT !.vulns = {v \in @ : v.id \in Received(pg) => v.key \in {n.key : n \in Stored(pg)}}]

\* applySyncPage: the page's one transaction, which also stores the freshness.
executeDBSync(p) ==
    /\ Running(p, "sync", 0)
    /\ \E pg \in Pages :
         LET d == IF pg.full THEN clearSyncTables(db) ELSE db
         IN  /\ db' = [replaceSyncAffectedPackages(applySyncVulnerabilities(d, pg), pg) EXCEPT !.lastSync = now]
             /\ proc' = [proc EXCEPT ![p].step = 1, ![p].out = <<pg>>]
    /\ UNCHANGED <<lock, now, starts>>

\* DBStale: no sync is known, or the last is WarnAfter days old.
readLocalSyncAge == now - db.lastSync
loadLocalDBInfo == db.lastSync = None \/ readLocalSyncAge >= WarnAfter

applyLocalDBFreshness(p) ==
    /\ Running(p, "scan", 0)
    /\ proc' = [proc EXCEPT ![p].step = 1, ![p].stale = loadLocalDBInfo]
    /\ UNCHANGED <<db, lock, now, starts>>

\* recordScanHistoryWithRepo: AUTOINCREMENT ids, the time the scan started.
InsertScan(p) ==
    /\ Running(p, "scan", 1)
    /\ \E repo \in {"r", "s"}, at \in {now, now - 1} :
         db' = [db EXCEPT !.nextScan = @ + 1, !.history = @ \cup {[id |-> db.nextScan, repo |-> repo, at |-> at]}]
    /\ Then(p, 2)
    /\ UNCHANGED <<lock, now, starts>>

\* ROW_NUMBER() OVER (PARTITION BY repo ORDER BY scanned_at DESC, id DESC)
Newer(a, b) == a.at > b.at \/ (a.at = b.at /\ a.id > b.id)
\* Mutant: scans are ranked across repositories.
retainedRankOverall(h, e) == 1 + Cardinality({f \in h : Newer(f, e)})

retainedRank(h, e) == 1 + Cardinality({f \in h : f.repo = e.repo /\ Newer(f, e)})

EnforceRetention(p) ==
    /\ Running(p, "scan", 2)
    /\ db' = IF MaxPerRepo <= 0 THEN db
             ELSE [db EXCEPT !.history = {e \in @ : retainedRank(@, e) <= MaxPerRepo}]
    /\ Then(p, 3)
    /\ UNCHANGED <<lock, now, starts>>

\* ClearHistory: older than `before' (None: any age), of `repo' ("": any).
ClearHistory(before, repo) ==
    [db EXCEPT !.history = {e \in @ : ~(/\ before = None \/ e.at < before
                                        /\ repo \in {"", e.repo})}]

recordSuccessfulScanHistory(p) ==
    /\ Running(p, "scan", 3)
    /\ db' = IF MaxAge > 0 THEN ClearHistory(now - MaxAge, "") ELSE db
    /\ Then(p, 4)
    /\ UNCHANGED <<lock, now, starts>>

\* history clear; without a filter it needs --force.
newHistoryClearCmd(p) ==
    /\ Running(p, "clear", 0)
    /\ \E before \in {None, now}, repo \in {"", "r"}, force \in BOOLEAN :
         IF before = None /\ repo = "" /\ ~force
           THEN Exit(p, "error") /\ UNCHANGED db
           ELSE Then(p, 1) /\ db' = ClearHistory(before, repo)
    /\ UNCHANGED <<lock, now, starts>>

\* report: the newest scans of a repository or of all; equal times may come
\* in either order.
getRecentScansPage(repo, limit) ==
    LET all == {e \in db.history : repo \in {"", e.repo}}
    IN  {T \in SUBSET all : /\ Cardinality(T) <= limit /\ (Cardinality(T) < limit => T = all)
                            /\ \A e \in T, f \in all \ T : e.at >= f.at}

runReportCommand(p) ==
    /\ Running(p, "report", 0)
    /\ \E repo \in {"", "r"} : \E T \in getRecentScansPage(repo, 1) :
         proc' = [proc EXCEPT ![p].step = 1, ![p].out = <<T>>]
    /\ UNCHANGED <<db, lock, now, starts>>

\* db export: the counts, then one query and one array per table, none of
\* them in a transaction.  A failed query, write or close fails the command.
LocalDatabaseCounts ==
    <<Cardinality({v.id : v \in db.vulns}), Cardinality(db.named.malicious_local),
      Cardinality(db.named.reputation_findings_local), Cardinality(db.named.lifecycle_releases_local),
      Cardinality(db.history)>>
StreamLocalVulnerabilities == {RowKey(v) : v \in db.vulns}
StreamLocalMalicious == {RowKey(r) : r \in db.named.malicious_local}
StreamLocalReputation == {RowKey(r) : r \in db.named.reputation_findings_local}
StreamLocalLifecycle == {RowKey(r) : r \in db.named.lifecycle_releases_local}
StreamLocalScanHistory == {e.id : e \in db.history}
Sections == <<LocalDatabaseCounts, StreamLocalVulnerabilities, StreamLocalMalicious,
              StreamLocalReputation, StreamLocalLifecycle, StreamLocalScanHistory>>

exportLocalDB(p) ==
    /\ proc[p].at = "open" /\ proc[p].command = "export" /\ proc[p].step < Len(Sections)
    /\ \/ proc' = [proc EXCEPT ![p].step = @ + 1, ![p].out = Append(@, Sections[proc[p].step + 1])]
       \/ Exit(p, "error")
    /\ UNCHANGED <<db, lock, now, starts>>

Finish(p) ==
    /\ \/ Running(p, "sync", 1) \/ Running(p, "scan", 4) \/ Running(p, "clear", 1)
       \/ Running(p, "report", 1) \/ Running(p, "export", Len(Sections))
    /\ Exit(p, "ok")
    /\ UNCHANGED <<db, lock, now, starts>>

Tick == now < MaxTime /\ now' = now + 1 /\ UNCHANGED <<db, lock, proc, starts>>

Open(p) ==
    \/ acquireSQLiteMigrationLock(p) \/ LockTimesOut(p) \/ Migrate(p) \/ deleteDuplicate(p)
    \/ normalizeExistingVulnerabilityPackageNames(p) \/ normalizeExistingNamedRows(p) \/ Rewritten(p)
    \/ MigrationFails(p) \/ releaseSQLiteMigrationLock(p) \/ Killed(p)

Next ==
    \/ RemoveLockFile \/ Tick
    \/ \E p \in Procs :
         \/ \E c \in {"sync", "scan", "clear", "report", "export"} : Start(p, c)
         \/ Open(p) \/ executeDBSync(p) \/ applyLocalDBFreshness(p) \/ InsertScan(p) \/ EnforceRetention(p)
         \/ recordSuccessfulScanHistory(p) \/ newHistoryClearCmd(p) \/ runReportCommand(p)
         \/ exportLocalDB(p) \/ Finish(p)

Spec == Init /\ [][Next]_vars

----------------------------------------------------------------------------
TypeOK ==
    /\ db.tables \subseteq Tables /\ db.columns \subseteq Columns
    /\ lock \in Procs \cup {None}
    /\ \A p \in Procs : proc[p].at \in {"idle", "lock", "migrate", "rewrite", "open"}

\* A store that New handed out has every table and column of the current
\* schema, one row per advisory and package, and package names spelled the way
\* lookups ask for them, whatever build left the file and wherever earlier
\* opens were killed (New, migrateSchema).
OpenStoreCurrent ==
    (\E p \in Procs : proc[p].at = "open") =>
        /\ db.tables = Tables /\ db.columns = Columns
        /\ Unnormalized(db.vulns) = {} /\ \A v \in db.vulns : v.key = RowKey(v)
        /\ \A t \in DOMAIN db.named : Unnormalized(db.named[t]) = {}

Known(d) == {<<v.id, v.ecosystem, normalizePackageName(v.ecosystem, v.name)>> : v \in d.vulns}

\* Only a sync page loses the last row that says an advisory affects a
\* package, and only if the page begins a full pass, withdraws the advisory or
\* vouches for a list of its packages without this one.  No step of an open
\* does: rebuilding the table and removing the rows that collide after their
\* names are normalized keeps one of them, wherever opens were killed before
\* (normalizeExistingVulnerabilityPackageNames, applySyncPage).
AdvisoriesKept ==
    \A k \in Known(db) \ Known(db') :
        \E p \in Procs :
            /\ Running(p, "sync", 0) /\ proc'[p].step = 1
            /\ LET pg == proc'[p].out[1]
               IN  \/ pg.full
                   \/ k[1] \in pg.withdrawn
                   \/ k[1] \in Received(pg) /\ k \notin Known([vulns |-> pg.rows])

\* Storing a scan never drops a younger scan of the same repository than one it
\* keeps, nor the newest scans of another repository: only entries that are
\* too many in their own repository or too old go (recordSuccessfulScanHistory).
NewestScansKept ==
    \A p \in Procs : (proc[p].at = "open" /\ proc[p].command = "scan") =>
      \A e \in db.history \ db'.history :
         \/ Cardinality({f \in db.history : f.repo = e.repo /\ Newer(f, e)}) >= MaxPerRepo
         \/ e.at < now - MaxAge
         \/ \E q \in Procs \ {p} : proc[q] # proc'[q]
============================================================================
