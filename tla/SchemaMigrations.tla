-------------------------- MODULE SchemaMigrations --------------------------
(***************************************************************************)
(* packmon-server migrate and the schema check every other command makes   *)
(* (internal/db/postgres/migrations, cmd/packmon-server/main.go).          *)
(*                                                                         *)
(* Several migrate processes may be started at once; a PostgreSQL advisory *)
(* lock lets one work.  Each embedded migration is bracketed by a dirty    *)
(* row: marked dirty and logged as an event in one transaction, applied    *)
(* (in a transaction, or statement by statement for concurrent index       *)
(* builds), then marked clean in another.  A process can be killed or      *)
(* cancelled between any two statements; an interrupted CREATE INDEX       *)
(* CONCURRENTLY leaves an INVALID index that IF NOT EXISTS would skip.     *)
(*                                                                         *)
(* Data: a migration is its version number; Builds[v] are the statements   *)
(* of a no-transaction migration, each the index it builds or Plain for    *)
(* anything else, and <<>> for a transactional one.  A row's metadata is   *)
(* "own", "bare" (written before metadata existed) or "foreign" (another   *)
(* name or checksum).                                                      *)
(***************************************************************************)
EXTENDS Naturals, Sequences, FiniteSets

CONSTANTS Runs,             \* migrate processes
          ExpectedVersion,  \* the highest embedded migration
          Builds,           \* version -> statements run without a transaction
          InitRows,         \* schema_migrations rows a database may start with
          MaxFaults         \* bound on kills, index damage and operator repairs

VARIABLES rows,     \* version -> "none", or the row's dirty flag and metadata
          effect,   \* the migrations whose SQL other than index builds is committed
          index,    \* index name -> "missing", "valid", "invalid" or "lost" with its table
          events,   \* version -> the last start event: "none", "open", "failed", "done"
          lock,     \* the run holding the advisory lock, or 0
          run,      \* the migrate processes
          opened,   \* what the last command that passed the schema check found
          faults
vars == <<rows, effect, index, events, lock, run, opened, faults>>

Versions == 1 .. ExpectedVersion
Plain == "sql"
Statements(v) == {Builds[v][i] : i \in 1 .. Len(Builds[v])}
Indexes == UNION {Statements(v) : v \in Versions} \ {Plain}
Clean(m) == [dirty |-> FALSE, meta |-> m]
Dirty == [dirty |-> TRUE, meta |-> "own"]
NoRow == [dirty |-> FALSE, meta |-> "none"]

migrationRunsInTransaction(v) == Builds[v] = <<>>
HasSQL(v) == migrationRunsInTransaction(v) \/ Plain \in Statements(v)
Idle == [pc |-> "idle", v |-> 0, i |-> 0, built |-> FALSE]

\* SELECT version, dirty ... ORDER BY version DESC LIMIT 1; 0 is no row.
currentVersion(rs) ==
    LET present == {v \in DOMAIN rs : rs[v] # NoRow}
    IN IF present = {} THEN 0 ELSE CHOOSE v \in present : \A w \in present : w <= v

\* The schema a clean row of v promises.
Applied(v) == /\ HasSQL(v) => v \in effect
              /\ \A x \in Statements(v) \ {Plain} : index[x] \in {"valid", "lost"}

Init == /\ rows \in InitRows
        /\ effect = {v \in Versions : HasSQL(v) /\ v <= currentVersion(rows)}
        /\ index = [x \in Indexes |-> IF \E v \in 1 .. currentVersion(rows) : x \in Statements(v)
                                      THEN "valid" ELSE "missing"]
        /\ events = [v \in Versions |-> "none"]
        /\ lock = 0
        /\ run = [r \in Runs |-> Idle]
        /\ opened = TRUE
        /\ faults = 0

Goto(r, pc, v, i) == run' = [run EXCEPT ![r] = [pc |-> pc, v |-> v, i |-> i, built |-> FALSE]]
Keep(ws) == UNCHANGED ws

\* A migrate process connects and waits for the lock within its set-up timeout.
connectAndLockMigrations(r) ==
    /\ run[r].pc = "idle"
    /\ \/ lock = 0 /\ lock' = r /\ Goto(r, "table", 0, 0)
       \/ UNCHANGED lock /\ Goto(r, "failed", 0, 0)
    /\ Keep(<<rows, effect, index, events, opened, faults>>)

\* CREATE TABLE IF NOT EXISTS and ADD COLUMN IF NOT EXISTS: the bookkeeping
\* tables exist afterwards and hold the rows they held.
ensureVersionTable(r) ==
    /\ run[r].pc = "table"
    /\ \E ok \in BOOLEAN : Goto(r, IF ok THEN "check" ELSE "unlock", 0, 0)
    /\ Keep(<<rows, effect, index, events, lock, opened, faults>>)

\* Only the migrations up to the current version are backfilled, in one
\* transaction: a missing row becomes a clean one, a bare row gets metadata.
backfillAppliedMigrationMetadata(rs, current) ==
    [v \in DOMAIN rs |-> IF v <= current /\ rs[v].meta \in {"none", "bare"}
                         THEN [rs[v] EXCEPT !.meta = "own"] ELSE rs[v]]

validateAppliedMigrationMetadata(rs, current) ==
    \A v \in 1 .. current : rs[v] = Clean("own")

\* From the version table to the decision what to do: refuse a dirty or newer
\* database, backfill, validate, then repair the indexes of applied versions.
RunContextWithOptions(r) ==
    LET current == currentVersion(rows)
        filled == backfillAppliedMigrationMetadata(rows, current)
    IN /\ run[r].pc = "check"
       /\ \/ UNCHANGED rows /\ Goto(r, "unlock", 0, 0)      \* a statement fails
          \/ /\ current > 0
             /\ ~rows[current].dirty /\ current <= ExpectedVersion
             /\ rows' = filled
             /\ IF validateAppliedMigrationMetadata(filled, current)
                THEN Goto(r, "repair", 1, 1) ELSE Goto(r, "unlock", 0, 0)
          \/ current = 0 /\ UNCHANGED rows /\ Goto(r, "apply", 1, 1)
       /\ Keep(<<effect, index, events, lock, opened, faults>>)

\* Outcomes of the statement CREATE INDEX CONCURRENTLY IF NOT EXISTS: an
\* existing index of any state is skipped, an interrupted build is INVALID,
\* and without its table there is nothing to build.
BuildOutcomes(x) == IF index[x] = "missing" THEN {"valid", "invalid", "missing"} ELSE {index[x]}

dropInvalidIndex(x) == index[x] = "invalid"

\* Mutant: an invalid index is accepted.
requireValidIndexExists(state) == state # "missing"

requireValidIndex(state) == state = "valid"

\* One guarded build: an INVALID index is dropped, the build runs, and the
\* result must be valid.  Both statements can fail.
applyNoTransactionStatement(r, x, next) ==
    \/ /\ ~run[r].built /\ dropInvalidIndex(x)
       /\ index' = [index EXCEPT ![x] = "missing"]
       /\ run' = [run EXCEPT ![r].built = TRUE]
    \/ /\ run[r].built \/ ~dropInvalidIndex(x)
       /\ \E state \in BuildOutcomes(x) :
            /\ index' = [index EXCEPT ![x] = state]
            /\ run' = [run EXCEPT ![r] = IF requireValidIndex(state) THEN next
                                         ELSE [@ EXCEPT !.pc = "fail"]]
    \/ UNCHANGED index /\ run' = [run EXCEPT ![r].pc = "fail"]

\* Next statement of version v, or the next version.
Step(pc, v, i) == IF i < Len(Builds[v]) THEN [Idle EXCEPT !.pc = pc, !.v = v, !.i = i + 1]
                  ELSE [Idle EXCEPT !.pc = pc, !.v = v + 1, !.i = 1]

\* The indexes of applied versions, in order: valid ones are left alone, and
\* so is a missing one whose table is missing too.
repairInvalidConcurrentIndexes(r) ==
    LET v == run[r].v
        i == run[r].i
    IN /\ run[r].pc = "repair"
       /\ \/ v > currentVersion(rows) /\ Goto(r, "apply", v, 1) /\ UNCHANGED index
          \/ /\ v <= currentVersion(rows)
             /\ migrationRunsInTransaction(v)
             /\ Goto(r, "repair", v + 1, 1) /\ UNCHANGED index
          \/ /\ v <= currentVersion(rows)
             /\ ~migrationRunsInTransaction(v)
             /\ IF Builds[v][i] = Plain \/ index[Builds[v][i]] \in {"valid", "lost"}
                THEN run' = [run EXCEPT ![r] = Step("repair", v, i)] /\ UNCHANGED index
                ELSE applyNoTransactionStatement(r, Builds[v][i], Step("repair", v, i))
       /\ Keep(<<rows, effect, events, lock, opened, faults>>)

\* Dirty row and start event in one transaction.
startMigrationEventAndMarkDirty(r) ==
    LET v == run[r].v
    IN /\ run[r].pc = "apply"
       /\ \/ v > ExpectedVersion /\ Goto(r, "unlock", v, 1) /\ UNCHANGED <<rows, events>>
          \/ /\ v <= ExpectedVersion
             /\ rows' = [rows EXCEPT ![v] = Dirty]
             /\ events' = [events EXCEPT ![v] = "open"]
             /\ Goto(r, IF migrationRunsInTransaction(v) THEN "tx" ELSE "statements", v, 1)
          \/ v <= ExpectedVersion /\ UNCHANGED <<rows, events>> /\ Goto(r, "unlock", 0, 0)
       /\ Keep(<<effect, index, lock, opened, faults>>)

\* A migration that needs pg_stat_statements is refused before it is marked
\* dirty, so that the operator can install the extension and rerun.
validateMigrationPrerequisites(r) ==
    /\ run[r].pc = "apply" /\ run[r].v <= ExpectedVersion
    /\ Goto(r, "unlock", 0, 0)
    /\ Keep(<<rows, effect, index, events, lock, opened, faults>>)

\* The SQL of a transactional migration; a commit whose answer is lost has
\* taken effect all the same.
applyMigration(r) ==
    LET v == run[r].v
    IN /\ run[r].pc = "tx"
       /\ \/ effect' = effect \cup {v} /\ Goto(r, "finish", v, 1)
          \/ effect' \in {effect, effect \cup {v}} /\ Goto(r, "fail", v, 1)
       /\ Keep(<<rows, index, events, lock, opened, faults>>)

\* Another statement, committed by itself; it can fail, its answer get lost.
ExecContext(r, next) ==
    /\ \/ effect' = effect \cup {run[r].v} /\ run' = [run EXCEPT ![r] = next]
       \/ effect' \in {effect, effect \cup {run[r].v}} /\ run' = [run EXCEPT ![r].pc = "fail"]
    /\ UNCHANGED index

applyMigrationWithoutTransaction(r) ==
    LET v == run[r].v
        i == run[r].i
        last == i = Len(Builds[v])
    IN /\ run[r].pc = "statements"
       /\ LET next == IF last THEN [Idle EXCEPT !.pc = "finish", !.v = v, !.i = 1] ELSE Step("statements", v, i)
          IN  IF Builds[v][i] = Plain THEN ExecContext(r, next)
              ELSE applyNoTransactionStatement(r, Builds[v][i], next) /\ UNCHANGED effect
       /\ Keep(<<rows, events, lock, opened, faults>>)

\* Row clean and event done in one transaction, or the failure path.
finishSuccessfulMigrationEvent(r) ==
    LET v == run[r].v
    IN /\ run[r].pc = "finish"
       /\ \/ /\ rows' = [rows EXCEPT ![v] = Clean("own")]
             /\ events' = [events EXCEPT ![v] = "done"]
             /\ Goto(r, "apply", v + 1, 1)
          \/ UNCHANGED <<rows, events>> /\ Goto(r, "fail", v, 1)
       /\ Keep(<<effect, index, lock, opened, faults>>)

\* The deferred bookkeeping of a failed migration: its event ends, the row
\* stays dirty.  A failed repair has no event and only releases the lock.
finishMigrationEvent(r) ==
    /\ run[r].pc = "fail"
    /\ events' = IF events[run[r].v] = "open" THEN [events EXCEPT ![run[r].v] = "failed"] ELSE events
    /\ Goto(r, "unlock", 0, 0)
    /\ Keep(<<rows, effect, index, lock, opened, faults>>)

\* The lock is freed on success and on failure.
releaseMigrationLock(r) ==
    /\ run[r].pc = "unlock"
    /\ lock' = 0
    /\ Goto(r, IF run[r].v > ExpectedVersion THEN "verify" ELSE "failed", 0, 0)
    /\ Keep(<<rows, effect, index, events, opened, faults>>)

VersionContext(rs) == LET v == currentVersion(rs)
                      IN [found |-> v > 0, version |-> v, dirty |-> v > 0 /\ rs[v].dirty]

\* After the run the command reads the version back and refuses a dirty one.
runMigrate(r) ==
    /\ run[r].pc = "verify"
    /\ LET ver == VersionContext(rows)
       IN \/ ver.found /\ ~ver.dirty /\ Goto(r, "done", 0, 0)
          \/ Goto(r, "failed", 0, 0)
    /\ Keep(<<rows, effect, index, events, lock, opened, faults>>)

\* The process or its connection dies: PostgreSQL ends the session, which
\* frees the lock; a concurrent build under way is left INVALID.
Killed(r) ==
    /\ faults < MaxFaults /\ faults' = faults + 1
    /\ lock = r /\ lock' = 0
    /\ run' = [run EXCEPT ![r] = Idle]
    /\ index' \in {index} \cup
         IF run[r].pc \in {"repair", "statements"} /\ run[r].v \in Versions /\ Builds[run[r].v] # <<>>
         THEN LET x == Builds[run[r].v][run[r].i]
              IN IF x # Plain /\ index[x] = "missing" THEN {[index EXCEPT ![x] = "invalid"]} ELSE {}
         ELSE {}
    /\ Keep(<<rows, effect, events, opened>>)

\* Another migrate is started after this one ended.
Rerun(r) == /\ run[r].pc \in {"done", "failed"} /\ faults < MaxFaults /\ faults' = faults + 1
            /\ Goto(r, "idle", 0, 0)
            /\ Keep(<<rows, effect, index, events, lock, opened>>)

\* The retry path dirtyDatabaseError names for migrations that only build
\* indexes: the operator deletes the dirty row while no migrate is active.
migrationIsRetrySafeIndexBuild(v) == ~migrationRunsInTransaction(v) /\ Plain \notin Statements(v)
dirtyDatabaseError ==
    LET v == currentVersion(rows)
    IN /\ faults < MaxFaults /\ faults' = faults + 1
       /\ lock = 0 /\ v > 0 /\ rows[v].dirty /\ migrationIsRetrySafeIndexBuild(v)
       /\ rows' = [rows EXCEPT ![v] = NoRow]
       /\ Keep(<<effect, index, events, lock, run, opened>>)

\* An index of an applied version is lost, alone or with its table, or damaged
\* outside migrate.
IndexDamaged ==
    /\ faults < MaxFaults /\ faults' = faults + 1
    /\ lock = 0
    /\ \E x \in Indexes : /\ index[x] = "valid"
                          /\ \E state \in {"missing", "invalid", "lost"} : index' = [index EXCEPT ![x] = state]
    /\ Keep(<<rows, effect, events, lock, run, opened>>)

\* Mutant: the dirty mark is not looked at.
verifyProductionSchemaDirty(ver) == ver.found /\ ver.version = ExpectedVersion

\* Server start-up and privacy export read the version with a plain query,
\* without the lock, and open the store only when it is clean and exact.
verifyProductionSchema(ver) == ver.found /\ ~ver.dirty /\ ver.version = ExpectedVersion

runPrivacyExport == /\ verifyProductionSchema(VersionContext(rows))
                    /\ opened' = \A v \in Versions : /\ ~rows[v].dirty
                                                     /\ HasSQL(v) => v \in effect
                    /\ Keep(<<rows, effect, index, events, lock, run, faults>>)

Next == \/ \E r \in Runs : \/ connectAndLockMigrations(r) \/ ensureVersionTable(r)
                           \/ RunContextWithOptions(r) \/ validateMigrationPrerequisites(r)
                           \/ repairInvalidConcurrentIndexes(r)
                           \/ startMigrationEventAndMarkDirty(r) \/ applyMigration(r)
                           \/ applyMigrationWithoutTransaction(r)
                           \/ finishSuccessfulMigrationEvent(r) \/ finishMigrationEvent(r)
                           \/ releaseMigrationLock(r) \/ runMigrate(r) \/ Killed(r) \/ Rerun(r)
        \/ dirtyDatabaseError \/ IndexDamaged \/ runPrivacyExport
Spec == Init /\ [][Next]_vars

-----------------------------------------------------------------------------
\* rows, indexes and processes stay in range; the lock is held by a run that
\* is inside the migration.
TypeOK == /\ rows \in [Versions -> [dirty : BOOLEAN, meta : {"none", "own", "bare", "foreign"}]]
          /\ effect \subseteq Versions
          /\ index \in [Indexes -> {"missing", "valid", "invalid", "lost"}]
          /\ lock \in Runs \cup {0}
          /\ \A r \in Runs : (run[r].pc \notin {"idle", "verify", "done", "failed"}) = (lock = r)

\* A migrate that has gone through to its unlock leaves every embedded
\* migration applied: all rows clean, all SQL committed and every index its
\* migrations build valid, whatever kill, INVALID index or damage came before;
\* only an index that was lost with its table stays lost.
CompleteMeansApplied ==
    \A r \in Runs : run[r].pc = "unlock" /\ run[r].v > ExpectedVersion =>
        \A v \in Versions : rows[v] = Clean("own") /\ Applied(v)

\* A server start or a privacy export that passes the schema check, at any
\* moment of any migrate, never sees a half-applied schema.
CheckedMeansMigrated == opened
=============================================================================
