---------------------------- MODULE ScanCommand ----------------------------
(***************************************************************************)
(* `packmon scan` and the Git hook that runs it (cmd/packmon/scan.go,      *)
(* hook.go, hook_scan_guard.go, local_db.go, internal/scanner).            *)
(*                                                                         *)
(* One process: resolve the settings of every target, guard a hook scan's  *)
(* destinations, then per target collect the packages, check them remotely *)
(* or in the local database, record history, write the report, and end     *)
(* with the worst exit code.  A setting layer (config, repository,         *)
(* environment, flags) is a function on the fields it sets.  A finding is  *)
(* its rank: 1..3 a severity, 9 malware (always blocks), 0 informational.  *)
(***************************************************************************)
EXTENDS Integers, Sequences, FiniteSets, SequencesExt, TLC

CONSTANTS Invocations,  \* command lines with their config and environment
          Trees,        \* what a target's directory may hold
          RemoteDB,     \* package key -> findings the server knows
          LocalDB,      \* package key -> findings the local database knows
          MaxPackagesPerCheck,
          MaxPushes

VARIABLES hook,     \* the hook file: [kind, exec]
          pushes,   \* scans and pushes started so far
          inv,      \* the invocation running, or Idle
          run,      \* the process
          outcome,  \* per target: what was checked and how it ended
          written   \* places the process wrote to

vars == <<hook, pushes, inv, run, outcome, written>>

ExitOK == 0
ExitBlocking == 1
ExitOperational == 2
ExitUnderThreshold == 3
ExitParser == 4
Unset == "none"

(* ------------------------------ Settings ------------------------------ *)

defaultScanSettings ==
    [mode |-> "auto", failOn |-> 3, requireRemote |-> FALSE, server |-> Unset,
     includeDev |-> FALSE, ecosystems |-> {}, output |-> Unset, outputFlag |-> FALSE]

buildScanTargets(c) ==
    IF c.all THEN c.repos
    ELSE IF c.repo # 0 THEN <<c.repos[c.repo]>>
    ELSE <<<<>>>>

TargetsValid(c) ==
    /\ ~(c.all /\ c.repo # 0)
    /\ c.path => ~c.all /\ c.repo = 0
    /\ c.all => c.repos # <<>>
    /\ c.repo \in 0 .. Len(c.repos)

\* api_key_env of the config and of the repository must resolve, unless
\* PACKMON_API_KEY makes both irrelevant.
KeyResolves(layer, c) ==
    "apiKeyEnv" \in DOMAIN layer /\ "apiKey" \notin DOMAIN c.env => layer.apiKeyEnv

applyScanSharedSettings(s, layer) == layer @@ s

applyScanConfigSettings(s, c) == applyScanSharedSettings(s, c.cfg)

applyScanRepoSettings(s, repo) == applyScanSharedSettings(s, repo)

applyScanEnvSettings(s, c) == c.env @@ s

applyScanFlagSettings(s, c) ==
    c.flags @@ [s EXCEPT !.outputFlag = "output" \in DOMAIN c.flags]

resolveScanSettings(c, repo) ==
    applyScanFlagSettings(
        applyScanEnvSettings(
            applyScanRepoSettings(
                applyScanConfigSettings(defaultScanSettings, c), repo), c), c)

validateResolvedScanSettings(s) ==
    s.mode \in {"auto", "remote", "local"} /\ s.failOn \in 1 .. 4

(* ----------------------------- Hook guard ----------------------------- *)

scanNeedsLocalChecker(s) ==
    s.mode = "local" \/ (s.mode = "auto" /\ ~s.requireRemote)

\* Mutant: the history is forgotten as a user of the database.
hookScanUsesLocalDatabaseCheckerOnly(c, s) ==
    scanNeedsLocalChecker(s)

hookScanUsesLocalDatabase(c, s) ==
    c.history # "off" \/ scanNeedsLocalChecker(s)

\* The scan path, the work tree, the Git directories and everything below.
pathInsideAnyRoot(place) == place = "inside"

GuardRefuses(c, s) ==
    \/ pathInsideAnyRoot(s.output) /\ s.outputFlag
    \/ /\ hookScanUsesLocalDatabase(c, s)
       /\ c.db = "unknown" \/ pathInsideAnyRoot(c.db)

applyHookScanWriteGuard(c, s) ==
    IF c.hook /\ pathInsideAnyRoot(s.output) THEN [s EXCEPT !.output = Unset] ELSE s

(* ------------------------- Package collection ------------------------- *)

Key(p) == [n |-> p.n, v |-> p.v, eco |-> p.eco]

allows(s, eco) == s.ecosystems = {} \/ eco \in s.ecosystems

\* Mutant: the first use decides whether a package is a dev dependency.
MergePackageMetadataFirst(old, new) == old

MergePackageMetadata(old, new) == [old EXCEPT !.dev = @ /\ new.dev]

\* The first file that lists a package stays its source.
add(entries, p, kind) ==
    LET same == {i \in DOMAIN entries : Key(entries[i].pkg) = Key(p)}
    IN  IF same = {} THEN Append(entries, [pkg |-> p, source |-> kind])
        ELSE [i \in DOMAIN entries |->
                IF i \in same
                THEN [entries[i] EXCEPT !.pkg = MergePackageMetadata(@, p)]
                ELSE entries[i]]

addFile(entries, f, s) ==
    FoldLeft(LAMBDA es, p : IF allows(s, p.eco) THEN add(es, p, f.kind) ELSE es,
             entries, IF f.state = "bad" THEN <<>> ELSE f.pkgs)

Walk(tree, s) == SelectSeq(tree.locks, LAMBDA f : allows(s, f.eco))

filterStaleGoSumVersions(entries) ==
    LET selected == {Key(entries[i].pkg) : i \in
                        {j \in DOMAIN entries : entries[j].source # "gosum"}}
        Stale(e) == /\ e.source = "gosum"
                    /\ \E k \in selected : k.eco = "go" /\ k.n = e.pkg.n
                    /\ Key(e.pkg) \notin selected
    IN  SelectSeq(entries, LAMBDA e : ~Stale(e))

CollectPackages(tree, s) ==
    LET files == Walk(tree, s) \o tree.sboms
        entries == FoldLeft(LAMBDA es, f : addFile(es, f, s), <<>>, files)
    IN  SelectSeq(filterStaleGoSumVersions(entries),
                  LAMBDA e : s.includeDev \/ ~e.pkg.dev)

\* A file that fails to parse and an SBOM with skipped components both leave
\* the inventory incomplete; an SBOM that fails to parse is fatal.
ParseErrors(tree, s) ==
    {f \in ToSet(Walk(tree, s) \o tree.sboms) : f.state \in {"bad", "partial"}}

FatalParseErrors(tree) == {f \in ToSet(tree.sboms) : f.state = "bad"}

InputError(tree) ==
    ~tree.readable \/ \E f \in ToSet(tree.sboms) : f.state = "missing"

\* The exit code the parse results decide before any check, or Unset.
applyParseErrorPolicy(tree, s, entries) ==
    IF Walk(tree, s) = <<>> /\ tree.sboms = <<>> THEN {ExitOK}
    ELSE IF FatalParseErrors(tree) # {} THEN {ExitParser}
    ELSE IF entries = <<>>
         THEN {IF ParseErrors(tree, s) # {} THEN ExitParser ELSE ExitOK}
    ELSE {}

(* ------------------------------ Exit codes ----------------------------- *)

FindingsBlock(findings, failOn) == \E f \in findings : f >= failOn

scanExitCode(findings, failOn, incomplete) ==
    IF FindingsBlock(findings, failOn) THEN ExitBlocking
    ELSE IF incomplete THEN ExitParser
    ELSE IF findings # {} THEN ExitUnderThreshold
    ELSE ExitOK

exitCodeSeverity(code) ==
    CASE code = ExitParser -> 4
      [] code = ExitOperational -> 3
      [] code = ExitBlocking -> 2
      [] code = ExitUnderThreshold -> 1
      [] OTHER -> 0

worstExitCode(a, b) ==
    IF exitCodeSeverity(b) > exitCodeSeverity(a) THEN b ELSE a

(* ------------------------------- The run ------------------------------- *)

NoTree == [locks |-> <<>>, sboms |-> <<>>, readable |-> TRUE]

Idle == [pc |-> "idle", i |-> 0, settings |-> <<>>, tree |-> NoTree, entries |-> <<>>,
         chunk |-> 0, findings |-> {}, source |-> Unset, store |-> "closed",
         code |-> ExitOK, histErr |-> FALSE, final |-> ExitOK, push |-> FALSE]

NoInvocation == [hook |-> FALSE]

\* buildScannerConfig: what the running scan is configured with.
S == run.settings[run.i]

Exit(code) == [run EXCEPT !.pc = "done", !.final = code]

\* newScanCmd: a process starts on one command line.
Begin(c, push) ==
    /\ run.pc \in {"idle", "done"}
    /\ pushes < MaxPushes
    /\ pushes' = pushes + 1
    /\ inv' = c
    /\ run' = [Idle EXCEPT !.pc = "resolve", !.push = push]
    /\ outcome' = <<>>
    /\ written' = {}

\* runScanCommand up to the first scan: every target is resolved and guarded.
ResolveRefuses(c, settings) ==
    \/ "secret" \in DOMAIN c.flags
    \/ ~KeyResolves(c.cfg, c)
    \/ \E t \in DOMAIN settings :
          \/ ~KeyResolves(buildScanTargets(c)[t], c)
          \/ ~validateResolvedScanSettings(settings[t])
          \/ c.hook /\ GuardRefuses(c, settings[t])
    \/ /\ Len(settings) > 1
       /\ \E t \in DOMAIN settings :
             applyHookScanWriteGuard(c, settings[t]).output # Unset

runScanCommand ==
    /\ run.pc = "resolve"
    /\ LET targets == buildScanTargets(inv)
           settings == [t \in DOMAIN targets |-> resolveScanSettings(inv, targets[t])]
       IN  run' = IF ~TargetsValid(inv) \/ ResolveRefuses(inv, settings)
                  THEN Exit(ExitOperational)
                  ELSE [run EXCEPT
                          !.pc = "open", !.i = 1,
                          !.settings = [t \in DOMAIN settings |->
                                          applyHookScanWriteGuard(inv, settings[t])]]
    /\ UNCHANGED <<hook, pushes, inv, outcome, written>>

\* openLocalSQLiteStore: "data" has advisories, "empty" has none.
openLocalSQLiteStore(store) ==
    /\ run' = [run EXCEPT !.store = store]
    /\ written' = written \union {inv.db}

\* openLocalCheckerIfNeeded: only local mode opens the database up front.
openLocalCheckerIfNeeded ==
    /\ run.pc = "open"
    /\ IF S.mode # "local"
       THEN run' = [run EXCEPT !.pc = "collect", !.store = "closed"] /\ UNCHANGED written
       ELSE IF inv.db = "unknown"
       THEN run' = Exit(ExitOperational) /\ UNCHANGED written
       ELSE \E store \in {"data", "empty", "failed"} :
              /\ run' = [run EXCEPT !.pc = "collect", !.store = store]
              /\ written' = written \union {inv.db}
    /\ UNCHANGED <<hook, pushes, inv, outcome>>

Checked(r, source, findings, code) ==
    [r EXCEPT !.pc = "history", !.source = source, !.findings = findings, !.code = code]

\* RunWithCollection up to the check.
collectScanPackages(tree) ==
    LET entries == CollectPackages(tree, S)
        early == applyParseErrorPolicy(tree, S, entries)
        r == [run EXCEPT !.tree = tree, !.entries = entries, !.chunk = 1,
                         !.findings = {}, !.histErr = FALSE]
    IN  /\ run.pc = "collect"
        /\ run' = IF InputError(tree) THEN Checked(r, Unset, {}, ExitOperational)
                  ELSE IF early # {} THEN Checked(r, Unset, {}, CHOOSE x \in early : TRUE)
                  ELSE [r EXCEPT !.pc = IF S.mode = "local" THEN "local" ELSE "remote"]
        /\ UNCHANGED <<hook, pushes, inv, outcome, written>>

FindingsOf(db, entries) == UNION {db[Key(entries[i].pkg)] : i \in DOMAIN entries}

buildSuccessfulScanResult(r, source, findings) ==
    Checked(r, source, findings,
            scanExitCode(findings, S.failOn, ParseErrors(r.tree, S) # {}))

\* checkRemoteResult, one POST per chunk of packages.
postRemoteCheck ==
    LET last == Min({run.chunk + MaxPackagesPerCheck - 1, Len(run.entries)})
        findings == run.findings
                      \union FindingsOf(RemoteDB, SubSeq(run.entries, run.chunk, last))
    IN  /\ run.pc = "remote"
        /\ S.server # Unset
        /\ run' = IF last = Len(run.entries)
                  THEN buildSuccessfulScanResult(run, "remote", findings)
                  ELSE [run EXCEPT !.chunk = last + 1, !.findings = findings]
        /\ UNCHANGED <<hook, pushes, inv, outcome, written>>

\* Any failed request fails the whole remote check; auto mode then falls back
\* to the local database unless the remote is required.
executeAutoCheckMode ==
    /\ run.pc = "remote"
    /\ run' = IF scanNeedsLocalChecker(S)
              THEN [run EXCEPT !.pc = "local", !.findings = {}]
              ELSE Checked(run, Unset, {}, ExitOperational)
    /\ UNCHANGED <<hook, pushes, inv, outcome, written>>

\* lazyLocalChecker.ensure: auto mode opens the database at the first lookup.
ensure ==
    /\ run.pc = "local" /\ run.store = "closed"
    /\ IF inv.db = "unknown"
       THEN run' = Checked(run, Unset, {}, ExitOperational) /\ UNCHANGED written
       ELSE \E store \in {"data", "empty", "failed"} : openLocalSQLiteStore(store)
    /\ UNCHANGED <<hook, pushes, inv, outcome>>

\* checkLocal: four batch lookups, any of which may fail.
checkLocal ==
    /\ run.pc = "local" /\ run.store # "closed"
    /\ \/ /\ run.store = "data"
          /\ run' = buildSuccessfulScanResult(run, "local", FindingsOf(LocalDB, run.entries))
       \/ run' = Checked(run, Unset, {}, ExitOperational)
    /\ UNCHANGED <<hook, pushes, inv, outcome, written>>

historyRecordableExitCode(code) == code \in {ExitOK, ExitBlocking, ExitUnderThreshold}

\* The history half of runScanPipeline.  A database that does not open only
\* warns; one that does not take the record fails the scan after its report.
recordSuccessfulScanHistory ==
    /\ run.pc = "history"
    /\ IF inv.history = "invalid"
       THEN run' = Exit(ExitOperational) /\ UNCHANGED written
       ELSE IF inv.history = "off" \/ ~historyRecordableExitCode(run.code) \/ inv.db = "unknown"
       THEN run' = [run EXCEPT !.pc = "report"] /\ UNCHANGED written
       ELSE /\ \/ run' = [run EXCEPT !.pc = "report"]
               \/ run' = [run EXCEPT !.pc = "report", !.histErr = TRUE,
                                     !.code = ExitOperational]
            /\ written' = written \union {inv.db}
    /\ UNCHANGED <<hook, pushes, inv, outcome>>

\* runSingleScan after the pipeline, and runScanCommand's loop around it.
writeScanOutputArtifacts(ok) ==
    LET code == IF ok \/ S.output = Unset THEN run.code ELSE ExitOperational
        final == worstExitCode(run.final, code)
    IN  /\ run.pc = "report"
        /\ written' = IF S.output = Unset THEN written ELSE written \union {S.output}
        /\ outcome' = Append(outcome, [tree |-> run.tree, source |-> run.source,
                                       findings |-> run.findings, code |-> code])
        /\ run' = IF run.histErr THEN Exit(code)
                  ELSE IF run.i = Len(run.settings) THEN Exit(final)
                  ELSE [run EXCEPT !.pc = "open", !.i = @ + 1, !.final = final]
        /\ UNCHANGED <<hook, pushes, inv>>

(* ------------------------------ Git hooks ------------------------------ *)

Managed == {"current", "outdated"}

\* newHookInstallCmd: a link or a custom hook is refused; writeManagedHook
\* writes, then sets the mode, which may fail.
newHookInstallCmd ==
    /\ run.pc \in {"idle", "done"}
    /\ hook.kind \in Managed \union {Unset}
    /\ \/ hook' = [kind |-> "current", exec |-> TRUE]
       \/ hook' = [kind |-> "current", exec |-> hook.exec \/ hook.kind = Unset]
    /\ UNCHANGED <<pushes, inv, run, outcome, written>>

\* newHookUninstallCmd: only a packmon-managed hook is removed.
newHookUninstallCmd ==
    /\ run.pc \in {"idle", "done"}
    /\ hook.kind \in Managed
    /\ hook' = [kind |-> Unset, exec |-> FALSE]
    /\ UNCHANGED <<pushes, inv, run, outcome, written>>

\* hookScript: Git runs an executable hook; one written by an older version
\* runs the scan without --hook.
hookScript(c) == [c EXCEPT !.hook = hook.kind = "current", !.all = FALSE, !.repo = 0,
                           !.flags = [failOn |-> 3]]

GitPush ==
    /\ hook.kind \in Managed /\ hook.exec
    /\ \E c \in Invocations : Begin(hookScript(c), TRUE)
    /\ UNCHANGED hook

newScanCmd ==
    /\ \E c \in Invocations : Begin(c, FALSE)
    /\ UNCHANGED hook

Init ==
    /\ \/ hook = [kind |-> Unset, exec |-> FALSE]
       \/ hook \in [kind : {"custom", "outdated"}, exec : BOOLEAN]
    /\ pushes = 0
    /\ inv = NoInvocation
    /\ run = Idle
    /\ outcome = <<>>
    /\ written = {}

\* The steps of one scan; run.pc orders them.
runScanPipeline ==
    \/ openLocalCheckerIfNeeded
    \/ \E tree \in Trees : collectScanPackages(tree)
    \/ postRemoteCheck
    \/ executeAutoCheckMode
    \/ ensure
    \/ checkLocal
    \/ recordSuccessfulScanHistory

Next ==
    \/ newHookInstallCmd \/ newHookUninstallCmd \/ GitPush \/ newScanCmd
    \/ runScanCommand
    \/ runScanPipeline
    \/ \E ok \in BOOLEAN : writeScanOutputArtifacts(ok)

Spec == Init /\ [][Next]_vars

(* ------------------------------ Properties ----------------------------- *)

TypeOK ==
    /\ hook \in [kind : {Unset, "custom"} \union Managed, exec : BOOLEAN]
    /\ pushes \in 0 .. MaxPushes
    /\ run.final \in 0 .. 4 /\ run.code \in 0 .. 4
    /\ run.pc \in {"idle", "resolve", "open", "collect", "remote", "local",
                   "history", "report", "done"}
    /\ Len(outcome) <= Len(run.settings)
    /\ written \subseteq {"inside", "outside"}

\* The packages a tree says the project ships, read off its files directly.
Shipped(tree, s) ==
    {Key(p) : p \in {q \in UNION {ToSet(f.pkgs) : f \in
                            {g \in ToSet(Walk(tree, s) \o tree.sboms) : g.state # "bad"}} :
                      allows(s, q.eco) /\ (s.includeDev \/ ~q.dev)}}

\* A scan that ends green (exit 0, or 3 for findings under the threshold) has
\* parsed every file and has no blocking finding for any package shipped by
\* any target, whatever failed on the way: a runtime use overrides a dev use,
\* and a remote answer cut short is never mistaken for a complete one.  Go
\* packages are left to SelectedGoVersionKept.
GateSound ==
    run.pc = "done" /\ run.final \in {ExitOK, ExitUnderThreshold} =>
        /\ Len(outcome) = Len(run.settings)
        /\ \A t \in DOMAIN outcome :
             LET s == run.settings[t]
                 db == IF outcome[t].source = "remote" THEN RemoteDB ELSE LocalDB
             IN  /\ ParseErrors(outcome[t].tree, s) = {}
                 /\ \A k \in Shipped(outcome[t].tree, s) :
                       k.eco # "go" => ~FindingsBlock(db[k], s.failOn)

\* A scan run as the Git hook writes nothing inside the repository: neither a
\* report nor the local database, on any path through the fallback and the
\* history (the contract above applyHookScanWriteGuard).
HookWritesOutside == inv.hook => "inside" \notin written

\* README.md: a push is blocked by a blocking finding or by an error that
\* prevents complete coverage, so not by findings below the threshold.
\* Not so, and in no run: the hook passes on exit code 3, which Git takes for a
\* refusal.
PushBlockedOnlyByGate ==
    run.pc = "done" /\ run.push =>
        run.final \in {ExitOK, ExitBlocking, ExitOperational, ExitParser}

\* Suppressing stale go.sum versions never drops a version that some go.mod or
\* SBOM of the tree selects.
\* Not so, and in no run: a version that one go.sum lists before another go.mod
\* selects it keeps go.sum as its source, and counts as stale.
SelectedGoVersionKept ==
    run.pc \in {"remote", "local"} =>
        \A f \in ToSet(Walk(run.tree, S) \o run.tree.sboms) :
            f.kind # "gosum" /\ f.state # "bad" =>
                \A p \in ToSet(f.pkgs) :
                    p.eco = "go" /\ allows(S, "go") /\ ~p.dev =>
                        \E e \in ToSet(run.entries) : Key(e.pkg) = Key(p)
=============================================================================
