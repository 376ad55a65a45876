---------------------------- MODULE SBOMGeneration ----------------------------
(***************************************************************************)
(* `packmon scan --auto-sbom` (cmd/packmon/auto_sbom.go, internal/sbomgen): *)
(* find the manifests of one target, generate and validate an SBOM for     *)
(* each with the ecosystem's tool, scan with the files and remove them; or *)
(* remove what was created when any of it fails.                           *)
(*                                                                         *)
(* A manifest is a record; its packages are names.  The lists of Maven     *)
(* modules have no cycle: Maven refuses one.  A file of the output         *)
(* directory is named by the manifest's base name and a number; the        *)
(* snapshot tag is the same for all files of a run, so files that exist    *)
(* under such a name are those of an earlier run of the same second.       *)
(***************************************************************************)
EXTENDS Integers, Sequences, FiniteSets, SequencesExt

CONSTANTS Trees,     \* what a target may hold: sequences of manifests, in walk order
          Configs,   \* command lines
          Before,    \* files that may already be in the directory of --keep-sbom
          Names,     \* the names of output files: base names and numbers
          Attempts   \* names tried per manifest (1000 in the code)

VARIABLES tree, cfg,
          tools,  \* ecosystem -> "missing", "other" (version) or "pinned"
          disk,   \* the output directory: name -> file
          run     \* the process
vars == <<tree, cfg, tools, disk, run>>

ExitOK == 0
ExitOperational == 2
Ecosystems == {"go", "npm", "pypi", "maven"}
NoFile == [by |-> "", pkgs |-> {}, valid |-> FALSE]
Foreign == [by |-> "another run", pkgs |-> {}, valid |-> TRUE]

(* ------------------------------- Detection ------------------------------ *)

depthExceeded(m) == cfg.depth >= 0 /\ m.depth > cfg.depth

\* An error: a path that leads out of the target (an include of
\* requirements.txt too), a requirements.txt that cannot be read, a
\* pyproject.toml that cannot be parsed, an unreadable poetry.lock.  Skipped:
\* a package.json that only pnpm or Yarn have locked, a pyproject.toml that is
\* not Poetry's.
parsePoetryProject(m) ==
    IF m.state # "ok" THEN "error" ELSE IF m.input = "poetry" THEN "poetry" ELSE "skip"
checkPoetryLockReadable(m) == m.lock # "unreadable"
npmHasUnsupportedLockfile(m) == m.lock = "foreign"

classifyManifest(m) ==
    CASE m.state = "escapes" -> "error"
      [] m.input = "package" -> IF npmHasUnsupportedLockfile(m) THEN "skip" ELSE "detect"
      [] m.input = "requirements" -> IF m.state = "unreadable" THEN "error" ELSE "detect"
      [] m.input \in {"poetry", "pyproject"} ->
           IF parsePoetryProject(m) # "poetry" THEN parsePoetryProject(m)
           ELSE IF checkPoetryLockReadable(m) THEN "detect" ELSE "error"
      [] OTHER -> "detect"

poms(dirs) == {m \in ToSet(tree) : m.eco = "maven" /\ m.dir \in dirs}
Modules(dirs) == UNION {m.children : m \in {x \in poms(dirs) : x.state = "ok"}}

\* Every directory reachable by module lists, dir included: a walk is no
\* longer than the tree.  Depth and skipped directories play no part.
mavenModulesWalk(dir) == FoldLeft(LAMBDA dirs, m : dirs \cup Modules(dirs), {dir}, tree)

npmWorkspaceChildren(d) == d.children

Covered(d) == CASE d.eco = "npm" -> npmWorkspaceChildren(d) \ {d.dir}
                [] d.eco = "maven" -> mavenModulesWalk(d.dir) \ {d.dir}
                [] OTHER -> {}

\* A malformed pom.xml has no modules; one that is missing fails the walk.
ReadsChildren(d) ==
    /\ d.eco = "npm" => d.state = "ok"
    /\ d.eco = "maven" => \A dir \in mavenModulesWalk(d.dir) :
                            \E m \in poms({dir}) : m.state \in {"ok", "malformed"}

\* Mutant: a workspace hides every manifest below it.
suppressesDirectory(e, d) == d.dir \in Covered(e)

suppresses(e, d) == e.eco = d.eco /\ d.dir \in Covered(e)

suppressCovered(ds) == SelectSeq(ds, LAMBDA d : ~\E e \in ToSet(ds) : suppresses(e, d))

filterDetections(ds) == SelectSeq(ds, LAMBDA d : cfg.ecos = {} \/ d.eco \in cfg.ecos)

Seen == SelectSeq(tree, LAMBDA m : ~m.hidden /\ ~depthExceeded(m))
Found == SelectSeq(Seen, LAMBDA m : classifyManifest(m) = "detect")
DetectFails == \/ \E m \in ToSet(Seen) : classifyManifest(m) = "error"
               \/ \E d \in ToSet(Found) : ~ReadsChildren(d)
Detect == filterDetections(suppressCovered(Found))

(* --------------------------- What is declared --------------------------- *)

poetryLockDeclaresDependencies(m) == m.lock \in {"bad", "main"} \/ (m.lock = "dev" /\ cfg.dev)

\* An include that cannot be read counts as dependencies.
requirementsDeclareDependenciesSeen(m) == m.deps # {} \/ m.lock = "include"

packageJSONDeclaresDependencies(m) == m.deps # {} \/ (cfg.dev /\ m.devDeps # {})

poetryDeclaresDependencies(m) == m.deps # {} \/ (cfg.dev /\ m.devDeps # {}) \/ poetryLockDeclaresDependencies(m)

goDeclaresDependencies(m) == m.deps # {}

Declares(m) ==
    CASE m.input = "requirements" -> requirementsDeclareDependenciesSeen(m)
      [] m.input = "poetry" -> poetryDeclaresDependencies(m)
      [] m.input = "go.mod" -> goDeclaresDependencies(m)
      [] OTHER -> packageJSONDeclaresDependencies(m)  \* a pom.xml has test scope for dev

\* The manifests a generator's tool reads for d.
Project(d) == {d} \cup {m \in ToSet(tree) : m.eco = d.eco /\ m.dir \in Covered(d)}

\* Mutant: the workspaces and modules of d are not asked.
DeclaresDependenciesAlone(d) == Declares(d)

\* One that cannot be read or parsed fails the run just as well.
DeclaresDependencies(d) == \E m \in Project(d) : Declares(m) \/ m.state # "ok"

(* ------------------------------ Generators ------------------------------ *)

\* Ids every lock file entry of which is optional.
npmLockfileOptionalPackages(d) ==
    {e.id : e \in {x \in d.entries : x.optional}} \ {e.id : e \in {x \in d.entries : ~x.optional}}

\* Mutant: an optional entry is enough.
toleratedNpmLSProblemsAnyEntry(d) ==
    d.problems # {} /\ \A p \in d.problems : p.kind = "missing" /\ \E e \in d.entries : e.id = p.by /\ e.optional

toleratedNpmLSProblems(d) ==
    d.problems # {} /\ \A p \in d.problems : p.kind = "missing" /\ p.by \in npmLockfileOptionalPackages(d)

Packages(d) == UNION {IF cfg.dev THEN m.deps \cup m.devDeps ELSE m.deps : m \in Project(d)}
Lost(d) == {p.what : p \in d.problems}

File(d, pkgs, valid) == [by |-> d.file, pkgs |-> pkgs, valid |-> valid]
Written(d, pkgs) == {[failed |-> FALSE, file |-> File(d, pkgs, TRUE)],  \* all of it
                     [failed |-> FALSE, file |-> File(d, {}, TRUE)],    \* no component imported
                     [failed |-> FALSE, file |-> File(d, {}, FALSE)]}   \* no CycloneDX JSON
Failed == {[failed |-> TRUE, file |-> NoFile]}
\* A tool that writes the file itself may leave a part of it behind.
FailedHalfway(d) == Failed \cup {[failed |-> TRUE, file |-> File(d, {}, FALSE)]}

npmGenerate(d) ==
    IF d.problems = {} THEN Written(d, Packages(d)) \cup FailedHalfway(d)
    ELSE IF toleratedNpmLSProblems(d) THEN Written(d, Packages(d) \ Lost(d)) \cup FailedHalfway(d)
    ELSE FailedHalfway(d)
pypiGenerate(d) == Written(d, Packages(d)) \cup FailedHalfway(d)
\* Through a staging directory, or from the output of go list.
mavenGenerate(d) == Written(d, Packages(d)) \cup Failed
goGenerate(d) == {[failed |-> FALSE, file |-> File(d, pkgs, TRUE)] : pkgs \in {Packages(d), {}}} \cup Failed

Generate(d) == CASE d.eco = "npm" -> npmGenerate(d)
                 [] d.eco = "pypi" -> pypiGenerate(d)
                 [] d.eco = "maven" -> mavenGenerate(d)
                 [] d.eco = "go" -> goGenerate(d)

(* ------------------------------- The run ------------------------------- *)

Ready == [pc |-> "flags", todo |-> <<>>, used |-> [n \in Names |-> 0], out |-> <<>>,
          created |-> {}, paths |-> <<>>, exit |-> ExitOK, err |-> FALSE, leaked |-> FALSE]

buildAutoSBOMConfigKeeps == cfg.keep \/ cfg.only

Init ==
    /\ tree \in Trees /\ cfg \in Configs
    /\ tools \in [Ecosystems -> {"missing", "other", "pinned"}]
    /\ \A e \in Ecosystems : ~(\E m \in ToSet(tree) : m.eco = e) => tools[e] = "pinned"
    /\ \E b \in Before : disk = [f \in Names \X (1 .. 2 * Attempts) |->
                                   IF f \in b /\ buildAutoSBOMConfigKeeps THEN Foreign ELSE NoFile]
    /\ run = Ready

Fail == run' = [run EXCEPT !.pc = "fail", !.exit = ExitOperational]
Done(exit) == [run EXCEPT !.pc = "done", !.exit = exit]

\* One target, and with --sbom-only nothing that only a scan produces.
validateAutoSBOMFlags == ~cfg.all /\ (cfg.only => ~cfg.sbom /\ ~cfg.report)

resolveAutoSBOMRun ==
    /\ run.pc = "flags"
    /\ run' = IF validateAutoSBOMFlags THEN [run EXCEPT !.pc = "detect"] ELSE Done(ExitOperational)
    /\ UNCHANGED <<tree, cfg, tools, disk>>

\* Before the output directory exists there is nothing to clean up.
prepareOutputDir ==
    /\ run.pc = "detect"
    /\ \/ run' = Done(ExitOperational)
       \/ ~DetectFails /\ Detect # <<>> /\ run' = [run EXCEPT !.pc = "tool", !.todo = Detect]
    /\ UNCHANGED <<tree, cfg, tools, disk>>

D == Head(run.todo)

\* go and mvn have no version to verify, and are not installed for the user.
verifyToolVersion == tools[D.eco] = "pinned" \/ (D.eco \in {"go", "maven"} /\ tools[D.eco] = "other")

\* npm install --global; for Python a virtual environment of its own, the
\* directory of which comes first on PATH.
installTool == D.eco \in {"npm", "pypi"} /\ cfg.install /\ tools' = [tools EXCEPT ![D.eco] = "pinned"]

ensureTool ==
    /\ run.pc = "tool" /\ run.todo # <<>>
    /\ \/ verifyToolVersion /\ run' = [run EXCEPT !.pc = "reserve"] /\ UNCHANGED tools
       \/ ~verifyToolVersion /\ installTool /\ run' = [run EXCEPT !.pc = "reserve"]
       \/ ~verifyToolVersion /\ Fail /\ UNCHANGED tools
    /\ UNCHANGED <<tree, cfg, disk>>

\* Mutant: an existing file is no obstacle.
reserveOutputPathBlind(name) == TRUE

\* O_EXCL, and the placeholder is removed again.
reserveOutputPath(name) == disk[name] = NoFile

uniqueOutputFileNames(d) == {<<d.name, n>> : n \in (run.used[d.name] + 1) .. (run.used[d.name] + Attempts)}

\* Mutant: a file is noted for removal only when the next one is reserved.
notedForRemovalLate(created, name) == created \cup (ToSet(run.paths))

\* Kept files are noted for removal before anything is written to them; a
\* temporary directory is removed as a whole.
notedForRemoval(created, name) == IF buildAutoSBOMConfigKeeps THEN created \cup {name} ELSE created

reserveUniqueOutputPath ==
    LET free == {f \in uniqueOutputFileNames(D) \cap DOMAIN disk : reserveOutputPath(f)}
        name == CHOOSE f \in free : \A g \in free : f[2] <= g[2]
    IN /\ run.pc = "reserve"
       /\ IF free = {} THEN Fail
          ELSE run' = [run EXCEPT !.pc = "generate", !.out = name, !.used[D.name] = name[2],
                                  !.created = notedForRemoval(@, name)]
       /\ UNCHANGED <<tree, cfg, tools, disk>>

runGenerator ==
    /\ run.pc = "generate"
    /\ \E g \in Generate(D) :
         /\ disk' = [disk EXCEPT ![run.out] = g.file]
         /\ IF g.failed THEN Fail ELSE run' = [run EXCEPT !.pc = "validate"]
    /\ UNCHANGED <<tree, cfg, tools>>

\* An SBOM without packages is believed only of a manifest that declares none.
validateGeneratedSBOM ==
    /\ run.pc = "validate"
    /\ IF disk[run.out].valid /\ (disk[run.out].pkgs = {} => ~DeclaresDependencies(D))
       THEN run' = [run EXCEPT !.pc = "tool", !.todo = Tail(@), !.paths = Append(@, run.out)]
       ELSE Fail
    /\ UNCHANGED <<tree, cfg, tools, disk>>

\* With --sbom-only the paths are printed and the files stay.
runAutoSBOMCommand ==
    /\ run.pc = "tool" /\ run.todo = <<>>
    /\ run' = IF cfg.only THEN Done(ExitOK) ELSE [run EXCEPT !.pc = "scan"]
    /\ UNCHANGED <<tree, cfg, tools, disk>>

\* The scan ends with a verdict, or with an error and its exit code.
dispatchAutoSBOMScan ==
    /\ run.pc = "scan"
    /\ \E exit \in 0 .. 4, err \in BOOLEAN :
          (err => exit # ExitOK) /\ run' = [run EXCEPT !.pc = "cleanup", !.exit = exit, !.err = err]
    /\ UNCHANGED <<tree, cfg, tools, disk>>

Removed(names) == [f \in DOMAIN disk |-> IF f \in names THEN NoFile ELSE disk[f]]

removeFiles ==
    /\ run.pc = "fail"
    /\ \/ /\ disk' = Removed(IF buildAutoSBOMConfigKeeps THEN run.created ELSE DOMAIN disk)
          /\ run' = Done(run.exit)
       \/ run' = [Done(run.exit) EXCEPT !.leaked = TRUE] /\ UNCHANGED disk
    /\ UNCHANGED <<tree, cfg, tools>>

finalizeGeneratedSBOMCleanup ==
    /\ run.pc = "cleanup"
    /\ \/ disk' = (IF buildAutoSBOMConfigKeeps THEN disk ELSE Removed(DOMAIN disk)) /\ run' = Done(run.exit)
       \/ /\ ~buildAutoSBOMConfigKeeps /\ UNCHANGED disk
          /\ run' = [Done(IF run.err THEN run.exit ELSE ExitOperational) EXCEPT !.leaked = TRUE]
    /\ UNCHANGED <<tree, cfg, tools>>

Next == \/ resolveAutoSBOMRun \/ prepareOutputDir \/ ensureTool \/ reserveUniqueOutputPath
        \/ runGenerator \/ validateGeneratedSBOM \/ runAutoSBOMCommand \/ dispatchAutoSBOMScan
        \/ removeFiles \/ finalizeGeneratedSBOMCleanup

Spec == Init /\ [][Next]_vars

(* ------------------------------ Properties ----------------------------- *)

TypeOK ==
    /\ run.pc \in {"flags", "detect", "tool", "reserve", "generate", "validate", "scan", "fail",
                   "cleanup", "done"}
    /\ run.created \subseteq DOMAIN disk
    /\ \A e \in Ecosystems : tools[e] \in {"missing", "other", "pinned"}

\* Named as a workspace, but only by packages that are workspaces themselves.
NestedWorkspace(m) ==
    LET parents == {e \in ToSet(Found) : suppresses(e, m)}
    IN  m.eco = "npm" /\ parents # {} /\ \A e \in parents : \E f \in ToSet(Found) : suppresses(f, e)

\* The scan reads, for every manifest the detection accepted, a file that some
\* manifest covering it produced, and that holds all its packages but those
\* an optional package misses: no name is shared, no workspace or module is
\* suppressed without its parent's file, no empty SBOM passes for one.  Apart
\* are npm workspaces that only workspaces name: suppressCovered drops them,
\* and the file of the root does not hold them.
ScansWhatWasDeclared ==
    run.pc = "scan" =>
        \A m \in ToSet(filterDetections(Found)) \ {m \in ToSet(Found) : NestedWorkspace(m)} :
            \E i \in DOMAIN run.paths, d \in ToSet(Detect) :
                /\ m \in Project(d) /\ disk[run.paths[i]].by = d.file
                /\ \/ ~Declares(m)
                   \/ m.deps \ {p.what : p \in {x \in d.problems : x.by \in npmLockfileOptionalPackages(d)}}
                        \subseteq disk[run.paths[i]].pkgs

\* A run leaves nothing behind unless it reports that removing failed: after a
\* failure, and after a scan with temporary files, the directory holds what
\* it held before; a successful run that keeps its files adds those it names.
NothingLeftBehind ==
    run.pc = "done" /\ ~run.leaked =>
        {f \in DOMAIN disk : disk[f] \notin {NoFile, Foreign}}
            = IF buildAutoSBOMConfigKeeps /\ run.todo = <<>> THEN ToSet(run.paths) ELSE {}

\* Nobody else's file is overwritten or removed: names are reserved, and only
\* reserved ones are cleaned up.
OthersFilesKept == \A f \in DOMAIN disk : disk[f] = Foreign => disk'[f] = Foreign
===============================================================================
