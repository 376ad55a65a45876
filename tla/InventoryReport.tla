--------------------------- MODULE InventoryReport ---------------------------
(***************************************************************************)
(* The inventory views of the CLI (cmd/packmon/list_all.go, outdated.go,   *)
(* list_packages.go): the package collection of a scan, the images of      *)
(* Dockerfiles and Compose files (internal/dockerimage) and the Chocolatey *)
(* lists become rows; a worker pool resolves the digest of every image     *)
(* through one shared registry client; the report is written and the exit  *)
(* code is the scan's, unless a failure replaces it.                       *)
(*                                                                         *)
(* A raw image reference is [var, host, path, tag, digest]: var names the  *)
(* ARG or Compose variable it consists of, path is the repository split at *)
(* the slashes, and "" is a part that is not there.  The scan itself is    *)
(* ScanCommand and the latest version of a package is UpdateLookup: here   *)
(* both are inputs.  The order of the rows and all wording are left out.   *)
(***************************************************************************)
EXTENDS Integers, Sequences, FiniteSets, SequencesExt, FiniteSetsExt

CONSTANTS Jobs,      \* the runs: flags, repository, registries
          Workers    \* the lookup workers

VARIABLES job,       \* this run: flags, repository, registries
          at,        \* "scan", "inventory", "lookup", "write" or "done"
          scan,      \* listAllScanPhaseResult
          rows,      \* listAllPackages, a sequence
          warnings,  \* the warnings of the report, a set
          w,         \* w[x]: what worker x is doing
          next,      \* the next row to hand out
          digests,   \* cachedDockerDigestLookup: key -> outcome
          inflight,  \* the keys being looked up
          status,    \* packageLatestStatus of every row
          refused,   \* registry requests that were refused or failed
          asked,     \* <<registry, host>>: hosts contacted for a registry
          ctx,       \* "live" or "cancelled"
          exit       \* [code, failed]: the exit code; outputs not written

vars == <<job, at, scan, rows, warnings, w, next, digests, inflight, status,
          refused, asked, ctx, exit>>

Hub == "registry-1.docker.io"
Idle == [pc |-> "idle", item |-> 0]
Unknown(update) == [latest |-> "unknown", update |-> update]
unknownLatestStatus == Unknown("-")

-----------------------------------------------------------------------------
(* internal/dockerimage: references *)

\* An empty reference, scratch, a URL or an unresolved variable is no image.
isScratch(raw) ==
    raw.var = "" /\ raw.host = "" /\ raw.path = <<"scratch">> /\ raw.tag = "" /\ raw.digest = ""

validateRawRef(raw) == raw.var = "" /\ raw.path # <<>> /\ ~isScratch(raw)

normalizeRegistry(raw) == IF raw.host \in {"", "docker.io"} THEN Hub ELSE raw.host

normalizeRepository(raw) ==
    IF normalizeRegistry(raw) = Hub /\ Len(raw.path) = 1
    THEN <<"library">> \o raw.path ELSE raw.path

\* A digest wins over the tag, and a reference without either is "latest".
splitReference(raw) ==
    IF raw.digest # "" THEN raw.digest ELSE IF raw.tag = "" THEN "latest" ELSE raw.tag

ParseRef(raw) ==
    [original |-> raw, registry |-> normalizeRegistry(raw), repository |-> normalizeRepository(raw),
     name |-> <<IF raw.host = "" THEN "docker.io" ELSE raw.host>> \o normalizeRepository(raw),
     reference |-> splitReference(raw), pinned |-> raw.digest # ""]

\* The tag that a digest is pinned beside, when the reference names one.
dockerTagRefFromPinnedRef(ref) == ParseRef([ref.original EXCEPT !.digest = ""])

-----------------------------------------------------------------------------
(* internal/dockerimage: Dockerfiles and Compose files *)

Image(ref, file, source, relation, local) ==
    [eco |-> "docker", name |-> ref.name, version |-> ref.reference, file |-> file, source |-> source,
     scope |-> "runtime", relation |-> relation, ref |-> ref, local |-> local, known |-> "unknown"]

setTag(raw, args) == IF raw.tag \in DOMAIN args THEN [raw EXCEPT !.tag = args[@]] ELSE raw

\* The arguments are replaced in the order of a Go map: a variable inside the
\* value of another one is replaced or not (late), as the order has it.
substituteDockerArgs(raw, args, late) ==
    IF raw.var \notin DOMAIN args THEN setTag(raw, args)
    ELSE IF late THEN args[raw.var] ELSE setTag(args[raw.var], args)

isStage(raw, stages) ==
    raw.var = "" /\ raw.host = "" /\ raw.tag = "" /\ raw.digest = "" /\ Len(raw.path) = 1 /\ raw.path[1] \in stages

\* One line: ARG sets a default, FROM names a stage, an image or scratch; any
\* other FROM fails the whole file.
dockerfileLine(acc, line, late, file) ==
    IF acc.err THEN acc
    ELSE IF line.op = "ARG" THEN [acc EXCEPT !.args = (line.arg :> line.value) @@ @]
    ELSE LET raw == substituteDockerArgs(line.value, acc.args, late)
             marked == [acc EXCEPT !.stages = @ \cup ({line.arg} \ {""})]
         IN  IF isStage(raw, acc.stages) \/ isScratch(raw) THEN marked
             ELSE IF ~validateRawRef(raw) THEN [acc EXCEPT !.err = TRUE]
             ELSE [marked EXCEPT !.images = Append(@, Image(ParseRef(raw), file, "dockerfile", "base", FALSE))]

\* Only the first image of several is marked as a build stage.
markDockerfileBuildStages(images) ==
    IF Len(images) > 1 THEN [images EXCEPT ![1].scope = "build"] ELSE images

ParseDockerfileImages(file, late) ==
    LET acc == FoldLeftDomain(LAMBDA a, i : dockerfileLine(a, file.lines[i], i \in late, file.path),
                              [args |-> <<>>, stages |-> {}, images |-> <<>>, err |-> FALSE], file.lines)
    IN  [err |-> acc.err, images |-> markDockerfileBuildStages(acc.images)]

\* Every variable counts as unset: its declared default or nothing.
resolveComposeImageDefault(svc) == IF svc.image.var = "" THEN svc.image ELSE svc.default

localBuildImage(svc, file) ==
    Image([original |-> svc.image, registry |-> "", repository |-> <<svc.name>>, name |-> <<"local", svc.name>>,
           reference |-> svc.name, pinned |-> FALSE], file, "compose", "compose-build", TRUE)

composeService(acc, svc, file) ==
    LET raw == resolveComposeImageDefault(svc)
    IN  IF acc.err THEN acc
        ELSE IF raw.path = <<>> \/ raw.var # ""
             THEN IF svc.build THEN [acc EXCEPT !.images = Append(@, localBuildImage(svc, file))] ELSE acc
        ELSE IF ~validateRawRef(raw) THEN [acc EXCEPT !.err = TRUE]
        ELSE [acc EXCEPT !.images = Append(@, Image(ParseRef(raw), file, "compose", "compose", svc.build))]

ParseComposeImages(file) ==
    FoldLeft(LAMBDA a, svc : composeService(a, svc, file.path), [images |-> <<>>, err |-> FALSE], file.lines)

parseOpenedFile(file, late) ==
    IF file.state # "ok" THEN [images |-> <<>>, err |-> TRUE]
    ELSE IF file.kind = "dockerfile" THEN ParseDockerfileImages(file, late)
    ELSE ParseComposeImages(file)

\* The first row of a name, reference, file and relation stays; it is a local
\* build when one of the others is.
dedupImages(images) ==
    LET key(i) == <<images[i].name, images[i].version, images[i].file, images[i].relation>>
        firsts == SetToSortSeq({i \in DOMAIN images : \A j \in 1..(i - 1) : key(j) # key(i)}, <)
    IN  [n \in DOMAIN firsts |->
            [images[firsts[n]] EXCEPT !.local = \E j \in DOMAIN images : key(j) = key(firsts[n]) /\ images[j].local]]

-----------------------------------------------------------------------------
(* internal/chocolatey: package lists and scripts *)

\* A document without a package list is ignored, even a malformed one.
ParseConfigXML(file) ==
    IF file.root # "config" \/ ~file.listed THEN [entries |-> {}, err |-> FALSE]
    ELSE [entries |-> IF file.broken THEN {} ELSE {<<id, "">> : id \in ToSet(file.ids)}, err |-> file.broken]

\* Every id of a choco install line has the line's --version, or none.
ParseScript(file) == [entries |-> {<<id, file.version>> : id \in ToSet(file.ids)}, err |-> FALSE]

\* A file the walk did not reach, or that is too large, is a warning as well.
parseFileFromRoot(file) ==
    IF file.state # "ok" THEN [entries |-> {}, err |-> TRUE]
    ELSE IF file.root = "script" THEN ParseScript(file) ELSE ParseConfigXML(file)

chocolateyRow(entry, file) ==
    [eco |-> "chocolatey", name |-> <<entry[1]>>, version |-> entry[2], file |-> file.path, source |-> file.root,
     scope |-> "runtime", relation |-> "declared", ref |-> <<>>, local |-> FALSE,
     known |-> IF entry[2] = "" THEN "unpinned" ELSE "unknown"]

-----------------------------------------------------------------------------
(* cmd/packmon/list_all.go: the scan *)

exitCodeForError == "operational"   \* an error that carries no code of its own

Parsed == job.collection.errors = 0
Found == job.findings # {}
Blocking == \E f \in job.findings : f.blocking

\* What the pipeline reports (ScanCommand): a failed walk or check is an
\* operational failure, no files are a clean scan, an incomplete inventory is
\* a parser failure unless a finding blocks.
scanExitCode ==
    IF job.collection.state = "unreadable" \/ job.check = "failed" THEN "operational"
    ELSE IF job.collection.files = 0 THEN "ok"
    ELSE IF job.collection.state = "fatal" THEN "parser"
    ELSE IF Blocking THEN "blocking"
    ELSE IF ~Parsed THEN "parser"
    ELSE IF Found THEN "under" ELSE "ok"

Finish(code, failed) == at' = "done" /\ exit' = [code |-> code, failed |-> failed]
LookupUnchanged == UNCHANGED <<w, next, digests, inflight, status, refused, asked, ctx>>

\* runListAll up to the artifacts: an error of the pipeline ends the run, a
\* failed history record is kept for the end, a failed artifact replaces the
\* code, and a quiet run without HTML is over.
ListAllScan(outcome, artifacts) ==
    LET code == IF artifacts = "failed" \/ outcome = "history" THEN "operational" ELSE scanExitCode
    IN  /\ at = "scan" /\ job.view = "list-all"
        /\ outcome = "history" => scanExitCode \in {"ok", "under", "blocking"}
        /\ scan' = [exit |-> code, history |-> outcome = "history"]
        /\ IF outcome = "error" THEN Finish("operational", TRUE)
           ELSE IF job.quiet /\ ~job.html
                THEN Finish(IF scan'.history THEN exitCodeForError ELSE code, artifacts = "failed")
           ELSE at' = "inventory" /\ exit' = [exit EXCEPT !.failed = artifacts = "failed"]
        /\ LookupUnchanged /\ UNCHANGED <<job, rows, warnings>>

-----------------------------------------------------------------------------
(* The inventory *)

\* One row for every ecosystem, name and version of the collection.
listAllPackagesFromCollection ==
    LET entries == job.collection.entries
        key(i) == <<entries[i].eco, entries[i].name, entries[i].version>>
        firsts == SetToSortSeq({i \in DOMAIN entries : \A j \in 1..(i - 1) : key(j) # key(i)}, <)
    IN  [n \in DOMAIN firsts |-> entries[firsts[n]]]

listAllAllowsInventoryEcosystem(eco) == job.ecosystems = {} \/ eco \in job.ecosystems

Warn(kind, file) == <<kind, file>>

\* Discovery and parse errors of Docker and Chocolatey are warnings; late has
\* <<f, i>> when line i of file f keeps a variable inside the value of another.
collectDocker(late) ==
    LET parsed == [f \in DOMAIN job.docker |-> parseOpenedFile(job.docker[f], {p[2] : p \in {q \in late : q[1] = f}})]
    IN  IF ~listAllAllowsInventoryEcosystem("docker") THEN [rows |-> <<>>, warnings |-> {}]
        ELSE [rows |-> dedupImages(FoldLeft(LAMBDA a, p : IF p.err THEN a ELSE a \o p.images, <<>>, parsed)),
              warnings |-> {Warn("docker", job.docker[f].path) : f \in {g \in DOMAIN parsed : parsed[g].err}}]

\* dedupPackages keeps one row per name, version and file.
collectChocolatey ==
    LET parsed == [f \in DOMAIN job.choco |-> parseFileFromRoot(job.choco[f])]
        found(f) == SetToSeq(parsed[f].entries)
    IN  IF ~listAllAllowsInventoryEcosystem("chocolatey") THEN [rows |-> <<>>, warnings |-> {}]
        ELSE [rows |-> FoldLeftDomain(
                 LAMBDA a, f : a \o [n \in DOMAIN found(f) |-> chocolateyRow(found(f)[n], job.choco[f])], <<>>, parsed),
              warnings |-> {Warn("chocolatey", job.choco[f].path) : f \in {g \in DOMAIN parsed : parsed[g].err}}]

\* The lines whose result depends on the order.
Nested ==
    UNION {{<<f, i>> : i \in {j \in DOMAIN job.docker[f].lines :
                                 job.docker[f].lines[j].op = "FROM" /\ job.docker[f].lines[j].value.var # ""}} :
             f \in {g \in DOMAIN job.docker : job.docker[g].kind = "dockerfile"}}

\* A fatal collection fails the run; a tree that cannot be walked for images
\* or lists is a warning; offline every row is unknown at once.
CollectInventory(late, walk) ==
    LET unwalked(eco) == [rows |-> <<>>, warnings |-> {Warn(eco, "")}]
        docker == IF walk = "docker" THEN unwalked(walk) ELSE collectDocker(late)
        choco == IF walk = "chocolatey" THEN unwalked(walk) ELSE collectChocolatey
    IN  /\ at = "inventory" /\ (walk # "ok" => listAllAllowsInventoryEcosystem(walk))
        /\ IF job.collection.state = "fatal"
           THEN Finish("parser", exit.failed) /\ UNCHANGED <<rows, warnings, status>>
           ELSE /\ at' = IF job.offline THEN "write" ELSE "lookup"
                /\ rows' = (IF job.collection.state = "unreadable" THEN <<>> ELSE listAllPackagesFromCollection)
                               \o docker.rows \o choco.rows
                /\ warnings' = docker.warnings \cup choco.warnings
                                   \cup (IF Parsed THEN {} ELSE {Warn("parse", "")})
                /\ status' = [n \in DOMAIN rows' |-> unknownLatestStatus]
                /\ UNCHANGED exit
        /\ UNCHANGED <<job, scan, w, next, digests, inflight, refused, asked, ctx>>

-----------------------------------------------------------------------------
(* internal/dockerimage/registry.go *)

Digest(d) == [digest |-> d, err |-> ""]
Failed(err) == [digest |-> "", err |-> err]

registryMirror(registry) == IF registry \in DOMAIN job.mirrors THEN job.mirrors[registry] ELSE [host |-> "", scheme |-> ""]
isMirrored(registry) == registryMirror(registry).host # ""

\* A mirror may be plain HTTP only on the loopback.
mirrorAllowed(url) == url.scheme = "https" \/ (url.scheme = "http" /\ url.host = "localhost")

\* A public host has to resolve, and to public addresses only.
rejectPrivateHTTPURLTarget(host) ==
    CASE job.dns[host] = "none" -> "failed" [] job.dns[host] = "private" -> "unsupported" [] OTHER -> ""

validateRegistryURL(registry) ==
    IF isMirrored(registry) THEN IF mirrorAllowed(registryMirror(registry)) THEN "" ELSE "unsupported"
    ELSE IF registry \notin job.allowed THEN "unsupported" ELSE rejectPrivateHTTPURLTarget(registry)

isAllowedDockerTokenRealmHost(registry, host) ==
    host = registry \/ (registry = Hub /\ host = "auth.docker.io")

\* The token service has to be the mirror's own host, or one that belongs to
\* the registry.
validateTokenRealm(registry, realm) ==
    IF isMirrored(registry)
    THEN IF mirrorAllowed(realm) /\ realm.host = registryMirror(registry).host THEN "" ELSE "unsupported"
    ELSE IF realm.scheme # "https" \/ ~isAllowedDockerTokenRealmHost(registry, realm.host) THEN "unsupported"
    ELSE rejectPrivateHTTPURLTarget(realm.host)

manifestHost(registry) == IF isMirrored(registry) THEN registryMirror(registry).host ELSE registry

Key(ref) == <<ref.registry, ref.repository, ref.reference>>

\* http.Client follows a redirect to any host, and nothing validates that one
\* (one hop stands for the ten it follows).
redirected(hosts) == {hosts} \cup {hosts \cup {h} : h \in UNION {job.redirects[g] : g \in hosts}}

\* What HEAD on the manifest answers, when it answers.
resolveDigestOnce(ref) == {Failed("failed")} \cup {Digest(d) : d \in job.served[Key(ref)]}

\* Why no token is asked for, "" if the realm is: it is contacted then.
fetchBearerToken(registry, realm) ==
    IF realm.host = "" THEN "failed" ELSE validateTokenRealm(registry, realm)

\* The results of a lookup and the hosts it contacted: at once, or after a
\* challenge that names a realm for the token ("" is no usable challenge).
ResolveDigest(ref) ==
    LET refusal == validateRegistryURL(ref.registry)
        host == manifestHost(ref.registry)
        ends(results, hosts) == [result : results, hosts : redirected(hosts)]
        challenged(realm) ==
            LET bad == fetchBearerToken(ref.registry, realm)
            IN  IF bad # "" THEN ends({Failed(bad)}, {host})
                ELSE ends(resolveDigestOnce(ref), {host, realm.host})
    IN  IF refusal # "" THEN {[result |-> Failed(refusal), hosts |-> {}]}
        ELSE ends(resolveDigestOnce(ref), {host}) \cup UNION {challenged(realm) : realm \in job.realms}

-----------------------------------------------------------------------------
(* The status of an image *)

LocalKey(ref) == <<ref.name, ref.reference>>

\* docker image inspect fails for all of its images when one is missing; an
\* image without a repository digest is left out ("").
Inspect(refs) == IF \A r \in refs : LocalKey(r) \in DOMAIN job.installed THEN "found" ELSE "nil"

inspectListAllLocalDockerDigests ==
    Inspect({rows[n].ref : n \in {m \in DOMAIN rows : /\ rows[m].eco = "docker" /\ ~rows[m].ref.pinned
                                                      /\ rows[m].ref.registry # ""}})

\* Without the batch every image is inspected on its own.
localDigest(ref) ==
    IF inspectListAllLocalDockerDigests = "found" \/ Inspect({ref}) = "found" THEN job.installed[LocalKey(ref)] ELSE ""

\* The digest a row needs from its registry: of its tag, or of the tag beside
\* its pinned digest.
Wanted(row) ==
    IF row.eco # "docker" \/ row.ref.registry = "" THEN <<>>
    ELSE IF ~row.ref.pinned THEN <<row.ref>>
    ELSE IF row.ref.original.tag = "" THEN <<>> ELSE <<dockerTagRefFromPinnedRef(row.ref)>>

\* A row that needs no digest.
unresolvedStatus(row) ==
    IF row.eco # "docker" THEN [latest |-> "looked up", update |-> row.known]
    ELSE IF row.ref.registry = "" THEN [latest |-> "-", update |-> "local"]
    ELSE [latest |-> "-", update |-> "pinned"]

resolveDockerImageStatus(row, got) ==
    IF got.err # "" THEN IF row.ref.pinned THEN [latest |-> "-", update |-> "pinned"] ELSE Unknown("unknown")
    ELSE [latest |-> got.digest,
          update |-> IF row.ref.pinned THEN IF got.digest # row.ref.reference THEN "yes" ELSE "pinned"
                     ELSE IF localDigest(row.ref) = "" THEN "unknown"
                     ELSE IF localDigest(row.ref) # got.digest THEN "yes" ELSE "-"]

\* A failed lookup counts for every row it leaves without an answer, unless
\* the client's own policy or the user ended it.
countRefusal(got) == IF got.err = "failed" /\ ctx = "live" THEN 1 ELSE 0

SetStatus(x, got) ==
    /\ status' = [status EXCEPT ![w[x].item] = resolveDockerImageStatus(rows[w[x].item], got)]
    /\ refused' = refused + countRefusal(got)
    /\ w' = [w EXCEPT ![x] = Idle]

WantedKey(x) == Key(Wanted(rows[w[x].item])[1])

-----------------------------------------------------------------------------
(* The workers *)

\* A worker receives a row; after a cancel it drops it.
Take(x) ==
    /\ at = "lookup" /\ w[x] = Idle /\ next <= Len(rows)
    /\ next' = next + 1
    /\ LET row == rows[next] IN
       IF ctx = "cancelled" THEN UNCHANGED <<w, status>>
       ELSE IF Wanted(row) = <<>>
            THEN status' = [status EXCEPT ![next] = unresolvedStatus(row)] /\ UNCHANGED w
       ELSE w' = [w EXCEPT ![x] = [pc |-> "ask", item |-> next]] /\ UNCHANGED status
    /\ UNCHANGED <<job, at, scan, rows, warnings, digests, inflight, refused, asked, ctx, exit>>

\* cachedDockerDigestLookup.ResolveDigest: the first one asks the registry,
\* the others wait for its answer, and later ones find it.
Ask(x) ==
    /\ w[x].pc = "ask"
    /\ IF WantedKey(x) \in DOMAIN digests
       THEN SetStatus(x, digests[WantedKey(x)]) /\ UNCHANGED inflight
       ELSE IF WantedKey(x) \in inflight
       THEN w' = [w EXCEPT ![x].pc = "wait"] /\ UNCHANGED <<inflight, status, refused>>
       ELSE /\ w' = [w EXCEPT ![x].pc = "own"] /\ inflight' = inflight \cup {WantedKey(x)}
            /\ UNCHANGED <<status, refused>>
    /\ UNCHANGED <<job, at, scan, rows, warnings, next, digests, asked, ctx, exit>>

\* The answer, or the error, is stored for good and the waiters are woken.
Answer(x) ==
    /\ w[x].pc = "own"
    /\ \E o \in IF ctx = "live" THEN ResolveDigest(Wanted(rows[w[x].item])[1])
                ELSE {[result |-> Failed("cancelled"), hosts |-> {}]} :
          /\ digests' = (WantedKey(x) :> o.result) @@ digests
          /\ inflight' = inflight \ {WantedKey(x)}
          /\ asked' = asked \cup {<<WantedKey(x)[1], h>> : h \in o.hosts}
          /\ SetStatus(x, o.result)
    /\ UNCHANGED <<job, at, scan, rows, warnings, next, ctx, exit>>

Wake(x) ==
    /\ w[x].pc = "wait"
    /\ \/ WantedKey(x) \notin inflight /\ SetStatus(x, digests[WantedKey(x)])
       \/ ctx = "cancelled" /\ SetStatus(x, Failed("cancelled"))
    /\ UNCHANGED <<job, at, scan, rows, warnings, next, digests, inflight, asked, ctx, exit>>

Cancel ==
    /\ at = "lookup" /\ job.cancels /\ ctx = "live"
    /\ ctx' = "cancelled"
    /\ UNCHANGED <<job, at, scan, rows, warnings, w, next, digests, inflight, status, refused, asked, exit>>

\* appendLookupPhaseWarnings: a cancelled phase stays silent.
EndLookups ==
    /\ at = "lookup" /\ (next > Len(rows) \/ ctx = "cancelled") /\ \A x \in Workers : w[x] = Idle
    /\ at' = "write"
    /\ warnings' = warnings \cup (IF refused > 0 /\ ctx = "live" THEN {Warn("refused", "")} ELSE {})
    /\ UNCHANGED <<job, scan, rows, w, next, digests, inflight, status, refused, asked, ctx, exit>>

\* writeListAllOutputPhase: the code is the scan's, unless the HTML file or
\* the history record failed.
WriteReport(written) ==
    /\ at = "write"
    /\ written = "failed" => job.html
    /\ Finish(IF written = "failed" \/ scan.history THEN exitCodeForError ELSE scan.exit,
              exit.failed \/ written = "failed")
    /\ LookupUnchanged /\ UNCHANGED <<job, scan, rows, warnings>>

-----------------------------------------------------------------------------
(* --outdated and --list-packages: one step, their lookups are UpdateLookup *)

inventoryParseError == IF Parsed THEN "ok" ELSE "parser"

finishOutdatedReport(written) == IF written = "failed" THEN exitCodeForError ELSE "ok"

\* runOutdatedWithOptions: a walk error, a fatal file, an inventory without
\* files or packages, a quiet run, and the report, in this order.
outdatedExit(written) ==
    LET none == job.collection.entries = <<>>
    IN  IF job.collection.state = "unreadable" THEN "operational"
        ELSE IF job.collection.files = 0 THEN finishOutdatedReport(written)
        ELSE IF job.collection.state = "fatal" THEN "parser"
        ELSE IF none /\ ~Parsed THEN "parser"
        ELSE IF none THEN finishOutdatedReport(written)
        ELSE IF job.quiet /\ ~job.html THEN inventoryParseError
        ELSE IF written = "failed" THEN exitCodeForError ELSE inventoryParseError

\* runListPackagesWithSettings: no report file, and the fatal file is first.
listPackagesExit ==
    IF job.collection.state = "unreadable" THEN "operational"
    ELSE IF job.collection.state = "fatal" THEN "parser"
    ELSE IF job.collection.files = 0 THEN "ok" ELSE inventoryParseError

ListInventory(written) ==
    /\ at = "scan" /\ job.view \in {"outdated", "list-packages"}
    /\ written = "failed" => job.html /\ job.view = "outdated"
    /\ IF job.view = "outdated" THEN Finish(outdatedExit(written), written = "failed") ELSE Finish(listPackagesExit, FALSE)
    /\ LookupUnchanged /\ UNCHANGED <<job, scan, rows, warnings>>

-----------------------------------------------------------------------------
Init ==
    /\ job \in Jobs
    /\ at = "scan" /\ scan = [exit |-> "ok", history |-> FALSE] /\ rows = <<>> /\ warnings = {}
    /\ w = [x \in Workers |-> Idle] /\ next = 1 /\ digests = <<>> /\ inflight = {} /\ status = <<>>
    /\ refused = 0 /\ asked = {} /\ ctx = "live" /\ exit = [code |-> "ok", failed |-> FALSE]

Next ==
    \/ \E outcome \in {"done", "error", "history"}, artifacts \in {"written", "failed"} : ListAllScan(outcome, artifacts)
    \/ \E late \in SUBSET Nested, walk \in {"ok", "docker", "chocolatey"} : CollectInventory(late, walk)
    \/ \E x \in Workers : Take(x) \/ Ask(x) \/ Answer(x) \/ Wake(x)
    \/ Cancel
    \/ EndLookups
    \/ \E written \in {"written", "failed"} : WriteReport(written) \/ ListInventory(written)

Spec == Init /\ [][Next]_vars

-----------------------------------------------------------------------------
(* A view that exits with success has seen everything: no finding blocks,  *)
(* every file was parsed, the check ran and every requested file was       *)
(* written; the inventory phases after the scan never soften its code      *)
(* (runListAll: "must not suppress a blocking exit code").                 *)
ExitNotSoftened ==
    at = "done" /\ exit.code \in {"ok", "under"} =>
        /\ ~exit.failed /\ job.collection.state # "unreadable"
        /\ job.collection.files > 0 => Parsed /\ job.collection.state = "ok"
        /\ job.view = "list-all" => ~scan.history /\ job.check # "failed" /\ (job.collection.files > 0 => ~Blocking)

\* The last part of every repository, or service built here, that a file names.
Named(file) ==
    LET paths(raws) == {raw.path[Len(raw.path)] : raw \in {r \in raws : r.path # <<>>}}
        svcs == ToSet(file.lines)
    IN  IF file.kind = "compose"
        THEN UNION {paths({s.image}) \cup paths({s.default}) : s \in svcs}
                 \cup {s.name : s \in {t \in svcs : t.build /\ t.image.path = <<>> /\ t.default.path = <<>>}}
        ELSE paths({l.value : l \in {k \in svcs : k.op = "FROM" /\ k.value.tag # ""}})

(* The report is complete: every collected package has exactly one row,    *)
(* every Docker file either has a warning or a row for each image it       *)
(* names, no image of one file has two rows, and every Chocolatey list and *)
(* script has its rows or a warning.                                       *)
InventoryComplete ==
    at \in {"lookup", "write"} =>
        /\ job.collection.state = "ok" => \A e \in ToSet(job.collection.entries) :
               Cardinality({n \in DOMAIN rows : <<rows[n].eco, rows[n].name, rows[n].version>>
                                                 = <<e.eco, e.name, e.version>>}) = 1
        /\ (listAllAllowsInventoryEcosystem("docker") /\ Warn("docker", "") \notin warnings) =>
               \A f \in DOMAIN job.docker :
                   \/ Warn("docker", job.docker[f].path) \in warnings
                   \/ \A name \in Named(job.docker[f]) :
                          \E n \in DOMAIN rows : rows[n].file = job.docker[f].path /\ name = rows[n].name[Len(rows[n].name)]
        /\ \A m, n \in DOMAIN rows :
               m # n /\ rows[m].eco = "docker" /\ rows[m].file = rows[n].file /\ rows[m].relation = rows[n].relation
                   => LocalKey(rows[m].ref) # LocalKey(rows[n].ref)
        /\ (listAllAllowsInventoryEcosystem("chocolatey") /\ Warn("chocolatey", "") \notin warnings) =>
               \A f \in DOMAIN job.choco :
                   (job.choco[f].root = "script" \/ (job.choco[f].root = "config" /\ job.choco[f].listed)) =>
                       \/ Warn("chocolatey", job.choco[f].path) \in warnings
                       \/ \A id \in ToSet(job.choco[f].ids) : \E n \in DOMAIN rows :
                              rows[n].file = job.choco[f].path /\ rows[n].name = <<id>>

(* The update column is honest.  An update is claimed, or denied, only     *)
(* against a digest the registry served in this run; rows of one image     *)
(* agree on it; a lookup that failed is reported; and every host contacted *)
(* is the mirror, the allowed registry or its token service, or one that   *)
(* such a host redirected the request to (RegistryClient.ResolveDigest).   *)
UpdatesHonest ==
    /\ at = "write" /\ ctx = "live" /\ ~job.offline =>
          \A n \in {m \in DOMAIN rows : Wanted(rows[m]) # <<>>} :
              LET ref == rows[n].ref
                  key == Key(Wanted(rows[n])[1])
                  held == IF ref.pinned THEN ref.reference
                          ELSE IF LocalKey(ref) \in DOMAIN job.installed THEN job.installed[LocalKey(ref)] ELSE ""
              IN  /\ status[n].update = "yes" => held # "" /\ status[n].latest \in job.served[key] \ {held}
                  /\ status[n].update = "-" => status[n].latest = held
                  /\ \A m \in 1..(n - 1) :
                         Wanted(rows[m]) # <<>> /\ Key(Wanted(rows[m])[1]) = key /\ status[n].latest \in job.served[key]
                             => status[m].latest = status[n].latest
                  /\ digests[key].err = "failed" => Warn("refused", "") \in warnings
    /\ \A a \in asked :
          \/ IF isMirrored(a[1]) THEN a[2] = registryMirror(a[1]).host
             ELSE /\ a[1] \in job.allowed /\ job.dns[a[2]] = "public"
                  /\ a[2] # a[1] => a = <<Hub, "auth.docker.io">>
          \/ \E b \in asked : b[1] = a[1] /\ a[2] \in job.redirects[b[2]] /\ b # a

TypeOK ==
    /\ job \in Jobs
    /\ at \in {"scan", "inventory", "lookup", "write", "done"}
    /\ ctx \in {"live", "cancelled"} /\ refused \in Nat
    /\ DOMAIN status = DOMAIN rows
    /\ \A x \in Workers : w[x].pc \in {"idle", "ask", "wait", "own"} /\ w[x].item \in {0} \cup DOMAIN rows
==============================================================================
