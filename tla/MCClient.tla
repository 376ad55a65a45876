------------------------------ MODULE MCClient -------------------------------
(***************************************************************************)
(* The client: the scan command with its Git hook and its generated SBOMs, *)
(* its configuration, the local database with its mirror of the server,    *)
(* the inventory views, and the package search of the web pages.  The      *)
(* components share no state: a behaviour is about one of them, and s1,    *)
(* s2, ... are its variables.                                              *)
(***************************************************************************)
EXTENDS Integers, Sequences, FiniteSets, TLC

CONSTANTS None, Off

-----------------------------------------------------------------------------
\* packmon scan and its Git hook: trees with dev and runtime uses of the same
\* package, unparsable and partial files, and a go.sum that lists a version
\* go.mod does not select.
Pkg(name, version, eco, dev) == [n |-> name, v |-> version, eco |-> eco, dev |-> dev]
devA == Pkg("a", 1, "npm", TRUE)
runA == Pkg("a", 1, "npm", FALSE)
runB == Pkg("b", 1, "npm", FALSE)
mod1 == Pkg("g", 1, "go", FALSE)
mod2 == Pkg("g", 2, "go", FALSE)
File(kind, eco, state, pkgs) == [kind |-> kind, eco |-> eco, state |-> state, pkgs |-> pkgs]
Npm(pkgs) == File("npm", "npm", "ok", pkgs)
Tree(locks, sboms) == [locks |-> locks, sboms |-> sboms, readable |-> TRUE]
ScanTrees ==
    {Tree(<<>>, <<>>), [Tree(<<>>, <<>>) EXCEPT !.readable = FALSE],
     Tree(<<Npm(<<runB, devA>>), Npm(<<runA>>)>>, <<>>),
     Tree(<<Npm(<<devA, runB>>), File("npm", "npm", "bad", <<>>)>>, <<>>),
     Tree(<<Npm(<<runB>>)>>, <<File("sbom", "sbom", "partial", <<runA>>)>>),
     Tree(<<Npm(<<runB>>)>>, <<File("sbom", "sbom", "bad", <<>>)>>),
     Tree(<<>>, <<File("sbom", "sbom", "missing", <<>>)>>),
     Tree(<<Npm(<<runB>>)>>, <<>>),
     Tree(<<File("gomod", "go", "ok", <<mod2>>), File("gosum", "go", "ok", <<mod1, mod2>>)>>, <<>>)}
PkgKeys == {[n |-> k.n, v |-> k.v, eco |-> k.eco] : k \in {runA, runB, mod1, mod2}}
ServerFindings == [k \in PkgKeys |-> IF k.n = "a" THEN {3} ELSE IF k.n = "b" THEN {1}
                                     ELSE IF k.v = 1 THEN {9} ELSE {}]
LocalFindings == [k \in PkgKeys |-> IF k.n = "a" THEN {2} ELSE {}]
Command == [all |-> FALSE, repo |-> 0, path |-> FALSE, hook |-> FALSE, repos |-> <<>>, cfg |-> <<>>,
            env |-> <<>>, flags |-> <<>>, db |-> "outside", history |-> "off"]
Commands ==
    {[Command EXCEPT !.path = TRUE, !.hook = hk, !.cfg = cfile, !.env = env, !.flags = flags, !.db = db, !.history = IF db = "inside" THEN "on" ELSE "off"] :
        hk \in BOOLEAN, cfile \in {[server |-> "s", output |-> "inside"], [apiKeyEnv |-> FALSE]},
        env \in {[mode |-> "auto"], [mode |-> "remote", failOn |-> 1], [requireRemote |-> TRUE, apiKey |-> TRUE]},
        flags \in {[failOn |-> 2], [output |-> "inside"], [mode |-> "local", output |-> "outside"]},
        db \in {"inside", "outside"}}
    \cup {[Command EXCEPT !.path = TRUE, !.hook = TRUE, !.db = db, !.history = "invalid"] : db \in {"outside", "unknown"}}
    \cup {[Command EXCEPT !.all = TRUE, !.repo = r, !.repos = <<[mode |-> "local"], [server |-> "s", failOn |-> 2]>>,
                          !.cfg = cfile, !.flags = flags, !.history = hist] :
             r \in {0, 1}, cfile \in {[output |-> "outside"], [failOn |-> 1]},
             flags \in {<<>>, [secret |-> TRUE]}, hist \in {"off", "on"}}
    \cup {[Command EXCEPT !.repo = r, !.repos = <<[mode |-> "local"]>>, !.flags = [ecosystems |-> {"go"}]] : r \in {1, 2}}

-----------------------------------------------------------------------------
\* The local database: none, one left by the first release, and one with names
\* that the current release spells differently.
Advisory(id, eco, name, key) == [id |-> id, ecosystem |-> eco, name |-> name, key |-> key]
Named(malicious_, reputation, lifecycle) ==
    [malicious_local |-> malicious_, reputation_findings_local |-> reputation, lifecycle_releases_local |-> lifecycle]
LocalTables == {"vulnerabilities_local", "malicious_local", "reputation_findings_local",
                "lifecycle_releases_local", "scan_history"}
LocalFile(tables, columns, vulns, named, synced) ==
    [tables |-> tables, columns |-> columns, vulns |-> vulns, named |-> named, history |-> {}, nextScan |-> 1, lastSync |-> synced]
LocalFiles ==
    {LocalFile({}, {}, {}, Named({}, {}, {}), None),
     LocalFile({"vulnerabilities_local", "scan_history"}, {},
               {Advisory(1, "pypi", "Foo", <<>>), Advisory(2, "npm", "Foo", <<>>)}, Named({}, {}, {}), 0),
     LocalFile(LocalTables, {"row_key", "commit"},
               {Advisory(1, "pypi", "Foo", <<1, "pypi", "Foo">>), Advisory(1, "pypi", "foo", <<1, "pypi", "foo">>),
                Advisory(2, "npm", "Foo", <<2, "npm", "Foo">>)},
               Named({Advisory(1, "nuget", "Foo", <<>>)},
                     {Advisory(1, "pypi", "Foo", <<>>), Advisory(2, "npm", "Foo", <<>>)},
                     {Advisory(1, "pypi", "Foo", <<>>)}), 0)}
SyncPage == {Advisory(1, "pypi", "Foo", <<>>), Advisory(2, "npm", "Bar", <<>>)}

-----------------------------------------------------------------------------
\* Configuration files of the user, the project and --config, environments and
\* flags; every value carries the layer that wrote it.
By(layer, is) == [by |-> layer, is |-> is]
NoRegistry == [url |-> <<>>, feeds |-> <<>>, hosts |-> <<>>, mirrors |-> <<>>]
ConfigFile(vals, registry, repos) == [state |-> "ok", vals |-> vals, reg |-> registry @@ NoRegistry, repos |-> repos]
Missing(state) == [ConfigFile(<<>>, <<>>, <<>>) EXCEPT !.state = state]
Repo(name, path, vals) == [name |-> name, path |-> path, vals |-> vals]
U(is) == By("user", is)
P(is) == By("project", is)
UserFiles ==
    {Missing("absent"), Missing("unreadable"), Missing("malformed"),
     ConfigFile(<<>>, [mirrors |-> ("docker.io" :> U("https")) @@ ("index.docker.io" :> U("https2"))], <<>>)}
    \cup {ConfigFile(vals, registry, repos) :
        vals \in {<<>>, [server |-> U("ok"), apiKey |-> U("plain"), apiKeyEnv |-> U("k"), sendMeta |-> U("yes")],
                  [server |-> U("ok"), apiKeyEnv |-> U("unset"), mode |-> U("ok")], [mode |-> U("bad")]},
        registry \in {<<>>, [url |-> <<U("default")>>, hosts |-> <<U("h1")>>],
                      [feeds |-> <<U("https"), U("https")>>, mirrors |-> ("docker.io" :> U("https"))]},
        repos \in {<<>>, <<Repo("a", "p", [sendMeta |-> U("no"), webhook |-> U("ok")]), Repo("b", "q", [server |-> U("ok2")])>>,
                   <<Repo("a", "p", [server |-> U("ok2")]), Repo("b", "q", [sendMeta |-> U("no")])>>}}
ProjectFiles ==
    {Missing("absent"), Missing("malformed")}
    \cup {ConfigFile(vals, [url |-> <<P("http")>>], repos) :
        vals \in {[server |-> P("ok"), apiKeyEnv |-> P("k"), sendMeta |-> P("yes"), mode |-> P("ok")],
                  [sendMeta |-> P("no"), dbPath |-> P("ok"), failOn |-> P("ok")]},
        repos \in {<<>>, <<Repo("a", "q", [webhook |-> P("ok"), sendMeta |-> P("yes")]), Repo("", "p", <<>>)>>,
                   <<Repo("c", "p", [mode |-> P("ok")]), Repo("c", "q", <<>>)>>, <<Repo("d", "", <<>>)>>}}
ExplicitFiles ==
    {Missing("absent"), Missing("unreadable"),
     ConfigFile([server |-> By("explicit", "ok"), dbSource |-> By("explicit", "bad")], <<>>, <<Repo("a", "p", <<>>)>>)}
Environment(vals, registry) == [vals |-> vals, reg |-> registry, allowSecrets |-> FALSE]
Env(is) == By("env", is)
Environments ==
    {Environment(<<>>, <<>>),
     Environment([apiKey |-> Env("key"), dbPath |-> Env("ok")],
                 [hosts |-> <<>>, mirrors |-> ("registry-1.docker.io" :> Env("https2"))]),
     Environment([timeout |-> Env("bad")], <<>>),
     Environment([sendMeta |-> Env("yes"), failOn |-> Env("bad")], [url |-> <<Env("http")>>]),
     Environment([cacert |-> Env("ok")], [feeds |-> <<>>, url |-> <<Env("https")>>])}
FlagSets == {<<>>, [server |-> By("flag", "ok"), mode |-> By("flag", "ok")], [apiKey |-> By("flag", "key")],
             [apiKey |-> By("flag", "")]}

-----------------------------------------------------------------------------
\* Package search: rows of every table, and one package in many versions.
Hit(table, state, package, severity, id) ==
    [table |-> table, state |-> state, package |-> package, severity |-> severity, id |-> id]
MixedRows ==
    {Hit("vulnerability", "active", <<1, 1, 0>>, "HIGH", 1), Hit("vulnerability", "active", <<1, 1, 0>>, "HIGH", 2),
     Hit("vulnerability", "active", <<1, 1, 0>>, "LOW", 3), Hit("vulnerability", "withdrawn", <<2, 1, 0>>, "HIGH", 4),
     Hit("vulnerability", "active", <<3, 1, 0>>, "HIGH", 5), Hit("vulnerability", "active", <<2, 2, 0>>, "HIGH", 15),
     Hit("malicious", "active", <<1, 2, 0>>, "HIGH", 6), Hit("malicious", "active", <<3, 1, 0>>, "HIGH", 7),
     Hit("malicious", "removed", <<4, 1, 0>>, "HIGH", 8), Hit("reputation", "malicious", <<2, 1, 1>>, "HIGH", 9),
     Hit("reputation", "risk", <<2, 1, 1>>, "HIGH", 10), Hit("reputation", "clean", <<2, 2, 1>>, "LOW", 11),
     Hit("lifecycle", "eol", <<4, 1, 1>>, "HIGH", 12), Hit("lifecycle", "eol_soon", <<4, 2, 1>>, "LOW", 13),
     Hit("lifecycle", "ok", <<4, 3, 1>>, "LOW", 14)}
VersionRows ==
    {Hit("reputation", "malicious", <<1, 1, v>>, "HIGH", v) : v \in 1..3}
    \cup {Hit("malicious", "active", <<n, 1, 0>>, "HIGH", 3 + n) : n \in 1..2}
Query(length, ascii, names) == [length |-> length, ascii |-> ascii, names |-> names]
Search_(st, found, query, severity, finding, first) ==
    [store |-> st, rows |-> found, collation |-> <<1, 2, 3, 4>>, query |-> query, severity |-> severity,
     finding |-> finding, page |-> first]
Searches ==
    {Search_("postgres", MixedRows, Query("none", TRUE, {}), "HIGH", "", 0)}
    \cup {Search_("sqlite", found, query, severity, finding, first) :
            found \in {MixedRows, VersionRows}, query \in {Query("ok", TRUE, {1, 3}), Query("ok", FALSE, {3, 4})},
            severity \in {"", "HIGH"}, finding \in {"", "malicious"}, first \in {0, 9}}
    \cup {Search_("postgres", found, Query("none", TRUE, {}), "", finding, first) :
            found \in {MixedRows, VersionRows}, finding \in {"malicious", "supply_chain_risk", "lifecycle", "vulnerability"},
            first \in {0, 9}}
    \cup {[Search_("postgres", MixedRows, Query("none", TRUE, {}), "", finding, 0) EXCEPT !.collation = order] :
            finding \in {"malicious", "supply_chain_risk", "vulnerability"}, order \in {<<3, 1, 2, 4>>, <<4, 3, 2, 1>>}}
    \cup {Search_("sqlite", VersionRows, query, severity, finding, 0) :
            query \in {Query("none", TRUE, {}), Query("short", TRUE, {1}), Query("long", TRUE, {1})},
            severity \in {"", "bogus"}, finding \in {"", "bogus"}}

-----------------------------------------------------------------------------
\* Targets of --auto-sbom: a workspace that shares a directory with a Go
\* module, workspaces of a workspace, a Maven reactor complete and with a
\* missing module, an npm tree with problems of packages that are optional or
\* not, Python manifests whose file names collide, and manifests that count
\* for nothing.
Manifest(file, eco, input, dir, deps) ==
    [file |-> file, eco |-> eco, input |-> input, dir |-> dir, name |-> file, depth |-> 1, hidden |-> FALSE,
     state |-> "ok", lock |-> "none", children |-> {}, deps |-> deps, devDeps |-> {}, entries |-> {}, problems |-> {}]
Workspace == <<[Manifest("root", "npm", "package", "/", {}) EXCEPT !.children = {"/a"}],
               Manifest("a", "npm", "package", "/a", {"x"}), Manifest("mod", "go", "go.mod", "/a", {"g"})>>
Workspaces == <<[Manifest("root", "npm", "package", "/", {}) EXCEPT !.children = {"/a", "/c"}],
                [Manifest("a", "npm", "package", "/a", {"x"}) EXCEPT !.children = {"/a/b", "/c"}],
                [Manifest("b", "npm", "package", "/a/b", {"y"}) EXCEPT !.depth = 2],
                Manifest("c", "npm", "package", "/c", {"z"})>>
Reactor(last) == <<[Manifest("root", "maven", "pom", "/", {}) EXCEPT !.children = {"/m"}],
                   [Manifest("m", "maven", "pom", "/m", {}) EXCEPT !.children = {"/m/n"}],
                   [Manifest("n", "maven", "pom", last, {"x"}) EXCEPT !.depth = 2, !.devDeps = {"t"}]>>
Problem(kind, by) == [kind |-> kind, by |-> by, what |-> "x"]
Entry(id, optional) == [id |-> id, optional |-> optional]
Locked(problems) ==
    <<[Manifest("root", "npm", "package", "/", {"x", "y"})
         EXCEPT !.entries = {Entry("o", TRUE), Entry("b", TRUE), Entry("b", FALSE)}, !.problems = problems]>>
Python(state, lockfile) ==
    <<[Manifest("a/b", "pypi", "requirements", "/a/b", {}) EXCEPT !.name = "a_b", !.lock = "include"],
      [Manifest("a_b", "pypi", "poetry", "/a_b", {"y"}) EXCEPT !.lock = lockfile, !.state = state]>>
Uncounted == <<[Manifest("root", "npm", "package", "/", {"x"}) EXCEPT !.lock = "foreign"], Manifest("py", "pypi", "pyproject", "/", {}),
               [Manifest("h", "npm", "package", "/node_modules", {"x"}) EXCEPT !.hidden = TRUE]>>
SBOMTargets ==
    {Workspace, Workspaces, Reactor("/m/n"), Reactor("/n"), Locked({Problem("missing", "o")}), Locked({Problem("missing", "b")}),
     Locked({Problem("missing", "o"), Problem("invalid", "o")}), Python("ok", "dev"), Python("ok", "unreadable"),
     Python("malformed", "none"), Uncounted}
AutoSBOM(keeps, only, report_) ==
    [all |-> FALSE, only |-> only, sbom |-> FALSE, report |-> report_, keep |-> keeps, install |-> keeps, dev |-> ~keeps,
     depth |-> IF only THEN 1 ELSE 3, ecos |-> IF only THEN {"npm", "pypi"} ELSE {}]
AutoSBOMs == {AutoSBOM(TRUE, FALSE, TRUE), AutoSBOM(FALSE, FALSE, FALSE), AutoSBOM(FALSE, TRUE, FALSE), AutoSBOM(TRUE, TRUE, TRUE)}
KeptBefore == {{}, {<<"root", 1>>}, {<<"a_b", 1>>}, {<<"root", 1>>, <<"root", 2>>}}

-----------------------------------------------------------------------------
\* Inventory views: Dockerfiles with arguments, stages and pinned digests,
\* Compose services with variables and local builds, files that cannot be read,
\* and the registries, mirrors and token services behind them.
Image(path, tag) == [var |-> "", host |-> "", path |-> path, tag |-> tag, digest |-> ""]
NoImage == Image(<<>>, "")
Variable(name) == [NoImage EXCEPT !.var = name]
node == Image(<<"node">>, "1")
ghcr == [Image(<<"o", "app">>, "1") EXCEPT !.host = "ghcr.io"]
From(image, stage) == [op |-> "FROM", arg |-> stage, value |-> image]
Arg(name, value) == [op |-> "ARG", arg |-> name, value |-> value]
Dockerfile(path, state, lines) == [kind |-> "dockerfile", path |-> path, state |-> state, lines |-> lines]
Compose(lines) == [kind |-> "compose", path |-> "C", state |-> "ok", lines |-> lines]
Service(name, image, default, build) == [name |-> name, image |-> image, default |-> default, build |-> build]
Corporate == <<Dockerfile("D", "ok", <<From([Image(<<"app">>, "1") EXCEPT !.host = "corp.example"], ""), From(ghcr, "")>>),
               Dockerfile("E", "large", <<>>), Compose(<<Service("w", Image(<<"scratch">>, ""), NoImage, FALSE)>>)>>
DockerTrees ==
    {<<Dockerfile("D", "ok", <<Arg("v", "1"), Arg("i", Image(<<"node">>, "v")), From(Variable("i"), "base"),
                               From(Image(<<"base">>, ""), "x"), From(Image(<<"scratch">>, ""), "")>>),
       Compose(<<Service("web", node, NoImage, FALSE), Service("b", NoImage, NoImage, TRUE)>>)>>,
     <<Dockerfile("D", "ok", <<From(Image(<<"library", "node">>, "1"), "a"), From(node, ""), From([node EXCEPT !.digest = "d1"], "")>>),
       Compose(<<Service("web", [node EXCEPT !.digest = "d1", !.tag = ""], NoImage, TRUE), Service("b", Variable("X"), ghcr, TRUE),
                 Service("c", Variable("Y"), NoImage, TRUE)>>)>>,
     Corporate, <<Dockerfile("D", "ok", <<From(Variable("q"), "")>>)>>}
Listed == [eco |-> "npm", name |-> "a", version |-> "1", file |-> "L", source |-> "lockfile", scope |-> "runtime",
           relation |-> "direct", ref |-> <<>>, local |-> FALSE, known |-> "unknown"]
Collected(state, inputs, entries, errors) == [state |-> state, files |-> inputs, entries |-> entries, errors |-> errors]
Https(host) == [scheme |-> "https", host |-> host]
Hub == "registry-1.docker.io"
View == [view |-> "list-all", collection |-> Collected("ok", 1, <<Listed, Listed>>, 0), check |-> "ok", findings |-> {},
         docker |-> <<>>, choco |-> <<>>, ecosystems |-> {}, quiet |-> FALSE, html |-> FALSE, offline |-> FALSE,
         cancels |-> FALSE, mirrors |-> <<>>, allowed |-> {Hub, "ghcr.io"}, realms |-> {}, installed |-> <<>>,
         dns |-> [h \in {Hub, "ghcr.io", "auth.docker.io", "other", "cdn"} |-> "public"],
         redirects |-> [h \in {Hub, "ghcr.io", "auth.docker.io", "cdn", "m", "localhost"} |->
                           IF h \in {"ghcr.io", "auth.docker.io"} THEN {"cdn"} ELSE {}],
         served |-> [k \in {<<Hub, <<"library", "node">>, "1">>, <<Hub, <<"library", "node">>, "v">>,
                            <<"ghcr.io", <<"o", "app">>, "1">>} |-> {"d1", "d2"}]]
NodeTag == <<<<"docker.io", "library", "node">>, "1">>
ChocoList == [path |-> "config.xml", state |-> "ok", root |-> "config", listed |-> TRUE, broken |-> FALSE,
              ids |-> <<"git", "git">>, version |-> ""]
Script(state, version) == [ChocoList EXCEPT !.path = "i.ps1", !.root = "script", !.state = state, !.version = version]
ChocoTrees == {<<>>, <<ChocoList, [ChocoList EXCEPT !.path = "b/config.xml", !.broken = TRUE], Script("ok", "2")>>,
               <<Script("unreachable", "")>>}
Views ==
    {[View EXCEPT !.view = v, !.collection = c, !.quiet = q, !.html = h, !.findings = fs] :
        v \in {"list-all", "outdated", "list-packages"}, q \in BOOLEAN, h \in BOOLEAN,
        c \in {Collected("ok", 1, <<Listed, Listed>>, 0), Collected("ok", 2, <<Listed>>, 1)}, fs \in {{}, {[blocking |-> TRUE]}, {[blocking |-> FALSE]}}}
    \cup {[View EXCEPT !.view = v, !.collection = c, !.quiet = q, !.html = h] :
        v \in {"list-all", "outdated", "list-packages"}, q \in BOOLEAN, h \in BOOLEAN,
        c \in {Collected("ok", 0, <<>>, 0), Collected("fatal", 1, <<>>, 0), Collected("unreadable", 0, <<>>, 0), Collected("ok", 1, <<>>, 1)}}
    \cup {[View EXCEPT !.check = "failed"]}
    \cup {[View EXCEPT !.docker = t, !.installed = i, !.realms = {Https("auth.docker.io"), Https("other"), Https("")}, !.mirrors = m] :
        t \in DockerTrees, i \in {<<>>, NodeTag :> "d1"}, m \in {<<>>, Hub :> Https("m")}}
    \cup {[View EXCEPT !.docker = t, !.cancels = TRUE, !.installed = NodeTag :> ""] : t \in DockerTrees}
    \cup {[View EXCEPT !.docker = t, !.choco = ch, !.ecosystems = e, !.offline = TRUE] :
        t \in DockerTrees, ch \in ChocoTrees, e \in {{}, {"npm"}, {"docker"}}}
    \cup {[View EXCEPT !.docker = Corporate, !.dns["ghcr.io"] = d, !.mirrors = m] :
        d \in {"none", "private"}, m \in {<<>>, "ghcr.io" :> [scheme |-> "http", host |-> "m"]}}

VARIABLE part  \* the component this behaviour is about
VARIABLES s1, s2, s3, s4, s5, s6, s7, s8, s9, s10, s11, s12, s13, s14  \* its state

Scan == INSTANCE ScanCommand
    WITH Invocations <- Commands, Trees <- ScanTrees,
         RemoteDB <- ServerFindings, LocalDB <- LocalFindings,
         MaxPackagesPerCheck <- 1, MaxPushes <- 1, hook <- s1, pushes <- s2,
         inv <- s3, run <- s4, outcome <- s5, written <- s6
Sbom == INSTANCE SBOMGeneration
    WITH Trees <- SBOMTargets, Configs <- AutoSBOMs, Before <- KeptBefore,
         Names <- {"root", "a", "mod", "m", "n", "a_b", "py", "h"},
         Attempts <- 2, tree <- s1, cfg <- s2, tools <- s3, disk <- s4,
         run <- s5
Store == INSTANCE LocalStore
    WITH Procs <- {"p", "q"}, Databases <- LocalFiles, Page <- SyncPage,
         MaxPerRepo <- 1, MaxAge <- 1, WarnAfter <- 1, MaxTime <- 1,
         MaxStarts <- 2, db <- s1, lock <- s2, proc <- s3, now <- s4,
         starts <- s5
Conf == INSTANCE ClientConfig
    WITH Envs <- Environments, Flags <- FlagSets, inv <- s1, cfg <- s2,
         pc <- s3, out <- s4
Data == INSTANCE DatasetSync
    WITH Keys <- {1, 2}, Limit <- 2, MaxClock <- 3, InterruptFull <- FALSE,
         row <- s1, clock <- s2, enabled <- s3, mirror <- s4, lastSync <- s5,
         marker <- s6, pass <- s7
Delta == INSTANCE DeltaSync
    WITH Advisories <- {1}, Packages <- {1}, Writers <- {"w1", "w2"},
         Scopes <- {{1}}, Modulus <- 4, Modes <- {FALSE},
         InterruptFull <- FALSE, MaxClock <- 1, FirstXID <- 5, MaxXID <- 6,
         MaxStops <- 0, clock <- s1, nextXID <- s2, tx <- s3, vuln <- s4,
         aff <- s5, local <- s6, cursor <- s7, pass <- s8, stops <- s9
Search == INSTANCE PackageSearch
    WITH Requests <- Searches, PageSize <- 1, IdLimit <- 2, MaxInt <- 7,
         request <- s1, page <- s2, phase <- s3, gone <- s4, tasks <- s5,
         partial <- s6, shown <- s7, answer <- s8
Inventory == INSTANCE InventoryReport
    WITH Jobs <- Views, Workers <- {1, 2}, job <- s1, at <- s2, scan <- s3,
         rows <- s4, warnings <- s5, w <- s6, next <- s7, digests <- s8,
         inflight <- s9, status <- s10, refused <- s11, asked <- s12,
         ctx <- s13, exit <- s14

vars == <<part, s1, s2, s3, s4, s5, s6, s7, s8, s9, s10, s11, s12, s13, s14>>
after9 == <<s10, s11, s12, s13, s14>>
after8 == <<s9, s10, s11, s12, s13, s14>>
after7 == <<s8, s9, s10, s11, s12, s13, s14>>
after6 == <<s7, s8, s9, s10, s11, s12, s13, s14>>
after5 == <<s6, s7, s8, s9, s10, s11, s12, s13, s14>>
after4 == <<s5, s6, s7, s8, s9, s10, s11, s12, s13, s14>>

\* The variables a component has no use for are off.
Off9 == s10 = Off /\ s11 = Off /\ s12 = Off /\ s13 = Off /\ s14 = Off
Off8 == s9 = Off /\ Off9
Off7 == s8 = Off /\ Off8
Off6 == s7 = Off /\ Off7
Off5 == s6 = Off /\ Off6
Off4 == s5 = Off /\ Off5

Init ==
    \/ part = "scan" /\ Scan!Init /\ Off6
    \/ part = "sbom" /\ Sbom!Init /\ Off5
    \/ part = "store" /\ Store!Init /\ Off5
    \/ part = "config" /\ Conf!Init /\ Off4
    \/ part = "datasets" /\ Data!Init /\ Off7
    \/ part = "advisories" /\ Delta!Init /\ Off9
    \/ part = "search" /\ Search!Init /\ Off8
    \/ part = "inventory" /\ Inventory!Init

Next ==
    /\ UNCHANGED part
    /\ \/ part = "scan" /\ Scan!Next /\ UNCHANGED after6
       \/ part = "sbom" /\ Sbom!Next /\ UNCHANGED after5
       \/ part = "store" /\ Store!Next /\ UNCHANGED after5
       \/ part = "config" /\ Conf!Next /\ UNCHANGED after4
       \/ part = "datasets" /\ Data!Next /\ UNCHANGED after7
       \/ part = "advisories" /\ Delta!Next /\ UNCHANGED after9
       \/ part = "search" /\ Search!Next /\ UNCHANGED after8
       \/ part = "inventory" /\ Inventory!Next

Spec == Init /\ [][Next]_vars

(* A green scan has looked: it parsed every file and no shipped package    *)
(* has a blocking finding, whatever failed on the way; generated SBOMs     *)
(* hold what the manifests declare, except those of npm workspaces inside  *)
(* a workspace, and are gone afterwards; a scan run as the Git hook writes *)
(* nothing inside the repository; and an inventory view never softens the  *)
(* exit code of its scan.                                                  *)
GreenMeansClean ==
    /\ part = "scan" => Scan!GateSound /\ Scan!HookWritesOutside
    /\ part = "sbom" => Sbom!ScansWhatWasDeclared /\ Sbom!NothingLeftBehind
    /\ part = "inventory" => Inventory!ExitNotSoftened

(* The project's own file cannot redirect a scan nor undo the user's       *)
(* opt-out, the commands resolve the same settings, and a registry counts  *)
(* as configured exactly when a trusted layer chose it.                    *)
ConfigTrusted ==
    part = "config" => /\ Conf!RoutingIsTrusted /\ Conf!OptOutKept
                       /\ Conf!CommandsAgree /\ Conf!ConfiguredMeansChosen

(* The local database mirrors the server: a sync leaves every served row   *)
(* and no withdrawn one, the next delta covers what is still missing when  *)
(* two writers commit out of order and transaction IDs wrap around, and an *)
(* opened file has the current schema and spelling.                        *)
MirrorFaithful ==
    /\ part = "datasets" => Data!ServedRowsMirrored /\ Data!WithdrawnRowsGone
    /\ part = "advisories" => Delta!DeltaCoversDifference
    /\ part = "store" => Store!OpenStoreCurrent

(* Walking through the pages of a search shows every match once, and a     *)
(* search that failed names the failure and not its consequences; an       *)
(* inventory lists every package and image once or warns, and says of an   *)
(* update only what a registry served in this run.  Where the database     *)
(* cuts its answers in another order than the pages are cut in, only the   *)
(* last page of a search is sure to be complete.                           *)
ListsComplete ==
    /\ part = "search" => Search!WalkShowsEveryResult /\ Search!FailureNotMasked
    /\ part = "inventory" => Inventory!InventoryComplete /\ Inventory!UpdatesHonest

(* Nothing is lost on the client: only a sync page that asks for it drops  *)
(* the last row of an advisory, and retention drops only scans that are    *)
(* too many in their own repository or too old; and no SBOM of another run *)
(* is overwritten or removed.                                              *)
LocalDataKept ==
    [][ /\ part = "store" => Store!AdvisoriesKept /\ Store!NewestScansKept
        /\ part = "sbom" => Sbom!OthersFilesKept ]_vars
==============================================================================
