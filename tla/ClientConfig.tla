---------------------------- MODULE ClientConfig ----------------------------
(***************************************************************************)
(* How the CLI arrives at its settings (cmd/packmon/client_config.go,      *)
(* latest_registry.go, config.go, db.go).  The user-global file is the     *)
(* trusted base; the .packmon.yaml of the repository is laid over it after *)
(* its routing fields are removed; --config replaces both.  `scan`, `db    *)
(* sync` and `config show` then add environment and flags, each in code of *)
(* its own.                                                                *)
(*                                                                         *)
(* A layer is a function on the fields it sets.  A value is [by, is]: the  *)
(* layer that wrote it and what it says, "bad" where validation refuses    *)
(* it.  A list of registry URLs, feeds or hosts is a sequence of values, a *)
(* mirror table a function from hosts to values.                           *)
(***************************************************************************)
EXTENDS Integers, Sequences, FiniteSets, SequencesExt, TLC

CONSTANTS UserFiles, ProjectFiles, ExplicitFiles, \* what each file may hold
          Envs, Flags                             \* environments, flag sets

VARIABLES inv,   \* the invocation: the command and everything it reads
          cfg,   \* the merged file configuration
          pc,    \* "user", "project", "resolve", "done" or "failed"
          out    \* the settings in effect when done

vars == <<inv, cfg, pc, out>>

Routing == {"server", "apiKey", "apiKeyEnv", "cacert", "insecure", "requireRemote",
            "webhook", "webhookSecret", "output", "dbPath"}
RegFields == {"url", "feeds", "hosts", "mirrors"}

Keep(f, S) == [x \in DOMAIN f \cap S |-> f[x]]
Drop(f, S) == [x \in DOMAIN f \ S |-> f[x]]
Says(f, x, v) == x \in DOMAIN f /\ f[x].is = v

NoRegistries == [url |-> <<>>, feeds |-> <<>>, hosts |-> <<>>, mirrors |-> <<>>]
NoConfig == [loaded |-> FALSE, vals |-> <<>>, reg |-> NoRegistries, repos |-> <<>>]

(* ----------------------- Reading and normalising ---------------------- *)

\* An entry already present, after trimming, is not added again.
dedupStringList(list) ==
    FoldLeft(LAMBDA seen, v :
                 IF \E i \in DOMAIN seen : seen[i].is = v.is THEN seen
                 ELSE Append(seen, v), <<>>, list)

\* Absolute https, or http to the loopback host; no credentials, no query.
normalizeLatestRegistryBaseURL(v) == v.is \in {"default", "https", "https2", "loopback"}

normalizeDockerRegistryHost(h) ==
    IF h \in {"docker.io", "index.docker.io"} THEN "registry-1.docker.io" ELSE h

\* The public registries a mirror may stand for.
allowedDockerRegistryMirrorSourceHost(h) ==
    normalizeDockerRegistryHost(h) \in {"registry-1.docker.io", "ghcr.io", "quay.io"}

\* Two spellings of one registry collide instead of one silently winning.
MirrorsValid(m) ==
    /\ \A h, k \in DOMAIN m :
          normalizeDockerRegistryHost(h) = normalizeDockerRegistryHost(k) => h = k
    /\ \A h \in DOMAIN m : /\ allowedDockerRegistryMirrorSourceHost(h)
                           /\ normalizeLatestRegistryBaseURL(m[h])

normalizeDockerRegistryMirrorMap(m) ==
    [h \in {normalizeDockerRegistryHost(k) : k \in DOMAIN m} |->
        m[CHOOSE k \in DOMAIN m : normalizeDockerRegistryHost(k) = h]]

\* A bare, public DNS host name.
normalizeSwiftPMGitAllowedHosts(list) == \A i \in DOMAIN list : list[i].is # "bad"

RegistriesValid(reg) ==
    /\ \A f \in {"url", "feeds"} : \A i \in DOMAIN reg[f] :
          normalizeLatestRegistryBaseURL(reg[f][i])
    /\ normalizeSwiftPMGitAllowedHosts(reg.hosts)
    /\ MirrorsValid(reg.mirrors)

normalizeCLIRegistryConfig(reg) ==
    [reg EXCEPT !.feeds = dedupStringList(@), !.hosts = dedupStringList(@),
                !.mirrors = normalizeDockerRegistryMirrorMap(@)]

\* A repository without a name is called after its directory.
normalizeCLIRepoConfig(r) == IF r.name = "" THEN [r EXCEPT !.name = r.path] ELSE r

validateTopLevelCLIConfig(vals) == \A f \in DOMAIN vals : vals[f].is # "bad"

normalizeCLIRepoConfigs(repos) ==
    LET named == [i \in DOMAIN repos |-> normalizeCLIRepoConfig(repos[i])]
    IN  /\ \A i \in DOMAIN repos : repos[i].path # "" /\ validateTopLevelCLIConfig(repos[i].vals)
        /\ \A i, j \in DOMAIN named : named[i].name = named[j].name => i = j

NormalizeFails(file) ==
    \/ ~validateTopLevelCLIConfig(file.vals)
    \/ ~RegistriesValid(file.reg)
    \/ ~normalizeCLIRepoConfigs(file.repos)

normalize(file) ==
    [loaded |-> TRUE, vals |-> file.vals, reg |-> normalizeCLIRegistryConfig(file.reg),
     repos |-> [i \in DOMAIN file.repos |-> normalizeCLIRepoConfig(file.repos[i])]]

(* ------------------------------- Layering ----------------------------- *)

\* Mutant: routing fields of repository entries are left in.
stripTopLevelOnly(file) ==
    [file EXCEPT !.vals = Drop(@, Routing), !.reg = NoRegistries]

\* The project may switch the repository name off, never on.
stripMetadata(vals) ==
    IF Says(vals, "sendMeta", "yes") THEN Drop(vals, {"sendMeta"}) ELSE vals

stripUntrustedAutoProjectFields(file) ==
    [file EXCEPT !.vals = stripMetadata(Drop(@, Routing)), !.reg = NoRegistries,
                 !.repos = [i \in DOMAIN @ |->
                     [@[i] EXCEPT !.vals = stripMetadata(Drop(@, Routing))]]]

matchCLIRepoConfig(base, r) ==
    LET byName == {i \in DOMAIN base : base[i].name = r.name}
        byPath == {i \in DOMAIN base : base[i].path = r.path}
        First(S) == CHOOSE i \in S : \A j \in S : i <= j
    IN  IF byName # {} THEN First(byName) ELSE IF byPath # {} THEN First(byPath) ELSE 0

inheritTrustedCLIRepoMetadataOptOut(vals, trusted) ==
    IF Says(trusted.vals, "sendMeta", "no")
    THEN ("sendMeta" :> trusted.vals.sendMeta) @@ vals ELSE vals

\* Routing and webhook of the trusted entry, scan policy of the project's.
inheritTrustedCLIRepoConfig(vals, trusted) ==
    inheritTrustedCLIRepoMetadataOptOut(
        Drop(vals, {"webhook", "webhookSecret"})
            @@ Keep(trusted.vals, {"server", "apiKey", "apiKeyEnv", "webhook", "webhookSecret"}),
        trusted)

\* Mutant: an entry does not inherit the opt-out.
inheritTrustedCLIRepoMetadataOptOutsRouted(r, base) == r.vals

inheritTrustedCLIRepoMetadataOptOuts(r, base) ==
    FoldLeft(LAMBDA vals, t :
                 IF t.name = r.name \/ t.path = r.path
                 THEN inheritTrustedCLIRepoMetadataOptOut(vals, t) ELSE vals,
             r.vals, base)

overlayCLIReposConfig(base, repos) ==
    LET Routed(r) == LET j == matchCLIRepoConfig(base, r)
                     IN  IF j = 0 THEN r
                         ELSE [r EXCEPT !.vals = inheritTrustedCLIRepoConfig(@, base[j])]
        Layered(r) == [Routed(r) EXCEPT
                          !.vals = inheritTrustedCLIRepoMetadataOptOuts(Routed(r), base)]
    IN  IF repos = <<>> THEN base ELSE [i \in DOMAIN repos |-> Layered(repos[i])]

\* URLs and feed lists replace, hosts and mirrors merge.
overlayCLIRegistryConfig(dst, src) ==
    [url     |-> IF src.url = <<>> THEN dst.url ELSE src.url,
     feeds   |-> IF src.feeds = <<>> THEN dst.feeds ELSE src.feeds,
     hosts   |-> IF src.hosts = <<>> THEN dst.hosts ELSE dedupStringList(dst.hosts \o src.hosts),
     mirrors |-> src.mirrors @@ dst.mirrors]

overlayCLIConfig(dst, src) ==
    [loaded |-> TRUE, vals |-> src.vals @@ dst.vals,
     reg |-> overlayCLIRegistryConfig(dst.reg, src.reg),
     repos |-> overlayCLIReposConfig(dst.repos, src.repos)]

(* ------------------------- Registries in effect ----------------------- *)

DefaultURL == [by |-> "default", is |-> "default"]

defaultLatestRegistryConfig ==
    [val |-> [NoRegistries EXCEPT !.url = <<DefaultURL>>, !.feeds = <<DefaultURL>>], conf |-> {}]

applyCLIRegistryConfig(l, reg) ==
    [val |-> overlayCLIRegistryConfig(l.val, reg),
     conf |-> l.conf \cup {f \in RegFields : DOMAIN reg[f] # {}}]

\* PACKMON_* for the registries.  Only a feed list without entries is ignored.
EnvRegistriesValid(env) == RegistriesValid(env.reg @@ NoRegistries)

applyLatestRegistryEnvSettings(l, env) ==
    LET e == normalizeCLIRegistryConfig(env.reg @@ NoRegistries)
        set == DOMAIN env.reg \ (IF e.feeds = <<>> THEN {"feeds"} ELSE {})
    IN  [val |-> [f \in RegFields |->
                     IF f = "mirrors" THEN e.mirrors @@ l.val.mirrors
                     ELSE IF f \in set THEN e[f] ELSE l.val[f]],
         conf |-> l.conf \cup set]

\* Mutant: inherited registries lose their mark.
inheritFallbackUnmarked(fallback) == [val |-> fallback.val, conf |-> {}]

\* A resolver without registries of its own takes those of the settings.
inheritFallback(fallback) ==
    [val |-> fallback.val,
     conf |-> {f \in fallback.conf :
                  f \in {"hosts", "mirrors", "feeds"} => DOMAIN fallback.val[f] # {}}]

withDefaults(l) ==
    [val |-> [l.val EXCEPT !.url = IF @ = <<>> THEN <<DefaultURL>> ELSE @,
                           !.feeds = IF @ = <<>> THEN <<DefaultURL>> ELSE dedupStringList(@),
                           !.hosts = dedupStringList(@)],
     conf |-> l.conf
         \cup {f \in {"url", "feeds"} : /\ l.val[f] # <<>>
                                        /\ \E i \in DOMAIN l.val[f] : l.val[f][i].is # "default"}
         \cup {f \in {"hosts", "mirrors"} : DOMAIN l.val[f] # {}}]

(* ------------------------------ Commands ------------------------------ *)

Defaults == [f \in {"mode", "failOn", "timeout", "sendMeta"} |-> DefaultURL]

skipConfigAPIKeyEnv(env, flags) == "apiKey" \in DOMAIN env.vals \cup DOMAIN flags

\* A file layer over the settings; api_key_env wins over api_key within it.
Applied(vals, skip, s) ==
    (IF "apiKeyEnv" \in DOMAIN vals /\ ~skip THEN "apiKey" :> vals.apiKeyEnv ELSE <<>>)
        @@ Drop(vals, {"apiKeyEnv"}) @@ s

KeyUnset(vals, skip) == ~skip /\ Says(vals, "apiKeyEnv", "unset")

\* Environment values that fail to parse, whatever overrides them later.
EnvUnparsable(env, S) == \E f \in S : Says(env.vals, f, "bad")

\* An empty secret on the command line is no secret.
rejectSecretFlagValue(env, flags, S) ==
    \E f \in S : f \in DOMAIN flags /\ flags[f].is # "" /\ ~env.allowSecrets

resolveLocalDBPath(c, env) ==
    Keep(env.vals, {"dbPath"}) @@ Keep(c.vals, {"dbPath"}) @@ ("dbPath" :> DefaultURL)

scanSettings(c, env, flags, repo) ==
    LET skip == skipConfigAPIKeyEnv(env, flags)
    IN  resolveLocalDBPath(c, env)
            @@ flags @@ env.vals
            @@ Applied(repo, skip, Applied(c.vals, skip, Defaults))

scanRefused(c, env, flags, repo) ==
    LET skip == skipConfigAPIKeyEnv(env, flags)
        s == scanSettings(c, env, flags, repo)
    IN  \/ rejectSecretFlagValue(env, flags, {"apiKey", "webhookSecret"})
        \/ KeyUnset(c.vals, skip) \/ KeyUnset(repo, skip)
        \/ EnvUnparsable(env, {"timeout", "insecure", "requireRemote", "sendMeta"})
        \/ ~EnvRegistriesValid(env)
        \/ \E f \in {"mode", "failOn", "timeout", "ecosystems", "log"} : Says(s, f, "bad")

LatestRegistry(c, env) ==
    withDefaults(inheritFallback(applyLatestRegistryEnvSettings(
        applyCLIRegistryConfig(defaultLatestRegistryConfig, c.reg), env)))

SyncFields == {"server", "apiKey", "cacert", "insecure", "ecosystems", "timeout"}

\* Mutant: db sync prefers the key in the file to the one in the environment.
syncKeyPlainWins(c, env, flags) ==
    IF "apiKey" \in DOMAIN c.vals THEN TRUE ELSE skipConfigAPIKeyEnv(env, flags)

syncKey(c, env, flags) == skipConfigAPIKeyEnv(env, flags)

\* db sync waits 60 seconds where a scan waits 30.
DefaultSyncTimeout == [by |-> "default", is |-> "longer"]

dbSyncSettings(c, env, flags) ==
    Keep(flags @@ env.vals
             @@ Applied(c.vals, syncKey(c, env, flags), "timeout" :> DefaultSyncTimeout),
         SyncFields)

resolveDBSyncSettings(c, env, flags) ==
    LET s == dbSyncSettings(c, env, flags)
    IN  /\ ~Says(Keep(flags, {"dbSource"}) @@ c.vals, "dbSource", "bad")
        /\ "server" \in DOMAIN s
        /\ ~rejectSecretFlagValue(env, flags, {"apiKey"})
        /\ ~KeyUnset(c.vals, skipConfigAPIKeyEnv(env, flags))
        /\ ~EnvUnparsable(env, {"timeout", "insecure"})
        /\ ~Says(s, "timeout", "bad")

ShowFields == {"server", "apiKey", "mode", "failOn", "timeout", "ecosystems", "includeDev",
               "cacert", "insecure", "requireRemote", "sendMeta", "webhook",
               "webhookSecret", "dbPath"}

\* The key of the file, or what api_key_env names, unless the environment
\* supplies PACKMON_API_KEY.
applyConfigShowFileAPIKey(c, env) ==
    IF "apiKeyEnv" \in DOMAIN c.vals /\ "apiKey" \notin DOMAIN env.vals
    THEN IF c.vals.apiKeyEnv.is = "unset" THEN <<>> ELSE "apiKey" :> c.vals.apiKeyEnv
    ELSE Keep(c.vals, {"apiKey"})

effectiveConfigShowSettings(c, env) ==
    Keep(env.vals @@ applyConfigShowFileAPIKey(c, env) @@ Drop(c.vals, {"apiKey", "apiKeyEnv"})
             @@ resolveLocalDBPath(c, env) @@ Defaults,
         ShowFields)

showRefused(env) == EnvUnparsable(env, {"timeout", "sendMeta", "insecure", "requireRemote"})

(* ------------------------------ The steps ----------------------------- *)

Init ==
    /\ inv \in [cmd : {"scan", "sync", "show"}, user : UserFiles, project : ProjectFiles,
                explicit : ExplicitFiles, noProject : BOOLEAN, env : Envs, flags : Flags]
    /\ inv.cmd = "show" => inv.flags = <<>>
    /\ cfg = NoConfig
    /\ pc = IF inv.explicit.state = "absent" THEN "user" ELSE "explicit"
    /\ out = <<>>

Fail == pc' = "failed" /\ UNCHANGED <<inv, cfg, out>>

\* Unreadable, too large, not one YAML document, or refused by normalize.
Refused(file) == file.state \in {"unreadable", "malformed"} \/ (file.state = "ok" /\ NormalizeFails(file))

loadExplicitCLIConfig ==
    /\ pc = "explicit"
    /\ IF Refused(inv.explicit) THEN Fail
       ELSE cfg' = normalize(inv.explicit) /\ pc' = "resolve" /\ UNCHANGED <<inv, out>>

loadUserGlobalConfig ==
    /\ pc = "user"
    /\ IF Refused(inv.user) THEN Fail
       ELSE /\ cfg' = IF inv.user.state = "ok" THEN normalize(inv.user) ELSE cfg
            /\ pc' = "project"
            /\ UNCHANGED <<inv, out>>

\* `config show` loads with the default options, whatever --no-project-config says.
SkipProjectConfig == inv.noProject /\ inv.cmd # "show"

overlayAutoProjectConfig ==
    /\ pc = "project"
    /\ LET file == stripUntrustedAutoProjectFields(inv.project)
       IN  IF SkipProjectConfig \/ inv.project.state = "absent"
           THEN pc' = "resolve" /\ UNCHANGED <<inv, cfg, out>>
           ELSE IF Refused(file) THEN Fail
           ELSE /\ cfg' = overlayCLIConfig(cfg, normalize(file))
                /\ pc' = "resolve"
                /\ UNCHANGED <<inv, out>>

Done(settings, repo) ==
    pc' = "done" /\ out' = [s |-> settings, repo |-> repo] /\ UNCHANGED <<inv, cfg>>

\* A target is a configured repository (index) or a path (0).
ScanResolves ==
    /\ pc = "resolve" /\ inv.cmd = "scan"
    /\ \E i \in 0 .. Len(cfg.repos) :
          LET repo == IF i = 0 THEN <<>> ELSE cfg.repos[i].vals
          IN  IF scanRefused(cfg, inv.env, inv.flags, repo) THEN Fail
              ELSE Done(scanSettings(cfg, inv.env, inv.flags, repo), i)

SyncResolves ==
    /\ pc = "resolve" /\ inv.cmd = "sync"
    /\ IF resolveDBSyncSettings(cfg, inv.env, inv.flags)
       THEN Done(dbSyncSettings(cfg, inv.env, inv.flags), 0) ELSE Fail

ShowResolves ==
    /\ pc = "resolve" /\ inv.cmd = "show"
    /\ IF showRefused(inv.env) THEN Fail
       ELSE Done(effectiveConfigShowSettings(cfg, inv.env), 0)

Next ==
    \/ loadExplicitCLIConfig \/ loadUserGlobalConfig \/ overlayAutoProjectConfig
    \/ ScanResolves \/ SyncResolves \/ ShowResolves

Spec == Init /\ [][Next]_vars

(* ----------------------------- Properties ----------------------------- *)

TypeOK ==
    /\ pc \in {"explicit", "user", "project", "resolve", "done", "failed"}
    /\ cfg.loaded \in BOOLEAN
    /\ pc = "done" => DOMAIN out = {"s", "repo"}

\* No routing setting in effect, and no registry, was written by the project's
\* own .packmon.yaml: not directly, not through a repository entry that
\* inherits from a trusted one, not through any command's own resolution.
RoutingIsTrusted ==
    /\ pc = "done" => \A f \in DOMAIN out.s \cap Routing : out.s[f].by # "project"
    /\ \A f \in {"url", "feeds", "hosts"} : \A i \in DOMAIN cfg.reg[f] :
          cfg.reg[f][i].by # "project"

\* A repository the user-global file opts out of sending its name stays opted
\* out, whichever name or path the project's list gives it, unless the
\* environment or a flag decides.
OptOutKept ==
    pc = "done" /\ inv.cmd = "scan" /\ out.repo # 0 /\ inv.explicit.state = "absent"
        /\ inv.user.state = "ok"
        /\ "sendMeta" \notin DOMAIN inv.env.vals \cup DOMAIN inv.flags
        => \A t \in ToSet(normalize(inv.user).repos) :
              /\ Says(t.vals, "sendMeta", "no")
              /\ t.name = cfg.repos[out.repo].name \/ t.path = cfg.repos[out.repo].path
              => out.s.sendMeta.is = "no"

\* `db sync` talks to the server a scan would, with the same key and trust,
\* and `config show` shows what a scan of a path uses; only a timeout nobody
\* set differs (dbSyncSettings).
CommandsAgree ==
    pc = "done" /\ inv.cmd # "scan" /\ ~scanRefused(cfg, inv.env, inv.flags, <<>>) =>
        LET s == scanSettings(cfg, inv.env, inv.flags, <<>>)
            S == IF inv.cmd = "sync" THEN SyncFields ELSE ShowFields
            own == IF inv.cmd = "sync" /\ s.timeout = DefaultURL THEN {"timeout"} ELSE {}
        IN  Drop(out.s, own) = Keep(s, S \ own)

\* A registry counts as configured, which is what lets names of private
\* packages be looked up there, exactly when a trusted layer chose it.
ConfiguredMeansChosen ==
    pc = "done" /\ EnvRegistriesValid(inv.env) =>
        LET l == LatestRegistry(cfg, inv.env)
        IN  /\ \A f \in {"url", "feeds", "hosts"} :
                  f \in l.conf <=> \E i \in DOMAIN l.val[f] : l.val[f][i].by # "default"
            /\ "mirrors" \in l.conf <=> DOMAIN l.val.mirrors # {}

\* --no-project-config keeps the repository's file out of every command.
\* Not so, and in no run: config show loads the project file all the same.
NoProjectConfigHonoured ==
    inv.noProject /\ pc = "done" => \A f \in DOMAIN out.s : out.s[f].by # "project"
=============================================================================
