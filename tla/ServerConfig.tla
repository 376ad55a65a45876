----------------------------- MODULE ServerConfig -----------------------------
(***************************************************************************)
(* What the server runs with (internal/config/config.go and                *)
(* feed_settings.go, cmd/packmon-server/main.go and feed_config.go): the   *)
(* environment is parsed and checked, the feed overrides stored by the     *)
(* admin console are laid over it, and the console then changes both.  A   *)
(* start that fails any check leaves no server behind.                     *)
(*                                                                         *)
(* An environment holds the variables whose values some check looks at:    *)
(* env.set by name, without the PACKMON_ prefix, and enabled, mode, url    *)
(* and key by feed; env.bad are the variables whose text does not parse or *)
(* is out of its range.  Durations are in seconds.  Saves that overlap or  *)
(* fail are the subject of FeedConfigSave.                                 *)
(***************************************************************************)
EXTENDS Integers, FiniteSets

CONSTANTS
    Feeds,         \* the feeds, named as in feedDescriptors
    Environments,  \* the environments the server may be started in
    Tables,        \* overrides an earlier release may have stored
    Intervals,     \* sync intervals an administrator asks for
    MaxOverrides,  \* bound on the feeds with an override
    None,
    Junk           \* text that does not parse

VARIABLES
    status,  \* "stopped", "running", or what refused the last start
    env,     \* the environment of the running server
    cfg,     \* its *config.Config
    rows,    \* feed_configs in PostgreSQL: the override of each feed, or None
    memory   \* the overrides in the store of development mode

vars == <<status, env, cfg, rows, memory>>

(* ------------------------------ Descriptors ---------------------------- *)

SupportsExternalMode == {"osv", "ghsa", "openssf", "vulncheck", "cisakev", "epss", "socket"}
SupportsSyncInterval == {"osv", "ghsa", "openssf", "vulncheck", "cisakev", "epss", "nvd", "endoflife"}
SupportsAPIKey == {"vulncheck", "nvd", "socket", "reversinglabs"}
FeedSyncMinInterval == 900

(* ------------------------------- Loading -------------------------------- *)

\* Hosts and URLs by what the checks tell apart: a host is "local" or not, a
\* URL is "https", "local" (http to this machine), "http", "blank" or Junk.
isLoopbackPublicHost(h) == h = "local"
validateMirrorURL(u) == u \in {"https", "local"}

\* A blank base URL is replaced when settings are applied, not when loaded.
BaseURL(u) == IF u = "blank" THEN "https" ELSE u
validateReversingLabsBaseURL(key, u) == key # "" => validateMirrorURL(u)

\* An entry is an address, a prefix or neither.
ParseTrustedProxies(entries) == Junk \notin entries

Or(f, x, fallback) == IF x \in DOMAIN f THEN f[x] ELSE fallback

Fallback ==
    [SERVER_MODE |-> "production", SERVER_PUBLIC_HOST |-> "other", TRUSTED_PROXIES |-> {},
     SERVER_SHUTDOWN_TIMEOUT |-> 5, TLS_CERT_FILE |-> "", TLS_KEY_FILE |-> "",
     ALLOW_INSECURE_LOCAL_HTTP |-> FALSE, DB_HOST |-> "local", DB_MAX_CONNS |-> 20,
     DB_MIN_CONNS |-> 2, METRICS_HOST |-> "local", ADMIN_AUDIT_HMAC_KEY |-> "",
     ENCRYPTION_KEY |-> "", FEED_SYNC_INTERVAL |-> 28800]

envOrDefault(e, x) == Or(e.set, x, Fallback[x])

\* The variables the loader of a section parses, each by itself: numbers,
\* ports, durations, booleans, hosts, notice URLs and enumerations.
Section ==
    [server  |-> {"SERVER_PORT", "SERVER_PUBLIC_HOST", "RATE_LIMIT_PER_MINUTE", "RATE_LIMIT_BURST",
                  "BLOCK_THRESHOLD", "SCAN_LOG_IDENTITY_MODE", "SERVER_READ_TIMEOUT",
                  "SERVER_WRITE_TIMEOUT", "SERVER_SHUTDOWN_TIMEOUT", "SERVER_STOP_GRACE_PERIOD",
                  "TLS_MIN_VERSION", "INSECURE_LOCAL_HTTP_BIND_MODE", "ALLOW_INSECURE_LOCAL_HTTP"},
     db      |-> {"DB_PORT", "DB_MAX_CONNS", "DB_MIN_CONNS", "DB_CONNECT_TIMEOUT", "DB_SSLMODE"},
     metrics |-> {"METRICS_PORT"},
     log     |-> {"LOG_LEVEL", "LOG_FORMAT"},
     web     |-> {"WEB_PRIVACY_URL", "WEB_LEGAL_URL", "WEB_TERMS_URL"},
     admin   |-> {"ADMIN_SESSION_TIMEOUT", "ADMIN_IDLE_TIMEOUT"},
     retain  |-> {"SCAN_LOG_RETENTION", "ADMIN_AUDIT_LOG_RETENTION", "REFRESH_QUEUE_RETENTION",
                  "PACKAGE_CHECK_STATUS_RETENTION", "AUDIT_RETENTION_INTERVAL"},
     sync    |-> {"FEED_SYNC_INTERVAL", "FEED_SYNC_ON_STARTUP"},
     feeds   |-> {"REVERSINGLABS_LOOKUP_TTL", "REVERSINGLABS_CACHE_RETENTION",
                  "REVERSINGLABS_BATCH_SIZE", "REVERSINGLABS_MAX_SCHEDULE_PER_CHECK"}]
Parses(e, section) == e.bad \cap Section[section] = {}

\* The hard exit must fit into the grace period the container is given.
stopGracePeriod(e) ==
    "SERVER_STOP_GRACE_PERIOD" \in DOMAIN e.set =>
        e.set["SERVER_STOP_GRACE_PERIOD"] - envOrDefault(e, "SERVER_SHUTDOWN_TIMEOUT") >= 5

loadServerConfig(e) == Parses(e, "server") /\ stopGracePeriod(e)

validateDBPoolConns(max, min) == max >= 0 /\ min >= 0 /\ (max > 0 => min <= max)

validateDBSSLMode(mode, host, ssl) ==
    mode = "production" /\ ssl = "disable" => host = "local"

loadDBConfig(e, mode) ==
    /\ Parses(e, "db")
    /\ validateDBPoolConns(envOrDefault(e, "DB_MAX_CONNS"), envOrDefault(e, "DB_MIN_CONNS"))
    /\ validateDBSSLMode(mode, envOrDefault(e, "DB_HOST"),
           Or(e.set, "DB_SSLMODE", IF mode = "development" THEN "disable" ELSE "verify-full"))

\* A secret is named; Junk is not the base64 text of 32 bytes.
validateAdminAuditHMACKey(k) == k # Junk
loadAdminConfig(e) == Parses(e, "admin") /\ validateAdminAuditHMACKey(envOrDefault(e, "ADMIN_AUDIT_HMAC_KEY"))

loadFeedSyncConfig(e) ==
    Parses(e, "sync") /\ envOrDefault(e, "FEED_SYNC_INTERVAL") >= FeedSyncMinInterval

FeedEnabled(e, f) == Or(e.enabled, f, f \notin {"vulncheck", "socket", "reversinglabs"})
FeedMode(e, f) == Or(e.mode, f, "self")
FeedURL(e, f) == Or(e.url, f, "https")
FeedKey(e, f) == Or(e.key, f, "")

loadFeedEnabledConfig(e) == \A f \in Feeds : FeedEnabled(e, f) # Junk
loadFeedModeConfig(e) ==
    \A f \in Feeds : FeedMode(e, f) = "self" \/ (FeedMode(e, f) = "external" /\ f \in SupportsExternalMode)
loadFeedProviderConfig(e) ==
    /\ Parses(e, "feeds")
    /\ \A f \in Feeds : IF f = "reversinglabs"
                        THEN validateReversingLabsBaseURL(FeedKey(e, f), FeedURL(e, f))
                        ELSE validateMirrorURL(FeedURL(e, f))
loadFeedsConfig(e) == loadFeedEnabledConfig(e) /\ loadFeedModeConfig(e) /\ loadFeedProviderConfig(e)

loadServerMode(e) == envOrDefault(e, "SERVER_MODE") \in {"production", "development"}

Loads(e) ==
    /\ loadServerMode(e)
    /\ loadServerConfig(e)
    /\ loadDBConfig(e, envOrDefault(e, "SERVER_MODE"))
    /\ \A section \in {"metrics", "log", "web", "retain"} : Parses(e, section)
    /\ loadAdminConfig(e)
    /\ loadFeedSyncConfig(e)
    /\ loadFeedsConfig(e)

\* The settings later steps look at; the environment sets no feed interval.
Load(e) ==
    [mode       |-> envOrDefault(e, "SERVER_MODE"),
     tls        |-> envOrDefault(e, "TLS_CERT_FILE") # "" /\ envOrDefault(e, "TLS_KEY_FILE") # "",
     proxies    |-> envOrDefault(e, "TRUSTED_PROXIES"),
     allow      |-> envOrDefault(e, "ALLOW_INSECURE_LOCAL_HTTP"),
     host       |-> envOrDefault(e, "SERVER_PUBLIC_HOST"),
     metrics    |-> envOrDefault(e, "METRICS_HOST"),
     encryption |-> envOrDefault(e, "ENCRYPTION_KEY"),
     interval   |-> envOrDefault(e, "FEED_SYNC_INTERVAL"),
     rlURL      |-> FeedURL(e, "reversinglabs"),
     feeds      |-> [f \in Feeds |->
                        [enabled |-> FeedEnabled(e, f), mode |-> FeedMode(e, f), interval |-> 0,
                         key |-> IF f \in SupportsAPIKey THEN FeedKey(e, f) ELSE ""]]]

IsDevelopment(c) == c.mode = "development"

(* ------------------------------- Checks ---------------------------------- *)

ValidateTransportSecurity(c) ==
    \/ IsDevelopment(c)
    \/ /\ ParseTrustedProxies(c.proxies)
       /\ c.tls \/ c.proxies # {} \/ (c.allow /\ isLoopbackPublicHost(c.host))

ValidateMetricsExposure(c) == IsDevelopment(c) \/ isLoopbackPublicHost(c.metrics)

ValidateProductionSecrets(e) ==
    \/ envOrDefault(e, "SERVER_MODE") = "development"
    \/ \A x \in {"ENCRYPTION_KEY", "ADMIN_AUDIT_HMAC_KEY"} : envOrDefault(e, x) \notin {"", Junk}

loadAndValidateRuntimeConfig(e) ==
    /\ Loads(e)
    /\ ValidateTransportSecurity(Load(e))
    /\ ValidateMetricsExposure(Load(e))

(* --------------------------- Feed settings ------------------------------- *)

\* A stored override: interval 0 is NULL, and sealed the encryption key its
\* API key was encrypted with, "" for a key in plaintext.
Active(c) == c.encryption # ""
Encrypt(c, key) == IF key = "" \/ ~Active(c) THEN "" ELSE c.encryption
Decrypts(c, row) == row.sealed = "" \/ (Active(c) /\ row.sealed = c.encryption)

rejectProductionPlaintextFeedAPIKey(c, row) ==
    ~IsDevelopment(c) /\ Active(c) /\ row.key # "" /\ row.sealed = ""

validateFeedSettings(f, s) ==
    /\ s.mode = "external" => f \in SupportsExternalMode
    /\ s.mode = "self" /\ f \in SupportsSyncInterval /\ s.interval > 0 => s.interval >= FeedSyncMinInterval

Settable(c, f, s) ==
    /\ validateFeedSettings(f, s)
    /\ f = "reversinglabs" => validateReversingLabsBaseURL(s.key, BaseURL(c.rlURL))

SettingsOf(f, s) ==
    [enabled |-> s.enabled, mode |-> s.mode,
     interval |-> IF f \in SupportsSyncInterval THEN s.interval ELSE 0,
     key |-> IF f \in SupportsAPIKey THEN s.key ELSE ""]

SetFeedSettings(c, f, s) ==
    [c EXCEPT !.feeds[f] = SettingsOf(f, s),
              !.rlURL = IF f = "reversinglabs" THEN BaseURL(@) ELSE @]

\* The settings of feed f with its override laid over them.
desiredFeedSettings(f, s, row) ==
    IF row = None THEN s
    ELSE [enabled |-> row.enabled, mode |-> row.mode, interval |-> row.interval,
          key |-> IF f \in SupportsAPIKey \/ row.key # "" THEN row.key ELSE s.key]

EffectiveFeedInterval(c, f) ==
    IF f \notin SupportsSyncInterval THEN 0
    ELSE IF c.feeds[f].interval > 0 THEN c.feeds[f].interval ELSE c.interval

ListFeedConfigs(c, store) == \A f \in Feeds : store[f] # None => Decrypts(c, store[f])

\* The overrides concern different feeds, so their order does not matter.
OverridesApply(c, store) ==
    /\ ListFeedConfigs(c, store)
    /\ \A f \in Feeds : store[f] # None =>
          /\ ~rejectProductionPlaintextFeedAPIKey(c, store[f])
          /\ Settable(c, f, desiredFeedSettings(f, c.feeds[f], store[f]))

applyStoredFeedConfigOverrides(c, store) ==
    [c EXCEPT !.feeds = [f \in Feeds |-> IF store[f] = None THEN @[f]
                            ELSE SettingsOf(f, desiredFeedSettings(f, @[f], store[f]))],
              !.rlURL = IF store["reversinglabs"] # None THEN BaseURL(@) ELSE @]

(* ------------------------------- The server ------------------------------ *)

NoOverrides == [f \in Feeds |-> None]
Running == status = "running"
Stored == IF IsDevelopment(cfg) THEN memory ELSE rows

Init ==
    /\ status = "stopped" /\ env = None /\ cfg = None
    /\ rows \in Tables
    /\ memory = NoOverrides

openRuntimeStore(c) == IF IsDevelopment(c) THEN NoOverrides ELSE rows

Starts(e) ==
    /\ loadAndValidateRuntimeConfig(e) /\ ValidateProductionSecrets(e)
    /\ OverridesApply(Load(e), openRuntimeStore(Load(e)))

run ==
    /\ ~Running
    /\ \E e \in Environments :
          /\ Starts(e)
          /\ status' = "running" /\ env' = e
          /\ cfg' = applyStoredFeedConfigOverrides(Load(e), openRuntimeStore(Load(e)))
    /\ UNCHANGED <<rows, memory>>

\* The environment, or what is stored under another one, is refused.
Refuse ==
    /\ ~Running
    /\ ~(\A e \in Environments : Starts(e))
    /\ status' = "refused"
    /\ UNCHANGED <<env, cfg, rows, memory>>

shutdownRuntime ==
    /\ Running
    /\ status' = "stopped" /\ env' = None /\ cfg' = None
    /\ memory' = NoOverrides
    /\ UNCHANGED rows

Forms == [mode : {"self", "external"}, enabled : BOOLEAN, interval : Intervals, key : {"keep", "clear", "new"}]

parseFeedSettingsForm(f, s, form) ==
    [mode |-> form.mode, enabled |-> form.enabled,
     interval |-> IF f \in SupportsSyncInterval THEN form.interval ELSE s.interval,
     key |-> IF f \notin SupportsAPIKey \/ form.key = "keep" THEN s.key
             ELSE IF form.key = "clear" THEN "" ELSE form.key]

feedConfigRecordFromRuntimeSetting(f, s) ==
    [enabled |-> s.enabled, mode |-> s.mode, key |-> s.key,
     interval |-> IF f \in SupportsSyncInterval THEN s.interval ELSE 0,
     sealed |-> IF IsDevelopment(cfg) THEN "" ELSE Encrypt(cfg, s.key)]

validateFeedConfigSyncInterval(row) == row.interval = 0 \/ row.interval >= FeedSyncMinInterval

Write(f, row) ==
    IF IsDevelopment(cfg)
    THEN memory' = [memory EXCEPT ![f] = row] /\ UNCHANGED rows
    ELSE rows' = [rows EXCEPT ![f] = row] /\ UNCHANGED memory

\* Several forms may ask for the same settings.
HandleFeedConfigSave(f) ==
    /\ Running
    /\ Cardinality({g \in Feeds : Stored[g] # None} \cup {f}) <= MaxOverrides
    /\ LET shown == desiredFeedSettings(f, cfg.feeds[f], Stored[f])
       IN \E s \in {parseFeedSettingsForm(f, shown, form) : form \in Forms} :
            LET row == feedConfigRecordFromRuntimeSetting(f, s)
            IN  /\ Settable(cfg, f, s)
                /\ IsDevelopment(cfg) \/ validateFeedConfigSyncInterval(row)
                /\ cfg' = SetFeedSettings(cfg, f, s)
                /\ Write(f, row)
    /\ UNCHANGED <<status, env>>

HandleFeedConfigReset(f) ==
    LET s == Load(env).feeds[f]
    IN  /\ Running
        /\ Settable(cfg, f, s)
        /\ cfg' = SetFeedSettings(cfg, f, s)
        /\ Write(f, None)
        /\ UNCHANGED <<status, env>>

Next ==
    \/ run \/ Refuse \/ shutdownRuntime
    \/ \E f \in Feeds : HandleFeedConfigReset(f) \/ HandleFeedConfigSave(f)

Spec == Init /\ [][Next]_vars

(* No feed is synchronized more often than every quarter of an hour,       *)
(* whether the interval comes from the environment, from the console or    *)
(* from a row of an earlier release (EffectiveFeedInterval).               *)
SyncSpaced ==
    Running => \A f \in SupportsSyncInterval \cap Feeds :
                  cfg.feeds[f].mode = "self" => EffectiveFeedInterval(cfg, f) >= FeedSyncMinInterval

(* What an administrator saved survives a restart: the same environment is *)
(* accepted again with the rows as they are, and yields the feed settings  *)
(* the server runs with (applyStoredFeedConfigOverrides).                  *)
RestartKeepsSettings ==
    Running /\ ~IsDevelopment(cfg) =>
        /\ OverridesApply(Load(env), rows)
        /\ applyStoredFeedConfigOverrides(Load(env), rows).feeds = cfg.feeds

(* The feeds page shows the settings in force: no row of it is marked as   *)
(* waiting for a restart (PendingRestart of buildAdminFeedFormRow).        *)
ShownInForce ==
    Running => \A f \in Feeds : desiredFeedSettings(f, cfg.feeds[f], Stored[f]) = cfg.feeds[f]

(* A feed key leaves the process protected or not at all: a ReversingLabs  *)
(* key is used over https or on this machine, and in production every      *)
(* stored key is sealed with the key the server runs with.                 *)
KeysProtected ==
    Running =>
        /\ cfg.feeds["reversinglabs"].key # "" => validateMirrorURL(BaseURL(cfg.rlURL))
        /\ ~IsDevelopment(cfg) => \A f \in Feeds :
              rows[f] # None /\ rows[f].key # "" => rows[f].sealed = cfg.encryption /\ Active(cfg)
=============================================================================
