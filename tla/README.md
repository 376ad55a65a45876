# packmon verification

TLA+ models of packmon: the server with its feeds, queues, stores, API and admin
console, the `packmon` CLI with its scans, configuration and local database, and
the protocol that fills that database. TLC runs check the models on small
instances, and TLAPS proofs hold for every instance.

## The system

packmon checks package dependencies against vulnerability, malware, reputation
and lifecycle data. The server keeps that data in PostgreSQL, fills it from
feeds and answers checks. The CLI scans a project against the server or against
a local SQLite database that it syncs from the server.

| Part | Source | What makes it hard |
| --- | --- | --- |
| Refresh queue | `internal/db/postgres/feeds_queue.go`, `refresh_queue_admin.go` | READ COMMITTED statements of enqueues, workers, stuck resets and admins interleave; crash after dequeue |
| Workers | `internal/feed/queue.go`, `socket`, `reversinglabs`, `ratelimit`, `reputation` | rate limits, worker crashes, abandoned jobs, late answers |
| Background services and process | `cmd/packmon-server` | settings that change while the old processor stops, manual syncs during shutdown, waits with deadlines |
| Feed manager and feeds | `internal/feed` | reconfiguration, manual against scheduled syncs, partial downloads, checkpoints, crashes |
| Stores | `internal/db/postgres` | writers of one table, staged snapshots, revisions, lock order, statistics cache |
| Migrations | `internal/db/postgres/migrations` | concurrent migrators, kills, concurrent index builds |
| API | `internal/api/v1` | idempotency keys, evidence rows, replay cache, refreshes promised and audited, settings that change meanwhile |
| Server configuration | `internal/config`, `cmd/packmon-server` | an environment, stored overrides and forms that must agree over restarts |
| Admin console | `internal/api/admin`, `internal/auth`, `internal/server/middleware` | sessions and audit rows, lockouts, forms sent twice, overlapping saves |
| Sync | `internal/db/postgres/sync.go`, `internal/db/sqlite/sync.go` | paging while writers commit, 32-bit transaction IDs, failures between pages, reputation turned off and on |
| Matching | `internal/version`, `postgres`, `sqlite` lookups | three version orders, range events, batches and chunks |
| CLI | `cmd/packmon`, `internal/scanner`, `internal/sbomgen`, `internal/dockerimage` | layers of settings of different trust, fallbacks, exit codes, generated files, shared registry lookups |
| Local database file | `internal/db/sqlite` | several processes on one file, kills between statements |
| Development store | `internal/devstore` | the same promises without PostgreSQL |

## Modules

| Module | Models | Run |
| --- | --- | --- |
| `RefreshQueue` | the queue table and everybody who writes it | `queue` |
| `QueueProcessor` | the supervisor of the queue workers; implements `WorkerService` | `goroutines` |
| `WorkerService` | what a supervised set of workers promises | `goroutines` |
| `ServerProcess` | start-up, services, manual syncs, signals, bounded waits, the hard exit | `goroutines` |
| `UpdateLookup` | the CLI's latest-version lookup: worker pool, single flight, breaker, throttle | `goroutines` |
| `Goroutines` | the three of them side by side, and the theorems about them | `goroutines` |
| `QueueRestart` | generations of the processor across settings changes | `queue_restart` |
| `FeedConfigSave` | saving a feed form, from the stored row to the running settings | `feed_config_save`, `feed_config_kept_key` |
| `FeedManager` | registrations, loops, syncs and status rows of a feed | `feed_manager`, `feed_manager_stale`, `feeds` |
| `GitFeeds` | GHSA and OpenSSF: checkout, sync lock, delta or full import, checkpoint | `feeds` |
| `SnapshotFeeds` | CISA KEV and EPSS: conditional download, replacement of a whole column | `feeds` |
| `AdvisoryStore` | advisory rows, alias propagation, VulnCheck and NVD enrichment | `feeds` |
| `FeedImport` | the import endpoint: streamed and record imports, rejection and audit rows | `feeds` |
| `MaliciousStore` | malicious findings, the staged snapshot, manual advisories | `feeds` |
| `OSVFeed` | archives per ecosystem, entries, the ETag map | `feeds` |
| `LifecycleFeed` | the endoflife.date catalogue, its tombstones, the lifecycle policy | `feeds` |
| `SocketWorker` | the rate limiter and the worker that lives under it | `server` |
| `ReputationLookups` | scheduling, slots, cache rows and batch lookups of reputation | `server` |
| `CheckAPI` | a check from its idempotency key to its answer and its evidence row; the endpoints of one package and of the feeds | `server` |
| `ServerConfig` | the start of the server from its environment and the stored overrides, and the feed forms | `server` |
| `StatsCache` | the shared load of the dashboard statistics | `server` |
| `AdminSession` | sessions, login, lockout, password change | `server` |
| `APIKeys` | key forms, authentication, the last-used updater | `server` |
| `AuditLog` | audited transactions, digest chain, retention, publication of system settings | `server` |
| `SchemaMigrations` | migrators, dirty marks, index builds and the start-up check | `server` |
| `DevStore`, `DevQueue` | the in-memory store of development mode and its queue | `server` |
| `VersionRanges` | semver, PEP 440 and Maven order, range events, fixed versions | `server` |
| `FindingLookup` | single, batch and chunked lookups on both stores | `server` |
| `ScanCommand` | `packmon scan` and the Git hook | `client` |
| `SBOMGeneration` | `packmon scan --auto-sbom`: detection, tools, generation, cleanup | `client` |
| `ClientConfig` | the layers of the CLI's settings and their trust | `client` |
| `DatasetSync` | the sync of malicious, lifecycle and reputation rows | `client` |
| `DeltaSync` | the sync of advisories: transaction windows, writers, export, client | `delta_sync`, `delta_sync_full_stop`, `client` |
| `LocalStore` | the SQLite file shared by several processes | `client` |
| `PackageSearch` | paged searches merged from several collectors | `client` |
| `InventoryReport` | `packmon scan` with `--list-all`, `--outdated` or `--list-packages`: packages, images, Chocolatey, image digests, exit code | `client` |

`MC...` modules and the `.cfg` files instantiate modules for TLC, `...Proofs`
modules hold theorems. `Goroutines` and `StatsCache` hold theirs themselves.

`MCFeeds`, `MCServer` and `MCClient` each instantiate several components that
share no state. Their variable `part` says which component a behaviour is about;
`s1`, `s2`, ... are that component's variables, and the ones it has no use for
are `Off`. A property of such a run is a conjunction with one
conjunct per component, all about one concern, and the conjunct of a component is
defined in its module. The components still have their full interleavings: two
actors (`a1`, `a2`) or processes each, with the faults named below. The actors are
symmetric, and so are the keys, digests and advisories of the `server` run and
the rows and transactions of the `feeds` run. `Goroutines` composes its three
components in the same way: `AllInit` lets one of them start and has the other
two ended.

## Refresh queue

`RefreshQueue` models the `refresh_queue` table of one source and everybody who
writes it.

- `EnqueueBegin`, `EnqueueInsert`, `EnqueueUpdate`, `EnqueueSelectPaused` and
  `EnqueueCommit` are the statements of `enqueueRefresh`. Each takes a fresh
  READ COMMITTED snapshot, so other steps run between them. `EnqueueRollback` is
  any error or cancelled request. An uncommitted INSERT reserves its entry in
  the dedup index, and an uncommitted UPDATE locks its row.
- `DequeueRefresh`, `CompleteClaimedRefresh` and `AbandonJob` are a worker's
  steps. Abandoning stands for a rate-limited job, a failed completion and a
  crash: all of them leave the row in `processing`.
- `ResetStuckJobs` is the periodic scan. Pause, resume, retry, priority, clear,
  purge and prune are the admin console and retention.
- `claimant` is a history variable that the code does not store; it only serves
  to state properties.

The run `queue` has two packages, workers and clients, two rows, five ticks and
a stuck threshold of one tick. Two enqueues can race on one package while its
job is claimed, paused, reset or completed, and a claim, its reset, a claim by
the other worker and the late completion by the first one fit into the ticks.

| Property | Says |
| --- | --- |
| `ClaimFencing` | at most one worker holds a claim that the table still accepts |
| `OneActiveJobPerPackage` | the dedup index holds, uncommitted inserts included |
| `AcceptedRequestHasJob` | an enqueue that found an existing job still has it when it commits |
| `OnlyLatestClaimantCompletes` | a worker whose job was reset and claimed again cannot complete it |
| `PausedAndRunningJobsKept` | only an administrator resumes a paused job, and purge, clear and retention spare a running one |
| `StuckJobRecovered` | an abandoned job leaves `processing` |
| `EnqueueReturns` | every enqueue call ends |

Fairness: the clock moves; the stuck reset runs again and again (workers and
processor call it on every poll tick; strong, as a row lock can disable it for a
moment); an open transaction goes on (strong: a statement that waits for another
transaction is woken when that one ends). The bounds `MaxId` and `MaxTime` stop
inserts and the clock; `ClockStopped` lets a run end there without counting as a
deadlock.

## Goroutines: queue processor, server process, version lookup

`QueueProcessor` models `internal/feed/queue.go`: `Run` starts the workers and
the stuck scan, a worker that returns is restarted after a
backoff until its restarts are used up, and cancellation drains the workers.
`WorkerService` is the abstract promise: the service stops only when it is told
to, is down only after its last worker has ended, starts none once down, and
does go down after it was told to stop. `ImplementsService` is the refinement.
The scan ends when all workers have exited (`queue.go:170`), so the recovery
promise in `WorkersServed` only holds while a worker is left.

`ServerProcess` models `main.go` and `background.go`: the schema check, the
services, HTTP requests, manual syncs that are admitted by a gate, the signal,
the bounded waits of the shutdown, closing the pool and the hard exit.
Two kinds of goroutines use the store without a wait that knows them: the
last-used updater of the API-key middleware (`middleware/auth.go:248`) and the
scheduling that a check leaves behind (`reputation/scheduler.go:188`). They are
the tasks of `Detached`. `GoroutinesAccounted` says that an orderly end closes
the pool under a request, service or manual sync only if a bounded wait has given
up on it, and under a task of `Detached` only once its context is cancelled: that
one may still be in the middle of a statement. `EverythingEnds` says that the
process exits after a signal even if tasks ignore their context. The run has two
services (retention and the repairs), a sync, a request and one task of each
detached kind; a timeout is one tick, so every order of a late wait, the hard
exit and the ends of the tasks occurs.

`UpdateLookup` models the lookup of latest versions in `update_lookup.go` and the
registry code: a pool of workers, one call in flight per key, cached answers,
the failure accounting with its breaker, throttling, panics and cancellation.
`LookupsShared` says that a key is fetched once and that every kind of failure
is named in the warnings; `EverythingEnds` that nobody waits for a call that a
panic left incomplete.

Fairness: goroutines run, timers fire, a worker returns after cancellation, a
registry answers or times out. The stuck tick has strong fairness because the
store does not refuse for ever.

## Queue restarts

`QueueRestart` models `background.go`. A settings change cancels the running
processor and waits for its result while it holds `queueMu`. If the processor
misses the deadline, the change succeeds and leaves a continuation
goroutine (`finishDeferredQueueRestart`), which waits on, forwards the result to
whoever waits for this generation, and starts the replacement with the settings
of that moment, if it is still the one to do so. Changes run in the feed config
slot, so there is one at a time. `StopAndWaitQueueProcessors` is shutdown. The
receive of a result and the send that forwards it are one step.

The run `queue_restart` allows four changes (`MaxApplies`) among two settings
with workers and one without: two continuations can be pending when a further
change arrives. It checks that two processors never run together, that a
quiescent server runs the current settings (or nothing, if no feed is enabled),
that shutdown waits for every generation and that each result it waits for will
come. Fairness: goroutines run, a cancelled processor ends (which `goroutines`
shows), the wait of a restart has a deadline, and whoever wants `queueMu` gets
it.

## Saving a feed form

`FeedConfigSave` models the handlers of `feed_forms.go` for one feed. A request
reads the runtime settings and then the stored override, outside the feed config
slot. Inside it, it applies its settings to the runtime, writes the override at
the revision it read, and rolls the runtime back if the write fails. A commit
whose answer is lost is remembered in the history variable `unacked`, and a
restart of the server loads the stored override. Revisions are `NOW()` of the
writing transaction: they are unique because the row lock serialises the
writers.

The run `feed_config_save` has two administrators, two written revisions, two
options and three keys, one of which the runtime refuses. It checks that the
runtime agrees with the stored override whenever no request is in the slot,
except for a commit whose answer was lost (`RuntimeMatchesStore`); that a save
replaces only the revision its form was rendered from (`SavesWhatWasRendered`);
and that keeping the key keeps the one of the override (`KeptKeyOfOverride`).

`feed_config_kept_key` is a violation run: without a stored override the kept
key is that of the runtime (`feed_forms.go:671`), which another save may have
applied and then rolled back. The comment at lines 137-139 says that the key and
the revision come from the same read.

## Feed manager

`FeedManager` models the registrations of one feed, their loops, scheduled and
manual syncs under the per-feed lock, and every write of the status row. A
check of the registration (`isCurrentRegisteredFeed`) and the write that
follows are two steps, as the code unlocks in between. `Start` runs in a goroutine
of its own and has three: under the mutex base feeds get their loops
(`StartBase`); without it the status of a feed that does not run is written
(`StartRecord`); under it again enrichment feeds get theirs, as registered by
then (`StartEnrichment`). `ApplyConfig`, manual syncs and the shutdown signal come
between them. `start.owed` is the signal of a first sync that phase 1 waits for:
of this feed, or one that is lost because the shutdown signal kept a loop from
starting. The other base feeds are otherwise abstracted to the moment
`Phase1Completes`. The row is in any state at first, as an earlier run of the
server may have stopped anywhere.

Fairness: loops, syncs and timers go on. Taking the polled sync lock has strong
fairness: manual syncs come and go. Liveness (`feed_manager`) is checked with
two registrations, safety (`OneSyncOfAFeed` of the run `feeds`) with three in the
part `enrichment`: a change and its reversal fit between the passes of `Start`.

`feed_manager_stale` is a violation run: a sync that passed its check just
before `ApplyConfig` replaced it overwrites the `disabled` status, which
`manager_test.go:663` says must not happen.

## Feeds and their stores (run `feeds`)

- `GitFeeds`: the manager's attempt, clone or pull, the lock file, the import of
  changed files or of the whole tree, the status row with the checkpoint, a
  failing entry, a cancelled context and a crash between any two steps. Upstream
  appends commits while a sync runs.
- `SnapshotFeeds`: KEV and EPSS replace a whole column, in a transaction of a set
  and a clear statement, while advisory writers insert rows (an import with the
  value of its body), learn aliases, and imports write the same column in a
  transaction of their own. A body may be cut off, a download answered 304.
- `AdvisoryStore`: upserts and source-scoped deletes of several feeds, of advisories
  that are withdrawn too (the part `withdrawn`), the alias
  propagation, VulnCheck in batches with the digest of its archive, NVD page by
  page with its negative cache.
- `FeedImport`: the body of a streamed import is not known in advance; every step
  reads a token, valid or not, or fails to. A record import (advisories, malicious
  packages, KEV) names records and deletions, some refused, some with the ID of
  a manual advisory or claiming another source.
- `MaliciousStore`: the OpenSSF builder stages and then withdraws what its
  snapshot lacks, under two advisory locks, against feeds, imports and manual
  edits. The part `malicious` has the feeds, the part `manual` the forms.
- `OSVFeed`: archives of two ecosystems in several versions, entries that are
  withdrawn, malicious, foreign or unparsable, ETags saved at the end.
- `LifecycleFeed`: catalogue versions that add and drop cycles, and the policy
  over six days with a warning window of two.

| Property | Says |
| --- | --- |
| `SuccessMeansStored` | a marker that lets the next sync skip work (commit, validator, ETag, digest) stands for a complete import; a streamed import is stored as a whole or not at all |
| `StoreMatchesSources` | what no source backs any more is gone, and only that; a backed row is active unless the last write of it was a withdrawn advisory; a column holds the snapshot it was last replaced by, but for rows written since its set statement and for overlapping replacements; no import touches a manual advisory |
| `OneSyncOfAFeed` | no two syncs of a feed run together, whoever starts them; a base feed has one loop, an enrichment feed one that is not cancelled; a git lock file outlives its pull only after a crash |
| `WritersRespectEachOther` | no absence pass withdraws a newer finding, no source takes over another's, an edit replaces what its form showed, no severity is lowered, no lifecycle finding eases |

Bounds: two advisories, rows or entries; two or three upstream versions, which is
enough for one to appear, change and disappear while a sync is under way.

## Server (run `server`)

- `SocketWorker` with its token bucket: polls, checks and completes jobs under its
  limit; an hour is two ticks, so that calls of two windows meet. The fraction of
  a token is kept. `SetLimit` is left out: only tests call it.
- `ReputationLookups`: requests schedule lookups through a bounded number of
  slots, rows become due, the worker answers in batches, answers fail.
- `CheckAPI`: two requests with the same or different keys and digests go through
  the lookup of the key, the findings, the evidence row, the verification and the
  replay cache, while the threshold and the feeds change. Its endpoints of one
  package and of the feed status share no state with checks and are a part of
  their own, `packages`: refreshes that are refused, merged, audited or fail to
  be, while jobs finish and the next check becomes due (with `MaxJobs` of two a
  refresh can meet a job, or follow one that finished).
- `ServerConfig`: environments with set, blank and unparsable variables (whether a
  text parses is a verdict), overrides that an earlier release may have stored, starts that are
  refused, saved and reset forms, and restarts in another environment. At most
  `MaxOverrides` feeds have an override, as feeds do not depend on each other.
- `StatsCache`: two callers, one load, commits and their invalidation, midnight.
- `AdminSession`: two browsers log in, fail, are locked out, change the password
  and log out; every audit insert may fail, sessions expire, the server restarts.
- `APIKeys`: two tabs send forms, once, again or without a nonce; keys are revoked and deleted while requests
  authenticate; the last-used updater has a full queue, failing writes and late
  timers.
- `AuditLog`: two processes run audited transactions lock by lock; settings saves
  with and without a revision commit, with an answer that may be lost, and publish
  in the commit slot; retention deletes; the digest key is
  introduced by a restart.
- `SchemaMigrations`: two migrators and a starting server, up to three kills or
  cancellations between any two statements, migrations that build indexes or run
  plain statements without a transaction, indexes lost with their table, databases of several ages.
- `DevStore`, `DevQueue`: one step per method, since each holds the mutex; two
  forms, a syncing client, retries, pauses and priorities.
- `VersionRanges`: the initial states are the inputs: pairs and triples of token
  sequences per ecosystem, and ranges with their events. The comparators are
  checked against the laws of a total order, the matcher against the
  definition of the OSV schema.
- `FindingLookup`: up to three queries of a batch over tables with active,
  inactive and unreadable rows; chunks hold one package, so every boundary is met.

| Property | Says |
| --- | --- |
| `LimitsHold` | calls per hour stay within the limit, slots are held by running lookups only, one load at a time, no pending last-used update is stranded, no lock cycle, no feed syncs more often than the minimum interval allows |
| `AnswersBacked` | "checked" has its findings stored, an answered keyed check has its one evidence row, which names its request and, for the request that wrote it, what was answered, "healthy" is fresh, also on the feeds page, a promised refresh has its job and audit row, statistics show every reported write, the live settings are the committed ones, but for a commit whose answer was lost, and survive a restart, a development client catches up |
| `ActionsOnRecord` | a session lives only with its audit row, a lockout is recorded once, a form creates one key, listed rows verify |
| `RunningMeansReady` | a complete migration has taken effect and a started server runs on it; stored keys are sealed with the key it runs with, and a feed key is sent over https or on this machine only |
| `MatchingExact` | orders are total, ranges mean what OSV says, fixes are upgrades, batches and chunks find what single lookups find |
| `ChangesReplaceWhatWasSeen` | a change replaces the password, revision or row its author saw (a settings form without a revision aside), a finding gives way only to a definitive answer, the development queue serves in the order it shows |

## Client (run `client`)

- `ScanCommand`: settings of every layer, several targets, trees with runtime
  and dev packages, broken files and SBOMs, remote checks of one package per
  chunk, a server that fails at any chunk, the local fallback, a hook in every
  state of installation, a push.
- `SBOMGeneration`: trees with workspaces, workspaces of workspaces, Maven modules and two ecosystems in a
  directory; tools that are missing, outdated or fail to install; generation
  that fails, times out, or writes a file short of declared packages; kept and
  temporary output, names taken by earlier files. `Attempts` bounds the names
  tried per manifest by two.
- `ClientConfig`: a user file, a project file or a file named by a flag, with
  repository entries that match by name or path, environment and flags, and the
  three commands that resolve settings each in its own code.
- `DatasetSync`: two keys per dataset change while a client pages through them,
  stops, and the server turns reputation off and on.
- `DeltaSync`: here with two overlapping transactions and a modulus of 4.
- `LocalStore`: two processes open files of several ages, migrate, write history,
  apply sync pages that clear, withdraw and replace rows, and are killed between
  any two statements. Scans older than a day are old (`MaxAge`), and a day passes.
- `PackageSearch`: pages of one result over several collectors, some of which
  fail, on both stores, under database collations that agree with the order of
  bytes and that do not.
- `InventoryReport`: repositories with Dockerfiles (stages, `ARG`s), Compose files
  and Chocolatey lists and scripts, two lookup workers over one registry client,
  challenges that name a token service, redirects, refusals, a cancelled context, and outputs
  that fail. Several `ARG`s are substituted in the order of a Go map, so an `ARG`
  inside the value of another may stay unreplaced: that is left open.

| Property | Says |
| --- | --- |
| `GreenMeansClean` | a green scan parsed every file and left no blocking finding, a hook scan writes outside the repository, a generated SBOM holds what was declared (npm workspaces inside a workspace aside), nothing generated is left behind, an inventory view does not soften the exit code of its scan |
| `ConfigTrusted` | routing and secrets come from trusted layers, an opt-out survives, the commands agree but for the default timeout of `db sync`, "configured" means chosen |
| `MirrorFaithful` | after a sync served rows are mirrored and withdrawn ones gone, a delta covers every difference, an open store has the current schema |
| `ListsComplete` | walking the pages shows every result once in order unless the collation cuts differently, the last page is exact in any case, and a failed collector is reported; an inventory lists every package and image once or warns, says of an update only what a registry served, and contacts the mirror or registry, its token service and whatever host these redirect to |
| `LocalDataKept` | a migration keeps advisories, a sync page drops only what it replaces, withdraws or vouches for, retention the newest scans of every repository, SBOM generation other files |

The parts of `feeds`, `server` and `client` end, so deadlock is not checked
there; what must happen eventually is in the runs with fairness.

## Cache sync (runs `delta_sync`, `delta_sync_full_stop`)

`DeltaSync` models the vulnerability dataset end to end.

- Writers (`Begin`, `AssignXID`, `Commit`, `Rollback`) are PostgreSQL
  transactions: `updated_at` is the time of `BEGIN`, `xmin` the low bits of the
  ID that the first write draws, and the rows are visible from the commit on.
  `UpsertVulnerability`, `ReplaceManual`, `RepairNames` and `Withdraw` are what
  the feeds, manual advisories and repairs do to an advisory.
- The export: `ResolveSnapshot` pins the time and the oldest running
  transaction. `ChangedIDs` and `Candidates` select the advisories of a delta,
  `FullKeys` the rows of a full export, `SplitRows` the rest of an advisory that
  exceeds the page budget, and `SplitUnchanged` is the second statement of the
  last split page.
- The client: `FullPage`, `DeltaPage`, `SplitStart`, `SplitPage`, `SplitEnd` and
  `LastPage` apply a page, and the final page stores the watermark. `Stop` is
  any failure between pages; the pages applied before it stay. A page is served
  and applied in one step, except the last page of a split: the sync lock keeps
  other writers away from the cache.
- Page extents depend on row sizes, so any extent is allowed. Row contents are
  their versions. Legacy cursors of old clients and servers are left out.

`DeltaCoversDifference` is the promise of the protocol: what the cache misses is
in the window of the next delta. `DropsOnlyDelisted` says that no page removes a
row that the server still lists, and `Converges` that a client that keeps
syncing agrees with a server whose writers have stopped. They are checked for
passes without a since window only when these are not interrupted
(`InterruptFull = FALSE`), and for unfiltered syncs. The violation run
`delta_sync_full_stop` shows why: the first page of a full sync clears the cache;
when a later page fails, the old watermark stays and no delta brings the rows
back.

`delta_sync` has two advisories with two packages each, so that pages end inside
and between advisories, one transaction that begins, writes and commits at any
point between the pages, and one interrupted delta. The part `advisories` of
`client` has one advisory with two packages and two transactions that overlap
each other and the snapshots. Its IDs start an epoch after the rows were written,
so that old xmins alias into the window and windows become too wide to be
trusted. Fairness of `Converges`: transactions end (one that never does holds the
snapshot ID back for ever), and the client keeps syncing.

## Proofs

`RefreshQueueProofs` proves, for all constants that satisfy `QueueAssumption`,
type correctness, `ClaimFencing` and the action property
`OnlyLatestClaimantCompletes`.
`ClaimFencing` is not inductive: it says nothing of claims that are stale now
and could match again later. `ClaimOrder` adds that a stale claim is strictly
older than the current run, or than the clock when the job is not running, so a
new claim, stamped with the clock, differs from every claim still held. That
holds because `ResetStuckJobs` compares strictly, so a reset job was claimed
before the current instant. `FreshRows` (ids are not reused) and `RunsStamped`
support it.

It also proves `OneActiveJobPerPackage` (`JobsDeduplicated`),
`AcceptedRequestHasJob` (`AcceptedRequestsKept`) and `PausedAndRunningJobsKept`
(`PausedAndRunningKept`). The first needs `OneReservation`, that a package has at
most one uncommitted insert: two of them would both become rows. The second
needs that a row that a transaction updated is locked until its end, and that no
other step writes a locked row. The third is an action property and needs that
ids only grow, so that a removed row does not come back.

`Goroutines` proves, for every finite set of workers, that they are accounted for
(`WorkersAccounted`) and that every step of `Run` is a step of `WorkerService` or
none (`RefinesService`, the safety part of `ImplementsService`). The invariant
`IInv` says that a worker is live, has reported, or is counted as exited, and is
so once: the number of live workers and results is then the number of exits still
to come (`ExitsAccounted`), which is what lets a report find a slot and the drain
end with the last goroutine. `Sizes` collects the facts about cardinalities that
this takes, and `SizesHold` derives them from finiteness. For the composition the module
proves the two invariants of the run: `GoroutinesAccounted`
(`EveryGoroutineAccounted`) and `LookupsShared` (`EveryLookupShared`). `ServerInv`
says who can still be running at each point of the shutdown: after the drain a
request only if the drain was late, a service only while `Wait` has not come to
it, a manual sync only while the repairs are awaited, since the gate closes
before them. So when the pool is closed no request, service or sync is left that no bounded wait has
given up on; what `Detached` has left runs on the root context, which is cancelled
before the drain. `LookupInv` says that a worker that calls a registry is the one its
key is in flight for, that a key is in flight or cached and never both, and that
every failure in the cache is in the counters, which only grow (`StaysCounted`);
a finished phase therefore names it.

`QueueRestartProofs` proves type correctness, `OneProcessor` (theorem
`NeverTwoProcessors`), `SettledOnCurrentSettings` (`SettlesOnCurrentSettings`)
and `ExitsAwaited` (`EveryExitAwaited`). Until the root context is cancelled exactly one
exit is outstanding, as a running processor or as a result that lies in a
channel. The invariant finds it from `Cur`, the channel that the next
restart will wait for: continuations hand it on along their forward channels
(`ContInv`, `TokenInv`), a restart in progress waits for it (`WaitInv`), and new
channels are new (`Fresh`). A processor is started only after that exit was
received, so it is alone. `SettledInv` adds what its settings are.

`FeedConfigSaveProofs` proves type correctness, `RuntimeMatchesStore` (theorem
`RuntimeNotBehindStore`), `SavesWhatWasRendered` (`NoUnseenOverwrite`) and
`KeptKeyOfOverride` (`OverrideKeyKept`). The inductive invariant has four parts
besides the types: the slot belongs to the request that is between its apply and
its end (`SlotInv`); inside it the runtime has the settings of that request and
its snapshot is what the stored row gives (`RuntimeInv`); what a request read
together with a revision stays true of that revision (`BaseInv`); and an
`updated_at` is given out once (`RevInv`).

`FeedManagerProofs` proves `OneLoopAndOneSync` (the manager part of
`OneSyncOfAFeed`): no two syncs of a feed run together, nor two loops of a base
feed, and of the loops of an enrichment feed that do all but one are cancelled. By
`LoopInv` a loop that runs is the one `previousDone` names, the one the next
registration would wait for, or one that the second pass of `Start` has overtaken
(`Overtaken`): that pass starts a loop without waiting for `previousDone`. This
has to hold through registrations without a loop, which hand on the channel they
were given, so the invariant also says that a replaced registration is cancelled,
the current one is not, and no loop runs before the first pass. Two syncs cannot
meet because all places between taking and releasing the lock of the feed hold it.

`DeltaSyncProofs` proves for every modulus that a version excluded by the
snapshot bound of one delta is selected by the next (`ExcludedIsSelectedNext`),
that every version written since the watermark is selected although only the
low bits of its ID are known (`WrittenSinceIsSelected`), and that the bound lets
older versions pass (`WrittenBeforePasses`). The first needs only that a
distance is below the modulus; the others rest on `DistanceExact`, that the
distance of the low bits is that of the full IDs inside one epoch. It also proves
the types (`TypeCorrect`) and `DropsOnlyDelisted` (`OnlyDelistedDropped`), with
the invariant `IInv`: IDs in use have been assigned, and an advisory comes with
its row (`XIDInv`); the watermarks of the client and of a pass are not newer than
a transaction that may still commit (`PassInv`); and the pages of a split advisory
that did not change list all of its rows so far (`SplitInv`).
`DeltaSyncCoverProofs` proves `DeltaCoversDifference` (`UnfilteredSyncCovers`)
under `Unfiltered`: syncs without an ecosystem filter, whose rebuilds run to their
end. Without either the statement is false (see below and
`delta_sync_full_stop`). `CoverInv` says what the cache holds of each advisory in
the middle of a pass: the server's rows as far as the pass has come, or rows the
next window selects.

`StatsCache` proves `StatsStayFresh` (the statistics parts of `AnswersBacked` and
`LimitsHold`): `MemoOK` says that a cached value has every write told to the cache,
`CallOK` what a call may know at each step, in particular that a value loaded for
the current generation has those writes too, so it may be stored.

The assumptions are `QueueAssumption` and its like in the modules that declare
the constants; TLC evaluates them in every run of those modules. `Unfiltered`,
`Premises` (`StatsCache`) and the finiteness of the workers are hypotheses of their
theorems.

Only model-checked are:

- all liveness (`StuckJobRecovered`, `EnqueueReturns`, `WorkersServed`,
  `EverythingEnds`, `SettingsTakeEffect`, `ShutdownEnds`, `LoopsStartAndStop`,
  `RunningCleared`, `Converges`) and the liveness of `WorkerService`: the prover
  has no rules for fairness;
- `MatchingExact` and `ListsComplete`, which compare recursive definitions with
  what they should compute and would need an induction over their input;
- the other properties of `feeds`, `server` and `client`. The prover could reach
  them; each is a conjunction over several components, of which those of the
  feed manager and the statistics cache are proved.

## Mutants

Every property of a passing run has a mutant in `PROJECT.json`: an operator
defined before the one it replaces, with the change a plausible bug would make,
under which TLC finds the property violated. The other conjuncts of the
properties of `feeds`, `server` and `client` have theirs beside the definition
they change (`toleratedNpmLSProblemsAnyEntry`, `keptForPublicationNothing`,
`generationUnchecked`, `consumeNoncePeek` and so on).

## Statements that do not hold

Three disagreements between the code and what a comment or a test says of it have
a violation run (`feed_config_kept_key`, `feed_manager_stale`,
`delta_sync_full_stop`). The following were met while modelling. They are stated in
the modules, reached by other constants, or set apart in the property of a run by
the exception that its comment names.

| Definition | Module | The code |
| --- | --- | --- |
| `DeltaCoversDifference` with two `Scopes` | `DeltaSync` | a filtered sync stores the global watermark, so the next unfiltered delta skips the other ecosystems (`sqlite/sync.go:556`) |
| `CleanRowsGone` | `DatasetSync` | a reputation row that becomes clean is not named in a delta, so the local finding stays (`postgres/sync.go:953`) |
| `FixNeverUndercuts` | `VersionRanges` | when no range that holds the version has a fix, the fallback names the fix of another range (`fixed_for_version.go`) |
| `MavenQualifierOrder` | `VersionRanges` | `1-alpha-1` is an unknown qualifier, above `beta` and `rc` (`compare.go`, `parseMavenQualifier`) |
| `SelectedGoVersionKept` | `ScanCommand` | a Go version that a `go.sum` lists before another `go.mod` selects it counts as stale and is not checked (`package_collector.go:304`) |
| `PushBlockedOnlyByGate` | `ScanCommand` | the hook hands on exit code 3, so findings below the threshold block a push (`hook.go:23`) |
| `ExportedVerified` | `AuditLog` | the privacy export checks links between rows that are not adjacent and reports them broken (`privacy.go`) |
| `HardExitAfterGrace` | `ServerProcess` | two waits of the shutdown timeout can follow the signal, the hard exit comes after one and five seconds (`main.go:607`) |
| `OneActiveJob` | `DevQueue` | a retry in development mode makes a second active job of a package (`noop_refresh_queue.go:422`) |
| `WithdrawnLeavesNothing` | `OSVFeed` | a withdrawn OSV entry leaves the malicious finding that an earlier version created (`osv/syncer.go:408`) |
| `SyncedCommitSkipped` | `GitFeeds` | the manager writes `running` before the syncer looks for `success`, so an unchanged commit is imported again (`malicious/syncer.go:140`) |
| `NoProjectConfigHonoured` | `ClientConfig` | `config show` does not look at `--no-project-config` (`config.go:47`) |
| `OneLoop` without its exception | `FeedManager` | an enrichment feed changed twice between the passes of `Start` gets a second loop beside one that is stopping (`manager.go:291`) |
| `ManagerStops` when a signal is lost | `FeedManager` | if the shutdown signal comes before `Start` has given a base feed its loop, the goroutine that waits for phase 1 waits for ever, and `Wait` runs into its deadline (`manager.go:265`) |
| `ColumnMatchesSnapshot` without its exceptions | `SnapshotFeeds` | an import and a sync that replace the same column at once leave a mixture; a row linked between the set and the clear statement keeps its old value (`vulnerability_enrichment.go:75`) |
| `ActiveMeansSourced` without its exception | `AdvisoryStore` | the last upsert decides whether an advisory is withdrawn, whatever its other sources say (`vulnerabilities.go:452`) |
| `KeyedAnswerLogged` of every answer | `CheckAPI` | a replay whose cached answer is gone is computed again and not logged; of two concurrent requests with a key one row is kept, and both answer what they found (`handler.go:383`, `scan_logs.go:42`) |
| `LiveIsCommitted`, `RuntimeMatchesStore` after a lost answer | `AuditLog`, `FeedConfigSave` | a commit that took effect but whose answer was lost is not published, or is rolled back in the runtime (`store.go:126`) |
| `ReplacesWhatItSaw` of a form without `updated_at` | `AuditLog` | it overwrites whatever revision is stored (`system_settings.go:120`) |
| `ScansWhatWasDeclared` of nested npm workspaces | `SBOMGeneration` | a workspace that only a workspace names is suppressed, and the SBOM of the root does not hold it (`detect.go:231`) |
| `WalkShowsEveryResult` under another collation | `PackageSearch` | SQL cuts in the order of the database's collation, the merge sorts bytes, so pages skip or repeat packages (`package_search.go:336`, `store.go:284`) |
| `CommandsAgree` on the timeout | `ClientConfig` | without a setting `db sync` waits 60 seconds, other commands 30 (`db.go:253`) |
| `BreakerStopsRequests` | `UpdateLookup` | a request that waits in the throttle is sent after the breaker tripped (`update_lookup.go:924`) |

## Not modelled

- Formats: lockfile, SBOM, container and Chocolatey parsers, registry answers,
  CSV and JSON decoding, HTML, reports. Each is a conversion of one input without
  shared state; the modules take its verdict (read, partial, refused) as input.
- Queries that only read (lists, queue statistics, status endpoints) and the text
  of errors and audit rows.
- Routing, telemetry and logging.
- The scan of an imported body for secrets: a verdict on one input.
- A panic inside the registry client of image digests: its entry in the in-flight
  map (`list_all.go:744`) is not completed by a deferred call, as that of `packageUpdateCache` is, so
  those who wait for the same image would wait until the context is cancelled.
- The per-address request limiter: one critical section over floating-point
  tokens.
- A change of the rate limit while the server runs (`ratelimit.go`, `SetLimit`):
  nothing in the server makes one.
- Legacy paths: row and offset cursors of old sync clients, the tree walk for
  stores without snapshot replacement.
- Two `--keep-sbom` runs of one directory in the same second: a name is reserved
  by creating the file and removing it again (`sbomgen/run.go:274`), so both could
  take it. A killed CLI leaves its temporary files.
- Overflow of version segments of 19 digits and case folding of NuGet versions.
- API keys, scan logs and search of the development store.

Parts without a module are listed in `PROJECT.json` with the reason.
