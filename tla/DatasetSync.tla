------------------------------ MODULE DatasetSync ------------------------------
(***************************************************************************)
(* The row-paged datasets of the local cache sync: malicious packages,     *)
(* lifecycle releases and reputation findings.  GET /api/v1/sync           *)
(* (internal/api/v1/sync.go) exports one page of each dataset per request  *)
(* behind a cursor of its own (internal/db/postgres/sync.go), withholds    *)
(* reputation while its provider is disabled, and the client               *)
(* (internal/db/sqlite/sync.go) applies every page in one transaction and  *)
(* refetches reputation once it is served again.  Vulnerabilities and the  *)
(* transaction windows are in DeltaSync; here a change is one step and its *)
(* time is its number.  Syncs are not limited to ecosystems.               *)
(***************************************************************************)
EXTENDS Integers, FiniteSets

CONSTANTS Keys,          \* the rows of a dataset, in cursor order
          Limit,         \* rows per page
          MaxClock,      \* bound: changes on the server
          InterruptFull  \* may a pass without a since window stop half way?

Datasets == {"malicious", "lifecycle", "reputation"}

VARIABLES row,      \* server: dataset -> key -> [st, at]; "off" is removed, tombstone or clean
          clock,
          enabled,  \* server: ReversingLabs enabled in self mode
          mirror,   \* client: dataset -> key -> at of the copy, 0 when it has none
          lastSync, \* client: last_sync_at, 0 when unset
          marker,   \* client: reputation refetch pending
          pass      \* the running sync
vars == <<row, clock, enabled, mirror, lastSync, marker, pass>>
server == <<row, clock, enabled>>
client == <<mirror, lastSync, marker, pass>>

Empty == [k \in Keys |-> 0]
Start == [d \in Datasets |-> [after |-> 0, done |-> FALSE]]
Idle == [run |-> FALSE, kind |-> "delta", since |-> 0, snap |-> 0, cur |-> Start,
         pending |-> FALSE, disabled |-> FALSE]

Init == /\ row = [d \in Datasets |-> [k \in Keys |-> [st |-> "absent", at |-> 0]]]
        /\ clock = 1 /\ enabled = TRUE
        /\ mirror = [d \in Datasets |-> Empty] /\ lastSync = 0 /\ marker = FALSE /\ pass = Idle

\* A feed, an admin or the reputation scheduler writes a row.
Write(d, k, st) ==
    /\ clock < MaxClock /\ (st = "off" => row[d][k].st = "on")
    /\ clock' = clock + 1
    /\ row' = [row EXCEPT ![d][k] = [st |-> st, at |-> clock']]
    /\ UNCHANGED <<enabled, client>>

PrunePackageReputation(k) ==
    /\ row["reputation"][k].st = "off"
    /\ row' = [row EXCEPT !["reputation"][k] = [st |-> "absent", at |-> 0]]
    /\ UNCHANGED <<clock, enabled, client>>

SwitchReputation == enabled' = ~enabled /\ UNCHANGED <<row, clock, client>>

-----------------------------------------------------------------------------
(* The request *)

setSyncCursorQuery(c) ==
    [p \in {<<d, "cursor">> : d \in {e \in Datasets : c[e].after > 0}} \cup {<<d, "done">> : d \in {e \in Datasets : c[e].done}}
        |-> IF p[2] = "cursor" THEN c[p[1]].after ELSE 1]

parseSyncCursor(q) ==
    [d \in Datasets |-> [after |-> IF <<d, "cursor">> \in DOMAIN q THEN q[<<d, "cursor">>] ELSE 0,
                         done |-> <<d, "done">> \in DOMAIN q]]

\* ExcludeReputation reports the dataset done and drops its cursor.
reputationSyncEnabled == enabled
EffectiveCursor(c) == IF reputationSyncEnabled THEN c ELSE [c EXCEPT !["reputation"] = [after |-> 0, done |-> TRUE]]

fetchSyncPageOnce == setSyncCursorQuery(pass.cur)
HandleSync == EffectiveCursor(parseSyncCursor(fetchSyncPageOnce))

-----------------------------------------------------------------------------
(* The export *)

Snapshot == IF pass.snap = 0 THEN clock ELSE pass.snap
InWindow(r) == r.at <= Snapshot /\ (pass.since # 0 => r.at >= pass.since)

\* Mutant: deltas leave withdrawn rows out.
exportSyncMaliciousActive(k) == InWindow(row["malicious"][k]) /\ row["malicious"][k].st = "on"

exportSyncMalicious(k) ==
    LET r == row["malicious"][k]
    IN  InWindow(r) /\ r.st # "absent" /\ (pass.since = 0 => r.st = "on")

\* Active rows, united with the tombstones on a delta.
syncLifecycleTombstoneRows(r) == pass.since # 0 /\ r.st = "off"
exportSyncLifecycle(k) ==
    LET r == row["lifecycle"][k] IN InWindow(r) /\ (r.st = "on" \/ syncLifecycleTombstoneRows(r))

\* status IN ('malicious', 'removed', 'risk'), on a delta as well.
exportSyncReputation(k) == InWindow(row["reputation"][k]) /\ row["reputation"][k].st = "on"

Candidates(d, c) == {k \in Keys : /\ ~c[d].done /\ k > c[d].after
                                  /\ CASE d = "malicious" -> exportSyncMalicious(k)
                                       [] d = "lifecycle" -> exportSyncLifecycle(k)
                                       [] d = "reputation" -> exportSyncReputation(k)}

\* The first rows up to the limit, or fewer when the byte budget is reached.
syncRowPage(S, cut) ==
    {k \in S : Cardinality({j \in S : j < k}) < IF cut THEN 1 ELSE Limit}
HasMore(S, page, cut) == page # {} /\ (Cardinality(page) >= Limit \/ (cut /\ page # S))

Last(page) == CHOOSE k \in page : \A j \in page : j <= k

setNextDatasetCursor(c, page, more) == IF c.done \/ ~more THEN [after |-> 0, done |-> TRUE]
                                       ELSE [after |-> Last(page), done |-> FALSE]

-----------------------------------------------------------------------------
(* The client *)

\* Full sync: no since window; the tables are cleared by the first page.
BeginSync(full) ==
    /\ ~pass.run
    /\ pass' = [Idle EXCEPT !.run = TRUE, !.kind = IF full THEN "full" ELSE "delta",
                            !.since = IF full THEN 0 ELSE lastSync, !.pending = marker]
    /\ UNCHANGED <<server, mirror, lastSync, marker>>

reputationRefetchPass ==
    [Idle EXCEPT !.run = TRUE, !.kind = "refetch",
                 !.cur = [d \in Datasets |-> [after |-> 0, done |-> d # "reputation"]]]

clearSync(d) == /\ pass.snap = 0
                /\ pass.kind = "full" \/ (pass.kind = "refetch" /\ d = "reputation")

\* A withdrawn row is deleted, any other replaces the local one.
Upserted(d, page, local) ==
    [k \in Keys |-> IF k \in page THEN (IF row[d][k].st = "on" THEN row[d][k].at ELSE 0) ELSE local[k]]
applySyncMalicious(page, local) == Upserted("malicious", page, local)
applySyncLifecycle(page, local) == Upserted("lifecycle", page, local)
\* A page with reputation_disabled drops every reputation row instead.
applySyncReputation(page, local) == IF enabled THEN Upserted("reputation", page, local) ELSE Empty

\* Mutant: a delta clears the refetch marker.
completesReputationAlways == TRUE

completesReputation == pass.kind \in {"full", "refetch"}

applySyncPage(cuts) ==
    LET c == HandleSync
        local == [d \in Datasets |-> IF clearSync(d) THEN Empty ELSE mirror[d]]
        page == [d \in Datasets |-> syncRowPage(Candidates(d, c), d \in cuts)]
        more == [d \in Datasets |-> HasMore(Candidates(d, c), page[d], d \in cuts)]
        truncated == \E d \in Datasets : more[d]
        disabled == pass.disabled \/ ~enabled
    IN  /\ pass.run
        /\ mirror' = [malicious |-> applySyncMalicious(page["malicious"], local["malicious"]),
                       lifecycle |-> applySyncLifecycle(page["lifecycle"], local["lifecycle"]),
                       reputation |-> applySyncReputation(page["reputation"], local["reputation"])]
        /\ marker' = IF ~truncated /\ completesReputation /\ ~disabled THEN FALSE ELSE marker \/ ~enabled
        /\ lastSync' = IF ~truncated /\ pass.kind # "refetch" THEN Snapshot ELSE lastSync
        /\ pass' = IF truncated
                   THEN [pass EXCEPT !.snap = Snapshot, !.disabled = disabled,
                                     !.cur = [d \in Datasets |-> setNextDatasetCursor(c[d], page[d], more[d])]]
                   ELSE IF pass.kind = "delta" /\ pass.pending /\ ~disabled THEN reputationRefetchPass
                   ELSE Idle
        /\ UNCHANGED server

\* An error, a timeout or a kill between two pages.
Stop == /\ pass.run /\ (pass.since = 0 /\ pass.kind # "refetch" => InterruptFull)
        /\ pass' = Idle /\ UNCHANGED <<server, mirror, lastSync, marker>>

Next == \/ \E d \in Datasets, k \in Keys, st \in {"on", "off"} : Write(d, k, st)
        \/ \E k \in Keys : PrunePackageReputation(k)
        \/ SwitchReputation \/ Stop
        \/ \E full \in BOOLEAN : BeginSync(full)
        \/ \E cuts \in SUBSET Datasets : applySyncPage(cuts)

Spec == Init /\ [][Next]_vars

-----------------------------------------------------------------------------
TypeOK == /\ clock \in 1..MaxClock /\ lastSync \in 0..clock /\ marker \in BOOLEAN
          /\ \A d \in Datasets, k \in Keys : mirror[d][k] \in 0..clock /\ row[d][k].at \in 0..clock

\* After a sync the cache holds every served row that did not change since,
\* in its current version, whatever pages, switches of the reputation gate and
\* interrupted passes came between; for reputation unless a refetch is pending.
ServedRowsMirrored ==
    ~pass.run => \A d \in Datasets, k \in Keys :
        /\ row[d][k].st = "on" /\ row[d][k].at <= lastSync
        /\ (d = "reputation" => ~marker)
        => mirror[d][k] = row[d][k].at

\* A malicious package or lifecycle release that was withdrawn before the
\* last sync is gone from the cache.
WithdrawnRowsGone ==
    ~pass.run => \A d \in {"malicious", "lifecycle"}, k \in Keys :
        row[d][k].st = "off" /\ row[d][k].at <= lastSync => mirror[d][k] = 0

\* "local scans built from synced data and remote checks see the same
\* reputation findings": a package that was found clean before the last sync
\* is not kept as a finding in the cache.
\* Not so, and in no run: a delta exports risk rows only, so a row that became
\* clean is never named to a client that has it.
CleanRowsGone ==
    ~pass.run => \A k \in Keys :
        row["reputation"][k].st = "off" /\ row["reputation"][k].at <= lastSync => mirror["reputation"][k] = 0
=============================================================================
