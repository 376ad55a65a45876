---------------------------- MODULE SnapshotFeeds ----------------------------
(***************************************************************************)
(* The two enrichment feeds that replace a whole column of the             *)
(* vulnerability table by a downloaded snapshot: CISA KEV (a flag) and     *)
(* EPSS (a score), with the conditional request that skips an unchanged    *)
(* snapshot, the imports that write the same column, and the advisory      *)
(* writers that insert rows meanwhile.  A replacement is a transaction of  *)
(* two statements at READ COMMITTED, set and clear; each sees what is      *)
(* committed when it runs.  A state holds one of the feeds.                *)
(*                                                                         *)
(* Catalog[n][c] is the value snapshot n gives CVE c, 0 when c is not in   *)
(* it; upstream's validators (ETag, Last-Modified) stand for n.  A CVE is  *)
(* the row's id or one of its aliases; a row is stored once it has one.    *)
(***************************************************************************)
EXTENDS Integers, FiniteSets

CONSTANTS Vulns, CVEs, Catalog

VARIABLES
    feed,    \* "cisakev" or "epss"
    head,    \* upstream's current snapshot
    alias,   \* the CVEs of each stored vulnerability
    val,     \* cisa_kev or epss_score, 0 for FALSE or NULL
    row,     \* feed_sync_status: the validator in its metadata, 0 for none
    run,     \* the running sync: step, validator sent, snapshot downloaded
    tx,      \* the open transactions on the column, of the sync and of an import
    hist     \* history: basis, the snapshot the column was last written from;
             \* fresh, the rows stored or linked since its set; imported, an
             \* import wrote since; mixed, another commit lay between set and clear

vars == <<feed, head, alias, val, row, run, tx, hist>>

Idle == [pc |-> "idle", sent |-> 0, got |-> 0]
Nothing == [c \in CVEs |-> 0]
Closed == [open |-> FALSE]

Init ==
    /\ feed \in {"cisakev", "epss"}
    /\ head = 1
    /\ alias = [v \in Vulns |-> {}]
    /\ val = [v \in Vulns |-> 0]
    /\ row = 0
    /\ run = Idle
    /\ tx = [w \in {"sync", "import"} |-> Closed]
    /\ hist = [basis |-> Nothing, fresh |-> {}, imported |-> FALSE, mixed |-> FALSE]

table == <<alias, val, hist>>
Open == {w \in DOMAIN tx : tx[w].open}

-----------------------------------------------------------------------------
(* Upstream publishes; an advisory feed or an import stores a row or links *)
(* one more alias.  A new row has the value of the body of an import, the  *)
(* upsert leaves the enrichment columns of a stored one alone.             *)

Publish ==
    /\ head + 1 \in DOMAIN Catalog
    /\ head' = head + 1
    /\ UNCHANGED <<feed, row, run, tx, table>>

Touched(v, c) ==
    /\ alias' = [alias EXCEPT ![v] = @ \cup {c}]
    /\ IF c \in alias[v] THEN UNCHANGED <<hist, tx>>
       ELSE /\ hist' = [hist EXCEPT !.fresh = @ \cup {v}]
            /\ tx' = [w \in DOMAIN tx |->
                         IF w \in Open THEN [tx[w] EXCEPT !.fresh = @ \cup {v}] ELSE tx[w]]

(* Mutant: the upsert writes the enrichment column of a stored row.        *)
upsertOverwriting(v, c, body) ==
    /\ Touched(v, c)
    /\ val' = [val EXCEPT ![v] = body]

upsertVulnerabilityTx(v, c, body) ==
    /\ Touched(v, c)
    /\ val' = [val EXCEPT ![v] = IF alias[v] = {} THEN body ELSE @]

UpsertVulnerability ==
    /\ \E v \in Vulns, c \in CVEs, body \in 0..1 : upsertVulnerabilityTx(v, c, body)
    /\ UNCHANGED <<feed, head, row, run>>

-----------------------------------------------------------------------------
(* The store.  A row linked to several CVEs of the snapshot takes one of   *)
(* their values: DISTINCT ON without an order keeps any.                   *)

(* KEV keeps a flag, EPSS the score.                                       *)
Snapshot(n) == IF feed = "epss" THEN Catalog[n] ELSE [c \in CVEs |-> IF Catalog[n][c] = 0 THEN 0 ELSE 1]

Values(snapshot, cves) == {snapshot[c] : c \in cves} \ {0}
Hit(snapshot) == {v \in Vulns : Values(snapshot, alias[v]) # {}}

(* The rows another open transaction has written: a statement that writes  *)
(* one of them waits for its end.                                          *)
Locked(w) == UNION {DOMAIN tx[o].sets : o \in Open \ {w}}

(* setCISAKEV, setEPSSScores: the rows that differ get their value.        *)
SetStatement(w, snapshot, clears) ==
    LET hit == Hit(snapshot)
        all == UNION {Values(snapshot, alias[v]) : v \in hit}
    IN
    \E f \in [hit -> all] :
       LET differ == {v \in hit : f[v] # val[v]} IN
       /\ \A v \in hit : f[v] \in Values(snapshot, alias[v])
       /\ differ \cap Locked(w) = {}
       /\ tx' = [tx EXCEPT ![w] =
             [open |-> TRUE, snapshot |-> snapshot, clears |-> clears,
              sets |-> [v \in differ |-> f[v]], fresh |-> {}, mixed |-> FALSE]]

(* clearCISAKEV, clearQuery: the rows the snapshot does not name by now.   *)
stale(t) == {v \in Vulns : val[v] # 0 /\ v \notin Hit(t.snapshot)}

(* The clear statement of a replacement, and the commit.                   *)
Commit(w) ==
    LET t == tx[w]
        cleared == IF t.clears THEN stale(t) \ DOMAIN t.sets ELSE {}
    IN
    /\ cleared \cap Locked(w) = {}
    /\ val' = [v \in Vulns |-> IF v \in DOMAIN t.sets THEN t.sets[v]
                               ELSE IF v \in cleared THEN 0 ELSE val[v]]
    /\ hist' = [basis |-> IF t.clears THEN t.snapshot
                          ELSE [c \in CVEs |-> IF t.snapshot[c] # 0 THEN t.snapshot[c] ELSE hist.basis[c]],
                fresh |-> IF t.clears THEN t.fresh ELSE hist.fresh,
                imported |-> w = "import" \/ t.mixed,
                mixed |-> t.mixed \/ (~t.clears /\ hist.mixed)]
    /\ tx' = [o \in DOMAIN tx |-> IF o \in Open \ {w} THEN [tx[o] EXCEPT !.mixed = TRUE] ELSE Closed]

-----------------------------------------------------------------------------
(* Sync of one feed, under the manager's per-feed lock.  A step may fail,  *)
(* and the process may stop at any step; neither writes the row's          *)
(* validator (the manager records a failure without metadata).             *)

loadFeedStatus ==
    /\ run.pc = "idle"
    /\ \E sent \in {row, 0} : run' = [Idle EXCEPT !.pc = "get", !.sent = sent]
    /\ UNCHANGED <<feed, head, row, tx, table>>

(* 304 answers the validator that is current; 200 brings the snapshot.     *)
openScores(r) == [r EXCEPT !.got = head, !.pc = IF r.sent = head THEN "record" ELSE "parse"]

download ==
    /\ run.pc = "get"
    /\ run' = openScores(run)
    /\ UNCHANGED <<feed, head, row, tx, table>>

(* The body is read and validated as a whole before anything is stored; a  *)
(* malformed, truncated or empty one ends the sync.                        *)
streamCSV ==
    /\ run.pc = "parse"
    /\ run' \in {[run EXCEPT !.pc = "replace"], Idle}
    /\ UNCHANGED <<feed, head, row, tx, table>>

ReplaceSnapshot ==
    \/ /\ run.pc = "replace"
       /\ SetStatement("sync", Snapshot(run.got), TRUE)
       /\ run' = [run EXCEPT !.pc = "clear"]
       /\ UNCHANGED <<feed, head, row, table>>
    \/ /\ run.pc = "clear"
       /\ Commit("sync")
       /\ run' = [run EXCEPT !.pc = "record"]
       /\ UNCHANGED <<feed, head, alias, row>>

(* The manager's recordStatus writes the metadata Sync returned; the write *)
(* may fail or the registration may have been replaced meanwhile.          *)
recordStatus ==
    /\ run.pc = "record"
    /\ row' \in {run.got, row}
    /\ run' = Idle
    /\ UNCHANGED <<feed, head, tx, table>>

(* Mutant: a failed sync records the validator it was sent.                *)
StopOnFailureEarly ==
    /\ run.pc # "idle"
    /\ run' = Idle
    /\ row' = IF run.got # 0 THEN run.got ELSE row
    /\ tx' = [tx EXCEPT !["sync"] = Closed]
    /\ UNCHANGED <<feed, head, table>>

StopOnFailure ==
    /\ run.pc # "idle"
    /\ run' = Idle
    /\ tx' = [tx EXCEPT !["sync"] = Closed]
    /\ UNCHANGED <<feed, head, row, table>>

-----------------------------------------------------------------------------
(* The import endpoint writes the same column: EPSS and a KEV import with  *)
(* clear_missing replace it, a KEV import without adds to it.  Its status  *)
(* carries no validator here.  A rejected import overwrites the metadata.  *)

HandleImport ==
    /\ ~tx["import"].open
    /\ \E n \in DOMAIN Catalog, clears \in BOOLEAN :
          (feed = "epss" => clears) /\ SetStatement("import", Snapshot(n), clears)
    /\ UNCHANGED <<feed, head, row, run, table>>

(* The transaction of the import ends, or fails.                           *)
ImportEnds ==
    /\ tx["import"].open
    /\ \/ Commit("import")
       \/ tx' = [tx EXCEPT !["import"] = Closed] /\ UNCHANGED <<val, hist>>
    /\ UNCHANGED <<feed, head, alias, row, run>>

recordRejectedFeedImportStatus ==
    /\ row # 0
    /\ row' = 0
    /\ UNCHANGED <<feed, head, run, tx, table>>

Next ==
    \/ Publish \/ UpsertVulnerability
    \/ loadFeedStatus \/ download \/ streamCSV \/ ReplaceSnapshot \/ recordStatus \/ StopOnFailure
    \/ HandleImport \/ ImportEnds \/ recordRejectedFeedImportStatus

Spec == Init /\ [][Next]_vars

-----------------------------------------------------------------------------
TypeOK ==
    /\ feed \in {"cisakev", "epss"} /\ head \in DOMAIN Catalog
    /\ alias \in [Vulns -> SUBSET CVEs]
    /\ DOMAIN val = Vulns
    /\ row \in {0} \cup DOMAIN Catalog
    /\ run.pc \in {"idle", "get", "parse", "replace", "clear", "record"}
    /\ tx["sync"].open <=> run.pc = "clear"

(* The column is the snapshot in force: a row has one of the values the    *)
(* snapshot gives its id or its aliases, and none if it gives none.  Apart *)
(* are rows stored or linked since the set statement ran, which keep what  *)
(* they had or came with, and replacements between whose statements an     *)
(* import or a sync committed (setCISAKEV, clearCISAKEV,                   *)
(* replaceEPSSScoresStreamTx; the upsert of an advisory must not overwrite *)
(* the enrichment columns of a stored row).                                *)
ColumnMatchesSnapshot ==
    ~hist.mixed => \A v \in Vulns \ hist.fresh :
       IF Values(hist.basis, alias[v]) = {} THEN val[v] = 0
       ELSE val[v] \in Values(hist.basis, alias[v])

(* The validator sent upstream is never ahead of the table: unless an      *)
(* import wrote the column since or meanwhile, the snapshot in force is    *)
(* the one the validator names or a later one, so a 304 skips nothing that *)
(* was not applied (Sync returns its metadata only after the replacement). *)
ValidatorNeverAhead ==
    row # 0 /\ ~hist.imported => \E n \in DOMAIN Catalog : n >= row /\ hist.basis = Snapshot(n)

=============================================================================
