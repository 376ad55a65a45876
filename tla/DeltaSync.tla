------------------------------ MODULE DeltaSync ------------------------------
(***************************************************************************)
(* The vulnerability dataset of the local cache sync: PostgreSQL           *)
(* transactions that write advisories, the paged export                    *)
(* (internal/db/postgres/sync.go) and the client that applies the pages to *)
(* its SQLite cache (internal/db/sqlite/sync.go).                          *)
(*                                                                         *)
(* An advisory has one vulnerabilities row and one affected_packages row   *)
(* per package.  A row version is known by the full ID of the transaction  *)
(* that wrote it; the export sees only its low bits (xmin) and updated_at, *)
(* which is the start time of that transaction.  A page is served and      *)
(* applied in one step: the sync lock leaves no other writer of the cache. *)
(* How many rows fit a page depends on their sizes: any extent is allowed. *)
(***************************************************************************)
EXTENDS Integers, Functions

CONSTANTS
    Advisories,      \* advisory IDs, positive integers in ID order
    Packages,        \* packages, positive integers in (ecosystem, name) order
    Writers,         \* connections that write advisories
    None,            \* no watermark yet
    Modulus,         \* 2^32: the number of 32-bit transaction IDs
    Modes,           \* values of the --full flag a sync is started with
    Scopes,          \* package sets of the ecosystem filters in use
    InterruptFull,   \* may a pass without a since window stop half way?
    MaxClock,        \* bound on the server clock
    FirstXID,        \* the next transaction ID of the server, whose content is older
    MaxXID,          \* bound on transaction IDs
    MaxStops         \* bound on interrupted passes

ASSUME ModulusAssumption == Modulus \in Nat /\ Modulus > 1

ASSUME DeltaSyncAssumption ==
    /\ Advisories \subseteq Nat \ {0} /\ Packages \subseteq Nat \ {0}
    /\ Modes \subseteq BOOLEAN /\ Scopes \subseteq SUBSET Packages /\ InterruptFull \in BOOLEAN
    /\ MaxClock \in Nat /\ FirstXID \in 2..(MaxXID + 1) /\ MaxXID \in Nat \ {0} /\ MaxStops \in Nat

VARIABLES
    clock,     \* server time
    nextXID,   \* the next transaction ID
    tx,        \* per writer: its open transaction, or Closed
    vuln,      \* vulnerabilities: advisory -> row
    aff,       \* affected_packages: advisory -> package -> row
    local,     \* the client's cache: advisory -> package -> row versions
    cursor,    \* last_sync_at and last_sync_xid, or None
    pass,      \* the sync that holds the sync lock, or Idle
    stops      \* interrupted passes so far

vars == <<clock, nextXID, tx, vuln, aff, local, cursor, pass, stops>>
server == <<clock, nextXID, tx, vuln, aff>>

Closed == [at |-> 0, xid |-> 0, open |-> FALSE]
Start == [adv |-> 0, pkg |-> 0]
NoRows == [p \in {} |-> 0]
Idle == [pc |-> "idle", full |-> FALSE, scope |-> {}, since |-> None, snap |-> None,
         after |-> Start, received |-> {}, usable |-> FALSE, held |-> NoRows, heldWithdrawn |-> FALSE]

\* The rows of f, and those of g under other keys.
Overlay(f, g) == [x \in DOMAIN f \cup DOMAIN g |-> IF x \in DOMAIN f THEN f[x] ELSE g[x]]

Stamps == [at : 0..MaxClock, xid : 1..(MaxXID + 1)]
AffRows == [at : 0..MaxClock, xid : 1..MaxXID]
VulnRows == [at : 0..MaxClock, xid : 1..MaxXID, withdrawn : BOOLEAN]
Versions == [v : 1..MaxXID, ap : 1..MaxXID]
Copies == UNION {[P -> Versions] : P \in SUBSET Packages}

Passes ==
    [pc : {"idle", "page", "split", "check", "others"}, full : BOOLEAN, scope : SUBSET Packages,
     since : Stamps \cup {None}, snap : Stamps \cup {None},
     after : [adv : Advisories \cup {0}, pkg : Packages \cup {0}], received : SUBSET Packages,
     usable : BOOLEAN, held : Copies, heldWithdrawn : BOOLEAN]

ASSUME NoneAssumption == None \notin Stamps

Init ==
    /\ clock = 0 /\ nextXID = FirstXID
    /\ tx = [w \in Writers |-> Closed]
    /\ \E known \in SUBSET Advisories :
          /\ vuln = [a \in known |-> [at |-> 0, xid |-> 1, withdrawn |-> FALSE]]
          /\ aff = [a \in Advisories |-> [p \in IF a \in known THEN Packages ELSE {} |-> [at |-> 0, xid |-> 1]]]
    /\ local = [a \in Advisories |-> NoRows]
    /\ cursor = None /\ pass = Idle /\ stops = 0

-----------------------------------------------------------------------------
(* Writers *)

Tick == clock < MaxClock /\ clock' = clock + 1 /\ UNCHANGED <<nextXID, tx, vuln, aff, local, cursor, pass, stops>>

client == <<local, cursor, pass, stops>>

\* BEGIN: NOW() is fixed here.
Begin(w) ==
    /\ ~tx[w].open
    /\ tx' = [tx EXCEPT ![w] = [at |-> clock, xid |-> 0, open |-> TRUE]]
    /\ UNCHANGED <<clock, nextXID, vuln, aff, client>>

\* The transaction ID is assigned by the first write.
AssignXID(w) ==
    /\ tx[w].open /\ tx[w].xid = 0 /\ nextXID <= MaxXID
    /\ tx' = [tx EXCEPT ![w].xid = nextXID]
    /\ nextXID' = nextXID + 1
    /\ UNCHANGED <<clock, vuln, aff, client>>

Rollback(w) ==
    /\ tx[w].open
    /\ tx' = [tx EXCEPT ![w] = Closed]
    /\ UNCHANGED <<clock, nextXID, vuln, aff, client>>

NewAff(w) == [at |-> tx[w].at, xid |-> tx[w].xid]
NewVuln(w, withdrawn) == [at |-> tx[w].at, xid |-> tx[w].xid, withdrawn |-> withdrawn]

\* The writes of a transaction become visible when it commits.
Commit(w, a, row, affected) ==
    /\ tx[w].xid > 0
    /\ vuln' = Overlay([b \in {a} |-> row], vuln)
    /\ aff' = [aff EXCEPT ![a] = affected]
    /\ tx' = [tx EXCEPT ![w] = Closed]
    /\ UNCHANGED <<clock, nextXID, client>>

\* upsertVulnerabilityTx: rows whose content is unchanged are not rewritten, none is deleted.
UpsertVulnerability(w, a) ==
    \E changed, withdrawn \in BOOLEAN, written \in SUBSET Packages :
       LET rewrite == a \in DOMAIN vuln => changed \/ vuln[a].withdrawn # withdrawn
       IN  /\ TRUE \in {rewrite, written # {}}
           /\ Commit(w, a, IF rewrite THEN NewVuln(w, withdrawn) ELSE vuln[a],
                     Overlay([p \in written |-> NewAff(w)], aff[a]))

\* upsertManualVulnerabilityTx: one package, the others are deleted; published and
\* modified are the time of the save, so the vulnerabilities row is always rewritten.
ReplaceManual(w, a) ==
    \E p \in Packages, changed \in BOOLEAN :
       Commit(w, a, NewVuln(w, FALSE),
              [q \in {p} |-> IF changed \/ p \notin DOMAIN aff[a] THEN NewAff(w) ELSE aff[a][p]])

\* repairAffectedPackageNames: the rows under a non-canonical name q are merged
\* into those of the canonical name p and deleted, and the advisory is touched.
RepairNames(w, a) ==
    \E q \in DOMAIN aff[a], p \in Packages, changed \in BOOLEAN :
       /\ p # q /\ tx[w].xid > 0
       /\ Commit(w, a, NewVuln(w, vuln[a].withdrawn),
                 [r \in (DOMAIN aff[a] \cup {p}) \ {q} |->
                     IF r = p /\ (changed \/ p \notin DOMAIN aff[a]) THEN NewAff(w) ELSE aff[a][r]])

\* deleteVulnerabilityForSourceTx and deleteManualVulnerabilityTx, for the last source.
Withdraw(w, a) ==
    /\ a \in DOMAIN vuln /\ ~vuln[a].withdrawn
    /\ Commit(w, a, NewVuln(w, TRUE), aff[a])

Write(w) ==
    \/ Begin(w) \/ AssignXID(w) \/ Rollback(w)
    \/ \E a \in Advisories :
          UpsertVulnerability(w, a) \/ ReplaceManual(w, a) \/ RepairNames(w, a) \/ Withdraw(w, a)

-----------------------------------------------------------------------------
(* The transaction ID conditions of an export.  A row version carries the   *)
(* low 32 bits of the ID of its transaction (xmin); the watermarks since_xid *)
(* and snapshot_xid are full, epoch-extended IDs.  The conditions compare    *)
(* the two modulo 2^32 inside the window from the watermark to the next      *)
(* transaction ID of the statement, xmax.                                    *)

\* The widest window that is trusted: 2^31 - 1.
MaxWidth == Modulus \div 2 - 1

\* syncXIDDistanceSQL: how far xmin lies after the watermark, modulo 2^32.
Distance(xmin, watermark) == (xmin - watermark) % Modulus

\* syncXIDWindowWidthSQL
WindowWidth(watermark, xmax, outOfRange) ==
    IF xmax - watermark \in 0..MaxWidth THEN xmax - watermark ELSE outOfRange

\* syncXIDAtOrAfterSQL: written at or after the watermark, or not known to be older.
XIDAtOrAfter(xmin, watermark, xmax) == Distance(xmin, watermark) < WindowWidth(watermark, xmax, Modulus)

\* syncXIDBeforeSQL: not in the window that starts at the watermark.
XIDBefore(xmin, watermark, xmax) == Distance(xmin, watermark) >= WindowWidth(watermark, xmax, 0)

-----------------------------------------------------------------------------
(* The export *)

Xmin(row) == row.xid % Modulus

\* The transaction IDs that are in use, and the next one.
CurrentXIDs == {tx[w].xid : w \in {u \in Writers : tx[u].xid > 0}} \cup {nextXID}

\* txid_snapshot_xmin: the oldest transaction still running, or the next one.
SnapshotXmin(xid) == xid \in CurrentXIDs /\ \A other \in CurrentXIDs : xid <= other

\* Mutant: the newest instead of the oldest transaction ID is the watermark.
ResolveSnapshotAtXmax(snap) == snap = [at |-> clock, xid |-> nextXID]
\* resolveSyncSnapshot
ResolveSnapshot(snap) == snap.at = clock /\ SnapshotXmin(snap.xid)

\* The since legs of changedIDsCTE.
ChangedSince(row, since) == row.at >= since.at \/ XIDAtOrAfter(Xmin(row), since.xid, nextXID)

\* vulnerabilityChangedIDUpperFilter and addSnapshotXIDFilters
WithinSnapshot(row, snap) == row.at <= snap.at /\ XIDBefore(Xmin(row), snap.xid, nextXID)

RowsOf(a) == {vuln[a]} \cup Range(aff[a])

\* changedIDsCTE
ChangedIDs(since, snap) ==
    {a \in DOMAIN vuln : \E row \in RowsOf(a) : ChangedSince(row, since) /\ WithinSnapshot(row, snap)}

\* page_candidates: the changed advisories after the cursor.
Candidates ==
    {a \in ChangedIDs(pass.since, pass.snap) : WithinSnapshot(vuln[a], pass.snap) /\ a > pass.after.adv}

\* The exported affected rows of an advisory for the packages P.
Exported(a, P) == [p \in DOMAIN aff[a] \cap P |-> [v |-> vuln[a].xid, ap |-> aff[a][p].xid]]

\* The keys <<package, advisory>> a full export has left, in the order of its row keyset.
FullKeys ==
    {k \in pass.scope \X DOMAIN vuln :
        /\ k[1] \in DOMAIN aff[k[2]]
        /\ vuln[k[2]].at <= pass.snap.at /\ aff[k[2]][k[1]].at <= pass.snap.at
        /\ k[1] > pass.after.pkg \/ (k[1] = pass.after.pkg /\ k[2] > pass.after.adv)}
UpTo(keys, last) == {k \in keys : k[1] < last[1] \/ (k[1] = last[1] /\ k[2] <= last[2])}

\* The rows of the advisory under split that its next page starts from.
SplitRows ==
    LET a == pass.after.adv
    IN  IF a \in DOMAIN vuln /\ WithinSnapshot(vuln[a], pass.snap)
        THEN Exported(a, {p \in pass.scope : p > pass.after.pkg}) ELSE NoRows

\* Mutant: the completeness check looks at updated_at only.
SplitUnchangedByTime(a) == \A row \in RowsOf(a) : row.at <= pass.snap.at
\* buildSyncSplitAdvisoryUnchangedQuery
SplitUnchanged(a) ==
    /\ a \in DOMAIN vuln
    /\ \A row \in RowsOf(a) : row.at <= pass.snap.at /\ ~XIDAtOrAfter(Xmin(row), pass.snap.xid, nextXID)

-----------------------------------------------------------------------------
(* The client *)

\* applySyncVulnerabilities: a withdrawn row deletes the advisory, others are upserted.
Applied(base, rows, withdrawn) == IF withdrawn /\ DOMAIN rows # {} THEN NoRows ELSE Overlay(rows, base)

\* replaceSyncAffectedPackages: the rows of a replaced advisory that stay.
Kept(rows, received) == [p \in DOMAIN rows \cap (received \cup (Packages \ pass.scope)) |-> rows[p]]

\* May the running pass stop without storing its watermark?
MayStop == stops < MaxStops /\ (pass.since # None \/ InterruptFull)

\* storeFreshSyncMetadata, unless the server's time is not safe for freshness.
Finish ==
    /\ pass' = Idle
    /\ \/ cursor' = pass.snap /\ UNCHANGED stops
       \/ MayStop /\ stops' = stops + 1 /\ UNCHANGED cursor

\* The page is applied; when it is the dataset's last the response may be the final one,
\* or pages of other datasets follow.
Continue(next, last) ==
    \/ last /\ Finish
    \/ pass' = [next EXCEPT !.pc = IF last THEN "others" ELSE "page"] /\ UNCHANGED <<cursor, stops>>

\* Sync takes the lock and loads the cursor, and the first request fixes the snapshot.
BeginSync(full, scope) ==
    /\ pass = Idle
    /\ full => scope = Packages
    /\ \E snap \in Stamps :
          /\ ResolveSnapshot(snap)
          /\ pass' = [Idle EXCEPT !.pc = "page", !.full = full, !.scope = scope,
                                  !.since = IF full THEN None ELSE cursor, !.snap = snap]
    /\ UNCHANGED <<server, local, cursor, stops>>

\* A page of an export without a since window; the first one of a full sync clears the cache.
FullPage ==
    /\ pass.pc = "page" /\ pass.since = None
    /\ LET keys == FullKeys
           Base(a) == IF pass.full /\ pass.after = Start THEN NoRows ELSE local[a]
           Apply(page) == local' = [a \in Advisories |->
               Applied(Base(a), IF a \in DOMAIN vuln THEN Exported(a, {k[1] : k \in {j \in page : j[2] = a}}) ELSE NoRows,
                       a \in DOMAIN vuln /\ vuln[a].withdrawn)]
       IN  \/ keys = {} /\ Apply({}) /\ Continue(pass, TRUE)
           \/ \E last \in keys, more \in BOOLEAN :
                 /\ UpTo(keys, last) # keys => more
                 /\ Apply(UpTo(keys, last))
                 /\ Continue([pass EXCEPT !.after = [adv |-> last[2], pkg |-> last[1]]], ~more)
    /\ UNCHANGED server

\* Mutant: a page of whole advisories is upserted only.
DeltaPageUpsertOnly ==
    /\ pass.pc = "page" /\ pass.since # None
    /\ LET ids == Candidates
       IN  \/ ids = {} /\ UNCHANGED local /\ Continue(pass, TRUE)
           \/ \E last \in ids :
                 /\ local' = [a \in Advisories |->
                       IF a \in ids /\ a <= last
                       THEN Applied(local[a], Exported(a, pass.scope), vuln[a].withdrawn) ELSE local[a]]
                 /\ Continue([pass EXCEPT !.after = [adv |-> last, pkg |-> 0]], \A a \in ids : a <= last)
    /\ UNCHANGED server
\* A page of whole advisories: it replaces the local rows of each of them.
DeltaPage ==
    /\ pass.pc = "page" /\ pass.since # None
    /\ LET ids == Candidates
       IN  \/ ids = {} /\ UNCHANGED local /\ Continue(pass, TRUE)
           \/ \E last \in ids :
                 /\ local' = [a \in Advisories |->
                       IF a \in ids /\ a <= last
                       THEN LET rows == Exported(a, pass.scope)
                            IN  Kept(Applied(local[a], rows, vuln[a].withdrawn), DOMAIN rows)
                       ELSE local[a]]
                 /\ Continue([pass EXCEPT !.after = [adv |-> last, pkg |-> 0]], \A a \in ids : a <= last)
    /\ UNCHANGED server

\* The first candidate alone exceeds the byte budget: its first rows, upsert only.
SplitStart ==
    /\ pass.pc = "page" /\ pass.since # None
    /\ \E a \in Candidates :
          LET rows == Exported(a, pass.scope)
          IN  /\ \A other \in Candidates : a <= other
              /\ \E last \in DOMAIN rows :
                    LET page == {p \in DOMAIN rows : p <= last}
                    IN  /\ page # DOMAIN rows
                        /\ local' = [local EXCEPT ![a] = Applied(@, Restrict(rows, page), vuln[a].withdrawn)]
                        /\ pass' = [pass EXCEPT !.pc = "split", !.after = [adv |-> a, pkg |-> last],
                                                !.received = page, !.usable = ~vuln[a].withdrawn]
    /\ UNCHANGED <<server, cursor, stops>>

\* A further page of a split advisory; the last one is held for the completeness check.
SplitPage ==
    /\ pass.pc = "split"
    /\ LET a == pass.after.adv
           rows == SplitRows
           withdrawn == DOMAIN rows # {} /\ vuln[a].withdrawn
       IN  \/ /\ pass' = [pass EXCEPT !.pc = "check", !.held = rows, !.heldWithdrawn = withdrawn,
                                      !.received = @ \cup DOMAIN rows, !.usable = @ /\ ~withdrawn]
              /\ UNCHANGED local
           \/ \E last \in DOMAIN rows :
                 LET page == {p \in DOMAIN rows : p <= last}
                 IN  /\ page # DOMAIN rows
                     /\ local' = [local EXCEPT ![a] = Applied(@, Restrict(rows, page), withdrawn)]
                     /\ pass' = [pass EXCEPT !.after.pkg = last, !.received = @ \cup page,
                                             !.usable = @ /\ ~withdrawn]
    /\ UNCHANGED <<server, cursor, stops>>

\* syncSplitAdvisoryUnchanged, then the held page is applied: the rows no split page
\* delivered are dropped only after an unchanged advisory.
SplitEnd ==
    /\ pass.pc = "check"
    /\ LET a == pass.after.adv
           rows == Applied(local[a], pass.held, pass.heldWithdrawn)
       IN  local' = [local EXCEPT ![a] =
              IF pass.usable /\ SplitUnchanged(a) THEN Kept(rows, pass.received) ELSE rows]
    /\ pass' = [pass EXCEPT !.pc = "page", !.after.pkg = 0, !.received = {}, !.usable = FALSE,
                            !.held = NoRows, !.heldWithdrawn = FALSE]
    /\ UNCHANGED <<server, cursor, stops>>

\* The final page, when it carries other datasets only.
LastPage == pass.pc = "others" /\ Finish /\ UNCHANGED <<server, local>>

\* A request fails or times out, or applying a page fails and is rolled back.
Stop ==
    /\ pass # Idle
    /\ MayStop \/ (stops < MaxStops /\ pass.pc = "page" /\ pass.after = Start)
    /\ pass' = Idle /\ stops' = stops + 1
    /\ UNCHANGED <<server, local, cursor>>

Page == FullPage \/ DeltaPage \/ SplitStart \/ SplitPage \/ SplitEnd \/ LastPage

Next ==
    \/ Tick \/ \E w \in Writers : Write(w)
    \/ \E full \in Modes, scope \in Scopes : BeginSync(full, scope)
    \/ Page \/ Stop

Spec == Init /\ [][Next]_vars

\* Transactions end, and a client keeps syncing and gets its answers.
Fairness ==
    /\ \A w \in Writers : WF_vars(Rollback(w))
    /\ \A scope \in Scopes : WF_vars(BeginSync(FALSE, scope))
    /\ WF_vars(Page)

FairSpec == Spec /\ Fairness

-----------------------------------------------------------------------------
(* Properties *)

\* The state has its types: watermarks, row versions and the position of a pass.
TypeOK ==
    /\ clock \in 0..MaxClock /\ nextXID \in FirstXID..(MaxXID + 1)
    /\ tx \in [Writers -> [at : 0..MaxClock, xid : 0..MaxXID, open : BOOLEAN]]
    /\ DOMAIN vuln \subseteq Advisories /\ \A a \in DOMAIN vuln : vuln[a] \in VulnRows
    /\ DOMAIN aff = Advisories
    /\ \A a \in Advisories : DOMAIN aff[a] \subseteq Packages /\ \A p \in DOMAIN aff[a] : aff[a][p] \in AffRows
    /\ local \in [Advisories -> Copies]
    /\ cursor \in Stamps \cup {None} /\ stops \in 0..MaxStops
    /\ pass \in Passes

\* What the cache holds of an advisory when it agrees with the server.
ServerRows(a) == IF a \in DOMAIN vuln /\ ~vuln[a].withdrawn THEN Exported(a, Packages) ELSE NoRows

InWindow(a, since) == a \in DOMAIN vuln /\ \E row \in RowsOf(a) : ChangedSince(row, since)

\* The cache never silently misses a change: outside a pass that reloads it, every advisory
\* on which it differs from the server is selected by the window of the next delta.
DeltaCoversDifference ==
    cursor # None /\ (pass = Idle \/ pass.since # None) =>
        \A a \in Advisories : local[a] = ServerRows(a) \/ InWindow(a, cursor)

\* An incremental sync removes a cached row only if the server does not list it any more when
\* the page is applied; a split page read as withdrawn just before its completeness check is
\* the one that may be out of date.
DropsOnlyDelisted ==
    [][\A a \in Advisories : \A p \in DOMAIN local[a] \ DOMAIN local'[a] :
          pass.full \/ p \notin DOMAIN ServerRows(a) \/ pass.heldWithdrawn]_vars

\* Once the server is quiet the cache agrees with it, unless a full sync is reloading it.
Converges == <>[](pass.full \/ \A a \in Advisories : local[a] = ServerRows(a))
=============================================================================
