--------------------------- MODULE DeltaSyncProofs ---------------------------
(***************************************************************************)
(* Proofs about the vulnerability sync, for any number of writers,         *)
(* advisories and packages and any modulus of the transaction IDs:         *)
(*   - the facts the comment above syncXIDDistanceSQL rests on             *)
(*     (ExcludedIsSelectedNext, WrittenSinceIsSelected);                   *)
(*   - an incremental sync drops only what the server no longer lists      *)
(*     (OnlyDelistedDropped), by the inductive invariant IInv.             *)
(* A step of the server either keeps the rows of an advisory or gives it a *)
(* row of a running transaction, which no watermark is newer than; this    *)
(* one fact (ServerStep) carries the invariant past every writer.          *)
(***************************************************************************)
EXTENDS DeltaSync, TLAPS

(* The transaction ID window *)

\* The distance of two transaction IDs is a residue (syncXIDDistanceSQL).
LEMMA DistanceType ==
    ASSUME NEW xmin \in Int, NEW watermark \in Int
    PROVE  /\ Distance(xmin, watermark) \in Int
           /\ 0 <= Distance(xmin, watermark) /\ Distance(xmin, watermark) < Modulus
BY ModulusAssumption DEF Distance

\* The widest trusted window is narrower than the modulus (syncXIDWindowWidthSQL).
LEMMA MaxWidthType == MaxWidth \in Int /\ MaxWidth < Modulus
BY ModulusAssumption DEF MaxWidth

\* A number has one residue.
LEMMA ResidueUnique ==
    ASSUME NEW a \in Int, NEW q \in Int, NEW r \in Int,
           0 <= r, r < Modulus, a = q * Modulus + r
    PROVE  a % Modulus = r
BY ModulusAssumption, SMTT(30)

\* The low bits of an ID at or after the watermark lie at the distance of the full ID:
\* what syncXIDDistanceSQL computes from xmin is exact inside one epoch.
LEMMA DistanceExact ==
    ASSUME NEW xid \in Nat, NEW watermark \in Nat, watermark <= xid, xid - watermark < Modulus
    PROVE  Distance(xid % Modulus, watermark) = xid - watermark
<1> DEFINE q == xid \div Modulus
           r == xid % Modulus
<1>1. q \in Int /\ r \in Int
  BY ModulusAssumption
<1>2. xid = q * Modulus + r
  BY ModulusAssumption, SMTT(30)
<1>3. r - watermark = (0 - q) * Modulus + (xid - watermark)
  <2> HIDE DEF q, r
  <2> QED BY <1>1, <1>2, ModulusAssumption, SMTT(30)
<1>4. (r - watermark) % Modulus = xid - watermark
  <2> HIDE DEF q, r
  <2> QED BY <1>1, <1>3, ResidueUnique, ModulusAssumption
<1> QED
  BY <1>4 DEF Distance

\* No gap: a row version the snapshot bound of a delta excludes (syncXIDBeforeSQL) is
\* selected by the next delta, whose since_xid is that snapshot ID (syncXIDAtOrAfterSQL),
\* however many transactions started in between and whatever the xmin is.
THEOREM ExcludedIsSelectedNext ==
    ASSUME NEW xmin \in Int, NEW watermark \in Nat, NEW xmax \in Nat, NEW later \in Nat,
           xmax <= later, ~XIDBefore(xmin, watermark, xmax)
    PROVE  XIDAtOrAfter(xmin, watermark, later)
<1> DEFINE d == Distance(xmin, watermark)
<1>1. d \in Int /\ 0 <= d /\ d < Modulus
  BY DistanceType
<1>2. d < xmax - watermark
  BY <1>1, MaxWidthType DEF XIDBefore, WindowWidth
<1> QED
  BY <1>1, <1>2, MaxWidthType, ModulusAssumption DEF XIDAtOrAfter, WindowWidth

\* Nothing is missed: the since leg (syncXIDAtOrAfterSQL) selects every version whose
\* writer's full ID lies between the watermark and the next ID, past any epoch.
THEOREM WrittenSinceIsSelected ==
    ASSUME NEW xid \in Nat, NEW watermark \in Nat, NEW xmax \in Nat, watermark <= xid, xid < xmax
    PROVE  XIDAtOrAfter(xid % Modulus, watermark, xmax)
<1> DEFINE x == xid % Modulus
<1>1. x \in Int
  BY ModulusAssumption
<1>2. CASE xmax - watermark \in 0..MaxWidth
  <2>1. xid - watermark < Modulus
    BY <1>2, MaxWidthType, ModulusAssumption
  <2>2. Distance(x, watermark) = xid - watermark
    BY <2>1, DistanceExact
  <2> QED
    BY <1>2, <2>2 DEF XIDAtOrAfter, WindowWidth
<1>3. CASE ~(xmax - watermark \in 0..MaxWidth)
  <2>1. Distance(x, watermark) < Modulus
    BY <1>1, DistanceType
  <2> QED
    BY <1>3, <2>1 DEF XIDAtOrAfter, WindowWidth
<1> QED
  BY <1>2, <1>3

\* The snapshot bound is exact on recent versions: a version
\* written before the watermark and less than an epoch older than the window's end passes
\* syncXIDBeforeSQL, so a delta defers only what was in flight at its snapshot.
THEOREM WrittenBeforePasses ==
    ASSUME NEW xid \in Nat, NEW watermark \in Nat, NEW xmax \in Nat,
           xid < watermark, watermark <= xmax, xmax - xid <= Modulus
    PROVE  XIDBefore(xid % Modulus, watermark, xmax)
<1> DEFINE x == xid % Modulus
           d == xid + Modulus - watermark
<1>1. x \in Int /\ d \in Int /\ 0 <= d /\ d < Modulus /\ xmax - watermark <= d
  BY ModulusAssumption
<1>2. Distance(x, watermark) = d
  <2> DEFINE q == xid \div Modulus
             r == xid % Modulus
  <2>1. q \in Int /\ r \in Int
    BY ModulusAssumption
  <2>2. xid = q * Modulus + r
    BY ModulusAssumption, SMTT(30)
  <2>3. r - watermark = (0 - q - 1) * Modulus + d
    <3>1. d = xid + Modulus - watermark
      OBVIOUS
    <3> HIDE DEF q, r, d, x
    <3> QED BY <1>1, <2>1, <2>2, <3>1, ModulusAssumption, SMTT(30)
  <2>4. (r - watermark) % Modulus = d
    <3> HIDE DEF q, r, d, x
    <3> QED BY <1>1, <2>1, <2>3, ResidueUnique, ModulusAssumption
  <2> QED
    BY <2>4 DEF Distance
<1> HIDE DEF d, x
<1>3. Distance(x, watermark) >= WindowWidth(watermark, xmax, 0)
  BY <1>1, <1>2, MaxWidthType DEF WindowWidth
<1> QED
  BY <1>3 DEF XIDBefore, x

-----------------------------------------------------------------------------
(* The invariant *)

\* The watermark m is not newer than a transaction that may still commit.
MarkOK(m) ==
    /\ m \in Stamps /\ m.xid <= nextXID
    /\ \A w \in Writers : tx[w].xid > 0 => m.xid <= tx[w].xid

\* Transaction IDs in use have been assigned, and an advisory comes with its row.
XIDInv ==
    /\ \A w \in Writers : tx[w].xid < nextXID
    /\ \A a \in DOMAIN vuln : \A row \in RowsOf(a) : row.xid < nextXID
    /\ \A a \in Advisories \ DOMAIN vuln : DOMAIN aff[a] = {}

\* The watermarks of the client, and how a pass comes by its own.
PassInv ==
    /\ cursor # None => MarkOK(cursor)
    /\ pass.pc = "idle" => pass = Idle
    /\ pass.pc # "idle" => MarkOK(pass.snap) /\ pass.since = IF pass.full THEN None ELSE cursor
    /\ pass.pc # "check" => pass.held = NoRows /\ ~pass.heldWithdrawn
    /\ pass.pc \in {"split", "check"} => pass.since # None /\ pass.after.adv \in DOMAIN vuln

\* The pages of a split advisory that did not change list all of its rows so far.
SplitInv ==
    pass.pc \in {"split", "check"} /\ SplitUnchanged(pass.after.adv) =>
        \A p \in DOMAIN aff[pass.after.adv] \cap pass.scope :
            pass.pc = "check" \/ p <= pass.after.pkg => p \in pass.received

IInv == TypeOK /\ XIDInv /\ PassInv /\ SplitInv

\* The version of a row, as the cache keeps it.
Row(a, p) == [v |-> vuln[a].xid, ap |-> aff[a][p].xid]

-----------------------------------------------------------------------------
(* Cached rows and exported rows *)

\* A window that has grown selects what it selected (syncXIDAtOrAfterSQL).
LEMMA WindowGrows ==
    ASSUME NEW xmin \in Int, NEW watermark \in Nat, NEW xmax \in Nat, NEW later \in Nat,
           watermark <= xmax, xmax <= later, XIDAtOrAfter(xmin, watermark, xmax)
    PROVE  XIDAtOrAfter(xmin, watermark, later)
<1>1. Distance(xmin, watermark) \in Int /\ Distance(xmin, watermark) < Modulus
    BY DistanceType
<1>2. QED
    BY <1>1, MaxWidthType, ModulusAssumption DEF XIDAtOrAfter, WindowWidth

\* A set of cached rows is a function from packages to row versions.
LEMMA CopyFacts ==
    ASSUME NEW f \in Copies
    PROVE  /\ DOMAIN f \subseteq Packages
           /\ f = [p \in DOMAIN f |-> f[p]]
           /\ \A p \in DOMAIN f : f[p] \in Versions
BY DEF Copies

\* A function from packages to row versions is a set of cached rows.
LEMMA CopyIntro ==
    ASSUME NEW P \in SUBSET Packages, NEW f \in [P -> Versions]
    PROVE  f \in Copies
BY DEF Copies

\* Two sets of cached rows with the same packages and versions are equal.
LEMMA CopyEqual ==
    ASSUME NEW f \in Copies, NEW g \in Copies, DOMAIN f = DOMAIN g, \A p \in DOMAIN f : f[p] = g[p]
    PROVE  f = g
BY CopyFacts

\* The empty set of cached rows.
LEMMA NoRowsFacts == NoRows \in Copies /\ DOMAIN NoRows = {} /\ \A f \in Copies : DOMAIN f = {} => f = NoRows
<1>1. NoRows \in [{} -> Versions] /\ DOMAIN NoRows = {}
    BY DEF NoRows
<1>2. NoRows \in Copies
    BY <1>1, ZenonT(30) DEF Copies
<1>3. QED
    BY <1>1, <1>2, CopyEqual

\* An upsert keeps the other rows (applySyncVulnerabilities).
LEMMA OverlayFacts ==
    ASSUME NEW f \in Copies, NEW g \in Copies
    PROVE  /\ Overlay(f, g) \in Copies
           /\ DOMAIN Overlay(f, g) = DOMAIN f \cup DOMAIN g
           /\ \A p \in DOMAIN f : Overlay(f, g)[p] = f[p]
           /\ \A p \in DOMAIN g \ DOMAIN f : Overlay(f, g)[p] = g[p]
<1>1. DOMAIN f \cup DOMAIN g \in SUBSET Packages
    BY CopyFacts
<1>2. \A p \in DOMAIN f \cup DOMAIN g : (IF p \in DOMAIN f THEN f[p] ELSE g[p]) \in Versions
    BY CopyFacts
<1>3. Overlay(f, g) \in Copies
    <2>1. Overlay(f, g) \in [DOMAIN f \cup DOMAIN g -> Versions]
        BY <1>2 DEF Overlay
    <2>2. QED
        BY <1>1, <2>1, CopyIntro
<1>4. QED
    BY <1>3 DEF Overlay

\* What replaceSyncAffectedPackages leaves of the rows of an advisory.
LEMMA KeptFacts ==
    ASSUME NEW f \in Copies, NEW R
    PROVE  /\ Kept(f, R) \in Copies
           /\ DOMAIN Kept(f, R) = DOMAIN f \cap (R \cup (Packages \ pass.scope))
           /\ \A p \in DOMAIN Kept(f, R) : Kept(f, R)[p] = f[p]
<1>1. DOMAIN f \cap (R \cup (Packages \ pass.scope)) \in SUBSET Packages
    BY CopyFacts
<1>2. Kept(f, R) \in Copies
    <2>1. Kept(f, R) \in [DOMAIN f \cap (R \cup (Packages \ pass.scope)) -> Versions]
        BY CopyFacts DEF Kept
    <2>2. QED
        BY <1>1, <2>1, CopyIntro
<1>3. QED
    BY <1>2 DEF Kept

\* The rows of one page of a split advisory.
LEMMA RestrictFacts ==
    ASSUME NEW f \in Copies, NEW S \in SUBSET DOMAIN f
    PROVE  /\ Restrict(f, S) \in Copies
           /\ DOMAIN Restrict(f, S) = S
           /\ \A p \in S : Restrict(f, S)[p] = f[p]
<1>1. S \in SUBSET Packages
    BY CopyFacts
<1>2. Restrict(f, S) \in Copies
    <2>1. Restrict(f, S) \in [S -> Versions]
        BY CopyFacts DEF Restrict
    <2>2. QED
        BY <1>1, <2>1, CopyIntro
<1>3. QED
    BY <1>2 DEF Restrict

\* The export sends the versions of the affected rows it is asked for.
LEMMA ExportedFacts ==
    ASSUME TypeOK, NEW a \in DOMAIN vuln, NEW P
    PROVE  /\ Exported(a, P) \in Copies
           /\ DOMAIN Exported(a, P) = DOMAIN aff[a] \cap P
           /\ \A p \in DOMAIN aff[a] \cap P : Exported(a, P)[p] = Row(a, p)
<1>1. a \in Advisories /\ vuln[a].xid \in 1..MaxXID /\ DOMAIN aff[a] \cap P \in SUBSET Packages
    BY DEF TypeOK, VulnRows
<1>2. \A p \in DOMAIN aff[a] : aff[a][p].xid \in 1..MaxXID
    BY <1>1 DEF TypeOK, AffRows
<1>3. Exported(a, P) \in Copies
    <2>1. Exported(a, P) \in [DOMAIN aff[a] \cap P -> Versions]
        BY <1>1, <1>2 DEF Exported, Versions
    <2>2. QED
        BY <1>1, <2>1, CopyIntro
<1>4. QED
    BY <1>3 DEF Exported, Row

\* A withdrawn row deletes the advisory, other rows are upserted.
LEMMA AppliedFacts ==
    ASSUME NEW base \in Copies, NEW rows \in Copies, NEW withdrawn \in BOOLEAN
    PROVE  /\ Applied(base, rows, withdrawn) \in Copies
           /\ withdrawn /\ DOMAIN rows # {} => Applied(base, rows, withdrawn) = NoRows
           /\ ~withdrawn \/ DOMAIN rows = {} => Applied(base, rows, withdrawn) = Overlay(rows, base)
           /\ DOMAIN rows = {} => Applied(base, rows, withdrawn) = base
<1>1. Overlay(rows, base) \in Copies
    BY OverlayFacts, ZenonT(30)
<1>2. ASSUME DOMAIN rows = {} PROVE Overlay(rows, base) = base
    <2>1. DOMAIN Overlay(rows, base) = DOMAIN base /\ \A p \in DOMAIN base : Overlay(rows, base)[p] = base[p]
        <3>1. DOMAIN base = DOMAIN rows \cup DOMAIN base /\ DOMAIN base = DOMAIN base \ DOMAIN rows
            BY <1>2
        <3>2. QED
            BY <3>1, OverlayFacts, ZenonT(30)
    <2>2. QED
        BY <1>1, <2>1, CopyEqual
<1>3. QED
    BY <1>1, <1>2, NoRowsFacts DEF Applied

\* What a cache that agrees with the server holds of an advisory.
LEMMA ServerRowsFacts ==
    ASSUME TypeOK, NEW a
    PROVE  /\ ServerRows(a) \in Copies
           /\ a \notin DOMAIN vuln \/ vuln[a].withdrawn => ServerRows(a) = NoRows
           /\ a \in DOMAIN vuln /\ ~vuln[a].withdrawn =>
                 /\ DOMAIN ServerRows(a) = DOMAIN aff[a]
                 /\ \A p \in DOMAIN aff[a] : ServerRows(a)[p] = Row(a, p)
<1>1. CASE a \in DOMAIN vuln /\ ~vuln[a].withdrawn
    <2>1. DOMAIN aff[a] \cap Packages = DOMAIN aff[a]
        BY <1>1 DEF TypeOK
    <2>2. QED
        BY <1>1, <2>1, ExportedFacts, ZenonT(30) DEF ServerRows
<1>2. CASE ~(a \in DOMAIN vuln /\ ~vuln[a].withdrawn)
    BY <1>2, NoRowsFacts DEF ServerRows
<1>3. QED
    BY <1>1, <1>2

\* The rows of an advisory have a time and a transaction ID.
LEMMA RowFacts ==
    ASSUME TypeOK, NEW a \in DOMAIN vuln, NEW row \in RowsOf(a)
    PROVE  row.at \in Nat /\ row.xid \in Nat /\ Xmin(row) \in Int
<1>1. vuln[a] \in VulnRows /\ a \in Advisories
    BY DEF TypeOK
<1>2. row = vuln[a] \/ \E p \in DOMAIN aff[a] : row = aff[a][p]
    BY DEF RowsOf, Range
<1>3. row.at \in Nat /\ row.xid \in Nat
    BY <1>1, <1>2 DEF TypeOK, VulnRows, AffRows
<1>4. QED
    BY <1>3, ModulusAssumption DEF Xmin

\* The watermark of a new pass: no running transaction is older (resolveSyncSnapshot).
LEMMA SnapshotOK ==
    ASSUME TypeOK, XIDInv, NEW snap \in Stamps, ResolveSnapshot(snap)
    PROVE  MarkOK(snap)
BY Zenon DEF MarkOK, ResolveSnapshot, SnapshotXmin, CurrentXIDs

-----------------------------------------------------------------------------
(* The steps of the server *)

\* What a step of the server leaves of an advisory: its rows, or a row of a running transaction.
RowsKept(a) ==
    /\ a \in DOMAIN vuln' <=> a \in DOMAIN vuln
    /\ a \in DOMAIN vuln => vuln'[a] = vuln[a]
    /\ aff'[a] = aff[a]
Written(a) ==
    /\ a \in DOMAIN vuln'
    /\ \E w \in Writers : tx[w].xid > 0 /\ \E row \in RowsOf(a)' : row.xid = tx[w].xid
ServerStep ==
    /\ TypeOK' /\ XIDInv'
    /\ nextXID <= nextXID' /\ DOMAIN vuln \subseteq DOMAIN vuln' /\ UNCHANGED client
    /\ \A m \in Stamps : MarkOK(m) => MarkOK(m)'
    /\ \A a \in Advisories : RowsKept(a) \/ Written(a)

\* A commit gives one advisory a row with the writer's transaction ID.
LEMMA CommitStep ==
    ASSUME TypeOK, XIDInv, NEW w \in Writers, NEW a \in Advisories, NEW row, NEW affected,
           Commit(w, a, row, affected),
           row \in VulnRows, row.xid < nextXID, DOMAIN affected \subseteq Packages,
           \A p \in DOMAIN affected : affected[p] \in AffRows /\ affected[p].xid < nextXID,
           row.xid = tx[w].xid \/ \E p \in DOMAIN affected : affected[p].xid = tx[w].xid
    PROVE  ServerStep
<1>1. /\ DOMAIN vuln' = DOMAIN vuln \cup {a} /\ vuln'[a] = row
      /\ \A b \in DOMAIN vuln \ {a} : vuln'[b] = vuln[b]
    BY Zenon DEF Commit, Overlay
<1>2. DOMAIN aff' = Advisories /\ aff'[a] = affected /\ \A b \in Advisories \ {a} : aff'[b] = aff[b]
    BY Zenon DEF Commit, TypeOK
<1>3. /\ UNCHANGED <<clock, nextXID, local, cursor, pass, stops>>
      /\ tx' = [tx EXCEPT ![w] = Closed] /\ tx[w].xid > 0
    BY Zenon DEF Commit, client
<1>4. /\ tx' \in [Writers -> [at : 0..MaxClock, xid : 0..MaxXID, open : BOOLEAN]]
      /\ \A u \in Writers : tx'[u].xid = 0 \/ tx'[u].xid = tx[u].xid
    BY <1>3, DeltaSyncAssumption DEF TypeOK, Closed
<1>5. TypeOK'
    <2>1. DOMAIN vuln' \subseteq Advisories /\ \A b \in DOMAIN vuln' : vuln'[b] \in VulnRows
        BY Zenon, <1>1 DEF TypeOK
    <2>2. \A b \in Advisories : DOMAIN aff'[b] \subseteq Packages /\ \A p \in DOMAIN aff'[b] : aff'[b][p] \in AffRows
        BY Zenon, <1>2 DEF TypeOK
    <2>3. QED
        BY Zenon, <1>2, <1>3, <1>4, <2>1, <2>2 DEF TypeOK
<1>6. RowsOf(a)' = {row} \cup Range(affected)
    BY Zenon, <1>1, <1>2 DEF RowsOf
<1>7. \A b \in Advisories \ {a} : RowsKept(b) /\ (b \in DOMAIN vuln => RowsOf(b)' = RowsOf(b))
    BY Zenon, <1>1, <1>2 DEF RowsKept, RowsOf
<1>8. XIDInv'
    <2>1. \A u \in Writers : tx'[u].xid < nextXID'
        BY <1>3, <1>4, DeltaSyncAssumption DEF XIDInv, TypeOK
    <2>2. \A b \in DOMAIN vuln' : \A r \in RowsOf(b)' : r.xid < nextXID'
        <3>1. \A r \in RowsOf(a)' : r.xid < nextXID'
            BY Zenon, <1>3, <1>6 DEF Range
        <3>2. \A b \in DOMAIN vuln \ {a} : \A r \in RowsOf(b)' : r.xid < nextXID'
            BY Zenon, <1>3, <1>7 DEF XIDInv, TypeOK
        <3>3. QED
            BY Zenon, <1>1, <3>1, <3>2
    <2>3. \A b \in Advisories \ DOMAIN vuln' : DOMAIN aff'[b] = {}
        BY Zenon, <1>1, <1>2 DEF XIDInv
    <2>4. QED
        BY Zenon, <2>1, <2>2, <2>3 DEF XIDInv
<1>9. Written(a)
    BY Zenon, <1>1, <1>3, <1>6 DEF Written, Range
<1>10. \A m \in Stamps : MarkOK(m) => MarkOK(m)'
    BY <1>3, <1>4 DEF MarkOK
<1>11. nextXID <= nextXID'
    BY <1>3, DeltaSyncAssumption DEF TypeOK
<1>12. QED
    BY Zenon, <1>1, <1>3, <1>5, <1>7, <1>8, <1>9, <1>10, <1>11 DEF ServerStep, client

\* The transactions that change no row.
LEMMA QuietStep ==
    ASSUME TypeOK, XIDInv,
           UNCHANGED <<vuln, aff, local, cursor, pass, stops>>,
           clock' \in 0..MaxClock, nextXID' \in FirstXID..(MaxXID + 1), nextXID <= nextXID',
           tx' \in [Writers -> [at : 0..MaxClock, xid : 0..MaxXID, open : BOOLEAN]],
           \A w \in Writers : tx'[w].xid < nextXID' /\ (tx'[w].xid > 0 => tx'[w].xid = tx[w].xid \/ tx'[w].xid = nextXID)
    PROVE  ServerStep
<1>1. TypeOK'
    BY Zenon DEF TypeOK
<1>2. \A a : RowsKept(a) /\ RowsOf(a)' = RowsOf(a)
    BY Zenon DEF RowsKept, RowsOf
<1>3. XIDInv'
    <2>1. nextXID \in Int /\ nextXID' \in Int /\ \A a \in DOMAIN vuln : \A row \in RowsOf(a) : row.xid \in Int
        BY RowFacts, DeltaSyncAssumption DEF TypeOK
    <2>2. \A a \in DOMAIN vuln' : \A row \in RowsOf(a)' : row.xid < nextXID'
        BY <1>2, <2>1 DEF XIDInv
    <2>3. QED
        BY Zenon, <2>2 DEF XIDInv
<1>4. \A m \in Stamps : MarkOK(m) => MarkOK(m)'
    BY DeltaSyncAssumption DEF MarkOK, TypeOK, Stamps
<1>5. QED
    BY Zenon, <1>1, <1>2, <1>3, <1>4 DEF ServerStep, client

\* Each operation of a writer is such a step: it rewrites at least one row of the advisory
\* it touches with the ID of its transaction, so the change is visible to the next window.
LEMMA WriteStep ==
    ASSUME TypeOK, XIDInv, NEW w \in Writers, Write(w)
    PROVE  ServerStep
<1>1. /\ tx[w] \in [at : 0..MaxClock, xid : 0..MaxXID, open : BOOLEAN] /\ tx[w].xid < nextXID
      /\ nextXID \in Nat /\ nextXID <= MaxXID + 1 /\ clock \in 0..MaxClock
    BY DeltaSyncAssumption DEF TypeOK, XIDInv
<1>2. CASE Begin(w)
    <2>1. tx' \in [Writers -> [at : 0..MaxClock, xid : 0..MaxXID, open : BOOLEAN]] /\ tx'[w].xid = 0
        BY <1>1, <1>2, DeltaSyncAssumption DEF TypeOK, Begin
    <2>2. \A u \in Writers \ {w} : tx'[u] = tx[u]
        BY Zenon, <1>2 DEF Begin, TypeOK
    <2>3. \A u \in Writers : tx'[u].xid < nextXID
        BY <2>1, <2>2, DeltaSyncAssumption DEF XIDInv, TypeOK
    <2>4. QED
        <3>1. UNCHANGED <<clock, nextXID, vuln, aff, local, cursor, pass, stops>>
            BY Zenon, <1>2 DEF Begin, client
        <3>2. nextXID <= nextXID' /\ \A u \in Writers : tx'[u].xid > 0 => tx'[u].xid = tx[u].xid
            BY <1>1, <2>1, <2>2, <3>1
        <3>3. QED
            BY Zenon, <2>1, <2>3, <3>1, <3>2, QuietStep DEF TypeOK
<1>3. CASE AssignXID(w)
    <2>1. tx' \in [Writers -> [at : 0..MaxClock, xid : 0..MaxXID, open : BOOLEAN]] /\ tx'[w].xid = nextXID
        BY <1>1, <1>3, DeltaSyncAssumption DEF TypeOK, AssignXID
    <2>2. \A u \in Writers \ {w} : tx'[u] = tx[u]
        BY Zenon, <1>3 DEF AssignXID, TypeOK
    <2>3. nextXID' = nextXID + 1 /\ nextXID' \in FirstXID..(MaxXID + 1)
        BY <1>1, <1>3, DeltaSyncAssumption DEF AssignXID, TypeOK
    <2>4. \A u \in Writers : tx'[u].xid < nextXID'
        BY <1>1, <2>1, <2>2, <2>3 DEF XIDInv, TypeOK
    <2>5. QED
        BY <1>1, <1>3, <2>1, <2>2, <2>3, <2>4, QuietStep DEF AssignXID, client
<1>4. CASE Rollback(w)
    <2>1. tx' \in [Writers -> [at : 0..MaxClock, xid : 0..MaxXID, open : BOOLEAN]] /\ tx'[w].xid = 0
        BY <1>1, <1>4, DeltaSyncAssumption DEF TypeOK, Rollback, Closed
    <2>2. \A u \in Writers \ {w} : tx'[u] = tx[u]
        BY Zenon, <1>4 DEF Rollback, TypeOK
    <2>3. \A u \in Writers : tx'[u].xid < nextXID
        BY <2>1, <2>2, DeltaSyncAssumption DEF XIDInv, TypeOK
    <2>4. QED
        <3>1. UNCHANGED <<clock, nextXID, vuln, aff, local, cursor, pass, stops>>
            BY Zenon, <1>4 DEF Rollback, client
        <3>2. nextXID <= nextXID' /\ \A u \in Writers : tx'[u].xid > 0 => tx'[u].xid = tx[u].xid
            BY <1>1, <2>1, <2>2, <3>1
        <3>3. QED
            BY Zenon, <2>1, <2>3, <3>1, <3>2, QuietStep DEF TypeOK
<1>5. ASSUME NEW a \in Advisories, tx[w].xid > 0
      PROVE  /\ NewAff(w) \in AffRows /\ NewAff(w).xid = tx[w].xid
             /\ \A d \in BOOLEAN : NewVuln(w, d) \in VulnRows /\ NewVuln(w, d).xid = tx[w].xid
             /\ DOMAIN aff[a] \subseteq Packages
             /\ \A p \in DOMAIN aff[a] : aff[a][p] \in AffRows
             /\ a \in DOMAIN vuln => \A p \in DOMAIN aff[a] : aff[a][p].xid < nextXID
             /\ a \in DOMAIN vuln => vuln[a] \in VulnRows /\ vuln[a].xid < nextXID
             /\ DOMAIN aff[a] # {} => a \in DOMAIN vuln
    <2>1. /\ NewAff(w) \in AffRows /\ NewAff(w).xid = tx[w].xid
          /\ \A d \in BOOLEAN : NewVuln(w, d) \in VulnRows /\ NewVuln(w, d).xid = tx[w].xid
        BY <1>1, <1>5 DEF NewAff, NewVuln, AffRows, VulnRows
    <2>2. QED
        BY Zenon, <1>5, <2>1 DEF TypeOK, XIDInv, RowsOf, Range
<1>6. ASSUME NEW a \in Advisories, UpsertVulnerability(w, a)
      PROVE  ServerStep
    <2> DEFINE rewrite(changed, withdrawn) == a \in DOMAIN vuln => changed \/ vuln[a].withdrawn # withdrawn
               row(changed, withdrawn) == IF rewrite(changed, withdrawn) THEN NewVuln(w, withdrawn) ELSE vuln[a]
               affected(written) == Overlay([p \in written |-> NewAff(w)], aff[a])
    <2>1. PICK changed \in BOOLEAN, withdrawn \in BOOLEAN, written \in SUBSET Packages :
             /\ TRUE \in {rewrite(changed, withdrawn), written # {}}
             /\ Commit(w, a, row(changed, withdrawn), affected(written))
        BY <1>6, ZenonT(30) DEF UpsertVulnerability
    <2>2. tx[w].xid > 0
        BY Zenon, <2>1 DEF Commit
    <2>3. /\ row(changed, withdrawn) \in VulnRows /\ row(changed, withdrawn).xid < nextXID
          /\ rewrite(changed, withdrawn) => row(changed, withdrawn).xid = tx[w].xid
        BY Zenon, <1>1, <1>5, <2>2
    <2>4. /\ DOMAIN affected(written) \subseteq Packages
          /\ \A p \in DOMAIN affected(written) :
                /\ affected(written)[p] \in AffRows /\ affected(written)[p].xid < nextXID
                /\ p \in written => affected(written)[p].xid = tx[w].xid
        BY Zenon, <1>1, <1>5, <2>2 DEF Overlay
    <2>5. row(changed, withdrawn).xid = tx[w].xid \/ \E p \in DOMAIN affected(written) : affected(written)[p].xid = tx[w].xid
        <3>1. written \subseteq DOMAIN affected(written)
            BY Zenon DEF Overlay
        <3>2. rewrite(changed, withdrawn) \/ written # {}
            BY <2>1, ZenonT(30)
        <3>3. QED
            BY Zenon, <2>3, <2>4, <3>1, <3>2
    <2> HIDE DEF rewrite, row, affected
    <2>6. QED
        BY Zenon, <2>1, <2>3, <2>4, <2>5, CommitStep
<1>7. ASSUME NEW a \in Advisories, ReplaceManual(w, a)
      PROVE  ServerStep
    <2> DEFINE affected(p, changed) ==
                   [q \in {p} |-> IF changed \/ p \notin DOMAIN aff[a] THEN NewAff(w) ELSE aff[a][p]]
    <2>1. PICK p \in Packages, changed \in BOOLEAN : Commit(w, a, NewVuln(w, FALSE), affected(p, changed))
        BY <1>7, ZenonT(30) DEF ReplaceManual
    <2>2. tx[w].xid > 0
        BY Zenon, <2>1 DEF Commit
    <2>3. /\ DOMAIN affected(p, changed) \subseteq Packages
          /\ \A q \in DOMAIN affected(p, changed) : affected(p, changed)[q] \in AffRows /\ affected(p, changed)[q].xid < nextXID
        BY Zenon, <1>1, <1>5, <2>2
    <2> HIDE DEF affected
    <2>4. QED
        BY <1>1, <1>5, <2>1, <2>2, <2>3, CommitStep, ZenonT(30)
<1>8. ASSUME NEW a \in Advisories, RepairNames(w, a)
      PROVE  ServerStep
    <2> DEFINE affected(p, q, changed) ==
                   [r \in (DOMAIN aff[a] \cup {p}) \ {q} |->
                       IF r = p /\ (changed \/ p \notin DOMAIN aff[a]) THEN NewAff(w) ELSE aff[a][r]]
    <2>1. PICK q \in DOMAIN aff[a], p \in Packages, changed \in BOOLEAN :
             Commit(w, a, NewVuln(w, vuln[a].withdrawn), affected(p, q, changed))
        BY <1>8, ZenonT(30) DEF RepairNames
    <2>2. tx[w].xid > 0 /\ a \in DOMAIN vuln
        BY Zenon, <1>5, <2>1 DEF Commit
    <2>3. /\ DOMAIN affected(p, q, changed) \subseteq Packages
          /\ \A r \in DOMAIN affected(p, q, changed) :
                affected(p, q, changed)[r] \in AffRows /\ affected(p, q, changed)[r].xid < nextXID
        BY Zenon, <1>1, <1>5, <2>2
    <2>4. vuln[a].withdrawn \in BOOLEAN
        BY Zenon, <1>5, <2>2 DEF VulnRows
    <2> HIDE DEF affected
    <2>5. QED
        BY <1>1, <1>5, <2>1, <2>2, <2>3, <2>4, CommitStep
<1>9. ASSUME NEW a \in Advisories, Withdraw(w, a)
      PROVE  ServerStep
    <2>1. Commit(w, a, NewVuln(w, TRUE), aff[a]) /\ a \in DOMAIN vuln /\ tx[w].xid > 0
        BY Zenon, <1>9 DEF Withdraw, Commit
    <2>2. QED
        BY <1>1, <1>5, <2>1, CommitStep, ZenonT(30)
<1>10. QED
    BY Zenon, <1>2, <1>3, <1>4, <1>6, <1>7, <1>8, <1>9 DEF Write

\* The clock changes no row.
LEMMA TickStep ==
    ASSUME TypeOK, XIDInv, Tick
    PROVE  ServerStep
<1>1. UNCHANGED <<nextXID, tx, vuln, aff, local, cursor, pass, stops>>
    BY Zenon DEF Tick
<1>2. clock' \in 0..MaxClock
    <2>1. clock \in 0..MaxClock
        BY Zenon DEF TypeOK
    <2>2. clock < MaxClock /\ clock' = clock + 1
        BY Zenon DEF Tick
    <2>3. QED
        BY <2>1, <2>2, DeltaSyncAssumption
<1>3. nextXID <= nextXID'
    <2>1. nextXID \in FirstXID..(MaxXID + 1) /\ nextXID' = nextXID
        BY Zenon, <1>1 DEF TypeOK
    <2>2. QED
        BY <2>1, DeltaSyncAssumption
<1>4. QED
    BY Zenon, <1>1, <1>2, <1>3, QuietStep DEF TypeOK, XIDInv

\* A row a running transaction writes lies in the window of every watermark.
LEMMA WindowKept ==
    ASSUME TypeOK, XIDInv, ServerStep, NEW m \in Stamps, MarkOK(m), NEW a \in Advisories
    PROVE  /\ InWindow(a, m) => InWindow(a, m)'
           /\ RowsKept(a) /\ a \in DOMAIN vuln => RowsOf(a)' = RowsOf(a)
           /\ Written(a) => \E row \in RowsOf(a)' : XIDAtOrAfter(Xmin(row), m.xid, nextXID')
<1>1. m.xid \in Nat /\ m.xid <= nextXID /\ nextXID \in Nat /\ nextXID' \in Nat /\ nextXID <= nextXID'
    <2>1. /\ m.xid <= nextXID /\ nextXID <= nextXID'
          /\ nextXID \in FirstXID..(MaxXID + 1) /\ nextXID' \in FirstXID..(MaxXID + 1)
        BY Zenon DEF MarkOK, TypeOK, ServerStep
    <2>2. QED
        BY <2>1, DeltaSyncAssumption DEF Stamps
<1>2. RowsKept(a) /\ a \in DOMAIN vuln => RowsOf(a)' = RowsOf(a)
    BY Zenon DEF RowsKept, RowsOf
<1>3. Written(a) => \E row \in RowsOf(a)' : XIDAtOrAfter(Xmin(row), m.xid, nextXID')
    <2> SUFFICES ASSUME Written(a)
                 PROVE  \E row \in RowsOf(a)' : XIDAtOrAfter(Xmin(row), m.xid, nextXID')
        OBVIOUS
    <2>1. PICK w \in Writers, row \in RowsOf(a)' : tx[w].xid > 0 /\ row.xid = tx[w].xid
        BY Zenon DEF Written
    <2>2. row.xid \in Nat /\ m.xid <= row.xid /\ row.xid < nextXID /\ row.xid < nextXID'
        BY <1>1, <2>1 DEF MarkOK, XIDInv, TypeOK
    <2>3. QED
        BY Zenon, <1>1, <2>1, <2>2, WrittenSinceIsSelected DEF Xmin
<1>4. InWindow(a, m) => InWindow(a, m)'
    <2>1. CASE Written(a)
        BY Zenon, <1>3, <2>1 DEF InWindow, ChangedSince, Written
    <2>2. ASSUME RowsKept(a), InWindow(a, m) PROVE InWindow(a, m)'
        <3>1. PICK row \in RowsOf(a) : ChangedSince(row, m)
            BY Zenon, <2>2 DEF InWindow
        <3>2. Xmin(row) \in Int /\ a \in DOMAIN vuln
            BY Zenon, <2>2, RowFacts DEF InWindow
        <3>3. row.at >= m.at \/ XIDAtOrAfter(Xmin(row), m.xid, nextXID')
            BY Zenon, <1>1, <3>1, <3>2, WindowGrows DEF ChangedSince
        <3>4. QED
            BY Zenon, <1>2, <2>2, <3>2, <3>3 DEF InWindow, ChangedSince, RowsKept
    <2>3. QED
        BY Zenon, <2>1, <2>2 DEF ServerStep
<1>5. QED
    BY Zenon, <1>2, <1>3, <1>4

\* An advisory whose split pages are complete after a step of the server was not written.
LEMMA UnchangedKept ==
    ASSUME TypeOK, XIDInv, ServerStep, pass.snap \in Stamps, MarkOK(pass.snap), NEW a \in Advisories, SplitUnchanged(a)'
    PROVE  RowsKept(a) /\ SplitUnchanged(a) /\ a \in DOMAIN vuln
<1>1. pass' = pass
    BY Zenon DEF ServerStep, client
<1>2. ~Written(a)
    BY Zenon, <1>1, WindowKept DEF SplitUnchanged
<1>3. RowsKept(a) /\ a \in DOMAIN vuln /\ RowsOf(a)' = RowsOf(a)
    BY <1>2, WindowKept, ZenonT(30) DEF ServerStep, RowsKept, SplitUnchanged
<1>4. /\ pass.snap.xid \in Nat /\ pass.snap.xid <= nextXID
      /\ nextXID \in Nat /\ nextXID' \in Nat /\ nextXID <= nextXID'
    <2>1. /\ pass.snap.xid <= nextXID /\ nextXID <= nextXID'
          /\ nextXID \in FirstXID..(MaxXID + 1) /\ nextXID' \in FirstXID..(MaxXID + 1)
        BY Zenon DEF MarkOK, TypeOK, ServerStep
    <2>2. QED
        BY <2>1, DeltaSyncAssumption DEF Stamps
<1>5. \A row \in RowsOf(a) : row.at <= pass.snap.at /\ ~XIDAtOrAfter(Xmin(row), pass.snap.xid, nextXID)
    <2> SUFFICES ASSUME NEW row \in RowsOf(a)
                 PROVE  row.at <= pass.snap.at /\ ~XIDAtOrAfter(Xmin(row), pass.snap.xid, nextXID)
        OBVIOUS
    <2>1. row.at <= pass.snap.at /\ ~XIDAtOrAfter(Xmin(row), pass.snap.xid, nextXID')
        BY Zenon, <1>1, <1>3 DEF SplitUnchanged, Xmin
    <2>2. Xmin(row) \in Int
        BY Zenon, <1>3, RowFacts
    <2>3. QED
        BY Zenon, <1>4, <2>1, <2>2, WindowGrows
<1>6. QED
    BY Zenon, <1>3, <1>5 DEF SplitUnchanged

\* The steps of the server keep the invariant: watermarks stay older than running transactions.
LEMMA ServerKeepsIInv ==
    ASSUME IInv, ServerStep
    PROVE  IInv'
<1>1. TypeOK /\ XIDInv /\ PassInv /\ SplitInv /\ TypeOK' /\ XIDInv'
    BY Zenon DEF IInv, ServerStep
<1>2. cursor' = cursor /\ pass' = pass /\ DOMAIN vuln \subseteq DOMAIN vuln'
    BY Zenon DEF ServerStep, client
<1>3. \A m \in Stamps : MarkOK(m) => MarkOK(m)'
    BY Zenon DEF ServerStep
<1>4. PassInv'
    <2>1. cursor # None => MarkOK(cursor)'
        BY Zenon, <1>1, <1>2, <1>3 DEF PassInv, MarkOK
    <2>2. pass.pc # "idle" => MarkOK(pass.snap)'
        BY Zenon, <1>1, <1>2, <1>3 DEF PassInv, MarkOK
    <2>3. QED
        BY Zenon, <1>1, <1>2, <2>1, <2>2 DEF PassInv
<1>5. SplitInv'
    <2> SUFFICES ASSUME pass.pc \in {"split", "check"}, SplitUnchanged(pass.after.adv)'
                 PROVE  \A p \in DOMAIN aff'[pass.after.adv] \cap pass.scope :
                            pass.pc = "check" \/ p <= pass.after.pkg => p \in pass.received
        BY Zenon, <1>2 DEF SplitInv
    <2>1. pass.after.adv \in Advisories /\ pass.snap \in Stamps /\ MarkOK(pass.snap)
        BY Zenon, <1>1 DEF PassInv, MarkOK, TypeOK
    <2>2. SplitUnchanged(pass.after.adv) /\ aff'[pass.after.adv] = aff[pass.after.adv]
        BY Zenon, <1>1, <1>2, <2>1, UnchangedKept DEF RowsKept
    <2>3. QED
        BY Zenon, <1>1, <2>2 DEF SplitInv
<1>6. QED
    BY Zenon, <1>1, <1>4, <1>5 DEF IInv

-----------------------------------------------------------------------------
(* The steps of the client *)

\* What the server knows is the same after a step of the client.
LEMMA ServerSame ==
    ASSUME UNCHANGED server
    PROVE  /\ XIDInv' = XIDInv
           /\ \A a : RowsOf(a)' = RowsOf(a) /\ ServerRows(a)' = ServerRows(a)
           /\ \A m : MarkOK(m)' = MarkOK(m)
           /\ \A a, m : InWindow(a, m)' = InWindow(a, m)
           /\ \A a : pass'.snap = pass.snap => SplitUnchanged(a)' = SplitUnchanged(a)
<1>1. UNCHANGED <<clock, nextXID, tx, vuln, aff>>
    BY Zenon DEF server
<1>2. \A a : RowsOf(a)' = RowsOf(a)
    BY Zenon, <1>1 DEF RowsOf
<1>3. \A a : ServerRows(a)' = ServerRows(a)
    BY Zenon, <1>1 DEF ServerRows, Exported
<1>4. \A m : MarkOK(m)' = MarkOK(m)
    BY Zenon, <1>1 DEF MarkOK
<1>5. \A a, m : InWindow(a, m)' = InWindow(a, m)
    BY Zenon, <1>1, <1>2 DEF InWindow, ChangedSince, Xmin
<1>6. \A a : pass'.snap = pass.snap => SplitUnchanged(a)' = SplitUnchanged(a)
    BY Zenon, <1>1, <1>2 DEF SplitUnchanged, Xmin
<1>7. XIDInv' = XIDInv
    BY Zenon, <1>1, <1>2 DEF XIDInv
<1>8. QED
    BY Zenon, <1>2, <1>3, <1>4, <1>5, <1>6, <1>7

\* A row of an advisory that did not change passes the snapshot bound.
LEMMA UnchangedWithin ==
    ASSUME TypeOK, MarkOK(pass.snap), NEW a, SplitUnchanged(a), NEW row \in RowsOf(a)
    PROVE  WithinSnapshot(row, pass.snap)
<1>1. a \in DOMAIN vuln /\ row.at <= pass.snap.at /\ ~XIDAtOrAfter(Xmin(row), pass.snap.xid, nextXID)
    BY Zenon DEF SplitUnchanged
<1>2. Xmin(row) \in Int /\ pass.snap.xid \in Nat /\ nextXID \in Nat
    BY <1>1, RowFacts, DeltaSyncAssumption DEF MarkOK, Stamps, TypeOK
<1>3. XIDBefore(Xmin(row), pass.snap.xid, nextXID)
    BY <1>1, <1>2, ExcludedIsSelectedNext, SMTT(30)
<1>4. QED
    BY Zenon, <1>1, <1>3 DEF WithinSnapshot

\* No pass is running.
LEMMA IdleFacts == Idle \in Passes
BY NoRowsFacts, DeltaSyncAssumption, ZenonT(30) DEF Idle, Passes, Start

\* The pass ends, or goes on with the next page or with other datasets.
LEMMA ContinueKeepsIInv ==
    ASSUME IInv, UNCHANGED server, local' \in [Advisories -> Copies], pass.pc = "page",
           NEW after \in [adv : Advisories \cup {0}, pkg : Packages \cup {0}], NEW last \in BOOLEAN,
           Continue([pass EXCEPT !.after = after], last)
    PROVE  IInv'
<1>1. TypeOK /\ XIDInv /\ PassInv /\ pass.snap \in Stamps /\ MarkOK(pass.snap)
    BY Zenon DEF IInv, PassInv, MarkOK
<1>2. CASE Finish
    <2>1. /\ pass' = Idle /\ cursor' \in {cursor, pass.snap} /\ stops' \in 0..MaxStops
        BY <1>1, <1>2, DeltaSyncAssumption DEF Finish, MayStop, TypeOK
    <2>2. TypeOK'
        BY Zenon, <1>1, <2>1, IdleFacts DEF TypeOK, server
    <2>3. PassInv'
        BY Zenon, <1>1, <2>1, ServerSame DEF PassInv, Idle
    <2>4. SplitInv'
        BY Zenon, <2>1 DEF SplitInv, Idle
    <2>5. QED
        BY Zenon, <1>1, <2>2, <2>3, <2>4, ServerSame DEF IInv
<1>3. CASE /\ pass' = [[pass EXCEPT !.after = after] EXCEPT !.pc = IF last THEN "others" ELSE "page"]
           /\ UNCHANGED <<cursor, stops>>
    <2>1. /\ pass' \in Passes /\ pass'.pc \in {"others", "page"} /\ pass'.full = pass.full
          /\ pass'.since = pass.since /\ pass'.snap = pass.snap /\ pass'.held = pass.held
          /\ pass'.heldWithdrawn = pass.heldWithdrawn
        BY <1>1, <1>3, ZenonT(30) DEF TypeOK, Passes
    <2>2. TypeOK'
        BY Zenon, <1>1, <1>3, <2>1 DEF TypeOK, server
    <2>3. PassInv'
        BY Zenon, <1>1, <1>3, <2>1, ServerSame DEF PassInv
    <2>4. SplitInv'
        BY Zenon, <2>1 DEF SplitInv
    <2>5. QED
        BY Zenon, <1>1, <2>2, <2>3, <2>4, ServerSame DEF IInv
<1>4. QED
    BY Zenon, <1>2, <1>3 DEF Continue

\* What a page of a full export makes of the cache.
Base(a) == IF pass.full /\ pass.after = Start THEN NoRows ELSE local[a]
PagePackages(page, a) == {k[1] : k \in {j \in page : j[2] = a}}
PageRows(page, a) == IF a \in DOMAIN vuln THEN Exported(a, PagePackages(page, a)) ELSE NoRows
FullApply(page) ==
    local' = [a \in Advisories |-> Applied(Base(a), PageRows(page, a), a \in DOMAIN vuln /\ vuln[a].withdrawn)]

\* A page of a full export is the last one, or ends at one of the keys that are left.
LEMMA FullPageCases ==
    ASSUME FullPage
    PROVE  /\ pass.pc = "page" /\ pass.since = None /\ UNCHANGED server
           /\ \/ FullKeys = {} /\ FullApply({}) /\ Continue(pass, TRUE)
              \/ \E last \in FullKeys, more \in BOOLEAN :
                    /\ UpTo(FullKeys, last) # FullKeys => more
                    /\ FullApply(UpTo(FullKeys, last))
                    /\ Continue([pass EXCEPT !.after = [adv |-> last[2], pkg |-> last[1]]], ~more)
BY ZenonT(30) DEF FullPage, FullApply, PageRows, PagePackages, Base

\* The cache has its type after a page of a full export.
LEMMA FullApplyFacts ==
    ASSUME TypeOK, NEW page, FullApply(page)
    PROVE  /\ local' \in [Advisories -> Copies]
           /\ \A a \in Advisories :
                /\ Base(a) \in Copies /\ PageRows(page, a) \in Copies
                /\ local'[a] = Applied(Base(a), PageRows(page, a), a \in DOMAIN vuln /\ vuln[a].withdrawn)
<1>1. ASSUME NEW a \in Advisories
      PROVE  Base(a) \in Copies /\ PageRows(page, a) \in Copies /\ (a \in DOMAIN vuln /\ vuln[a].withdrawn) \in BOOLEAN
    BY NoRowsFacts, ExportedFacts, ZenonT(30) DEF Base, PageRows, TypeOK
<1>2. \A a \in Advisories : Applied(Base(a), PageRows(page, a), a \in DOMAIN vuln /\ vuln[a].withdrawn) \in Copies
    BY <1>1, AppliedFacts, ZenonT(30)
<1>3. QED
    BY Zenon, <1>1, <1>2 DEF FullApply

\* The position of a pass.
LEMMA SamePass ==
    ASSUME TypeOK
    PROVE  /\ pass.after \in [adv : Advisories \cup {0}, pkg : Packages \cup {0}]
           /\ pass = [pass EXCEPT !.after = pass.after]
BY Zenon DEF TypeOK, Passes

\* Positions, packages and advisories are natural numbers.
LEMMA AfterFacts ==
    ASSUME TypeOK
    PROVE  /\ pass.after.adv \in Nat /\ pass.after.pkg \in Nat
           /\ pass.scope \subseteq Packages /\ Packages \subseteq Nat /\ Advisories \subseteq Nat
<1>1. pass.after \in [adv : Advisories \cup {0}, pkg : Packages \cup {0}] /\ pass.scope \subseteq Packages
    BY Zenon DEF TypeOK, Passes
<1>2. Advisories \subseteq Nat /\ Packages \subseteq Nat
    BY Zenon, DeltaSyncAssumption
<1>3. Advisories \cup {0} \subseteq Nat /\ Packages \cup {0} \subseteq Nat
    BY <1>2
<1>4. QED
    BY <1>1, <1>2, <1>3, ZenonT(30)

\* A key that is left lies after the position of the pass.
LEMMA FullKeysFacts ==
    ASSUME TypeOK, NEW k \in FullKeys
    PROVE  /\ k = <<k[1], k[2]>> /\ k[1] \in Packages /\ k[2] \in DOMAIN vuln /\ k[2] \in Advisories
           /\ k[1] \in pass.scope /\ k[1] \in DOMAIN aff[k[2]]
           /\ k[1] > pass.after.pkg \/ (k[1] = pass.after.pkg /\ k[2] > pass.after.adv)
<1>1. DOMAIN vuln \subseteq Advisories /\ pass.scope \subseteq Packages
    BY Zenon DEF TypeOK, Passes
<1>2. QED
    BY <1>1 DEF FullKeys

\* A page of a full export keeps the invariant.
LEMMA FullPageKeepsIInv ==
    ASSUME IInv, FullPage
    PROVE  IInv'
<1>1. TypeOK
    BY Zenon DEF IInv
<1>2. CASE FullKeys = {} /\ FullApply({}) /\ Continue(pass, TRUE)
    BY <1>1, <1>2, FullPageCases, FullApplyFacts, SamePass, ContinueKeepsIInv, ZenonT(30)
<1>3. ASSUME NEW last \in FullKeys, NEW more \in BOOLEAN, FullApply(UpTo(FullKeys, last)),
             Continue([pass EXCEPT !.after = [adv |-> last[2], pkg |-> last[1]]], ~more)
      PROVE  IInv'
    <2>1. [adv |-> last[2], pkg |-> last[1]] \in [adv : Advisories \cup {0}, pkg : Packages \cup {0}]
        BY Zenon, <1>1, FullKeysFacts
    <2>2. QED
        BY <1>1, <1>3, <2>1, FullPageCases, FullApplyFacts, ContinueKeepsIInv, ZenonT(30)
<1>4. QED
    BY <1>2, <1>3, FullPageCases, ZenonT(30)

\* What a page of whole advisories makes of the cache.
Replaced(a) ==
    Kept(Applied(local[a], Exported(a, pass.scope), vuln[a].withdrawn), DOMAIN Exported(a, pass.scope))

\* A delta has no candidate left, or its page ends at one of them.
LEMMA DeltaPageCases ==
    ASSUME DeltaPage
    PROVE  /\ pass.pc = "page" /\ pass.since # None /\ UNCHANGED server
           /\ \/ Candidates = {} /\ UNCHANGED local /\ Continue(pass, TRUE)
              \/ \E last \in Candidates :
                    /\ local' = [a \in Advisories |-> IF a \in Candidates /\ a <= last THEN Replaced(a) ELSE local[a]]
                    /\ Continue([pass EXCEPT !.after = [adv |-> last, pkg |-> 0]], \A a \in Candidates : a <= last)
BY ZenonT(30) DEF DeltaPage, Replaced

\* A candidate is an advisory the window selects, after the position of the pass.
LEMMA CandidatesFacts ==
    ASSUME TypeOK, NEW a \in Candidates
    PROVE  /\ a \in Advisories /\ a \in Nat /\ a \in DOMAIN vuln /\ vuln[a].withdrawn \in BOOLEAN /\ a > pass.after.adv
           /\ InWindow(a, pass.since)
BY DeltaSyncAssumption, ZenonT(30) DEF Candidates, ChangedIDs, TypeOK, VulnRows, InWindow

\* The cache has its type after a page of whole advisories.
LEMMA ReplacedFacts ==
    ASSUME TypeOK, NEW a \in Candidates
    PROVE  /\ Applied(local[a], Exported(a, pass.scope), vuln[a].withdrawn) \in Copies
           /\ Replaced(a) \in Copies
<1>1. a \in Advisories /\ a \in DOMAIN vuln /\ vuln[a].withdrawn \in BOOLEAN /\ local[a] \in Copies
    BY Zenon, CandidatesFacts DEF TypeOK
<1>2. Exported(a, pass.scope) \in Copies
    BY <1>1, ExportedFacts, ZenonT(30)
<1>3. QED
    BY <1>1, <1>2, AppliedFacts, KeptFacts, ZenonT(30) DEF Replaced

\* A page of whole advisories keeps the invariant.
LEMMA DeltaPageKeepsIInv ==
    ASSUME IInv, DeltaPage
    PROVE  IInv'
<1>1. TypeOK
    BY Zenon DEF IInv
<1>2. CASE Candidates = {} /\ UNCHANGED local /\ Continue(pass, TRUE)
    <2>1. local' \in [Advisories -> Copies]
        BY Zenon, <1>1, <1>2 DEF TypeOK
    <2>2. QED
        BY <1>1, <1>2, <2>1, DeltaPageCases, SamePass, ContinueKeepsIInv, ZenonT(30)
<1>3. ASSUME NEW last \in Candidates,
             local' = [a \in Advisories |-> IF a \in Candidates /\ a <= last THEN Replaced(a) ELSE local[a]],
             Continue([pass EXCEPT !.after = [adv |-> last, pkg |-> 0]], \A a \in Candidates : a <= last)
      PROVE  IInv'
    <2>1. local' \in [Advisories -> Copies]
        BY Zenon, <1>1, <1>3, ReplacedFacts DEF TypeOK
    <2>2. [adv |-> last, pkg |-> 0] \in [adv : Advisories \cup {0}, pkg : Packages \cup {0}]
        BY Zenon, <1>1, CandidatesFacts
    <2>3. (\A a \in Candidates : a <= last) \in BOOLEAN
        OBVIOUS
    <2>4. QED
        BY <1>1, <1>3, <2>1, <2>2, <2>3, DeltaPageCases, ContinueKeepsIInv, ZenonT(30)
<1>4. QED
    BY <1>2, <1>3, DeltaPageCases, ZenonT(30)

\* The first page of a split advisory: a is the least candidate, and P are the packages of the page.
SplitStarts(a, last, P) ==
    /\ a \in Candidates /\ \A b \in Candidates : a <= b
    /\ P = {p \in DOMAIN aff[a] \cap pass.scope : p <= last} /\ last \in P
    /\ local' = [local EXCEPT ![a] = Applied(@, Restrict(Exported(a, pass.scope), P), vuln[a].withdrawn)]
    /\ pass' = [pass EXCEPT !.pc = "split", !.after = [adv |-> a, pkg |-> last],
                            !.received = P, !.usable = ~vuln[a].withdrawn]

\* A split starts with the least candidate.
LEMMA SplitStartFacts ==
    ASSUME TypeOK, SplitStart
    PROVE  /\ pass.pc = "page" /\ pass.since # None /\ UNCHANGED <<server, cursor, stops>>
           /\ \E a, last, P : SplitStarts(a, last, P)
<1>1. pass.pc = "page" /\ pass.since # None /\ UNCHANGED <<server, cursor, stops>>
    BY Zenon DEF SplitStart
<1>2. PICK a \in Candidates :
         /\ \A b \in Candidates : a <= b
         /\ \E last \in DOMAIN Exported(a, pass.scope) :
               LET page == {p \in DOMAIN Exported(a, pass.scope) : p <= last}
               IN  /\ local' = [local EXCEPT ![a] = Applied(@, Restrict(Exported(a, pass.scope), page), vuln[a].withdrawn)]
                   /\ pass' = [pass EXCEPT !.pc = "split", !.after = [adv |-> a, pkg |-> last],
                                           !.received = page, !.usable = ~vuln[a].withdrawn]
    BY ZenonT(30) DEF SplitStart
<1>3. Exported(a, pass.scope) \in Copies /\ DOMAIN Exported(a, pass.scope) = DOMAIN aff[a] \cap pass.scope
    BY Zenon, CandidatesFacts, ExportedFacts
<1>4. PICK last \in DOMAIN aff[a] \cap pass.scope :
         LET page == {p \in DOMAIN aff[a] \cap pass.scope : p <= last}
         IN  /\ local' = [local EXCEPT ![a] = Applied(@, Restrict(Exported(a, pass.scope), page), vuln[a].withdrawn)]
             /\ pass' = [pass EXCEPT !.pc = "split", !.after = [adv |-> a, pkg |-> last],
                                     !.received = page, !.usable = ~vuln[a].withdrawn]
    BY <1>2, <1>3, ZenonT(30)
<1>5. last <= last
    <2>1. last \in Packages
        BY Zenon, <1>3, CopyFacts
    <2>2. QED
        BY <2>1, AfterFacts
<1>6. SplitStarts(a, last, {p \in DOMAIN aff[a] \cap pass.scope : p <= last})
    BY <1>2, <1>4, <1>5, ZenonT(30) DEF SplitStarts
<1>7. QED
    BY Zenon, <1>1, <1>6

\* A pass that moves on with its window and its snapshot keeps the invariant.
LEMMA PassKept ==
    ASSUME PassInv, UNCHANGED <<server, cursor>>, pass.pc # "idle", pass'.pc # "idle",
           pass'.full = pass.full, pass'.since = pass.since, pass'.snap = pass.snap,
           pass'.pc # "check" => pass'.held = NoRows /\ ~pass'.heldWithdrawn,
           pass'.pc \in {"split", "check"} => pass.since # None /\ pass'.after.adv \in DOMAIN vuln
    PROVE  PassInv'
<1>1. vuln' = vuln
    BY Zenon DEF server
<1>2. \A m : MarkOK(m)' = MarkOK(m)
    BY Zenon, ServerSame
<1>3. QED
    BY Zenon, <1>1, <1>2 DEF PassInv

\* The cache has its type after the first page of a split advisory.
LEMMA SplitStartTypes ==
    ASSUME TypeOK, NEW a, NEW last, NEW P, SplitStarts(a, last, P)
    PROVE  /\ P \in SUBSET DOMAIN Exported(a, pass.scope) /\ P \in SUBSET Packages /\ last \in Packages
           /\ Restrict(Exported(a, pass.scope), P) \in Copies /\ local[a] \in Copies
           /\ local' \in [Advisories -> Copies]
           /\ local'[a] = Applied(local[a], Restrict(Exported(a, pass.scope), P), vuln[a].withdrawn)
           /\ \A b \in Advisories \ {a} : local'[b] = local[b]
<1>1. a \in Advisories /\ a \in DOMAIN vuln /\ vuln[a].withdrawn \in BOOLEAN
    BY Zenon, CandidatesFacts DEF SplitStarts
<1>2. P \in SUBSET DOMAIN Exported(a, pass.scope) /\ P \in SUBSET Packages /\ last \in Packages
    BY <1>1, ExportedFacts, ZenonT(30) DEF SplitStarts, TypeOK
<1>3. Restrict(Exported(a, pass.scope), P) \in Copies /\ local[a] \in Copies
    BY <1>1, <1>2, ExportedFacts, RestrictFacts, ZenonT(30) DEF TypeOK
<1>4. Applied(local[a], Restrict(Exported(a, pass.scope), P), vuln[a].withdrawn) \in Copies
    BY <1>1, <1>3, AppliedFacts, ZenonT(30)
<1>5. QED
    BY Zenon, <1>1, <1>2, <1>3, <1>4 DEF SplitStarts, TypeOK

\* The first page of a split advisory keeps the invariant.
LEMMA SplitStartKeepsIInv ==
    ASSUME IInv, SplitStart
    PROVE  IInv'
<1>1. TypeOK /\ XIDInv /\ PassInv /\ UNCHANGED <<server, cursor, stops>> /\ pass.pc = "page" /\ pass.since # None
    BY Zenon, SplitStartFacts DEF IInv
<1>2. PICK a, last, P : SplitStarts(a, last, P)
    BY Zenon, <1>1, SplitStartFacts
<1>3. a \in Advisories /\ a \in DOMAIN vuln /\ vuln[a].withdrawn \in BOOLEAN
    BY Zenon, <1>1, <1>2, CandidatesFacts DEF SplitStarts
<1>4. /\ pass' \in Passes /\ pass'.pc = "split" /\ pass'.after = [adv |-> a, pkg |-> last] /\ pass'.received = P
      /\ pass'.scope = pass.scope /\ pass'.since = pass.since /\ pass'.snap = pass.snap /\ pass'.full = pass.full
      /\ pass'.held = pass.held /\ pass'.heldWithdrawn = pass.heldWithdrawn
    <2>1. last \in Packages /\ P \in SUBSET Packages
        BY Zenon, <1>1, <1>2, SplitStartTypes
    <2>2. QED
        BY <1>1, <1>2, <1>3, <2>1, ZenonT(30) DEF SplitStarts, TypeOK, Passes
<1>5. TypeOK'
    BY <1>1, <1>2, <1>4, SplitStartTypes, ZenonT(30) DEF TypeOK, server
<1>6. PassInv'
    <2>1. pass'.after.adv \in DOMAIN vuln
        BY <1>3, <1>4
    <2>2. pass'.held = NoRows /\ ~pass'.heldWithdrawn
        BY Zenon, <1>1, <1>4 DEF PassInv
    <2>3. QED
        BY Zenon, <1>1, <1>4, <2>1, <2>2, PassKept
<1>7. SplitInv'
    <2>1. aff' = aff
        BY Zenon, <1>1 DEF server
    <2>2. \A p \in DOMAIN aff[a] \cap pass.scope : p <= last => p \in P
        BY Zenon, <1>2 DEF SplitStarts
    <2>3. QED
        BY <1>4, <2>1, <2>2 DEF SplitInv
<1>8. QED
    BY Zenon, <1>1, <1>5, <1>6, <1>7, ServerSame DEF IInv

\* The rows a split has left; of an advisory that did not change, all after the position.
LEMMA SplitRowsFacts ==
    ASSUME TypeOK, PassInv, pass.pc = "split"
    PROVE  /\ pass.after.adv \in DOMAIN vuln /\ pass.after.adv \in Advisories
           /\ vuln[pass.after.adv].withdrawn \in BOOLEAN /\ SplitRows \in Copies
           /\ DOMAIN SplitRows \subseteq DOMAIN aff[pass.after.adv] \cap pass.scope
           /\ \A p \in DOMAIN SplitRows : SplitRows[p] = Row(pass.after.adv, p) /\ p > pass.after.pkg
           /\ SplitUnchanged(pass.after.adv) =>
                 DOMAIN SplitRows = {p \in DOMAIN aff[pass.after.adv] \cap pass.scope : p > pass.after.pkg}
<1> DEFINE a == pass.after.adv
           P == {p \in pass.scope : p > pass.after.pkg}
<1>1. a \in DOMAIN vuln /\ a \in Advisories /\ vuln[a].withdrawn \in BOOLEAN /\ MarkOK(pass.snap)
    BY Zenon DEF PassInv, TypeOK, VulnRows
<1>2. /\ Exported(a, P) \in Copies /\ DOMAIN Exported(a, P) = DOMAIN aff[a] \cap P
      /\ \A p \in DOMAIN aff[a] \cap P : Exported(a, P)[p] = Row(a, p)
    BY <1>1, ExportedFacts, ZenonT(30)
<1>3. SplitUnchanged(a) => WithinSnapshot(vuln[a], pass.snap)
    BY Zenon, <1>1, UnchangedWithin DEF RowsOf
<1>4. SplitRows = IF WithinSnapshot(vuln[a], pass.snap) THEN Exported(a, P) ELSE NoRows
    BY Zenon, <1>1 DEF SplitRows
<1>5. QED
    BY <1>1, <1>2, <1>3, <1>4, NoRowsFacts, ZenonT(30)

\* A further page of a split advisory, with the packages P.
SplitContinues(P) ==
    LET a == pass.after.adv
        withdrawn == DOMAIN SplitRows # {} /\ vuln[a].withdrawn
    IN  \E last \in DOMAIN SplitRows :
           /\ P = {p \in DOMAIN SplitRows : p <= last} /\ last \in P
           /\ local' = [local EXCEPT ![a] = Applied(@, Restrict(SplitRows, P), withdrawn)]
           /\ pass' = [pass EXCEPT !.after.pkg = last, !.received = @ \cup P, !.usable = @ /\ ~withdrawn]

\* A further page of a split advisory is the last one, held for the check, or not.
LEMMA SplitPageCases ==
    ASSUME TypeOK, PassInv, SplitPage
    PROVE  /\ pass.pc = "split" /\ UNCHANGED <<server, cursor, stops>>
           /\ LET withdrawn == DOMAIN SplitRows # {} /\ vuln[pass.after.adv].withdrawn
              IN  \/ /\ pass' = [pass EXCEPT !.pc = "check", !.held = SplitRows, !.heldWithdrawn = withdrawn,
                                             !.received = @ \cup DOMAIN SplitRows, !.usable = @ /\ ~withdrawn]
                     /\ UNCHANGED local
                  \/ \E P : SplitContinues(P)
<1>1. pass.pc = "split" /\ UNCHANGED <<server, cursor, stops>>
    BY ZenonT(30) DEF SplitPage
<1>2. \A p \in DOMAIN SplitRows : p <= p
    BY <1>1, SplitRowsFacts, CopyFacts, DeltaSyncAssumption
<1>3. QED
    BY <1>1, <1>2, ZenonT(30) DEF SplitPage, SplitContinues

\* The cache has its type after a further page of a split advisory.
LEMMA SplitContinuesTypes ==
    ASSUME TypeOK, PassInv, pass.pc = "split", NEW P, SplitContinues(P)
    PROVE  LET a == pass.after.adv
               withdrawn == DOMAIN SplitRows # {} /\ vuln[a].withdrawn
           IN  /\ P \in SUBSET DOMAIN SplitRows /\ P \in SUBSET Packages /\ P # {}
               /\ Restrict(SplitRows, P) \in Copies /\ local[a] \in Copies
               /\ local' \in [Advisories -> Copies]
               /\ local'[a] = Applied(local[a], Restrict(SplitRows, P), withdrawn)
               /\ \A b \in Advisories \ {a} : local'[b] = local[b]
<1> DEFINE a == pass.after.adv
           withdrawn == DOMAIN SplitRows # {} /\ vuln[a].withdrawn
<1>1. a \in Advisories /\ withdrawn \in BOOLEAN /\ SplitRows \in Copies /\ local[a] \in Copies
    BY Zenon, SplitRowsFacts DEF TypeOK
<1>2. P \in SUBSET DOMAIN SplitRows /\ P # {} /\ P \in SUBSET Packages
    BY Zenon, <1>1, CopyFacts DEF SplitContinues
<1>3. Restrict(SplitRows, P) \in Copies
    BY Zenon, <1>1, <1>2, RestrictFacts
<1>4. Applied(local[a], Restrict(SplitRows, P), withdrawn) \in Copies
    BY <1>1, <1>3, AppliedFacts, ZenonT(30)
<1>5. QED
    BY <1>1, <1>2, <1>3, <1>4, SMTT(30) DEF SplitContinues, TypeOK

\* A pass that moves on inside a split advisory is a pass.
LEMMA PassMoved ==
    ASSUME NEW r \in Passes, NEW after \in [adv : Advisories \cup {0}, pkg : Packages \cup {0}],
           NEW received \in SUBSET Packages, NEW usable \in BOOLEAN
    PROVE  [r EXCEPT !.after = after, !.received = received, !.usable = usable] \in Passes
BY ZenonT(30) DEF Passes

\* A further page of a split advisory keeps the invariant.
LEMMA SplitPageKeepsIInv ==
    ASSUME IInv, SplitPage
    PROVE  IInv'
<1> DEFINE a == pass.after.adv
           withdrawn == DOMAIN SplitRows # {} /\ vuln[a].withdrawn
<1>1. TypeOK /\ XIDInv /\ PassInv /\ SplitInv /\ UNCHANGED <<server, cursor, stops>> /\ pass.pc = "split"
    BY Zenon, SplitPageCases DEF IInv
<1>2. /\ a \in DOMAIN vuln /\ a \in Advisories /\ withdrawn \in BOOLEAN /\ SplitRows \in Copies
      /\ DOMAIN SplitRows \subseteq Packages
    BY Zenon, <1>1, SplitRowsFacts, CopyFacts
<1>3. /\ UNCHANGED <<vuln, aff>>
      /\ pass.since # None /\ pass.held = NoRows /\ ~pass.heldWithdrawn
    BY Zenon, <1>1 DEF server, PassInv
<1>4. CASE /\ pass' = [pass EXCEPT !.pc = "check", !.held = SplitRows, !.heldWithdrawn = withdrawn,
                                   !.received = @ \cup DOMAIN SplitRows, !.usable = @ /\ ~withdrawn]
           /\ UNCHANGED local
    <2> HIDE DEF withdrawn
    <2>1. /\ pass' \in Passes /\ pass'.pc = "check" /\ pass'.after = pass.after
          /\ pass'.received = pass.received \cup DOMAIN SplitRows
          /\ pass'.scope = pass.scope /\ pass'.since = pass.since /\ pass'.snap = pass.snap /\ pass'.full = pass.full
        BY <1>1, <1>2, <1>4, ZenonT(30) DEF TypeOK, Passes
    <2>2. TypeOK'
        BY Zenon, <1>1, <1>4, <2>1 DEF TypeOK, server
    <2>3. PassInv'
        BY <1>1, <1>2, <2>1, PassKept, ZenonT(30) DEF PassInv
    <2>4. SplitInv'
        <3> SUFFICES ASSUME SplitUnchanged(a), NEW p \in DOMAIN aff[a] \cap pass.scope
                     PROVE  p \in pass.received \cup DOMAIN SplitRows
            BY <1>1, <1>3, <2>1, ServerSame, ZenonT(30) DEF SplitInv
        <3>1. p <= pass.after.pkg \/ p > pass.after.pkg
            BY <1>1, AfterFacts
        <3>2. QED
            BY <1>1, <3>1, SplitRowsFacts, ZenonT(30) DEF SplitInv
    <2>5. QED
        BY <1>1, <2>2, <2>3, <2>4, ServerSame, ZenonT(30) DEF IInv
<1>5. ASSUME NEW P, SplitContinues(P)
      PROVE  IInv'
    <2>1. PICK last \in DOMAIN SplitRows :
             /\ P = {p \in DOMAIN SplitRows : p <= last}
             /\ pass' = [pass EXCEPT !.after.pkg = last, !.received = @ \cup P, !.usable = @ /\ ~withdrawn]
        BY <1>5, ZenonT(30) DEF SplitContinues
    <2> HIDE DEF withdrawn
    <2>2. /\ pass' \in Passes /\ pass'.pc = "split" /\ pass'.after = [adv |-> a, pkg |-> last]
          /\ pass'.received = pass.received \cup P
          /\ pass'.scope = pass.scope /\ pass'.since = pass.since /\ pass'.snap = pass.snap /\ pass'.full = pass.full
          /\ pass'.held = pass.held /\ pass'.heldWithdrawn = pass.heldWithdrawn
        <3>1. last \in Packages /\ P \in SUBSET Packages
            BY Zenon, <1>2, <2>1
        <3>2. /\ pass.after \in [adv : Advisories \cup {0}, pkg : Packages \cup {0}]
              /\ [pass.after EXCEPT !.pkg = last] = [adv |-> a, pkg |-> last]
              /\ [adv |-> a, pkg |-> last] \in [adv : Advisories \cup {0}, pkg : Packages \cup {0}]
            BY <1>1, <1>2, <3>1, SamePass
        <3>3. pass' = [pass EXCEPT !.after = [adv |-> a, pkg |-> last], !.received = @ \cup P, !.usable = @ /\ ~withdrawn]
            BY <1>1, <2>1, <3>2, ZenonT(30) DEF TypeOK, Passes
        <3>4. /\ pass'.pc = "split" /\ pass'.after = [adv |-> a, pkg |-> last]
              /\ pass'.received = pass.received \cup P
              /\ pass'.scope = pass.scope /\ pass'.since = pass.since /\ pass'.snap = pass.snap
              /\ pass'.full = pass.full /\ pass'.held = pass.held /\ pass'.heldWithdrawn = pass.heldWithdrawn
            BY Zenon, <1>1, <3>3 DEF TypeOK, Passes
        <3>5. pass.received \cup P \in SUBSET Packages
            BY Zenon, <1>1, <3>1 DEF TypeOK, Passes
        <3>6. pass' \in Passes
            BY <1>1, <3>2, <3>3, <3>5, PassMoved, ZenonT(30) DEF TypeOK
        <3>7. QED
            BY Zenon, <3>4, <3>6
    <2>3. TypeOK'
        BY <1>1, <1>5, <2>2, SplitContinuesTypes, ZenonT(30) DEF TypeOK, server
    <2>4. PassInv'
        <3>1. pass'.after.adv \in DOMAIN vuln
            BY <1>2, <2>2
        <3>2. QED
            BY Zenon, <1>1, <1>3, <2>2, <3>1, PassKept
    <2>5. SplitInv'
        <3>1. ASSUME SplitUnchanged(a), NEW p \in DOMAIN aff[a] \cap pass.scope, p <= last
              PROVE  p \in pass.received \cup P
            <4>1. p <= pass.after.pkg \/ p > pass.after.pkg
                BY <1>1, AfterFacts
            <4>2. QED
                BY Zenon, <1>1, <2>1, <3>1, <4>1, SplitRowsFacts DEF SplitInv
        <3>2. pass'.after.adv = a /\ pass'.after.pkg = last
            BY <2>2
        <3>3. SplitUnchanged(a)' = SplitUnchanged(a)
            <4>1. \A x : pass'.snap = pass.snap => SplitUnchanged(x)' = SplitUnchanged(x)
                BY Zenon, <1>1, ServerSame
            <4>2. pass'.snap = pass.snap
                BY Zenon, <2>2
            <4>3. QED
                BY <3>2, <4>1, <4>2
        <3>4. QED
            BY Zenon, <1>3, <2>2, <3>1, <3>2, <3>3 DEF SplitInv
    <2>6. XIDInv'
        BY Zenon, <1>1, ServerSame
    <2>7. QED
        BY Zenon, <2>3, <2>4, <2>5, <2>6 DEF IInv
<1>6. QED
    BY Zenon, <1>1, <1>4, <1>5, SplitPageCases

\* The cache of the advisory under split when its last page is applied.
Rest(a) == Applied(local[a], pass.held, pass.heldWithdrawn)

\* What the completeness check leaves.
LEMMA SplitEndFacts ==
    ASSUME TypeOK, PassInv, SplitEnd
    PROVE  LET a == pass.after.adv
           IN  /\ pass.pc = "check" /\ UNCHANGED <<server, cursor, stops>>
               /\ a \in Advisories /\ a \in DOMAIN vuln /\ local[a] \in Copies /\ pass.held \in Copies
               /\ pass.heldWithdrawn \in BOOLEAN /\ Rest(a) \in Copies
               /\ local' \in [Advisories -> Copies]
               /\ local'[a] = IF pass.usable /\ SplitUnchanged(a) THEN Kept(Rest(a), pass.received) ELSE Rest(a)
               /\ \A b \in Advisories \ {a} : local'[b] = local[b]
               /\ pass' \in Passes /\ pass'.pc = "page" /\ pass'.after = [adv |-> a, pkg |-> 0]
               /\ pass'.held = NoRows /\ ~pass'.heldWithdrawn
               /\ pass'.scope = pass.scope /\ pass'.since = pass.since /\ pass'.snap = pass.snap
               /\ pass'.full = pass.full
<1> DEFINE a == pass.after.adv
           rows == IF pass.usable /\ SplitUnchanged(a) THEN Kept(Rest(a), pass.received) ELSE Rest(a)
<1>1. pass.pc = "check" /\ UNCHANGED <<server, cursor, stops>>
    BY Zenon DEF SplitEnd
<1>2. /\ a \in Advisories /\ a \in DOMAIN vuln /\ local[a] \in Copies /\ pass.held \in Copies
      /\ pass.heldWithdrawn \in BOOLEAN
    BY <1>1, ZenonT(30) DEF PassInv, TypeOK, Passes
<1>3. Rest(a) \in Copies
    BY Zenon, <1>2, AppliedFacts DEF Rest
<1>4. rows \in Copies
    BY <1>3, KeptFacts, ZenonT(30)
<1>5. local' = [local EXCEPT ![a] = rows]
    BY Zenon DEF SplitEnd, Rest
<1>6. /\ local' \in [Advisories -> Copies] /\ local'[a] = rows
      /\ \A b \in Advisories \ {a} : local'[b] = local[b]
    <2> HIDE DEF rows
    <2> QED BY Zenon, <1>2, <1>4, <1>5 DEF TypeOK
<1>7. /\ pass.after \in [adv : Advisories \cup {0}, pkg : Packages \cup {0}]
      /\ [pass.after EXCEPT !.pkg = 0] = [adv |-> a, pkg |-> 0]
      /\ [adv |-> a, pkg |-> 0] \in [adv : Advisories \cup {0}, pkg : Packages \cup {0}]
    BY <1>2, SamePass
<1>8. pass' = [pass EXCEPT !.pc = "page", !.after = [adv |-> a, pkg |-> 0], !.received = {}, !.usable = FALSE,
                           !.held = NoRows, !.heldWithdrawn = FALSE]
    BY <1>7, ZenonT(30) DEF SplitEnd, TypeOK, Passes
<1>9. /\ pass' \in Passes /\ pass'.pc = "page" /\ pass'.after = [adv |-> a, pkg |-> 0]
      /\ pass'.held = NoRows /\ ~pass'.heldWithdrawn
      /\ pass'.scope = pass.scope /\ pass'.since = pass.since /\ pass'.snap = pass.snap
      /\ pass'.full = pass.full
    BY <1>7, <1>8, NoRowsFacts, ZenonT(30) DEF TypeOK, Passes
<1>10. QED
    BY <1>1, <1>2, <1>3, <1>6, <1>9, ZenonT(30)

\* The end of a split keeps the invariant.
LEMMA SplitEndKeepsIInv ==
    ASSUME IInv, SplitEnd
    PROVE  IInv'
<1>1. TypeOK /\ XIDInv /\ PassInv /\ UNCHANGED <<server, cursor, stops>> /\ pass.pc = "check"
    BY Zenon, SplitEndFacts DEF IInv
<1>2. TypeOK'
    <2>1. local' \in [Advisories -> Copies] /\ pass' \in Passes
        BY Zenon, <1>1, SplitEndFacts
    <2>2. QED
        BY Zenon, <1>1, <2>1 DEF TypeOK, server
<1>3. PassInv'
    BY <1>1, SplitEndFacts, ServerSame, ZenonT(30) DEF PassInv
<1>4. SplitInv'
    BY <1>1, SplitEndFacts, ZenonT(30) DEF SplitInv
<1>5. QED
    BY Zenon, <1>1, <1>2, <1>3, <1>4, ServerSame DEF IInv

\* The steps that take or give back the sync lock.
LEMMA IdleKeepsIInv ==
    ASSUME IInv, UNCHANGED <<server, local>>, pass' = Idle, stops' \in 0..MaxStops,
           cursor' = cursor \/ (pass.pc # "idle" /\ cursor' = pass.snap)
    PROVE  IInv'
<1>1. TypeOK /\ XIDInv /\ PassInv /\ (pass.pc # "idle" => pass.snap \in Stamps /\ MarkOK(pass.snap))
    BY Zenon DEF IInv, PassInv, MarkOK
<1>2. TypeOK'
    BY <1>1, IdleFacts, ZenonT(30) DEF TypeOK, server
<1>3. PassInv'
    BY <1>1, ServerSame, ZenonT(30) DEF PassInv, Idle, server
<1>4. SplitInv'
    BY ZenonT(30) DEF SplitInv, Idle
<1>5. QED
    BY <1>1, <1>2, <1>3, <1>4, ServerSame, ZenonT(30) DEF IInv

\* A new pass.
LEMMA BeginSyncFacts ==
    ASSUME IInv, NEW full \in Modes, NEW scope \in Scopes, BeginSync(full, scope)
    PROVE  /\ pass = Idle /\ UNCHANGED <<server, local, cursor, stops>> /\ (full => scope = Packages)
           /\ pass' \in Passes /\ pass'.pc = "page" /\ pass'.full = full /\ pass'.scope = scope
           /\ pass'.since = IF full THEN None ELSE cursor
           /\ pass'.snap \in Stamps /\ MarkOK(pass'.snap) /\ pass'.after = Start
           /\ pass'.held = NoRows /\ ~pass'.heldWithdrawn
<1>1. TypeOK /\ XIDInv
    BY Zenon DEF IInv
<1>2. cursor \in Stamps \cup {None} /\ full \in BOOLEAN /\ scope \in SUBSET Packages
    BY <1>1, DeltaSyncAssumption, ZenonT(30) DEF TypeOK
<1>3. PICK snap \in Stamps :
         /\ ResolveSnapshot(snap)
         /\ pass' = [Idle EXCEPT !.pc = "page", !.full = full, !.scope = scope,
                                 !.since = IF full THEN None ELSE cursor, !.snap = snap]
    BY ZenonT(30) DEF BeginSync
<1>4. /\ pass' \in Passes /\ pass'.pc = "page" /\ pass'.full = full /\ pass'.scope = scope
      /\ pass'.since = IF full THEN None ELSE cursor
      /\ pass'.snap = snap
    BY <1>2, <1>3, IdleFacts, ZenonT(30) DEF Passes
<1>5. pass'.after = Start /\ pass'.held = NoRows /\ ~pass'.heldWithdrawn
    BY Zenon, <1>3 DEF Idle
<1>6. QED
    BY Zenon, <1>1, <1>3, <1>4, <1>5, SnapshotOK DEF BeginSync

\* A new pass starts with a watermark no running transaction is older than.
LEMMA BeginSyncKeepsIInv ==
    ASSUME IInv, NEW full \in Modes, NEW scope \in Scopes, BeginSync(full, scope)
    PROVE  IInv'
<1>1. TypeOK /\ XIDInv /\ PassInv
    BY Zenon DEF IInv
<1>2. TypeOK'
    BY Zenon, <1>1, BeginSyncFacts DEF TypeOK, server
<1>3. PassInv'
    <2>1. MarkOK(pass.snap)' /\ (cursor' # None => MarkOK(cursor)')
        BY <1>1, BeginSyncFacts, ServerSame, ZenonT(30) DEF PassInv
    <2>2. QED
        BY <2>1, BeginSyncFacts, ServerSame, ZenonT(30) DEF PassInv
<1>4. SplitInv'
    BY Zenon, BeginSyncFacts DEF SplitInv
<1>5. QED
    BY <1>1, <1>2, <1>3, <1>4, BeginSyncFacts, ServerSame, ZenonT(30) DEF IInv

\* Pages and interruptions keep the invariant.
LEMMA PageKeepsIInv ==
    ASSUME IInv, Page \/ Stop
    PROVE  IInv'
<1>1. TypeOK
    BY Zenon DEF IInv
<1>2. CASE LastPage
    <2>1. stops \in 0..MaxStops /\ (stops' = stops \/ (stops < MaxStops /\ stops' = stops + 1))
        BY Zenon, <1>1, <1>2 DEF LastPage, Finish, MayStop, TypeOK
    <2>2. stops' \in 0..MaxStops
        BY <2>1, DeltaSyncAssumption
    <2>3. QED
        BY Zenon, <1>2, <2>2, IdleKeepsIInv DEF LastPage, Finish
<1>3. CASE Stop
    <2>1. stops \in 0..MaxStops /\ (stops' = stops \/ (stops < MaxStops /\ stops' = stops + 1))
        BY Zenon, <1>1, <1>3 DEF Stop, MayStop, TypeOK
    <2>2. stops' \in 0..MaxStops
        BY <2>1, DeltaSyncAssumption
    <2>3. QED
        BY Zenon, <1>3, <2>2, IdleKeepsIInv DEF Stop
<1>4. QED
    BY Zenon, <1>2, <1>3, FullPageKeepsIInv, DeltaPageKeepsIInv, SplitStartKeepsIInv, SplitPageKeepsIInv,
       SplitEndKeepsIInv DEF Page

\* The invariant is about the variables of the specification.
LEMMA StutterKeepsIInv ==
    ASSUME IInv, UNCHANGED vars
    PROVE  IInv'
<1>1. UNCHANGED <<clock, nextXID, tx, vuln, aff, local, cursor, pass, stops>>
    BY Zenon DEF vars
<1>2. UNCHANGED server
    BY Zenon, <1>1 DEF server
<1>3. TypeOK' /\ XIDInv' /\ PassInv' /\ SplitInv'
    BY <1>1, <1>2, ServerSame, ZenonT(30) DEF IInv, TypeOK, PassInv, SplitInv
<1>4. QED
    BY Zenon, <1>3 DEF IInv

\* An empty cache and a quiet server satisfy the invariant.
LEMMA InitIInv == Init => IInv
<1> SUFFICES ASSUME Init PROVE IInv
    OBVIOUS
<1>1. PICK known \in SUBSET Advisories :
         /\ vuln = [a \in known |-> [at |-> 0, xid |-> 1, withdrawn |-> FALSE]]
         /\ aff = [a \in Advisories |-> [p \in IF a \in known THEN Packages ELSE {} |-> [at |-> 0, xid |-> 1]]]
    BY Zenon DEF Init
<1>2. /\ clock = 0 /\ nextXID = FirstXID /\ tx = [w \in Writers |-> Closed]
      /\ local = [a \in Advisories |-> NoRows] /\ cursor = None /\ pass = Idle /\ stops = 0
    BY Zenon DEF Init
<1>3. /\ DOMAIN vuln \subseteq Advisories /\ \A a \in DOMAIN vuln : vuln[a] \in VulnRows /\ vuln[a].xid = 1
      /\ DOMAIN aff = Advisories
      /\ \A a \in Advisories : DOMAIN aff[a] \subseteq Packages /\ (a \notin DOMAIN vuln => DOMAIN aff[a] = {})
      /\ \A a \in Advisories : \A p \in DOMAIN aff[a] : aff[a][p] \in AffRows /\ aff[a][p].xid = 1
    BY <1>1, DeltaSyncAssumption DEF VulnRows, AffRows
<1>4. \A w \in Writers : tx[w] \in [at : 0..MaxClock, xid : 0..MaxXID, open : BOOLEAN] /\ tx[w].xid = 0
    BY <1>2, DeltaSyncAssumption, SMTT(30) DEF Closed
<1>5. TypeOK
    <2>1. clock \in 0..MaxClock /\ nextXID \in FirstXID..(MaxXID + 1) /\ stops \in 0..MaxStops
        BY <1>2, DeltaSyncAssumption
    <2>2. tx \in [Writers -> [at : 0..MaxClock, xid : 0..MaxXID, open : BOOLEAN]]
        BY Zenon, <1>2, <1>4
    <2>3. local \in [Advisories -> Copies] /\ pass \in Passes /\ cursor \in Stamps \cup {None}
        BY Zenon, <1>2, IdleFacts, NoRowsFacts
    <2>4. QED
        BY <1>3, <2>1, <2>2, <2>3, ZenonT(30) DEF TypeOK
<1>6. XIDInv
    <2>1. \A a \in DOMAIN vuln : \A row \in RowsOf(a) : row.xid = 1
        BY <1>3 DEF RowsOf, Range
    <2>2. QED
        BY <1>2, <1>3, <1>4, <2>1, DeltaSyncAssumption DEF XIDInv
<1>7. PassInv /\ SplitInv
    BY <1>2, ZenonT(30) DEF PassInv, SplitInv, Idle
<1>8. QED
    BY Zenon, <1>5, <1>6, <1>7 DEF IInv

\* The invariant is inductive.
LEMMA NextKeepsIInv == IInv /\ [Next]_vars => IInv'
<1> SUFFICES ASSUME IInv, [Next]_vars PROVE IInv'
    OBVIOUS
<1>1. TypeOK /\ XIDInv
    BY Zenon DEF IInv
<1>2. CASE Tick
    BY Zenon, <1>1, <1>2, TickStep, ServerKeepsIInv
<1>3. ASSUME NEW w \in Writers, Write(w) PROVE IInv'
    BY Zenon, <1>1, <1>3, WriteStep, ServerKeepsIInv
<1>4. QED
    BY Zenon, <1>2, <1>3, BeginSyncKeepsIInv, PageKeepsIInv, StutterKeepsIInv DEF Next

\* The cache, the watermarks and the position of a pass have their types throughout
\* (Sync of internal/db/sqlite/sync.go, the export of internal/db/postgres/sync.go).
THEOREM TypeCorrect == Spec => []TypeOK
<1>1. IInv => TypeOK
    BY Zenon DEF IInv
<1>2. QED
    BY <1>1, InitIInv, NextKeepsIInv, PTL DEF Spec

\* A row that is not kept is in the scope of the pass and was not received.
LEMMA KeptDrops ==
    ASSUME NEW f \in Copies, NEW R, NEW p \in DOMAIN f, p \notin DOMAIN Kept(f, R)
    PROVE  p \notin R /\ p \in pass.scope
<1>1. p \in Packages
    BY Zenon, CopyFacts
<1>2. p \notin DOMAIN f \cap (R \cup (Packages \ pass.scope))
    BY Zenon DEF Kept
<1>3. QED
    BY Zenon, <1>1, <1>2

\* Per action: a row that goes from the cache is not listed by the server.
LEMMA DropsSafely ==
    ASSUME IInv, [Next]_vars, NEW a \in Advisories, NEW p \in DOMAIN local[a] \ DOMAIN local'[a],
           ~pass.full, ~pass.heldWithdrawn
    PROVE  p \notin DOMAIN ServerRows(a)
<1>1. TypeOK /\ XIDInv /\ PassInv /\ SplitInv /\ local[a] \in Copies /\ p \in Packages
    BY Zenon, CopyFacts DEF IInv, TypeOK
<1>2. ASSUME a \in DOMAIN vuln, NEW rows \in Copies, NEW withdrawn \in BOOLEAN, withdrawn => vuln[a].withdrawn,
             p \notin DOMAIN Applied(local[a], rows, withdrawn)
      PROVE  p \notin DOMAIN ServerRows(a)
    <2>1. CASE withdrawn
        BY Zenon, <1>1, <1>2, <2>1, ServerRowsFacts, NoRowsFacts
    <2>2. CASE ~withdrawn
        <3>1. Applied(local[a], rows, withdrawn) = Overlay(rows, local[a])
            BY Zenon, <1>1, <1>2, <2>2, AppliedFacts
        <3>2. DOMAIN Overlay(rows, local[a]) = DOMAIN rows \cup DOMAIN local[a]
            BY <1>1, <1>2, OverlayFacts, ZenonT(30)
        <3>3. QED
            BY <1>2, <3>1, <3>2, ZenonT(30)
    <2>3. QED
        BY <1>2, <2>1, <2>2, ZenonT(30)
<1>3. CASE FullPage
    <2>1. PICK page : FullApply(page)
        BY <1>3, FullPageCases, ZenonT(30)
    <2>2. /\ PageRows(page, a) \in Copies /\ Base(a) = local[a]
          /\ local'[a] = Applied(local[a], PageRows(page, a), a \in DOMAIN vuln /\ vuln[a].withdrawn)
        <3>1. Base(a) = local[a]
            BY Zenon DEF Base
        <3>2. /\ PageRows(page, a) \in Copies
              /\ local'[a] = Applied(Base(a), PageRows(page, a), a \in DOMAIN vuln /\ vuln[a].withdrawn)
            BY Zenon, <1>1, <2>1, FullApplyFacts
        <3>3. QED
            BY Zenon, <3>1, <3>2
    <2>3. CASE a \in DOMAIN vuln
        BY Zenon, <1>1, <1>2, <2>2, <2>3 DEF TypeOK, VulnRows
    <2>4. CASE a \notin DOMAIN vuln
        BY <1>1, <2>4, ServerRowsFacts, NoRowsFacts, ZenonT(30)
    <2>5. QED
        BY Zenon, <2>3, <2>4
<1>4. CASE DeltaPage
    <2>1. a \in Candidates /\ local'[a] = Replaced(a)
        BY <1>4, DeltaPageCases, ZenonT(30)
    <2>2. a \in DOMAIN vuln /\ vuln[a].withdrawn \in BOOLEAN
        BY Zenon, <1>1, <2>1, CandidatesFacts
    <2>3. Exported(a, pass.scope) \in Copies /\ DOMAIN Exported(a, pass.scope) = DOMAIN aff[a] \cap pass.scope
        BY <1>1, <2>2, ExportedFacts, ZenonT(30)
    <2>4. CASE p \in DOMAIN Applied(local[a], Exported(a, pass.scope), vuln[a].withdrawn)
        <3>1. p \notin DOMAIN aff[a]
            <4> DEFINE X == Applied(local[a], Exported(a, pass.scope), vuln[a].withdrawn)
                       R == DOMAIN Exported(a, pass.scope)
            <4>1. X \in Copies /\ Replaced(a) = Kept(X, R)
                BY <1>1, <2>1, ReplacedFacts, ZenonT(30) DEF Replaced
            <4> HIDE DEF X
            <4>2. p \notin R /\ p \in pass.scope
                BY <2>1, <2>4, <4>1, KeptDrops, SMTT(30) DEF X
            <4>3. QED
                BY Zenon, <2>3, <4>2
        <3>2. QED
            BY Zenon, <1>1, <2>2, <3>1, ServerRowsFacts, NoRowsFacts
    <2>5. CASE p \notin DOMAIN Applied(local[a], Exported(a, pass.scope), vuln[a].withdrawn)
        BY Zenon, <1>2, <2>2, <2>3, <2>5
    <2>6. QED
        BY <2>4, <2>5, ZenonT(30)
<1>5. CASE SplitStart
    <2>1. PICK b, last, P : SplitStarts(b, last, P)
        BY Zenon, <1>1, <1>5, SplitStartFacts
    <2>2. a = b
        <3>1. \A c \in Advisories \ {b} : local'[c] = local[c]
            BY Zenon, <1>1, <2>1, SplitStartTypes
        <3>2. QED
            BY Zenon, <3>1
    <2>3. a \in DOMAIN vuln /\ vuln[a].withdrawn \in BOOLEAN
        BY Zenon, <1>1, <2>1, <2>2, CandidatesFacts DEF SplitStarts
    <2>4. QED
        BY <1>1, <1>2, <2>1, <2>2, <2>3, SplitStartTypes, ZenonT(30)
<1>6. CASE SplitPage
    <2>1. pass.pc = "split" /\ \E P : SplitContinues(P)
        BY Zenon, <1>1, <1>6, SplitPageCases
    <2>2. PICK P : SplitContinues(P)
        BY Zenon, <2>1
    <2>3. a = pass.after.adv
        BY Zenon, <1>1, <2>1, <2>2, SplitContinuesTypes
    <2>4. a \in DOMAIN vuln /\ (DOMAIN SplitRows # {} /\ vuln[a].withdrawn) \in BOOLEAN
        BY Zenon, <1>1, <2>1, <2>3, SplitRowsFacts
    <2>5. QED
        BY <1>1, <1>2, <2>1, <2>2, <2>3, <2>4, SplitContinuesTypes, ZenonT(30)
<1>7. CASE SplitEnd
    <2>1. /\ a = pass.after.adv /\ pass.pc = "check" /\ a \in DOMAIN vuln /\ pass.held \in Copies /\ Rest(a) \in Copies
          /\ pass.heldWithdrawn \in BOOLEAN
          /\ local'[a] = IF pass.usable /\ SplitUnchanged(a) THEN Kept(Rest(a), pass.received) ELSE Rest(a)
        BY <1>1, <1>7, SplitEndFacts, ZenonT(30)
    <2>2. CASE p \notin DOMAIN Rest(a)
        BY <1>2, <2>1, <2>2, ZenonT(30) DEF Rest
    <2>3. CASE p \in DOMAIN Rest(a)
        <3>1. SplitUnchanged(a) /\ p \notin DOMAIN Kept(Rest(a), pass.received)
            BY Zenon, <2>1, <2>3
        <3>2. p \notin pass.received /\ p \in pass.scope
            BY Zenon, <2>1, <2>3, <3>1, KeptDrops
        <3>3. p \notin DOMAIN aff[a]
            BY Zenon, <1>1, <2>1, <3>1, <3>2 DEF SplitInv
        <3>4. QED
            BY <1>1, <2>1, <3>3, ServerRowsFacts, NoRowsFacts, ZenonT(30)
    <2>4. QED
        BY Zenon, <2>2, <2>3
<1>8. CASE local' = local
    BY Zenon, <1>8
<1>9. CASE Tick \/ \E w \in Writers : Write(w)
    BY Zenon, <1>1, <1>8, <1>9, TickStep, WriteStep DEF ServerStep, client
<1>10. QED
    BY <1>3, <1>4, <1>5, <1>6, <1>7, <1>8, <1>9, ZenonT(30) DEF Next, Page, LastPage, Stop, BeginSync, vars

\* An incremental sync removes a cached row only if the server does not list it any more when the
\* page is applied (replaceSyncAffectedPackages, syncSplitAdvisoryUnchanged), whatever the writers do
\* between two pages, however pages are cut and whatever filter the client uses.
THEOREM OnlyDelistedDropped == Spec => DropsOnlyDelisted
<1> DEFINE Drops == \A a \in Advisories : \A p \in DOMAIN local[a] \ DOMAIN local'[a] :
                        pass.full \/ p \notin DOMAIN ServerRows(a) \/ pass.heldWithdrawn
<1>1. IInv /\ [Next]_vars => [Drops]_vars
    BY Zenon, DropsSafely
<1>2. QED
    BY <1>1, InitIInv, NextKeepsIInv, PTL DEF Spec, DropsOnlyDelisted
==============================================================================
