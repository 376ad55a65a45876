------------------------ MODULE DeltaSyncCoverProofs -------------------------
(***************************************************************************)
(* Without filters the window of the next delta covers every difference    *)
(* between the cache and the server (UnfilteredSyncCovers), by the         *)
(* invariant IInv of DeltaSyncProofs and CoverInv, which says what the     *)
(* cache holds of every advisory in the middle of a pass.                  *)
(***************************************************************************)
EXTENDS DeltaSyncProofs

\* No ecosystem filter is in use, and a pass without a since window is not interrupted half way
\* (what such an interruption does is the finding of the run delta_sync_full_stop).
Unfiltered == Scopes \subseteq {Packages} /\ ~InterruptFull

Same(a) == local[a] = ServerRows(a)

\* A pass without a since window has applied a page.
Reloading == pass.pc # "idle" /\ pass.since = None /\ (pass.pc = "page" => pass.after # Start)

\* The packages whose rows of a the pass has been past, and what the cache has of a then.
Passed(a) == {p \in Packages : p < pass.after.pkg \/ (p = pass.after.pkg /\ a <= pass.after.adv)}
Reloaded(a) == IF vuln[a].withdrawn THEN NoRows ELSE Exported(a, Passed(a))

\* A delta has handled the advisory a.
Handled(a) ==
    pass.pc = "others" \/ a < pass.after.adv \/ (a = pass.after.adv /\ pass.pc = "page")

\* What the cache has of an advisory under split that did not change.
SplitCover(a) ==
    IF vuln[a].withdrawn
    THEN local[a] = NoRows /\ (DOMAIN pass.held = {} \/ pass.heldWithdrawn)
    ELSE /\ pass.usable /\ ~pass.heldWithdrawn
         /\ pass.received \subseteq DOMAIN aff[a] /\ DOMAIN pass.held \subseteq pass.received
         /\ \A p \in DOMAIN pass.held : pass.held[p] = Row(a, p)
         /\ \A p \in pass.received \ DOMAIN pass.held : p \in DOMAIN local[a] /\ local[a][p] = Row(a, p)

CoverInv ==
    /\ pass.pc # "idle" => pass.scope = Packages
    /\ \A a \in Advisories \ DOMAIN vuln : local[a] = NoRows
    /\ ~Reloading =>
         \A a \in Advisories : IF cursor = None THEN local[a] = NoRows ELSE Same(a) \/ InWindow(a, cursor)
    /\ Reloading /\ pass.pc = "page" => \A a \in Advisories : SplitUnchanged(a) => local[a] = Reloaded(a)
    /\ pass.pc # "idle" /\ (pass.since # None \/ pass.pc = "others") =>
         \A a \in Advisories : SplitUnchanged(a) /\ Handled(a) => Same(a)
    /\ pass.pc \in {"split", "check"} =>
         /\ InWindow(pass.after.adv, cursor)
         /\ SplitUnchanged(pass.after.adv) => SplitCover(pass.after.adv)

\* No writer makes a difference the next window misses.
LEMMA ServerKeepsCover ==
    ASSUME IInv, CoverInv, ServerStep
    PROVE  CoverInv'
<1>1. TypeOK /\ XIDInv /\ PassInv /\ UNCHANGED <<local, cursor, pass>> /\ DOMAIN vuln \subseteq DOMAIN vuln'
    BY Zenon DEF IInv, ServerStep, client
<1>2. ASSUME NEW a \in Advisories, RowsKept(a)
      PROVE  /\ Same(a)' = Same(a) /\ (a \in DOMAIN vuln => Reloaded(a)' = Reloaded(a))
             /\ a \in DOMAIN vuln => SplitCover(a)' = SplitCover(a)
    <2>1. ServerRows(a)' = ServerRows(a)
        BY Zenon, <1>2 DEF RowsKept, ServerRows, Exported
    <2>2. a \in DOMAIN vuln => Reloaded(a)' = Reloaded(a)
        BY Zenon, <1>1, <1>2 DEF RowsKept, Reloaded, Exported, Passed
    <2>3. a \in DOMAIN vuln => SplitCover(a)' = SplitCover(a)
        BY <1>1, <1>2, ZenonT(30) DEF RowsKept, SplitCover, Row
    <2>4. QED
        BY Zenon, <1>1, <2>1, <2>2, <2>3 DEF Same
<1>3. ASSUME NEW a \in Advisories, pass.pc # "idle", SplitUnchanged(a)'
      PROVE  RowsKept(a) /\ SplitUnchanged(a) /\ a \in DOMAIN vuln
    BY Zenon, <1>1, <1>3, UnchangedKept DEF PassInv, MarkOK
<1>4. ASSUME NEW a \in Advisories, cursor # None
      PROVE  (Same(a) => Same(a)' \/ InWindow(a, cursor)') /\ (InWindow(a, cursor) => InWindow(a, cursor)')
    <2>1. cursor \in Stamps /\ MarkOK(cursor)
        BY Zenon, <1>1, <1>4 DEF PassInv, MarkOK
    <2>2. InWindow(a, cursor) => InWindow(a, cursor)'
        BY Zenon, <1>1, <2>1, WindowKept DEF InWindow
    <2>3. Written(a) => InWindow(a, cursor)'
        BY Zenon, <1>1, <2>1, WindowKept DEF InWindow, ChangedSince, Written
    <2>4. QED
        BY Zenon, <1>2, <2>2, <2>3 DEF ServerStep
<1>5. Reloading' = Reloading /\ \A a : Handled(a)' = Handled(a)
    BY Zenon, <1>1 DEF Reloading, Handled
<1>6. pass'.pc # "idle" => pass'.scope = Packages
    BY Zenon, <1>1 DEF CoverInv
<1>7. \A a \in Advisories \ DOMAIN vuln' : local'[a] = NoRows
    BY Zenon, <1>1 DEF CoverInv
<1>8. ~Reloading' =>
         \A a \in Advisories : IF cursor' = None THEN local'[a] = NoRows ELSE Same(a)' \/ InWindow(a, cursor)'
    BY Zenon, <1>1, <1>4, <1>5 DEF CoverInv
<1>9. Reloading' /\ pass'.pc = "page" => \A a \in Advisories : SplitUnchanged(a)' => local'[a] = Reloaded(a)'
    BY Zenon, <1>1, <1>2, <1>3, <1>5 DEF CoverInv
<1>10. pass'.pc # "idle" /\ (pass'.since # None \/ pass'.pc = "others") =>
         \A a \in Advisories : SplitUnchanged(a)' /\ Handled(a)' => Same(a)'
    BY Zenon, <1>1, <1>2, <1>3, <1>5 DEF CoverInv
<1>11. pass'.pc \in {"split", "check"} =>
         /\ InWindow(pass.after.adv, cursor)'
         /\ SplitUnchanged(pass.after.adv)' => SplitCover(pass.after.adv)'
    <2> SUFFICES ASSUME pass.pc \in {"split", "check"}
                 PROVE  /\ InWindow(pass.after.adv, cursor)'
                        /\ SplitUnchanged(pass.after.adv)' => SplitCover(pass.after.adv)'
        BY Zenon, <1>1
    <2>1. pass.after.adv \in Advisories /\ cursor # None /\ pass'.after.adv = pass.after.adv
        BY Zenon, <1>1 DEF PassInv, TypeOK
    <2>2. InWindow(pass.after.adv, cursor)'
        BY Zenon, <1>1, <1>4, <2>1 DEF CoverInv
    <2>3. SplitUnchanged(pass.after.adv)' => SplitCover(pass.after.adv)'
        BY Zenon, <1>1, <1>2, <1>3, <2>1 DEF CoverInv
    <2>4. QED
        BY Zenon, <2>2, <2>3
<1>12. QED
    BY Zenon, <1>6, <1>7, <1>8, <1>9, <1>10, <1>11 DEF CoverInv

-----------------------------------------------------------------------------

\* Every advisory that changed since the snapshot of the pass is selected by the next window.
LEMMA FinishCovers ==
    ASSUME IInv, pass.pc # "idle", NEW a \in Advisories, ~SplitUnchanged(a), a \in DOMAIN vuln
    PROVE  InWindow(a, pass.snap)
<1>1. TypeOK /\ pass.snap \in Stamps
    BY Zenon DEF IInv, PassInv, MarkOK
<1>2. PICK row \in RowsOf(a) : ~(row.at <= pass.snap.at) \/ XIDAtOrAfter(Xmin(row), pass.snap.xid, nextXID)
    BY Zenon DEF SplitUnchanged
<1>3. row.at \in Int /\ pass.snap.at \in Int
    BY <1>1, RowFacts DEF Stamps
<1>4. QED
    BY <1>2, <1>3 DEF InWindow, ChangedSince

\* The last page of a pass: what did not change agrees, so the new watermark covers the rest.
LEMMA FinishKeepsCover ==
    ASSUME Unfiltered, IInv, CoverInv, UNCHANGED server, pass.pc # "idle", Finish,
           pass.since # None => \A a \in Advisories : local'[a] = ServerRows(a) \/ local'[a] = local[a] \/ InWindow(a, cursor),
           \A a \in Advisories : SplitUnchanged(a) => local'[a] = ServerRows(a),
           \A a \in Advisories \ DOMAIN vuln : local'[a] = NoRows
    PROVE  CoverInv'
<1>1. TypeOK /\ PassInv /\ pass' = Idle /\ pass'.pc = "idle" /\ pass.snap \in Stamps /\ pass.snap # None
    BY Zenon, NoneAssumption DEF IInv, PassInv, MarkOK, Finish, Idle
<1>2. DOMAIN vuln' = DOMAIN vuln
    BY Zenon DEF server
<1>3. \A a \in Advisories : Same(a)' = (local'[a] = ServerRows(a))
    BY Zenon, ServerSame DEF Same
<1>4. CASE cursor' = pass.snap
    <2>1. \A a \in Advisories : local'[a] = ServerRows(a) \/ InWindow(a, pass.snap)
        BY Zenon, <1>1, FinishCovers, ServerRowsFacts
    <2>2. \A a \in Advisories : Same(a)' \/ InWindow(a, cursor)'
        BY <1>3, <1>4, <2>1, ServerSame, ZenonT(30)
    <2>3. QED
        BY Zenon, <1>1, <1>2, <1>4, <2>2 DEF CoverInv, Idle
<1>5. CASE MayStop /\ cursor' = cursor
    <2>1. pass.since # None /\ cursor # None /\ ~Reloading
        BY Zenon, <1>1, <1>5 DEF MayStop, Unfiltered, PassInv, Reloading
    <2>2. \A a \in Advisories : local'[a] = ServerRows(a) \/ InWindow(a, cursor)
        BY Zenon, <2>1 DEF CoverInv, Same
    <2>3. \A a \in Advisories : Same(a)' \/ InWindow(a, cursor)'
        BY <1>3, <1>5, <2>2, ServerSame, ZenonT(30)
    <2>4. QED
        BY Zenon, <1>1, <1>2, <1>5, <2>1, <2>3 DEF CoverInv, Idle
<1>6. QED
    BY Zenon, <1>4, <1>5 DEF Finish

\* The final page, when it carries other datasets only.
LEMMA LastPageKeepsCover ==
    ASSUME Unfiltered, IInv, CoverInv, LastPage
    PROVE  CoverInv'
<1>1. pass.pc = "others" /\ Finish /\ UNCHANGED server /\ local' = local
    BY Zenon DEF LastPage
<1>2. \A a \in Advisories : SplitUnchanged(a) => local'[a] = ServerRows(a)
    BY Zenon, <1>1 DEF CoverInv, Handled, Same
<1>3. QED
    BY Zenon, <1>1, <1>2, FinishKeepsCover DEF CoverInv

\* An interrupted pass keeps the old watermark.
LEMMA StopKeepsCover ==
    ASSUME Unfiltered, IInv, CoverInv, Stop
    PROVE  CoverInv'
<1>1. TypeOK /\ PassInv /\ pass' = Idle /\ pass'.pc = "idle" /\ UNCHANGED <<server, local, cursor>> /\ DOMAIN vuln' = DOMAIN vuln
    BY Zenon DEF IInv, Stop, Idle, server
<1>2. ~Reloading
    BY Zenon DEF Stop, MayStop, Unfiltered, Reloading
<1>3. \A a : Same(a)' = Same(a) /\ InWindow(a, cursor)' = InWindow(a, cursor)
    BY Zenon, <1>1, ServerSame DEF Same
<1>4. QED
    BY Zenon, <1>1, <1>2, <1>3 DEF CoverInv, Idle

\* A new pass has handled nothing.
LEMMA BeginSyncKeepsCover ==
    ASSUME Unfiltered, IInv, CoverInv, NEW full \in Modes, NEW scope \in Scopes, BeginSync(full, scope)
    PROVE  CoverInv'
<1>1. /\ pass = Idle /\ UNCHANGED <<server, local, cursor>> /\ DOMAIN vuln' = DOMAIN vuln
      /\ pass'.pc = "page" /\ pass'.scope = Packages /\ pass'.after = Start
    BY Zenon, BeginSyncFacts DEF server, Unfiltered
<1>2. ~Reloading /\ ~Reloading'
    BY Zenon, <1>1 DEF Reloading, Idle
<1>3. \A a : Same(a)' = Same(a) /\ InWindow(a, cursor)' = InWindow(a, cursor)
    BY Zenon, <1>1, ServerSame DEF Same
<1>4. \A a \in Advisories : ~Handled(a)'
    BY <1>1, DeltaSyncAssumption DEF Handled, Start
<1>5. QED
    BY Zenon, <1>1, <1>2, <1>3, <1>4 DEF CoverInv

\* A pass that goes on: its position moves to after, with the next page or with other datasets.
LEMMA ContinueKeepsCover ==
    ASSUME Unfiltered, IInv, CoverInv, UNCHANGED server, pass.pc = "page",
           NEW after \in [adv : Advisories \cup {0}, pkg : Packages \cup {0}], NEW last \in BOOLEAN,
           Continue([pass EXCEPT !.after = after], last),
           \A a \in Advisories \ DOMAIN vuln : local'[a] = NoRows,
           last => \A a \in Advisories : SplitUnchanged(a) => local'[a] = ServerRows(a),
           pass.since # None =>
              /\ \A a \in Advisories : local'[a] = ServerRows(a) \/ local'[a] = local[a] \/ InWindow(a, cursor)
              /\ \A a \in Advisories : SplitUnchanged(a) /\ a <= after.adv => local'[a] = ServerRows(a),
           pass.since = None /\ ~last =>
              /\ after # Start
              /\ \A a \in Advisories : SplitUnchanged(a) =>
                    local'[a] = IF vuln[a].withdrawn THEN NoRows
                                ELSE Exported(a, {p \in Packages : p < after.pkg \/ (p = after.pkg /\ a <= after.adv)})
    PROVE  CoverInv'
<1>1. TypeOK /\ PassInv
    BY Zenon DEF IInv
<1>2. CASE last /\ Finish
    BY Zenon, <1>2, FinishKeepsCover
<1>3. CASE /\ pass' = [[pass EXCEPT !.after = after] EXCEPT !.pc = IF last THEN "others" ELSE "page"]
           /\ UNCHANGED <<cursor, stops>>
    <2>1. /\ pass'.pc = (IF last THEN "others" ELSE "page") /\ pass'.after = after /\ pass'.scope = pass.scope
          /\ pass'.since = pass.since /\ pass'.snap = pass.snap
        BY Zenon, <1>1, <1>3 DEF TypeOK, Passes
    <2>2. UNCHANGED <<vuln, aff, cursor>>
        BY Zenon, <1>3 DEF server
    <2>3. \A a : /\ Same(a)' = (local'[a] = ServerRows(a)) /\ SplitUnchanged(a)' = SplitUnchanged(a)
                 /\ InWindow(a, cursor)' = InWindow(a, cursor)
        BY Zenon, <2>1, <2>2, ServerSame DEF Same
    <2>4. Reloading' => pass.since = None
        BY Zenon, <2>1 DEF Reloading
    <2>5. ~Reloading' => pass.since # None
        BY Zenon, <2>1 DEF Reloading
    <2>6. ~Reloading' =>
            \A a \in Advisories : IF cursor' = None THEN local'[a] = NoRows ELSE Same(a)' \/ InWindow(a, cursor)'
        <3> SUFFICES ASSUME pass.since # None, NEW a \in Advisories
                     PROVE  cursor # None /\ (local'[a] = ServerRows(a) \/ InWindow(a, cursor))
            BY <2>2, <2>3, <2>5, ZenonT(30)
        <3>1. cursor # None /\ ~Reloading
            BY Zenon, <1>1 DEF PassInv, Reloading
        <3>2. QED
            BY Zenon, <3>1 DEF CoverInv, Same
    <2>7. Reloading' /\ pass'.pc = "page" => \A a \in Advisories : SplitUnchanged(a)' => local'[a] = Reloaded(a)'
        BY <2>1, <2>2, <2>3, <2>4 DEF Reloaded, Passed, Exported
    <2>8. pass'.pc # "idle" /\ (pass'.since # None \/ pass'.pc = "others") =>
            \A a \in Advisories : SplitUnchanged(a)' /\ Handled(a)' => Same(a)'
        <3> SUFFICES ASSUME pass.since # None \/ last, NEW a \in Advisories, SplitUnchanged(a), Handled(a)'
                     PROVE  local'[a] = ServerRows(a)
            BY <2>1, <2>3, ZenonT(30)
        <3>1. CASE last
            BY Zenon, <3>1
        <3>2. CASE ~last
            <4>1. a <= after.adv
                BY <2>1, <3>2, DeltaSyncAssumption DEF Handled
            <4>2. QED
                BY Zenon, <3>2, <4>1
        <3>3. QED
            BY Zenon, <3>1, <3>2
    <2>9. QED
        BY Zenon, <2>1, <2>2, <2>6, <2>7, <2>8 DEF CoverInv
<1>4. QED
    BY Zenon, <1>2, <1>3 DEF Continue

-----------------------------------------------------------------------------
(* Pages of a full export *)

\* A pass at its start has been past nothing.
LEMMA PassedFacts ==
    ASSUME TypeOK, pass.after = Start, NEW a
    PROVE  Passed(a) = {}
<1>1. pass.after.pkg = 0
    BY DEF Start
<1>2. \A p \in Packages : ~(p < 0) /\ p # 0
    BY DeltaSyncAssumption
<1>3. QED
    BY Zenon, <1>1, <1>2 DEF Passed

\* Before a page the cache has of an advisory that did not change what the pass has been past.
LEMMA BaseReloaded ==
    ASSUME IInv, CoverInv, pass.pc = "page", pass.since = None, NEW a \in Advisories
    PROVE  /\ a \notin DOMAIN vuln => Base(a) = NoRows
           /\ SplitUnchanged(a) => Base(a) = Reloaded(a)
<1>1. TypeOK /\ PassInv
    BY Zenon DEF IInv
<1>2. CASE pass.after # Start
    <2>1. Reloading /\ Base(a) = local[a]
        BY Zenon, <1>2 DEF Reloading, Base
    <2>2. QED
        BY Zenon, <2>1 DEF CoverInv
<1>3. CASE pass.after = Start
    <2>1. Base(a) = NoRows
        <3>1. ~Reloading /\ (~pass.full => cursor = None)
            BY Zenon, <1>1, <1>3 DEF Reloading, PassInv
        <3>2. QED
            BY Zenon, <1>1, <1>3, <3>1 DEF Base, CoverInv, TypeOK, Passes
    <2>2. ASSUME SplitUnchanged(a) PROVE Reloaded(a) = NoRows
        <3>1. a \in DOMAIN vuln
            BY Zenon, <2>2 DEF SplitUnchanged
        <3>2. Exported(a, Passed(a)) \in Copies /\ DOMAIN Exported(a, Passed(a)) = {}
            BY <1>1, <1>3, <3>1, PassedFacts, ExportedFacts, ZenonT(30)
        <3>3. QED
            BY Zenon, <3>2, NoRowsFacts DEF Reloaded
    <2>3. QED
        BY Zenon, <2>1, <2>2
<1>4. QED
    BY Zenon, <1>2, <1>3

\* The keys a full export has left of an advisory that did not change are all those it has not been past.
LEMMA FullKeysOf ==
    ASSUME IInv, CoverInv, pass.pc = "page", NEW a \in Advisories, SplitUnchanged(a), NEW p \in DOMAIN aff[a]
    PROVE  /\ p \in Packages /\ p \in Nat /\ a \in Nat /\ a \in DOMAIN vuln
           /\ <<p, a>> \in FullKeys <=> p \notin Passed(a)
<1>1. TypeOK /\ pass.scope = Packages /\ a \in DOMAIN vuln
    BY Zenon DEF IInv, CoverInv, SplitUnchanged
<1>2. p \in Packages /\ p \in Nat /\ a \in Nat /\ pass.after.adv \in Nat /\ pass.after.pkg \in Nat
    BY Zenon, <1>1, AfterFacts DEF TypeOK
<1>3. vuln[a].at <= pass.snap.at /\ aff[a][p].at <= pass.snap.at
    BY Zenon DEF SplitUnchanged, RowsOf, Range
<1>4. <<p, a>> \in FullKeys <=> p > pass.after.pkg \/ (p = pass.after.pkg /\ a > pass.after.adv)
    BY Zenon, <1>1, <1>2, <1>3 DEF FullKeys
<1>5. p \in Passed(a) <=> p < pass.after.pkg \/ (p = pass.after.pkg /\ a <= pass.after.adv)
    BY Zenon, <1>2 DEF Passed
<1>6. QED
    BY <1>1, <1>2, <1>4, <1>5

\* A page applied to what the pass has been past gives what it has been past then.
LEMMA PageReloads ==
    ASSUME TypeOK, NEW a \in DOMAIN vuln, NEW P, NEW Q, NEW R,
           DOMAIN aff[a] \cap R = (DOMAIN aff[a] \cap P) \cup (DOMAIN aff[a] \cap Q)
    PROVE  Applied(IF vuln[a].withdrawn THEN NoRows ELSE Exported(a, P), Exported(a, Q), vuln[a].withdrawn)
           = IF vuln[a].withdrawn THEN NoRows ELSE Exported(a, R)
<1>1. /\ Exported(a, P) \in Copies /\ DOMAIN Exported(a, P) = DOMAIN aff[a] \cap P
      /\ Exported(a, Q) \in Copies /\ DOMAIN Exported(a, Q) = DOMAIN aff[a] \cap Q
      /\ Exported(a, R) \in Copies /\ DOMAIN Exported(a, R) = DOMAIN aff[a] \cap R
    BY ExportedFacts, ZenonT(30)
<1>2. /\ \A p \in DOMAIN aff[a] \cap P : Exported(a, P)[p] = Row(a, p)
      /\ \A p \in DOMAIN aff[a] \cap Q : Exported(a, Q)[p] = Row(a, p)
      /\ \A p \in DOMAIN aff[a] \cap R : Exported(a, R)[p] = Row(a, p)
    BY ExportedFacts, ZenonT(30)
<1>3. vuln[a].withdrawn \in BOOLEAN
    BY Zenon DEF TypeOK, VulnRows
<1>4. CASE vuln[a].withdrawn
    BY <1>1, <1>3, <1>4, AppliedFacts, NoRowsFacts, ZenonT(60)
<1>5. CASE ~vuln[a].withdrawn
    <2>1. Applied(Exported(a, P), Exported(a, Q), vuln[a].withdrawn) = Overlay(Exported(a, Q), Exported(a, P))
        BY <1>1, <1>3, <1>5, AppliedFacts, ZenonT(30)
    <2>2. /\ Overlay(Exported(a, Q), Exported(a, P)) \in Copies
          /\ DOMAIN Overlay(Exported(a, Q), Exported(a, P)) = DOMAIN aff[a] \cap R
          /\ \A p \in DOMAIN aff[a] \cap R : Overlay(Exported(a, Q), Exported(a, P))[p] = Row(a, p)
        BY <1>1, <1>2, OverlayFacts
    <2>3. Overlay(Exported(a, Q), Exported(a, P)) = Exported(a, R)
        BY <1>1, <1>2, <2>2, CopyEqual
    <2>4. QED
        BY Zenon, <1>5, <2>1, <2>3
<1>6. QED
    BY Zenon, <1>4, <1>5

\* An export of all packages of an advisory is what the server has.
LEMMA ServerRowsExported ==
    ASSUME TypeOK, NEW a \in DOMAIN vuln, NEW R, DOMAIN aff[a] \subseteq R
    PROVE  ServerRows(a) = IF vuln[a].withdrawn THEN NoRows ELSE Exported(a, R)
<1>1. DOMAIN aff[a] \cap R = DOMAIN aff[a] \cap Packages
    BY Zenon DEF TypeOK
<1>2. QED
    BY Zenon, <1>1 DEF ServerRows, Exported

\* A page of a full export: the cache has exactly what the pass has been past.
LEMMA FullPageKeepsCover ==
    ASSUME Unfiltered, IInv, CoverInv, FullPage
    PROVE  CoverInv'
<1>1. TypeOK /\ pass.pc = "page" /\ pass.since = None /\ UNCHANGED server
    BY Zenon, FullPageCases DEF IInv
<1>2. ASSUME NEW page, FullApply(page), NEW a \in Advisories \ DOMAIN vuln
      PROVE  local'[a] = NoRows
    <2>1. Base(a) = NoRows /\ PageRows(page, a) = NoRows
        BY Zenon, <1>1, <1>2, BaseReloaded DEF PageRows
    <2>2. local'[a] = Applied(NoRows, NoRows, FALSE)
        <3>1. (a \in DOMAIN vuln /\ vuln[a].withdrawn) = FALSE
            BY Zenon, <1>2
        <3>2. QED
            BY <1>1, <1>2, <2>1, <3>1, FullApplyFacts, ZenonT(30)
    <2>3. QED
        BY <2>2, AppliedFacts, NoRowsFacts, ZenonT(30)
<1>3. ASSUME NEW page, FullApply(page), NEW a \in Advisories, SplitUnchanged(a), NEW R,
             DOMAIN aff[a] \cap R = (DOMAIN aff[a] \cap Passed(a)) \cup (DOMAIN aff[a] \cap PagePackages(page, a))
      PROVE  local'[a] = IF vuln[a].withdrawn THEN NoRows ELSE Exported(a, R)
    <2>1. a \in DOMAIN vuln
        BY Zenon, <1>3 DEF SplitUnchanged
    <2>2. Base(a) = Reloaded(a) /\ PageRows(page, a) = Exported(a, PagePackages(page, a))
        BY Zenon, <1>1, <1>3, <2>1, BaseReloaded DEF PageRows
    <2>3. local'[a] = Applied(Reloaded(a), Exported(a, PagePackages(page, a)), vuln[a].withdrawn)
        <3>1. (a \in DOMAIN vuln /\ vuln[a].withdrawn) = vuln[a].withdrawn
            BY Zenon, <1>1, <2>1 DEF TypeOK, VulnRows
        <3>2. QED
            BY <1>1, <1>3, <2>2, <3>1, FullApplyFacts
    <2>4. QED
        BY <1>1, <1>3, <2>1, <2>3, PageReloads DEF Reloaded
<1>4. CASE FullKeys = {} /\ FullApply({}) /\ Continue(pass, TRUE)
    <2>1. ASSUME NEW a \in Advisories, SplitUnchanged(a) PROVE local'[a] = ServerRows(a)
        <3>1. a \in DOMAIN vuln /\ PagePackages({}, a) = {}
            BY Zenon, <2>1 DEF SplitUnchanged, PagePackages
        <3>2. DOMAIN aff[a] \subseteq Passed(a)
            BY Zenon, <1>1, <1>4, <2>1, FullKeysOf
        <3>3. local'[a] = IF vuln[a].withdrawn THEN NoRows ELSE Exported(a, Passed(a))
            BY Zenon, <1>3, <1>4, <2>1, <3>1
        <3>4. QED
            BY Zenon, <1>1, <3>1, <3>2, <3>3, ServerRowsExported
    <2>2. QED
        BY <1>1, <1>2, <1>4, <2>1, SamePass, ContinueKeepsCover, ZenonT(30)
<1>5. ASSUME NEW last \in FullKeys, NEW more \in BOOLEAN, UpTo(FullKeys, last) # FullKeys => more,
             FullApply(UpTo(FullKeys, last)),
             Continue([pass EXCEPT !.after = [adv |-> last[2], pkg |-> last[1]]], ~more)
      PROVE  CoverInv'
    <2> DEFINE after == [adv |-> last[2], pkg |-> last[1]]
               R(a) == {p \in Packages : p < after.pkg \/ (p = after.pkg /\ a <= after.adv)}
    <2>1. /\ last[1] \in Packages /\ last[2] \in Advisories /\ last[1] \in Nat \ {0} /\ last[2] \in Nat
          /\ last[1] > pass.after.pkg \/ (last[1] = pass.after.pkg /\ last[2] > pass.after.adv)
        BY Zenon, <1>1, FullKeysFacts, DeltaSyncAssumption
    <2>2. after \in [adv : Advisories \cup {0}, pkg : Packages \cup {0}] /\ after # Start
        BY Zenon, <2>1 DEF Start
    <2>3. ASSUME NEW a \in Advisories, SplitUnchanged(a), NEW p \in DOMAIN aff[a]
          PROVE  p \in PagePackages(UpTo(FullKeys, last), a) <=> p \notin Passed(a) /\ p \in R(a)
        <3>1. p \in Packages /\ p \in Nat /\ a \in Nat /\ (<<p, a>> \in FullKeys <=> p \notin Passed(a))
            BY Zenon, <1>1, <2>3, FullKeysOf
        <3>2. p \in PagePackages(UpTo(FullKeys, last), a) <=> <<p, a>> \in UpTo(FullKeys, last)
            <4>1. \A k \in FullKeys : k = <<k[1], k[2]>>
                BY Zenon, <1>1, FullKeysFacts
            <4>2. QED
                BY Zenon, <4>1 DEF PagePackages, UpTo
        <3>3. <<p, a>> \in UpTo(FullKeys, last) <=> <<p, a>> \in FullKeys /\ p \in R(a)
            BY Zenon, <3>1 DEF UpTo
        <3>4. QED
            BY Zenon, <3>1, <3>2, <3>3
    <2>4. ASSUME NEW a \in Advisories, SplitUnchanged(a), NEW p \in DOMAIN aff[a], p \in Passed(a)
          PROVE  p \in R(a)
        <3>1. p \in Packages /\ p \in Nat /\ a \in Nat /\ pass.after.adv \in Nat /\ pass.after.pkg \in Nat
            BY <1>1, <2>4, FullKeysOf, AfterFacts, ZenonT(30)
        <3>2. QED
            BY <2>1, <2>4, <3>1 DEF Passed
    <2>5. ASSUME NEW a \in Advisories, SplitUnchanged(a)
          PROVE  local'[a] = IF vuln[a].withdrawn THEN NoRows ELSE Exported(a, R(a))
        <3>1. DOMAIN aff[a] \cap R(a) = (DOMAIN aff[a] \cap Passed(a)) \cup (DOMAIN aff[a] \cap PagePackages(UpTo(FullKeys, last), a))
            <4> HIDE DEF R
            <4> QED BY Zenon, <2>3, <2>4, <2>5
        <3> HIDE DEF R
        <3>2. QED
            BY Zenon, <1>3, <1>5, <2>5, <3>1
    <2>6. ASSUME ~more, NEW a \in Advisories, SplitUnchanged(a) PROVE local'[a] = ServerRows(a)
        <3>1. a \in DOMAIN vuln
            BY Zenon, <2>6 DEF SplitUnchanged
        <3>2. DOMAIN aff[a] \subseteq R(a)
            <4> SUFFICES ASSUME NEW p \in DOMAIN aff[a] PROVE p \in R(a)
                OBVIOUS
            <4>1. CASE p \in Passed(a)
                BY Zenon, <2>4, <2>6, <4>1
            <4>2. CASE p \notin Passed(a)
                <5>1. <<p, a>> \in UpTo(FullKeys, last) /\ p \in Packages
                    BY Zenon, <1>1, <1>5, <2>6, <4>2, FullKeysOf
                <5>2. QED
                    BY Zenon, <5>1 DEF UpTo
            <4>3. QED
                BY Zenon, <4>1, <4>2
        <3> HIDE DEF R
        <3>3. QED
            BY Zenon, <1>1, <2>5, <2>6, <3>1, <3>2, ServerRowsExported
    <2>7. QED
        BY <1>1, <1>2, <1>5, <2>2, <2>5, <2>6, ContinueKeepsCover, ZenonT(30)
<1>6. QED
    BY <1>4, <1>5, FullPageCases, ZenonT(30)

\* An unchanged advisory a delta need not send any more agrees with the server.
LEMMA UnselectedSame ==
    ASSUME IInv, CoverInv, pass.pc = "page", pass.since # None, NEW a \in Advisories, SplitUnchanged(a), a \notin Candidates
    PROVE  local[a] = ServerRows(a)
<1>1. TypeOK /\ PassInv /\ pass.since = cursor /\ cursor # None /\ ~Reloading /\ a \in DOMAIN vuln
    BY Zenon DEF IInv, PassInv, Reloading, SplitUnchanged
<1>2. a \in Nat /\ pass.after.adv \in Nat
    BY Zenon, <1>1, AfterFacts
<1>3. CASE a <= pass.after.adv
    <2>1. Handled(a)
        BY <1>2, <1>3 DEF Handled
    <2>2. QED
        BY Zenon, <2>1 DEF CoverInv, Same
<1>4. CASE a > pass.after.adv
    <2>1. \A row \in RowsOf(a) : WithinSnapshot(row, pass.snap)
        BY Zenon, <1>1, UnchangedWithin DEF PassInv
    <2>2. vuln[a] \in RowsOf(a)
        BY Zenon DEF RowsOf
    <2>3. ~InWindow(a, cursor)
        BY Zenon, <1>1, <1>4, <2>1, <2>2 DEF Candidates, ChangedIDs, InWindow
    <2>4. QED
        BY Zenon, <1>1, <2>3 DEF CoverInv, Same
<1>5. QED
    BY <1>2, <1>3, <1>4

\* A page of whole advisories leaves the rows of the server.
LEMMA ReplacedSame ==
    ASSUME TypeOK, pass.scope = Packages, NEW a \in Candidates
    PROVE  Replaced(a) = ServerRows(a)
<1> DEFINE rows == Exported(a, pass.scope)
           X == Applied(local[a], rows, vuln[a].withdrawn)
<1>1. a \in Advisories /\ a \in DOMAIN vuln /\ vuln[a].withdrawn \in BOOLEAN /\ local[a] \in Copies
    BY Zenon, CandidatesFacts DEF TypeOK
<1>2. rows \in Copies /\ X \in Copies /\ Replaced(a) = Kept(X, DOMAIN rows)
    BY <1>1, ExportedFacts, ReplacedFacts, ZenonT(30) DEF Replaced
<1>3. DOMAIN rows = DOMAIN aff[a] /\ \A p \in DOMAIN aff[a] : rows[p] = Row(a, p)
    <2>1. DOMAIN aff[a] \cap pass.scope = DOMAIN aff[a]
        BY Zenon, <1>1 DEF TypeOK
    <2>2. QED
        BY <1>1, <2>1, ExportedFacts, ZenonT(30)
<1>4. /\ Replaced(a) \in Copies /\ DOMAIN Replaced(a) = DOMAIN X \cap DOMAIN aff[a]
      /\ \A p \in DOMAIN Replaced(a) : Replaced(a)[p] = X[p]
    <2>1. DOMAIN rows \cup (Packages \ pass.scope) = DOMAIN aff[a]
        BY Zenon, <1>3
    <2> HIDE DEF rows, X
    <2>2. /\ Kept(X, DOMAIN rows) \in Copies
          /\ DOMAIN Kept(X, DOMAIN rows) = DOMAIN X \cap (DOMAIN rows \cup (Packages \ pass.scope))
          /\ \A p \in DOMAIN Kept(X, DOMAIN rows) : Kept(X, DOMAIN rows)[p] = X[p]
        BY <1>2, KeptFacts, ZenonT(30)
    <2>3. QED
        BY Zenon, <1>2, <2>1, <2>2
<1>5. CASE vuln[a].withdrawn
    <2>1. ServerRows(a) = NoRows
        BY Zenon, <1>5, ServerRowsFacts
    <2>2. DOMAIN Replaced(a) = {}
        <3>1. CASE DOMAIN rows # {}
            <4>1. X = NoRows
                BY Zenon, <1>5, <3>1 DEF Applied
            <4>2. QED
                BY Zenon, <1>4, <4>1, NoRowsFacts
        <3>2. CASE DOMAIN rows = {}
            BY Zenon, <1>3, <1>4, <3>2
        <3>3. QED
            BY Zenon, <3>1, <3>2
    <2>3. QED
        BY Zenon, <1>4, <2>1, <2>2, NoRowsFacts
<1>6. CASE ~vuln[a].withdrawn
    <2>1. X = Overlay(rows, local[a])
        BY Zenon, <1>6 DEF Applied
    <2>2. DOMAIN aff[a] \subseteq DOMAIN X /\ \A p \in DOMAIN aff[a] : X[p] = Row(a, p)
        <3> HIDE DEF rows, X
        <3>1. /\ DOMAIN Overlay(rows, local[a]) = DOMAIN rows \cup DOMAIN local[a]
              /\ \A p \in DOMAIN rows : Overlay(rows, local[a])[p] = rows[p]
            BY <1>1, <1>2, OverlayFacts, ZenonT(30)
        <3>2. QED
            BY Zenon, <1>3, <2>1, <3>1
    <2>3. DOMAIN ServerRows(a) = DOMAIN aff[a] /\ \A p \in DOMAIN aff[a] : ServerRows(a)[p] = Row(a, p)
        BY Zenon, <1>1, <1>6, ServerRowsFacts
    <2> HIDE DEF rows, X
    <2>4. DOMAIN Replaced(a) = DOMAIN aff[a] /\ \A p \in DOMAIN aff[a] : Replaced(a)[p] = Row(a, p)
        BY Zenon, <1>4, <2>2
    <2>5. QED
        BY <1>4, <2>3, <2>4, CopyEqual, ServerRowsFacts
<1>7. QED
    BY Zenon, <1>5, <1>6

\* A page of whole advisories.
LEMMA DeltaPageKeepsCover ==
    ASSUME Unfiltered, IInv, CoverInv, DeltaPage
    PROVE  CoverInv'
<1>1. TypeOK /\ pass.pc = "page" /\ pass.since # None /\ UNCHANGED server /\ pass.scope = Packages
    BY Zenon, DeltaPageCases DEF IInv, CoverInv
<1>2. \A a \in Advisories \ DOMAIN vuln : local[a] = NoRows
    BY Zenon DEF CoverInv
<1>3. CASE Candidates = {} /\ UNCHANGED local /\ Continue(pass, TRUE)
    <2>1. \A a \in Advisories : SplitUnchanged(a) => local'[a] = ServerRows(a)
        BY Zenon, <1>1, <1>3, UnselectedSame
    <2>2. QED
        BY <1>1, <1>2, <1>3, <2>1, SamePass, ContinueKeepsCover, ZenonT(30)
<1>4. ASSUME NEW last \in Candidates,
             local' = [a \in Advisories |-> IF a \in Candidates /\ a <= last THEN Replaced(a) ELSE local[a]],
             Continue([pass EXCEPT !.after = [adv |-> last, pkg |-> 0]], \A a \in Candidates : a <= last)
      PROVE  CoverInv'
    <2> DEFINE after == [adv |-> last, pkg |-> 0]
               isLast == \A a \in Candidates : a <= last
    <2>1. after \in [adv : Advisories \cup {0}, pkg : Packages \cup {0}] /\ isLast \in BOOLEAN
        BY Zenon, <1>1, CandidatesFacts
    <2>2. \A a \in Advisories : local'[a] = IF a \in Candidates /\ a <= last THEN ServerRows(a) ELSE local[a]
        BY Zenon, <1>1, <1>4, ReplacedSame
    <2>3. \A a \in Advisories \ DOMAIN vuln : local'[a] = NoRows
        BY Zenon, <1>1, <1>2, <2>2, CandidatesFacts
    <2>4. \A a \in Advisories : SplitUnchanged(a) /\ a <= last => local'[a] = ServerRows(a)
        BY Zenon, <1>1, <2>2, UnselectedSame
    <2>5. isLast => \A a \in Advisories : SplitUnchanged(a) => local'[a] = ServerRows(a)
        BY Zenon, <1>1, <2>2, UnselectedSame
    <2> HIDE DEF isLast
    <2>6. Continue([pass EXCEPT !.after = after], isLast)
        BY <1>4, ZenonT(30) DEF isLast
    <2>7. after.adv = last
        OBVIOUS
    <2> HIDE DEF after
    <2>8. QED
        BY Zenon, <1>1, <2>1, <2>2, <2>3, <2>4, <2>5, <2>6, <2>7, ContinueKeepsCover
<1>5. QED
    BY <1>3, <1>4, DeltaPageCases, ZenonT(30)

-----------------------------------------------------------------------------
(* Pages of a split advisory *)

\* The other advisories are as they were; the one under split is selected by the next window as well.
LEMMA SplitKeepsCover ==
    ASSUME IInv, CoverInv, UNCHANGED <<server, cursor>>, pass.since # None, pass.scope = Packages,
           NEW a \in DOMAIN vuln, a \in Advisories, InWindow(a, cursor), \A b \in Advisories \ {a} : local'[b] = local[b],
           pass'.pc \in {"page", "split", "check"}, pass'.after.adv = a,
           pass'.since = pass.since, pass'.snap = pass.snap, pass'.scope = pass.scope,
           \A b \in Advisories : SplitUnchanged(b) /\ b < a => local[b] = ServerRows(b),
           IF pass'.pc = "page" THEN SplitUnchanged(a) => local'[a] = ServerRows(a)
                                ELSE SplitUnchanged(a) => SplitCover(a)'
    PROVE  CoverInv'
<1>1. TypeOK /\ PassInv /\ cursor # None /\ ~Reloading /\ ~Reloading' /\ UNCHANGED <<vuln, aff>> /\ cursor' # None
    <2>1. cursor # None
        BY DEF IInv, PassInv, Idle
    <2>2. QED
        BY <2>1, ZenonT(30) DEF IInv, Reloading, server
<1>2. \A b : /\ Same(b)' = (local'[b] = ServerRows(b)) /\ SplitUnchanged(b)' = SplitUnchanged(b)
             /\ InWindow(b, cursor)' = InWindow(b, cursor)
    BY ServerSame, ZenonT(30) DEF Same
<1>3. \A b \in Advisories \ DOMAIN vuln' : local'[b] = NoRows
    BY <1>1, ZenonT(30) DEF CoverInv
<1>4. \A b \in Advisories : Same(b)' \/ InWindow(b, cursor)'
    <2>1. \A b \in Advisories : local[b] = ServerRows(b) \/ InWindow(b, cursor)
        BY Zenon, <1>1 DEF CoverInv, Same
    <2>2. QED
        BY <1>2, <2>1, ZenonT(30)
<1>5. \A b \in Advisories : SplitUnchanged(b)' /\ Handled(b)' => Same(b)'
    <2> SUFFICES ASSUME NEW b \in Advisories, SplitUnchanged(b), Handled(b)'
                 PROVE  local'[b] = ServerRows(b)
        BY <1>2, ZenonT(30)
    <2>1. b < a \/ (b = a /\ pass'.pc = "page")
        BY Zenon DEF Handled
    <2>2. a \in Nat /\ b \in Nat
        BY Zenon, <1>1, AfterFacts
    <2>3. QED
        BY <2>1, <2>2
<1>6. pass'.pc \in {"split", "check"} =>
         /\ InWindow(pass.after.adv, cursor)' /\ (SplitUnchanged(pass.after.adv)' => SplitCover(pass.after.adv)')
    BY Zenon, <1>2
<1>7. QED
    BY <1>1, <1>3, <1>4, <1>5, <1>6, ZenonT(30) DEF CoverInv

\* The first page of a split advisory.
LEMMA SplitStartKeepsCover ==
    ASSUME Unfiltered, IInv, CoverInv, SplitStart
    PROVE  CoverInv'
<1>1. /\ TypeOK /\ PassInv /\ pass.pc = "page" /\ pass.since # None /\ pass.scope = Packages
      /\ UNCHANGED <<server, cursor>> /\ UNCHANGED <<vuln, aff>> /\ pass.since = cursor
    BY Zenon, SplitStartFacts DEF IInv, CoverInv, server, PassInv
<1>2. PICK a, last, P : SplitStarts(a, last, P)
    BY Zenon, <1>1, SplitStartFacts
<1>3. a \in Advisories /\ a \in DOMAIN vuln /\ a \in Nat /\ vuln[a].withdrawn \in BOOLEAN /\ InWindow(a, cursor)
    BY Zenon, <1>1, <1>2, CandidatesFacts DEF SplitStarts
<1>4. /\ pass'.pc = "split" /\ pass'.after.adv = a /\ pass'.scope = pass.scope /\ pass'.since = pass.since
      /\ pass'.snap = pass.snap /\ pass'.received = P /\ pass'.usable = ~vuln[a].withdrawn
      /\ pass'.held = NoRows /\ ~pass'.heldWithdrawn
    <2>1. pass.held = NoRows /\ ~pass.heldWithdrawn
        BY Zenon, <1>1 DEF PassInv
    <2>2. QED
        BY Zenon, <1>1, <1>2, <2>1 DEF SplitStarts, TypeOK, Passes
<1>5. \A b \in Advisories : SplitUnchanged(b) /\ b < a => local[b] = ServerRows(b)
    <2> SUFFICES ASSUME NEW b \in Advisories, SplitUnchanged(b), b < a PROVE local[b] = ServerRows(b)
        OBVIOUS
    <2>1. b \in Nat
        BY Zenon, <1>1, AfterFacts
    <2>2. b \notin Candidates
        BY <1>2, <1>3, <2>1 DEF SplitStarts
    <2>3. QED
        BY Zenon, <1>1, <2>2, UnselectedSame
<1>6. SplitCover(a)'
    <2> DEFINE rows == Restrict(Exported(a, pass.scope), P)
    <2>1. /\ rows \in Copies /\ local[a] \in Copies /\ DOMAIN rows = P /\ P # {}
          /\ P \subseteq DOMAIN aff[a] /\ \A p \in P : rows[p] = Row(a, p)
        <3>1. P \in SUBSET DOMAIN Exported(a, pass.scope) /\ P # {} /\ local[a] \in Copies
            <4>1. P \in SUBSET DOMAIN Exported(a, pass.scope) /\ local[a] \in Copies
                BY Zenon, <1>1, <1>2, SplitStartTypes
            <4>2. P # {}
                BY Zenon, <1>2 DEF SplitStarts
            <4>3. QED
                BY Zenon, <4>1, <4>2
        <3>2. /\ Exported(a, pass.scope) \in Copies /\ DOMAIN Exported(a, pass.scope) = DOMAIN aff[a] \cap pass.scope
              /\ \A p \in DOMAIN aff[a] \cap pass.scope : Exported(a, pass.scope)[p] = Row(a, p)
            BY <1>1, <1>3, ExportedFacts, ZenonT(30)
        <3>3. rows \in Copies /\ DOMAIN rows = P /\ \A p \in P : rows[p] = Exported(a, pass.scope)[p]
            BY Zenon, <3>1, <3>2, RestrictFacts
        <3> HIDE DEF rows
        <3>4. QED
            BY Zenon, <3>1, <3>2, <3>3
    <2>2. local'[a] = Applied(local[a], rows, vuln[a].withdrawn)
        BY Zenon, <1>1, <1>2, SplitStartTypes
    <2> HIDE DEF rows
    <2>3. CASE vuln[a].withdrawn
        <3>1. local'[a] = NoRows
            BY Zenon, <2>1, <2>2, <2>3 DEF Applied
        <3>2. QED
            BY Zenon, <1>1, <1>4, <2>3, <3>1, NoRowsFacts DEF SplitCover
    <2>4. CASE ~vuln[a].withdrawn
        <3>1. local'[a] = Overlay(rows, local[a])
            BY Zenon, <2>2, <2>4 DEF Applied
        <3>2. \A p \in P : p \in DOMAIN local'[a] /\ local'[a][p] = Row(a, p)
            <4>1. /\ DOMAIN Overlay(rows, local[a]) = DOMAIN rows \cup DOMAIN local[a]
                  /\ \A p \in DOMAIN rows : Overlay(rows, local[a])[p] = rows[p]
                BY <2>1, OverlayFacts, ZenonT(30)
            <4>2. QED
                BY Zenon, <2>1, <3>1, <4>1
        <3>3. \A p : Row(a, p)' = Row(a, p)
            BY Zenon, <1>1 DEF Row
        <3>4. DOMAIN pass'.held = {}
            BY Zenon, <1>4, NoRowsFacts
        <3>5. /\ pass'.usable /\ ~pass'.heldWithdrawn /\ pass'.received = P /\ UNCHANGED <<vuln, aff>>
              /\ DOMAIN pass'.held = {} /\ ~vuln'[a].withdrawn /\ P \subseteq DOMAIN aff'[a]
            BY <1>1, <1>4, <2>1, <2>4, <3>4, ZenonT(30)
        <3>6. QED
            BY Zenon, <3>2, <3>3, <3>5 DEF SplitCover
    <2>5. QED
        BY Zenon, <1>3, <2>3, <2>4
<1>7. \A b \in Advisories \ {a} : local'[b] = local[b]
    BY Zenon, <1>1, <1>2, SplitStartTypes
<1>8. QED
    BY <1>1, <1>3, <1>4, <1>5, <1>6, <1>7, SplitKeepsCover, ZenonT(30)

\* A further page of a split advisory.
LEMMA SplitPageKeepsCover ==
    ASSUME Unfiltered, IInv, CoverInv, SplitPage
    PROVE  CoverInv'
<1>0. PICK a : a = pass.after.adv
    OBVIOUS
<1> DEFINE withdrawn == DOMAIN SplitRows # {} /\ vuln[a].withdrawn
<1>1. /\ TypeOK /\ PassInv /\ pass.pc = "split" /\ pass.since # None /\ pass.scope = Packages
      /\ UNCHANGED <<server, cursor>> /\ UNCHANGED <<vuln, aff>> /\ pass.held = NoRows /\ ~pass.heldWithdrawn
    BY Zenon, SplitPageCases DEF IInv, CoverInv, server, PassInv
<1>2. /\ a \in Advisories /\ a \in DOMAIN vuln /\ vuln[a].withdrawn \in BOOLEAN /\ withdrawn \in BOOLEAN
      /\ SplitRows \in Copies /\ local[a] \in Copies /\ InWindow(a, cursor)
      /\ DOMAIN SplitRows \subseteq DOMAIN aff[a] /\ \A p \in DOMAIN SplitRows : SplitRows[p] = Row(a, p)
    <2>1. InWindow(a, cursor)
        BY Zenon, <1>0, <1>1 DEF CoverInv
    <2>2. a \in Advisories /\ local[a] \in Copies
        BY Zenon, <1>0, <1>1, SplitRowsFacts DEF TypeOK
    <2>3. QED
        BY Zenon, <1>0, <1>1, <2>1, <2>2, SplitRowsFacts
<1>3. \A b \in Advisories : SplitUnchanged(b) /\ b < a => local[b] = ServerRows(b)
    BY <1>0, <1>1, ZenonT(30) DEF CoverInv, Handled, Same
<1>4. SplitUnchanged(a) => SplitCover(a)
    BY Zenon, <1>0, <1>1 DEF CoverInv
<1>5. \A p : Row(a, p)' = Row(a, p)
    BY Zenon, <1>1 DEF Row
<1>6. CASE /\ pass' = [pass EXCEPT !.pc = "check", !.held = SplitRows, !.heldWithdrawn = withdrawn,
                                   !.received = @ \cup DOMAIN SplitRows, !.usable = @ /\ ~withdrawn]
           /\ UNCHANGED local
    <2> HIDE DEF withdrawn
    <2>1. /\ pass'.pc = "check" /\ pass'.after.adv = a /\ pass'.scope = pass.scope /\ pass'.since = pass.since
          /\ pass'.snap = pass.snap /\ pass'.received = pass.received \cup DOMAIN SplitRows
          /\ pass'.held = SplitRows /\ pass'.heldWithdrawn = withdrawn /\ pass'.usable = (pass.usable /\ ~withdrawn)
        BY Zenon, <1>0, <1>1, <1>6 DEF TypeOK, Passes
    <2>2. ASSUME SplitCover(a) PROVE SplitCover(a)'
        <3>1. CASE vuln[a].withdrawn
            BY <1>1, <1>6, <2>1, <2>2, <3>1, ZenonT(30) DEF SplitCover, withdrawn
        <3>2. CASE ~vuln[a].withdrawn
            <4>1. /\ pass.usable /\ ~withdrawn /\ pass.received \subseteq DOMAIN aff[a]
                  /\ \A p \in pass.received : p \in DOMAIN local[a] /\ local[a][p] = Row(a, p)
                BY Zenon, <1>1, <2>2, <3>2, NoRowsFacts DEF SplitCover, withdrawn
            <4>2. /\ pass'.usable /\ ~pass'.heldWithdrawn /\ pass'.held = SplitRows /\ local' = local
                  /\ pass'.received = pass.received \cup DOMAIN SplitRows /\ UNCHANGED <<vuln, aff>>
                  /\ ~vuln'[a].withdrawn /\ pass'.received \subseteq DOMAIN aff'[a]
                BY <1>1, <1>2, <1>6, <2>1, <3>2, <4>1, ZenonT(30)
            <4>3. \A p \in pass'.received \ DOMAIN SplitRows : p \in DOMAIN local[a] /\ local[a][p] = Row(a, p)
                BY Zenon, <4>1, <4>2
            <4>4. QED
                BY Zenon, <1>2, <1>5, <4>2, <4>3 DEF SplitCover
        <3>3. QED
            BY Zenon, <1>2, <3>1, <3>2
    <2>3. QED
        BY <1>1, <1>2, <1>3, <1>4, <1>6, <2>1, <2>2, SplitKeepsCover
<1>7. ASSUME NEW P, SplitContinues(P)
      PROVE  CoverInv'
    <2> DEFINE rows == Restrict(SplitRows, P)
    <2>1. /\ pass'.pc = "split" /\ pass'.after.adv = a /\ pass'.scope = pass.scope /\ pass'.since = pass.since
          /\ pass'.snap = pass.snap /\ pass'.received = pass.received \cup P
          /\ pass'.held = pass.held /\ pass'.heldWithdrawn = pass.heldWithdrawn
          /\ pass'.usable = (pass.usable /\ ~withdrawn)
        <3>1. PICK last \in DOMAIN SplitRows :
                 pass' = [pass EXCEPT !.after.pkg = last, !.received = @ \cup P, !.usable = @ /\ ~withdrawn]
            BY <1>0, <1>7, ZenonT(30) DEF SplitContinues
        <3>2. pass.after \in [adv : Advisories \cup {0}, pkg : Packages \cup {0}]
            BY Zenon, <1>1, SamePass
        <3> HIDE DEF withdrawn
        <3>3. QED
            BY <1>0, <1>1, <3>1, <3>2, SMTT(30) DEF TypeOK, Passes
    <2>2. /\ P \in SUBSET DOMAIN SplitRows /\ P # {} /\ rows \in Copies
          /\ local'[a] = Applied(local[a], rows, withdrawn)
          /\ \A b \in Advisories \ {a} : local'[b] = local[b]
        BY <1>0, <1>1, <1>7, SplitContinuesTypes, ZenonT(30)
    <2>3. DOMAIN rows = P /\ \A p \in P : rows[p] = SplitRows[p]
        BY Zenon, <1>2, <2>2, RestrictFacts
    <2> HIDE DEF rows
    <2>4. ASSUME SplitCover(a) PROVE SplitCover(a)'
        <3>1. CASE vuln[a].withdrawn
            <4>1. withdrawn
                BY Zenon, <2>2, <3>1
            <4>2. local'[a] = NoRows
                BY Zenon, <2>2, <2>3, <4>1 DEF Applied
            <4>3. QED
                BY Zenon, <1>1, <2>1, <3>1, <4>2, NoRowsFacts DEF SplitCover
        <3>2. CASE ~vuln[a].withdrawn
            <4>1. /\ pass.usable /\ ~withdrawn /\ pass.received \subseteq DOMAIN aff[a]
                  /\ \A p \in pass.received : p \in DOMAIN local[a] /\ local[a][p] = Row(a, p)
                BY Zenon, <1>1, <2>4, <3>2, NoRowsFacts DEF SplitCover
            <4>2. local'[a] = Overlay(rows, local[a])
                BY Zenon, <2>2, <4>1 DEF Applied
            <4>3. /\ DOMAIN Overlay(rows, local[a]) = DOMAIN rows \cup DOMAIN local[a]
                  /\ \A p \in DOMAIN rows : Overlay(rows, local[a])[p] = rows[p]
                  /\ \A p \in DOMAIN local[a] \ DOMAIN rows : Overlay(rows, local[a])[p] = local[a][p]
                BY <1>2, <2>2, OverlayFacts, ZenonT(30)
            <4>4. \A p \in pass.received \cup P : p \in DOMAIN local'[a] /\ local'[a][p] = Row(a, p)
                <5> SUFFICES ASSUME NEW p \in pass.received \cup P
                             PROVE  /\ p \in DOMAIN Overlay(rows, local[a])
                                    /\ Overlay(rows, local[a])[p] = Row(a, p)
                    BY Zenon, <4>2
                <5>1. CASE p \in P
                    BY <1>2, <2>2, <2>3, <4>3, <5>1
                <5>2. CASE p \in pass.received \ P
                    BY Zenon, <2>3, <4>1, <4>3, <5>2
                <5>3. QED
                    BY Zenon, <5>1, <5>2
            <4>5. /\ pass'.usable /\ ~pass'.heldWithdrawn /\ pass'.received = pass.received \cup P /\ UNCHANGED <<vuln, aff>>
                  /\ DOMAIN pass'.held = {} /\ ~vuln'[a].withdrawn /\ pass.received \cup P \subseteq DOMAIN aff'[a]
                BY <1>1, <1>2, <2>1, <2>2, <3>2, <4>1, NoRowsFacts, ZenonT(30)
            <4>6. QED
                BY <1>5, <4>4, <4>5, SMTT(30) DEF SplitCover
        <3>3. QED
            BY Zenon, <1>2, <3>1, <3>2
    <2>5. QED
        BY <1>1, <1>2, <1>3, <1>4, <2>1, <2>2, <2>4, SplitKeepsCover, ZenonT(30)
<1>8. QED
    BY Zenon, <1>0, <1>1, <1>6, <1>7, SplitPageCases

\* The end of a split: an advisory that did not change has all its rows, and no others.
LEMMA SplitEndKeepsCover ==
    ASSUME Unfiltered, IInv, CoverInv, SplitEnd
    PROVE  CoverInv'
<1> DEFINE a == pass.after.adv
<1>1. /\ TypeOK /\ PassInv /\ SplitInv /\ pass.pc = "check" /\ pass.since # None /\ pass.scope = Packages
      /\ UNCHANGED <<server, cursor>>
    BY SplitEndFacts, ZenonT(30) DEF IInv, CoverInv, PassInv
<1>2. /\ a \in Advisories /\ a \in DOMAIN vuln /\ local[a] \in Copies /\ pass.held \in Copies
      /\ vuln[a].withdrawn \in BOOLEAN /\ Rest(a) \in Copies
      /\ local'[a] = IF pass.usable /\ SplitUnchanged(a) THEN Kept(Rest(a), pass.received) ELSE Rest(a)
      /\ \A b \in Advisories \ {a} : local'[b] = local[b]
      /\ pass'.pc = "page" /\ pass'.after.adv = a
      /\ pass'.scope = pass.scope /\ pass'.since = pass.since /\ pass'.snap = pass.snap
    <2>1. vuln[a].withdrawn \in BOOLEAN
        BY <1>1, SplitEndFacts, ZenonT(30) DEF TypeOK, VulnRows
    <2>2. QED
        BY <1>1, <2>1, SplitEndFacts, SMTT(30)
<1>3. /\ InWindow(a, cursor) /\ (SplitUnchanged(a) => SplitCover(a))
      /\ \A b \in Advisories : SplitUnchanged(b) /\ b < a => local[b] = ServerRows(b)
    BY Zenon, <1>1 DEF CoverInv, Handled, Same
<1>4. ASSUME SplitUnchanged(a) PROVE local'[a] = ServerRows(a)
    <2>1. SplitCover(a)
        BY Zenon, <1>3, <1>4
    <2>2. CASE vuln[a].withdrawn
        <3>1. local[a] = NoRows /\ (DOMAIN pass.held = {} \/ pass.heldWithdrawn)
            BY Zenon, <2>1, <2>2 DEF SplitCover
        <3>2. Rest(a) = NoRows
            <4>1. CASE DOMAIN pass.held = {}
                <5>1. Rest(a) = Overlay(pass.held, NoRows)
                    BY Zenon, <3>1, <4>1 DEF Rest, Applied
                <5>2. DOMAIN Overlay(pass.held, NoRows) = {}
                    BY Zenon, <4>1, NoRowsFacts DEF Overlay
                <5>3. QED
                    BY Zenon, <1>2, <5>1, <5>2, NoRowsFacts
            <4>2. CASE DOMAIN pass.held # {}
                BY Zenon, <3>1, <4>2 DEF Rest, Applied
            <4>3. QED
                BY Zenon, <4>1, <4>2
        <3>3. Kept(NoRows, pass.received) = NoRows
            <4>1. Kept(NoRows, pass.received) \in Copies /\ DOMAIN Kept(NoRows, pass.received) = {}
                BY NoRowsFacts, KeptFacts, ZenonT(30)
            <4>2. QED
                BY Zenon, <4>1, NoRowsFacts
        <3>4. QED
            BY <1>1, <1>2, <2>2, <3>2, <3>3, ServerRowsFacts, ZenonT(30)
    <2>3. CASE ~vuln[a].withdrawn
        <3>1. /\ pass.usable /\ ~pass.heldWithdrawn
              /\ pass.received \subseteq DOMAIN aff[a] /\ DOMAIN pass.held \subseteq pass.received
              /\ \A p \in DOMAIN pass.held : pass.held[p] = Row(a, p)
              /\ \A p \in pass.received \ DOMAIN pass.held : p \in DOMAIN local[a] /\ local[a][p] = Row(a, p)
            BY <2>1, <2>3, ZenonT(30) DEF SplitCover
        <3>2. DOMAIN aff[a] \subseteq pass.received
            <4>1. DOMAIN aff[a] \cap pass.scope = DOMAIN aff[a]
                BY Zenon, <1>1, <1>2 DEF TypeOK
            <4>2. QED
                BY Zenon, <1>1, <1>4, <4>1 DEF SplitInv
        <3>3. Rest(a) = Overlay(pass.held, local[a])
            BY Zenon, <3>1 DEF Rest, Applied
        <3>4. /\ DOMAIN Rest(a) = DOMAIN pass.held \cup DOMAIN local[a]
              /\ \A p \in DOMAIN pass.held : Rest(a)[p] = pass.held[p]
              /\ \A p \in DOMAIN local[a] \ DOMAIN pass.held : Rest(a)[p] = local[a][p]
            <4>1. /\ DOMAIN Overlay(pass.held, local[a]) = DOMAIN pass.held \cup DOMAIN local[a]
                  /\ \A p \in DOMAIN pass.held : Overlay(pass.held, local[a])[p] = pass.held[p]
                  /\ \A p \in DOMAIN local[a] \ DOMAIN pass.held : Overlay(pass.held, local[a])[p] = local[a][p]
                BY <1>2, OverlayFacts, ZenonT(30)
            <4>2. QED
                BY Zenon, <3>3, <4>1
        <3>5. \A p \in DOMAIN aff[a] : p \in DOMAIN Rest(a) /\ Rest(a)[p] = Row(a, p)
            BY Zenon, <3>1, <3>2, <3>4
        <3>6. local'[a] = Kept(Rest(a), pass.received)
            BY <1>2, <1>4, <3>1, ZenonT(30)
        <3>7. /\ Kept(Rest(a), pass.received) \in Copies
              /\ DOMAIN Kept(Rest(a), pass.received) = DOMAIN Rest(a) \cap (pass.received \cup (Packages \ pass.scope))
              /\ \A p \in DOMAIN Kept(Rest(a), pass.received) : Kept(Rest(a), pass.received)[p] = Rest(a)[p]
            BY <1>2, KeptFacts, ZenonT(30)
        <3>8. DOMAIN Kept(Rest(a), pass.received) = DOMAIN aff[a]
            BY <1>1, <3>1, <3>2, <3>5, <3>7, ZenonT(30)
        <3>9. \A p \in DOMAIN aff[a] : Kept(Rest(a), pass.received)[p] = Row(a, p)
            BY Zenon, <3>5, <3>7, <3>8
        <3>10. /\ ServerRows(a) \in Copies /\ DOMAIN ServerRows(a) = DOMAIN aff[a]
               /\ \A p \in DOMAIN aff[a] : ServerRows(a)[p] = Row(a, p)
            BY <1>1, <1>2, <2>3, ServerRowsFacts, ZenonT(30)
        <3>11. Kept(Rest(a), pass.received) = ServerRows(a)
            <4> DEFINE K == Kept(Rest(a), pass.received)
            <4>1. /\ K \in Copies /\ ServerRows(a) \in Copies /\ DOMAIN K = DOMAIN ServerRows(a)
                  /\ \A p \in DOMAIN K : K[p] = ServerRows(a)[p]
                BY Zenon, <3>7, <3>8, <3>9, <3>10
            <4> HIDE DEF K
            <4>2. K = ServerRows(a)
                BY Zenon, <4>1, CopyEqual
            <4>3. QED
                BY Zenon, <4>2 DEF K
        <3>12. QED
            BY Zenon, <3>6, <3>11
    <2>4. QED
        BY Zenon, <1>2, <2>2, <2>3
<1>5. QED
    BY <1>1, <1>2, <1>3, <1>4, SplitKeepsCover, ZenonT(30)

-----------------------------------------------------------------------------

\* An empty cache without a watermark.
LEMMA InitCover == Init => CoverInv
<1> SUFFICES ASSUME Init PROVE CoverInv
    BY Zenon
<1>1. local = [a \in Advisories |-> NoRows] /\ cursor = None /\ pass = Idle /\ pass.pc = "idle"
    BY ZenonT(30) DEF Init, Idle
<1>2. QED
    BY Zenon, <1>1 DEF CoverInv, Reloading

\* The invariant is about the variables of the specification.
LEMMA StutterKeepsCover ==
    ASSUME CoverInv, UNCHANGED vars
    PROVE  CoverInv'
<1>1. UNCHANGED <<clock, nextXID, tx, vuln, aff, local, cursor, pass, stops>> /\ UNCHANGED server
    BY Zenon DEF vars, server
<1>2. \A a : /\ Same(a)' = Same(a) /\ SplitUnchanged(a)' = SplitUnchanged(a) /\ Reloaded(a)' = Reloaded(a)
             /\ InWindow(a, cursor)' = InWindow(a, cursor) /\ Handled(a)' = Handled(a) /\ SplitCover(a)' = SplitCover(a)
    <2>1. \A a : Same(a)' = Same(a) /\ SplitUnchanged(a)' = SplitUnchanged(a) /\ InWindow(a, cursor)' = InWindow(a, cursor)
        BY Zenon, <1>1, ServerSame DEF Same
    <2>2. \A a : Reloaded(a)' = Reloaded(a)
        BY Zenon, <1>1 DEF Reloaded, Exported, Passed
    <2>3. \A a : Handled(a)' = Handled(a)
        BY Zenon, <1>1 DEF Handled
    <2>4. \A a : SplitCover(a)' = SplitCover(a)
        BY Zenon, <1>1 DEF SplitCover, Row
    <2>5. QED
        BY Zenon, <2>1, <2>2, <2>3, <2>4
<1>3. Reloading' = Reloading
    BY Zenon, <1>1 DEF Reloading
<1>4. QED
    BY <1>1, <1>2, <1>3, ZenonT(30) DEF CoverInv

\* CoverInv is inductive relative to IInv.
LEMMA NextKeepsCover == Unfiltered /\ IInv /\ CoverInv /\ [Next]_vars => CoverInv'
<1> SUFFICES ASSUME Unfiltered, IInv, CoverInv, [Next]_vars PROVE CoverInv'
    OBVIOUS
<1>1. CASE Tick \/ \E w \in Writers : Write(w)
    BY Zenon, <1>1, TickStep, WriteStep, ServerKeepsCover DEF IInv
<1>2. CASE Page
    BY Zenon, <1>2, FullPageKeepsCover, DeltaPageKeepsCover, SplitStartKeepsCover, SplitPageKeepsCover,
       SplitEndKeepsCover, LastPageKeepsCover DEF Page
<1>3. QED
    BY Zenon, <1>1, <1>2, BeginSyncKeepsCover, StopKeepsCover, StutterKeepsCover DEF Next

\* The cache never silently misses a change: outside a pass that reloads it, every advisory on which it
\* differs from the server is selected by the window of the next delta (changedIDsCTE and
\* storeFreshSyncMetadata), for any interleaving of writers, pages and interruptions and any modulus.
THEOREM UnfilteredSyncCovers == Unfiltered => (Spec => []DeltaCoversDifference)
<1> SUFFICES ASSUME Unfiltered PROVE Spec => []DeltaCoversDifference
    OBVIOUS
<1>1. Init => IInv /\ CoverInv
    BY Zenon, InitIInv, InitCover
<1>2. (IInv /\ CoverInv) /\ [Next]_vars => (IInv /\ CoverInv)'
    BY Zenon, NextKeepsIInv, NextKeepsCover
<1>3. IInv /\ CoverInv => DeltaCoversDifference
    <2> SUFFICES ASSUME IInv, CoverInv, cursor # None, pass = Idle \/ pass.since # None, NEW a \in Advisories
                 PROVE  local[a] = ServerRows(a) \/ InWindow(a, cursor)
        BY Zenon DEF DeltaCoversDifference
    <2>1. ~Reloading
        BY DEF Reloading, Idle
    <2>2. QED
        BY <2>1, ZenonT(30) DEF CoverInv, Same
<1>4. QED
    BY <1>1, <1>2, <1>3, PTL DEF Spec
==============================================================================
