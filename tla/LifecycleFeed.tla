---------------------------- MODULE LifecycleFeed ----------------------------
(***************************************************************************)
(* The endoflife.date feed: the conditional download and its sync          *)
(* (internal/feed/endoflife), the transaction that replaces the stored     *)
(* products and keeps tombstones for local databases                       *)
(* (internal/db/postgres/lifecycle.go), and the policy that turns a        *)
(* release cycle into a finding (internal/lifecycle/policy.go).            *)
(*                                                                         *)
(* A product is a record: its slug, the packages its identifiers map to    *)
(* it ("" one that maps to none), its releases, and whether one of its     *)
(* dates does not parse.  A release has a                                  *)
(* cycle (a sequence of version components), the days eoas and eol start   *)
(* (0: no date), and the two flags upstream may set without a date.        *)
(***************************************************************************)
EXTENDS Naturals, SequencesExt

CONSTANTS Catalog,   \* the published catalogs, in order: each a set of products
          Curated,   \* slug -> the packages CuratedPackageMaps adds
          Queries,   \* package versions looked up: [name, version]
          Window,    \* EOLSoonWindow, in days
          LastDay    \* bound on the clock

VARIABLES published,  \* index of the catalog upstream serves
          products,   \* the stored products with their releases and maps
          tombstones, \* ids recorded for local databases to delete
          ever,       \* every id ever stored (history)
          etag, sync, today
vars == <<published, products, tombstones, ever, etag, sync, today>>

Idle == [pc |-> "idle", version |-> 0, etag |-> 0]

Init == /\ published = 1 /\ products = {} /\ tombstones = {} /\ ever = {}
        /\ etag = 0 /\ sync = Idle /\ today = 1

Publish ==
    /\ published < Len(Catalog) /\ published' = published + 1
    /\ UNCHANGED <<products, tombstones, ever, etag, sync, today>>

Day ==
    /\ today < LastDay /\ today' = today + 1
    /\ UNCHANGED <<published, products, tombstones, ever, etag, sync>>

\* The ids a product's rows stand for in a local database.
Ids(ps) == UNION {{<<m, p.slug, r.cycle>> : m \in p.maps, r \in p.releases} : p \in ps}

-----------------------------------------------------------------------------
(* The sync.                                                               *)

\* A 304 keeps the row's ETag; an answer without ETag keeps it as well.
FetchProductsFull ==
    /\ sync.pc = "idle"
    /\ \E known \in {etag, 0} :
          \/ known = published /\ UNCHANGED sync
          \/ known # published /\ \E tag \in {published, 0} :
                sync' = [pc |-> "replace", version |-> published, etag |-> tag]
    /\ UNCHANGED <<published, products, tombstones, ever, etag, today>>

mapProduct(p) == [p EXCEPT !.maps = @ \cup Curated[p.slug]]

\* A product that cannot be mapped ends the sync before anything is stored.
MapFails ==
    /\ sync.pc = "replace" /\ \E p \in Catalog[sync.version] : p.bad
    /\ sync' = Idle
    /\ UNCHANGED <<published, products, tombstones, ever, etag, today>>

\* Mutant: identifiers seen again are not taken off the list.
clearCurrentNever(ids) == {}

\* The tombstones a stored product clears: those of its current rows.
clearCurrentLifecycleTombstonesForProduct(ids) == ids

\* Mutant: a product that is dropped leaves no tombstones.
recordCurrentOnly(ps, slugs) == Ids({p \in ps : p.slug \in slugs})

\* The tombstones a replacement records: first for every product it stores
\* anew, then for every product it drops.
recordLifecycleTombstonesForProduct(ps, slugs) ==
    Ids({p \in ps : p.slug \in slugs}) \cup Ids({p \in ps : p.slug \notin slugs})

upsertLifecyclePackageMapPhaseTx(maps) == maps \ {""}

\* Each product's row and children as stored: blank cycles and names are not.
upsertLifecycleProductsTx(new) ==
    {[p EXCEPT !.releases = {r \in @ : r.cycle # <<>>}, !.maps = upsertLifecyclePackageMapPhaseTx(@)] : p \in new}

ReplaceLifecycleProducts ==
    LET new == upsertLifecycleProductsTx({mapProduct(p) : p \in Catalog[sync.version]})
        slugs == {p.slug : p \in new}
    IN  /\ sync.pc = "replace" /\ \A p \in new : ~p.bad
        /\ tombstones' = (tombstones \cup recordLifecycleTombstonesForProduct(products, slugs))
                             \ clearCurrentLifecycleTombstonesForProduct(Ids(new))
        /\ products' = new
        /\ ever' = ever \cup Ids(new)
        /\ sync' = [sync EXCEPT !.pc = "record"]
        /\ UNCHANGED <<published, etag, today>>

\* The status row, with the new ETag, is written after the products.
recordSyncSuccess ==
    /\ sync.pc = "record"
    /\ etag' = IF sync.etag # 0 THEN sync.etag ELSE etag
    /\ sync' = Idle /\ UNCHANGED <<published, products, tombstones, ever, today>>

\* A failed replacement, a status row that is not written, a crash: the row
\* keeps its ETag.
Fail ==
    /\ sync.pc # "idle" /\ sync' = Idle
    /\ UNCHANGED <<published, products, tombstones, ever, etag, today>>

Next == Publish \/ Day \/ FetchProductsFull \/ MapFails \/ ReplaceLifecycleProducts
        \/ recordSyncSuccess \/ Fail

Spec == Init /\ [][Next]_vars

-----------------------------------------------------------------------------
(* The policy.                                                             *)

cycleMatches(version, cycle) == cycle # <<>> /\ IsPrefix(cycle, version)

\* The most specific matching release of each product.
LongestMatchingReleases(ps, query) ==
    {LET ms == {r \in p.releases : cycleMatches(query.version, r.cycle)}
     IN  CHOOSE r \in ms : \A o \in ms : Len(o.cycle) <= Len(r.cycle) :
       p \in {q \in ps : query.name \in q.maps /\ \E r \in q.releases : cycleMatches(query.version, r.cycle)}}

\* Mutant: the day itself does not count.
dateBefore(date) == date # 0 /\ date < today

dateOnOrBefore(date) == date # 0 /\ date <= today
dateWithin(date) == date # 0 /\ date > today /\ date <= today + Window

\* How bad a release is: 3 end of life, 2 soon, 1 security support only.
FindingForRelease(r) ==
    CASE r.isEOL \/ dateOnOrBefore(r.eol) -> 3
      [] ~(r.isEOL \/ dateOnOrBefore(r.eol)) /\ dateWithin(r.eol) -> 2
      [] ~(r.isEOL \/ dateOnOrBefore(r.eol) \/ dateWithin(r.eol)) /\ (r.isEOAS \/ dateOnOrBefore(r.eoas)) -> 1
      [] OTHER -> 0

FindLifecycleFindingsBatch(query) ==
    {FindingForRelease(r) : r \in LongestMatchingReleases(products, query)} \ {0}

-----------------------------------------------------------------------------
TypeOK ==
    /\ published \in 1..Len(Catalog) /\ today \in 1..LastDay
    /\ sync.pc \in {"idle", "replace", "record"}

\* The tombstones are exact: an id some local database may still hold and the
\* store no longer has is tombstoned, and nothing current is.  A product
\* that drops a cycle or a package, disappears and comes back, or changes
\* its slug leaves neither a finding nobody withdraws nor a deletion of a
\* finding that is in force.
TombstonesExact == tombstones = ever \ Ids(products)

\* With the same products stored, time only makes a package version's worst
\* lifecycle finding worse: no day, the end-of-life day itself included,
\* falls between two of the policy's windows.
FindingNeverEases ==
    products' = products =>
      \A q \in Queries : \A f \in FindLifecycleFindingsBatch(q) :
          \E g \in FindLifecycleFindingsBatch(q)' : g >= f
=============================================================================
