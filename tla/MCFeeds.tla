------------------------------- MODULE MCFeeds -------------------------------
(***************************************************************************)
(* The feed importers and the stores they write, each as a component of    *)
(* its own.  The components share no state: a behaviour is about one of    *)
(* them, and s1, s2, ... are its variables.                                *)
(***************************************************************************)
EXTENDS Integers, Sequences, FiniteSets, TLC

CONSTANTS None, Off, x1, x2, m1

\* Two advisories: "b" is removed upstream and comes back.
GitTree == <<[a |-> 1, b |-> 1], [a |-> 2, b |-> 0], [a |-> 2, b |-> 3]>>

\* A CVE enters the snapshot, one changes, one leaves.
Snapshots == <<[c1 |-> 1, c2 |-> 0], [c1 |-> 1, c2 |-> 2], [c1 |-> 0, c2 |-> 1]>>

\* Two advisories with a CVE in common.
CVEsOf == [a |-> {1}, b |-> {1, 2}]

\* Feed writers of a finding and the legacy prune, beside the snapshot builder.
FeedRequests ==
    {[op |-> o, source |-> s, id |-> "a"] : o \in {"upsert", "delete"}, s \in {"openssf", "osv"}}
    \cup {[op |-> "deleteAny", source |-> "any", id |-> "a"],
          [op |-> "notIn", source |-> "openssf", keep |-> {"b"}]}

\* The manual advisory saved anew, edited and removed, by two administrators.
FormRequests ==
    {[op |-> "save", source |-> "manual", kind |-> "malicious", new |-> TRUE],
     [op |-> "save", source |-> "manual", kind |-> "vulnerability", new |-> FALSE],
     [op |-> "remove", source |-> "manual"]}

Entry(affected) == [is |-> "entry", affected |-> affected]
Other(kind) == [is |-> kind, affected |-> <<>>]
\* An entry turns malicious, is malformed in one archive, withdrawn in another.
Archives ==
    [npm |-> <<[x |-> Entry(<<"plain">>), y |-> Other("malformed")],
               [x |-> Entry(<<"malicious", "malicious">>), y |-> Entry(<<"plain", "foreign">>)]>>,
     go  |-> <<[x |-> Other("absent"), y |-> Other("mal")],
               [x |-> Other("withdrawn"), y |-> Entry(<<"plain", "malicious">>)]>>]

Cycle(c, eoas, eol) ==
    [cycle |-> c, eoas |-> eoas, eol |-> eol, isEOL |-> FALSE, isEOAS |-> FALSE]
Product(slug, maps, releases) ==
    [slug |-> slug, maps |-> maps, releases |-> releases, bad |-> FALSE]
\* Cycles and packages come and go, a product disappears, one is malformed.
Products ==
    <<{Product("a", {"p"}, {Cycle(<<1>>, 2, 4), Cycle(<<1, 0>>, 0, 3)}),
       Product("b", {"q", ""}, {Cycle(<<1>>, 1, 0), Cycle(<<>>, 1, 1)})},
      {Product("a", {"p", "q"}, {Cycle(<<1>>, 4, 5)})},
      {[Product("a", {"p"}, {Cycle(<<1>>, 2, 4)}) EXCEPT !.bad = TRUE]},
      {Product("c", {"p"}, {[Cycle(<<1>>, 0, 0) EXCEPT !.isEOAS = TRUE]}),
       Product("b", {"q"}, {Cycle(<<1>>, 1, 3), [Cycle(<<1, 0>>, 0, 0) EXCEPT !.isEOL = TRUE]})}>>
CuratedMaps == [a |-> {"r"}, b |-> {}, c |-> {"q"}]
Lookups == {[name |-> "p", version |-> <<1, 0>>], [name |-> "p", version |-> <<1>>],
            [name |-> "q", version |-> <<1, 0, 2>>], [name |-> "q", version |-> <<1, 1>>]}

\* The transactions of the malicious and manual parts are interchangeable.
Pair == {x1, x2}
Symmetry == Permutations(Pair)

VARIABLE part  \* the component this behaviour is about
VARIABLES s1, s2, s3, s4, s5, s6, s7, s8, s9, s10  \* its state

Git == INSTANCE GitFeeds
    WITH Advisories <- {"a", "b"}, Tree <- GitTree, feed <- s1, head <- s2,
         checkout <- s3, row <- s4, store <- s5, run <- s6, seen <- s7
Snap == INSTANCE SnapshotFeeds
    WITH Vulns <- {x1}, CVEs <- {"c1", "c2"}, Catalog <- Snapshots,
         feed <- s1, head <- s2, alias <- s3, val <- s4, row <- s5, run <- s6,
         tx <- s7, hist <- s8
Adv == INSTANCE AdvisoryStore
    WITH Alias <- CVEsOf, Feeds <- {"osv"}, Ended <- {FALSE}, MaxSev <- 2,
         Page <- 1, rows <- s1, negative <- s2, nvd <- s3, vc <- s4, done <- s5
Wdr == INSTANCE AdvisoryStore
    WITH Alias <- [a |-> {1}], Feeds <- {"osv", "ghsa"}, Ended <- BOOLEAN, MaxSev <- 2,
         Page <- 1, rows <- s1, negative <- s2, nvd <- s3, vc <- s4, done <- s5
Imp == INSTANCE FeedImport
    WITH BatchSize <- 2, MaxTokens <- 6, MaxImports <- 2, req <- s1,
         body <- s2, data <- s3, audit <- s4, row <- s5, held <- s6,
         answer <- s7
Mal == INSTANCE MaliciousStore
    WITH Ids <- {"a", "b"}, Txs <- Pair, Requests <- FeedRequests,
         MaxRev <- 0, rows <- s1, manual <- s2, builder <- s3, tx <- s4,
         holder <- s5
Man == INSTANCE MaliciousStore
    WITH Ids <- {}, Txs <- Pair, Requests <- FormRequests, MaxRev <- 3,
         rows <- s1, manual <- s2, builder <- s3, tx <- s4, holder <- s5
Osv == INSTANCE OSVFeed
    WITH Ecosystems <- <<"npm", "go">>, Entries <- {"x", "y"},
         Archive <- Archives, published <- s1, vulns <- s2, malicious <- s3,
         seen <- s4, row <- s5, sync <- s6
Life == INSTANCE LifecycleFeed
    WITH Catalog <- Products, Curated <- CuratedMaps, Queries <- Lookups,
         Window <- 2, LastDay <- 6, published <- s1, products <- s2,
         tombstones <- s3, ever <- s4, etag <- s5, sync <- s6, today <- s7
Mgr == INSTANCE FeedManager
    WITH Manuals <- {m1}, Enrichment <- FALSE, MaxAttempts <- 2,
         MaxConfigs <- 2, MaxFailures <- 0, regs <- s1, loop <- s2,
         done <- s3, sync <- s4, status <- s5, apply <- s6, start <- s7,
         phase1Done <- s8, rootCancelled <- s9, failures <- s10
Enr == INSTANCE FeedManager
    WITH Manuals <- {}, Enrichment <- TRUE, MaxAttempts <- 1,
         MaxConfigs <- 3, MaxFailures <- 1, regs <- s1, loop <- s2,
         done <- s3, sync <- s4, status <- s5, apply <- s6, start <- s7,
         phase1Done <- s8, rootCancelled <- s9, failures <- s10

vars == <<part, s1, s2, s3, s4, s5, s6, s7, s8, s9, s10>>
after8 == <<s9, s10>>
after7 == <<s8, s9, s10>>
after6 == <<s7, s8, s9, s10>>
after5 == <<s6, s7, s8, s9, s10>>

\* The variables a component has no use for are off.
Off8 == s9 = Off /\ s10 = Off
Off7 == s8 = Off /\ Off8
Off6 == s7 = Off /\ Off7
Off5 == s6 = Off /\ Off6

Init ==
    \/ part = "git" /\ Git!Init /\ Off7
    \/ part = "snapshot" /\ Snap!Init /\ Off8
    \/ part = "advisory" /\ Adv!Init /\ Off5
    \/ part = "withdrawn" /\ Wdr!Init /\ Off5
    \/ part = "import" /\ Imp!Init /\ Off7
    \/ part = "malicious" /\ Mal!Init /\ Off5
    \/ part = "manual" /\ Man!Init /\ Off5
    \/ part = "osv" /\ Osv!Init /\ Off6
    \/ part = "lifecycle" /\ Life!Init /\ Off7
    \/ part = "manager" /\ Mgr!Init
    \/ part = "enrichment" /\ Enr!Init

Next ==
    /\ UNCHANGED part
    /\ \/ part = "git" /\ Git!Next /\ UNCHANGED after7
       \/ part = "snapshot" /\ Snap!Next /\ UNCHANGED after8
       \/ part = "advisory" /\ Adv!Next /\ UNCHANGED after5
       \/ part = "withdrawn" /\ Wdr!Next /\ UNCHANGED after5
       \/ part = "import" /\ Imp!Next /\ UNCHANGED after7
       \/ part = "malicious" /\ Mal!Next /\ UNCHANGED after5
       \/ part = "manual" /\ Man!Next /\ UNCHANGED after5
       \/ part = "osv" /\ Osv!Next /\ UNCHANGED after6
       \/ part = "lifecycle" /\ Life!Next /\ UNCHANGED after7
       \/ part = "manager" /\ Mgr!Next
       \/ part = "enrichment" /\ Enr!Next

Spec == Init /\ [][Next]_vars

(* Success means stored.  A marker that lets the next sync skip work (the  *)
(* commit in a Git feed's status row, a snapshot feed's validator, the     *)
(* ETag of an OSV archive, the digest of the VulnCheck backup) is saved    *)
(* only when everything it stands for has been imported, also when a sync  *)
(* is cut short or an entry fails; a streamed import is stored as a whole, *)
(* audited and answered 200, or leaves nothing behind.                     *)
SuccessMeansStored ==
    /\ part = "git" => Git!CheckpointImported
    /\ part = "snapshot" => Snap!ValidatorNeverAhead
    /\ part = "osv" => Osv!ETagMeansImported
    /\ part = "advisory" => Adv!DigestMeansProcessed
    /\ part = "import" => Imp!ImportAllOrNothing /\ Imp!BodyDecides

(* What a feed no longer backs is gone, and only that: the KEV or EPSS     *)
(* value of a row known when the last snapshot was applied is the one of   *)
(* that snapshot, unless another writer of the column came in between; an  *)
(* advisory is active as long as a source backs it and the last feed to    *)
(* write it does not call it withdrawn; a feed's import leaves manual      *)
(* advisories alone; and the lifecycle tombstones are the cycles the       *)
(* catalogue once had and dropped.                                         *)
StoreMatchesSources ==
    /\ part = "snapshot" => Snap!ColumnMatchesSnapshot
    /\ part = "advisory" => Adv!ActiveMeansSourced
    /\ part = "withdrawn" => Wdr!ActiveMeansSourced
    /\ part = "import" => Imp!ManualUntouched
    /\ part = "lifecycle" => Life!TombstonesExact

(* No two syncs of a feed run together, whether of its loop, of an         *)
(* administrator or of a replaced registration, however Start and the      *)
(* changes of the feed interleave; a base feed has one loop, an enrichment *)
(* feed one that is not cancelled; and the lock file of a Git feed is left *)
(* only by the sync that holds it.                                         *)
OneSyncOfAFeed ==
    /\ part = "manager" => Mgr!OneSync /\ Mgr!OneLoop
    /\ part = "enrichment" => Enr!OneSync /\ Enr!OneLoop
    /\ part = "git" => Git!SyncLockReleased

(* Writers that interleave do not undo each other: a snapshot's absence    *)
(* pass withdraws nothing committed since it began, no source takes over   *)
(* another's finding, an edit of a manual advisory replaces the revision   *)
(* its form showed, no feed lowers a severity another one gave, and a      *)
(* lifecycle finding does not ease as the days pass.                       *)
WritersRespectEachOther ==
    [][ /\ part = "malicious" => Mal!AbsencePassSeesNoNewer /\ Mal!SourceKept
        /\ part = "manual" => Man!EditReplacesWhatItShowed
        /\ part = "advisory" => Adv!SeverityNeverLowered
        /\ part = "lifecycle" => Life!FindingNeverEases ]_vars
==============================================================================
