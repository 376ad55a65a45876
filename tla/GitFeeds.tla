------------------------------ MODULE GitFeeds ------------------------------
(***************************************************************************)
(* The two feeds that read a git repository: GitHub advisories (ghsa) and  *)
(* the OpenSSF malicious packages (openssf), from the manager's attempt    *)
(* through the clone or pull, the import and the status row that carries   *)
(* the checkpoint, the last imported commit.  One feed runs at a time (the *)
(* manager's per-feed lock, FeedManager), so a state holds one feed.       *)
(*                                                                         *)
(* Tree[c][a] is the content of advisory a at upstream commit c, 0 when    *)
(* the file is absent (ghsa) or absent or withdrawn (openssf).  Upstream   *)
(* only appends commits.  A file that cannot be read, parsed, mapped or    *)
(* stored is the disjunct that counts an entry error.                      *)
(***************************************************************************)
EXTENDS Integers, Sequences

CONSTANTS Advisories, Tree, None

VARIABLES
    feed,      \* "ghsa" or "openssf"
    head,      \* upstream's newest commit
    checkout,  \* the working copy: its HEAD, the commits it holds, the lock file
    row,       \* feed_sync_status: status, last_commit_hash, metadata is current
    store,     \* the advisories of this feed that are active
    run,       \* the running attempt
    seen       \* history: the process crashed; a full walk met older rows

vars == <<feed, head, checkout, row, store, run, seen>>
external == <<feed, head, seen>>

Absent == [at |-> None, have |-> {}, lock |-> FALSE]
Idle == [pc |-> "idle", before |-> "none", current |-> TRUE, was |-> None, commit |-> None,
         todo |-> {}, full |-> FALSE, errs |-> FALSE]

Init ==
    /\ feed \in {"ghsa", "openssf"}
    /\ head = 1
    /\ checkout = Absent
    /\ row = [st |-> "none", commit |-> None, meta |-> FALSE]
    /\ store = [a \in Advisories |-> 0]
    /\ run = Idle
    /\ seen = [crash |-> FALSE, walk |-> FALSE]

Goto(pc) == run' = [run EXCEPT !.pc = pc]

-----------------------------------------------------------------------------
(* The surroundings: upstream commits, a data directory that is lost.      *)

Push ==
    /\ head + 1 \in DOMAIN Tree
    /\ head' = head + 1
    /\ UNCHANGED <<feed, checkout, row, store, run, seen>>

LoseCheckout ==
    /\ run.pc = "idle"
    /\ checkout # Absent
    /\ checkout' = Absent
    /\ UNCHANGED <<external, row, store, run>>

(* A crash keeps the database and the working copy, with its lock file.    *)
(* The next start turns a row left running into an error.                  *)
Crash ==
    /\ run.pc # "idle"
    /\ run' = Idle
    /\ row' \in {row, [row EXCEPT !.st = IF @ = "running" THEN "error" ELSE @]}
    /\ seen' = [seen EXCEPT !.crash = TRUE]
    /\ UNCHANGED <<feed, head, checkout, store>>

-----------------------------------------------------------------------------
(* The manager around Sync.  A registration that was replaced meanwhile    *)
(* writes no status, but its Sync still runs.                              *)

FirstStep == IF feed = "ghsa" THEN "load" ELSE "git"

recordRunningStatusForFeed ==
    /\ run.pc = "idle"
    /\ \E current \in BOOLEAN :
          /\ run' = [Idle EXCEPT !.pc = FirstStep, !.current = current, !.before = row.st]
          /\ row' = IF current THEN [row EXCEPT !.st = "running"] ELSE row
    /\ UNCHANGED <<external, checkout, store>>

(* The manager's own row keeps commit and metadata: an empty value never   *)
(* replaces a stored one.                                                  *)
recordStatusForFeed(st) ==
    \/ run.current /\ row' = [row EXCEPT !.st = st]
    \/ UNCHANGED row

SyncReturned ==
    /\ run.pc = "return"
    /\ recordStatusForFeed("success")
    /\ run' = Idle
    /\ UNCHANGED <<external, checkout, store>>

(* recordSyncFailure of the syncer, then a retry or the manager's error.   *)
recordSyncFailure ==
    /\ run.pc = "fail"
    /\ row' \in {row, [row EXCEPT !.st = "error"]}
    /\ run' \in {Idle, [Idle EXCEPT !.pc = FirstStep, !.current = run.current, !.before = run.before]}
    /\ UNCHANGED <<external, checkout, store>>

(* Sync loads the row; a failed read leaves no baseline.                   *)
GetFeedSyncStatus ==
    /\ run.pc = "load"
    /\ \E was \in {row, [row EXCEPT !.st = "none", !.commit = None]} :
          run' = [run EXCEPT !.was = was, !.pc = IF feed = "ghsa" THEN "git" ELSE "decide"]
    /\ UNCHANGED <<external, checkout, row, store>>

-----------------------------------------------------------------------------
(* GitRepo.                                                                *)

isCloned == checkout.at # None
Present(c) == {a \in Advisories : Tree[c][a] # 0}
Changed(b, c) == {a \in Advisories : Tree[b][a] # Tree[c][a]}
AfterGit == IF feed = "ghsa" THEN "decide" ELSE "load"

(* Mutant: the delta is taken from the working copy's HEAD.                *)
FilesSinceCheckout(c, delta) ==
    IF checkout.at = c THEN [todo |-> {}, full |-> FALSE]
    ELSE IF delta THEN [todo |-> Changed(checkout.at, c), full |-> FALSE]
    ELSE [todo |-> Present(c), full |-> TRUE]

(* What the caller imports from commit c: nothing when it is the baseline, *)
(* the changed files when the baseline can be compared, else all files.    *)
Files(c, delta) ==
    IF feed = "ghsa" /\ run.was.commit = c THEN [todo |-> {}, full |-> FALSE]
    ELSE IF delta THEN [todo |-> Changed(run.was.commit, c), full |-> FALSE]
    ELSE [todo |-> Present(c), full |-> TRUE]

Ready(c, delta) ==
    LET f == Files(c, delta)
    IN  run' = [run EXCEPT !.pc = AfterGit, !.commit = c, !.todo = f.todo, !.full = f.full, !.errs = FALSE]

clone ==
    /\ run.pc = "git"
    /\ ~isCloned
    /\ \/ checkout' = [Absent EXCEPT !.at = head, !.have = {head}] /\ Ready(head, FALSE)
       \/ UNCHANGED checkout /\ Goto("fail")
    /\ UNCHANGED <<external, row, store>>

acquireSyncLock ==
    /\ run.pc = "git"
    /\ isCloned
    /\ feed = "ghsa"
    /\ \/ ~checkout.lock /\ checkout' = [checkout EXCEPT !.lock = TRUE] /\ Goto("locked")
       \/ checkout.lock /\ UNCHANGED checkout /\ Goto("fail")    \* waited until the context ended
    /\ UNCHANGED <<external, row, store>>

(* fetch and reset of EnsureCloned, which takes no lock file.              *)
pull ==
    /\ run.pc = "git"
    /\ isCloned
    /\ feed = "openssf"
    /\ checkout' = [checkout EXCEPT !.at = head, !.have = @ \cup {head}]
    /\ Ready(head, FALSE)
    /\ UNCHANGED <<external, row, store>>

(* fetch, diff against the baseline, reset; the diff may fail.             *)
PullWithChangedFiles ==
    /\ run.pc = "locked"
    /\ checkout' = [at |-> head, have |-> checkout.have \cup {head}, lock |-> FALSE]
    /\ \E delta \in BOOLEAN :
          /\ delta => run.was.commit \in checkout.have
          /\ Ready(head, delta)
    /\ UNCHANGED <<external, row, store>>

(* Mutant: an error return keeps the lock file.                            *)
PullFailsLocked ==
    /\ run.pc = "locked"
    /\ checkout' \in {[checkout EXCEPT !.have = h] : h \in {checkout.have, checkout.have \cup {head}}}
    /\ Goto("fail")
    /\ UNCHANGED <<external, row, store>>

(* fetch, reset or rev-parse fails; the working copy may have advanced.    *)
PullFails ==
    /\ run.pc \in {"locked"} \cup (IF feed = "openssf" /\ isCloned THEN {"git"} ELSE {})
    /\ \E h \in {checkout.have, checkout.have \cup {head}} : \E at \in {checkout.at, head} :
          /\ at \in h
          /\ checkout' = [at |-> at, have |-> h, lock |-> FALSE]
    /\ Goto("fail")
    /\ UNCHANGED <<external, row, store>>

-----------------------------------------------------------------------------
(* Sync after the pull.                                                    *)

AlreadySynced == run.was.st = "success" /\ run.was.commit = run.commit

(* ghsa: the same commit after a success is only repaired and recorded.    *)
(* openssf: it is skipped when the importer has not changed.               *)
SkipUnchanged ==
    /\ run.pc = "decide"
    /\ AlreadySynced
    /\ feed = "openssf" => run.was.meta
    /\ Goto(IF run.was.meta THEN "record" ELSE "repair")
    /\ UNCHANGED <<external, checkout, row, store>>

BeginImport ==
    /\ run.pc = "decide"
    /\ ~AlreadySynced \/ (feed = "openssf" /\ ~run.was.meta)
    /\ Goto("import")
    /\ seen' = [seen EXCEPT !.walk = @ \/ (feed = "ghsa" /\ run.full /\ \E a \in Advisories : store[a] # 0)]
    /\ UNCHANGED <<feed, head, checkout, row, store>>

(* An entry that is there is stored, or counted as an entry error.         *)
UpsertEntry(a) ==
    /\ Tree[run.commit][a] # 0
    /\ \/ store' = [store EXCEPT ![a] = Tree[run.commit][a]] /\ run' = [run EXCEPT !.todo = @ \ {a}]
       \/ UNCHANGED store /\ run' = [run EXCEPT !.todo = @ \ {a}, !.errs = TRUE]

walkAdvisories ==
    /\ run.pc = "import" /\ feed = "ghsa"
    /\ run.full
    /\ \E a \in run.todo : UpsertEntry(a)
    /\ UNCHANGED <<external, checkout, row>>

(* Of the changed files, a missing one deletes its advisory, and a failed  *)
(* deletion ends the import.                                               *)
DeleteEntry(a) ==
    /\ Tree[run.commit][a] = 0
    /\ \/ store' = [store EXCEPT ![a] = 0] /\ run' = [run EXCEPT !.todo = @ \ {a}]
       \/ UNCHANGED store /\ Goto("fail")

processChangedFiles ==
    /\ run.pc = "import" /\ feed = "ghsa"
    /\ ~run.full
    /\ \E a \in run.todo : UpsertEntry(a) \/ DeleteEntry(a)
    /\ UNCHANGED <<external, checkout, row>>

(* Mutant: an import with entry errors is recorded like any other.         *)
EndImportLenient ==
    /\ run.pc = "import" /\ feed = "ghsa"
    /\ run.todo = {}
    /\ Goto("repair")
    /\ UNCHANGED <<external, checkout, row, store>>

EndImport ==
    /\ run.pc = "import" /\ feed = "ghsa"
    /\ run.todo = {}
    /\ Goto(IF run.errs THEN "fail" ELSE "repair")
    /\ UNCHANGED <<external, checkout, row, store>>

(* ReplaceMaliciousFindingsSnapshot: any entry error, and a snapshot with  *)
(* nothing active, leaves the findings alone; else they are the snapshot.  *)
validateMaliciousWalkStats(c) == Present(c) # {}

walkSnapshotEntries(c) == [a \in Advisories |-> Tree[c][a]]

ReplaceSnapshot ==
    /\ run.pc = "import" /\ feed = "openssf"
    /\ \/ /\ validateMaliciousWalkStats(run.commit)
          /\ store' = walkSnapshotEntries(run.commit)
          /\ Goto("record")
       \/ UNCHANGED store /\ Goto("fail")
    /\ UNCHANGED <<external, checkout, row>>

(* The context ends between two entries.                                   *)
CancelImport ==
    /\ run.pc = "import" /\ run.todo # {}
    /\ Goto("fail")
    /\ UNCHANGED <<external, checkout, row, store>>

(* The row is written last.  A failed write is logged and Sync succeeds.   *)
recordSyncSuccessWithCommit ==
    /\ run.pc \in {"repair", "record"}
    /\ \/ \E repaired \in BOOLEAN :
             /\ run.pc = "record" => repaired
             /\ row' = [st |-> "success", commit |-> run.commit, meta |-> repaired]
       \/ UNCHANGED row
    /\ Goto("return")
    /\ UNCHANGED <<external, checkout, store>>

Sync ==
    \/ GetFeedSyncStatus \/ clone \/ acquireSyncLock \/ pull \/ PullWithChangedFiles \/ PullFails
    \/ SkipUnchanged \/ BeginImport \/ walkAdvisories \/ processChangedFiles \/ EndImport
    \/ ReplaceSnapshot \/ CancelImport
    \/ recordSyncSuccessWithCommit

Next ==
    \/ Push \/ LoseCheckout \/ Crash
    \/ recordRunningStatusForFeed \/ SyncReturned \/ recordSyncFailure
    \/ Sync

Spec == Init /\ [][Next]_vars

-----------------------------------------------------------------------------
TypeOK ==
    /\ feed \in {"ghsa", "openssf"} /\ head \in DOMAIN Tree
    /\ checkout.have \subseteq DOMAIN Tree /\ checkout.at \in {None} \cup checkout.have
    /\ row.commit \in {None} \cup DOMAIN Tree
    /\ run.todo \subseteq Advisories
    /\ run.commit \in {None} \cup DOMAIN Tree

Since(a) == {Tree[c][a] : c \in row.commit .. head}

(* The commit in feed_sync_status is a checkpoint: whatever failed, was    *)
(* retried or crashed since, every advisory the repository held at that    *)
(* commit is stored as it was then or later, and one it no longer held is  *)
(* gone, unless a full walk (which never deletes) met older rows.  The     *)
(* OpenSSF findings are always one whole snapshot of such a commit.        *)
CheckpointImported ==
    row.commit # None =>
        /\ \A a \in Advisories : Tree[row.commit][a] # 0 \/ ~seen.walk => store[a] \in Since(a)
        /\ feed = "openssf" => \E c \in row.commit .. head : store = Tree[c]

(* acquireSyncLock's file is removed on every return of                    *)
(* PullWithChangedFiles: it outlives the pull only after a crash.          *)
SyncLockReleased == checkout.lock => run.pc = "locked" \/ seen.crash

(* malicious/syncer.go: a commit that was synced successfully by the       *)
(* current importer is not imported again.  Not so, and in no run: the     *)
(* manager writes "running" to the row before the syncer reads it.         *)
SyncedCommitSkipped ==
    [][ BeginImport /\ feed = "openssf" =>
          ~ (run.before = "success" /\ run.was.commit = run.commit /\ run.was.meta) ]_vars
=============================================================================
