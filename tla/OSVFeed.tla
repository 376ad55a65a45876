------------------------------- MODULE OSVFeed -------------------------------
(***************************************************************************)
(* The OSV feed (internal/feed/osv/syncer.go): one archive per ecosystem,  *)
(* downloaded under its stored ETag, unpacked entry by entry into the      *)
(* store, and the ETags of all ecosystems saved at the end of a sync in    *)
(* which none failed.                                                      *)
(*                                                                         *)
(* Upstream publishes Archive[e][v], version v of ecosystem e's archive: a *)
(* function from entries to records: "is" tells an ordinary entry from a   *)
(* withdrawn one, a MAL- one, one that does not parse and one the archive  *)
(* does not have; "affected" is the sequence of packages an ordinary entry *)
(* names, each "plain", of category "malicious", or of a "foreign"         *)
(* ecosystem.  The ETag of an archive is its version.                      *)
(***************************************************************************)
EXTENDS Naturals, Sequences

CONSTANTS Ecosystems,  \* the archives, in the order of feed.OSVBucketEcosystems
          Entries,
          Archive      \* ecosystem -> its published versions

VARIABLES published,  \* ecosystem -> version upstream serves
          vulns,      \* vulnerability evidence of source osv: <<entry, 0>> for the
                      \* advisory, <<entry, i>> for its i-th affected package
          malicious,  \* findings of source osv: <<entry, index of the package>>
          seen,       \* ecosystem -> entry -> last archive version it was processed from
          row,        \* feed_sync_status: outcome and ecosystem_etags
          sync        \* the running Sync
vars == <<published, vulns, malicious, seen, row, sync>>

Eco == {Ecosystems[i] : i \in DOMAIN Ecosystems}
NoETags == [e \in Eco |-> 0]
Idle == [pc |-> "idle", at |-> 1, etags |-> NoETags, version |-> 0, left |-> {}, errors |-> 0,
         malformed |-> 0, failed |-> FALSE]

Init == /\ published = [e \in Eco |-> 1]
        /\ vulns = {} /\ malicious = {}
        /\ seen = [e \in Eco |-> [x \in Entries |-> 0]]
        /\ row = [status |-> "pending", etags |-> NoETags]
        /\ sync = Idle

Publish(e) ==
    /\ published[e] < Len(Archive[e])
    /\ published' = [published EXCEPT ![e] = @ + 1]
    /\ UNCHANGED <<vulns, malicious, seen, row, sync>>

\* A status row that cannot be read makes it a full sync.
Begin ==
    /\ sync.pc = "idle"
    /\ \E etags \in {row.etags, NoETags} : sync' = [Idle EXCEPT !.pc = "download", !.etags = etags]
    /\ UNCHANGED <<published, vulns, malicious, seen, row>>

eco == Ecosystems[sync.at]
NextEcosystem(s) ==
    sync' = [s EXCEPT !.pc = IF sync.at = Len(Ecosystems) THEN "finish" ELSE "download",
                      !.at = IF sync.at = Len(Ecosystems) THEN 1 ELSE @ + 1]

\* 304 and 404 leave the ecosystem alone; any other answer but 200, a broken
\* download or an archive that does not open fails it.
download ==
    /\ sync.pc = "download"
    /\ \/ sync.etags[eco] = published[eco] /\ NextEcosystem(sync)
       \/ NextEcosystem(sync)
       \/ NextEcosystem([sync EXCEPT !.failed = TRUE])
       \/ /\ sync.etags[eco] # published[eco]
          /\ sync' = [sync EXCEPT !.pc = "entries", !.version = published[eco], !.errors = 0, !.malformed = 0,
                         !.left = {x \in Entries : Archive[eco][published[eco]][x].is # "absent"}]
    /\ UNCHANGED <<published, vulns, malicious, seen, row>>

mapToMaliciousFindings(entry, x) ==
    {<<x, i>> : i \in {j \in DOMAIN entry.affected : entry.affected[j] = "malicious"}}

mapToVulnerability(entry, x) ==
    {<<x, 0>>} \cup {<<x, i>> : i \in {j \in DOMAIN entry.affected : entry.affected[j] # "foreign"}}

Without(x) == {f \in vulns : f[1] # x}

\* The writes of an ordinary entry that succeed: a malicious one's delete
\* and upserts are separate transactions, a plain one's upsert is one.
Written(entry, x, all) ==
    LET findings == mapToMaliciousFindings(entry, x)
    IN  IF findings = {}
        THEN /\ vulns' = IF all THEN Without(x) \cup mapToVulnerability(entry, x) ELSE vulns
             /\ UNCHANGED malicious
        ELSE \E del \in BOOLEAN, up \in SUBSET findings :
                 /\ all <=> del /\ up = findings
                 /\ vulns' = IF del THEN Without(x) ELSE vulns
                 /\ malicious' = malicious \cup up

\* A withdrawn entry gives up its vulnerability evidence.
Withdraw(x) == vulns' = Without(x) /\ UNCHANGED malicious

processOSVEntry(x) ==
    LET entry == Archive[eco][sync.version][x]
        done == [sync EXCEPT !.left = @ \ {x}]
    IN  /\ sync.pc = "entries" /\ x \in sync.left
        /\ \/ /\ entry.is \in {"entry", "withdrawn", "mal"}
              /\ CASE entry.is = "entry" -> Written(entry, x, TRUE)
                   [] entry.is = "withdrawn" -> Withdraw(x)
                   [] entry.is = "mal" -> UNCHANGED <<vulns, malicious>>
              /\ seen' = [seen EXCEPT ![eco][x] = sync.version]
              /\ sync' = done
           \/ /\ CASE entry.is = "entry" -> Written(entry, x, FALSE)
                   [] OTHER -> UNCHANGED <<vulns, malicious>>
              /\ sync' = [done EXCEPT !.errors = @ + 1, !.malformed = @ + (IF entry.is = "malformed" THEN 1 ELSE 0)]
              /\ UNCHANGED seen
        /\ UNCHANGED <<published, row>>

\* Mutant: only an archive whose errors are all malformed entries fails.
ArchiveFailsMalformed == sync.errors > 0 /\ sync.malformed = sync.errors

\* Entries that failed fail the ecosystem, whatever was the matter.
ArchiveFails == sync.errors > 0

syncEcosystem ==
    /\ sync.pc = "entries" /\ sync.left = {}
    /\ IF ArchiveFails THEN NextEcosystem([sync EXCEPT !.failed = TRUE])
       ELSE NextEcosystem([sync EXCEPT !.etags[eco] = sync.version])
    /\ UNCHANGED <<published, vulns, malicious, seen, row>>

recordSyncFailure ==
    /\ sync.pc = "finish" /\ sync.failed
    /\ \/ row' = [row EXCEPT !.status = "error"]
       \/ UNCHANGED row
    /\ sync' = Idle /\ UNCHANGED <<published, vulns, malicious, seen>>

\* The row is upserted without metadata, which keeps the ETags it has.
recordSyncSuccess ==
    /\ sync.pc = "finish" /\ ~sync.failed
    /\ \/ row' = [row EXCEPT !.status = "success"]
       \/ UNCHANGED row
    /\ sync' = [sync EXCEPT !.pc = "etags"] /\ UNCHANGED <<published, vulns, malicious, seen>>

saveEcosystemETags ==
    /\ sync.pc = "etags"
    /\ \/ row' = [row EXCEPT !.etags = sync.etags]
       \/ UNCHANGED row
    /\ sync' = Idle /\ UNCHANGED <<published, vulns, malicious, seen>>

\* A cancelled context ends the sync between two entries or ecosystems and
\* is recorded; a crash is not.
Stop ==
    /\ sync.pc # "idle"
    /\ \/ sync.pc \in {"download", "entries"} /\ row' = [row EXCEPT !.status = "error"]
       \/ UNCHANGED row
    /\ sync' = Idle /\ UNCHANGED <<published, vulns, malicious, seen>>

Next == \/ \E e \in Eco : Publish(e)
        \/ \E x \in Entries : processOSVEntry(x)
        \/ Begin \/ download \/ syncEcosystem \/ recordSyncFailure \/ recordSyncSuccess
        \/ saveEcosystemETags \/ Stop

Spec == Init /\ [][Next]_vars

-----------------------------------------------------------------------------
TypeOK ==
    /\ \A e \in Eco : published[e] \in 1..Len(Archive[e]) /\ row.etags[e] \in 0..Len(Archive[e])
    /\ vulns \cup malicious \subseteq Entries \X Nat
    /\ sync.pc \in {"idle", "download", "entries", "finish", "etags"}

\* A saved ETag is never ahead of the store: every entry of the archive it
\* names was processed, in that version or a later one.  An entry that
\* failed, or a sync cut short, leaves the old ETag, so the next sync
\* downloads the archive again.
ETagMeansImported ==
    \A e \in Eco : row.etags[e] # 0 =>
        \A x \in Entries : Archive[e][row.etags[e]][x].is # "absent" => seen[e][x] >= row.etags[e]

\* An entry every archive version in force says is withdrawn leaves no
\* evidence of source osv once those versions are the saved ones.
\* Not so, and in no run: a withdrawn entry deletes the vulnerability of source
\* osv, but not the malicious finding an earlier version of it created.
WithdrawnLeavesNothing ==
    \A x \in Entries :
        /\ sync.pc = "idle"
        /\ \A e \in Eco : row.etags[e] # 0 /\ Archive[e][row.etags[e]][x].is \in {"withdrawn", "absent"}
        /\ \E e \in Eco : Archive[e][row.etags[e]][x].is = "withdrawn"
        => \A f \in vulns \cup malicious : f[1] # x
=============================================================================
