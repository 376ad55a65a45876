------------------------------- MODULE AuditLog -------------------------------
(***************************************************************************)
(* The admin audit log of the PostgreSQL store: privileged transactions    *)
(* (logins, password changes, settings saves, the offline privacy export)  *)
(* append digest-chained rows, the retention job deletes old ones, and the *)
(* audit page and the export annotate what they load                       *)
(* (internal/db/postgres/admin_auth_audit.go, system_settings.go,          *)
(* privacy.go, internal/db/audit_integrity.go).  A committed settings save *)
(* is then published to the running server (internal/config/runtime.go).   *)
(* A digest hashes a payload that holds the row's id, so it is represented *)
(* by that id and the algorithm.  All processes read one clock.            *)
(***************************************************************************)
EXTENDS Integers, FiniteSets, SequencesExt

CONSTANTS Procs, None,
          Subjects, \* what an export selects rows by; "" matches no selector
          MaxId,    \* bound: row ids reserved
          MaxTime,  \* bound: last reading of the clock
          Retention

VARIABLES rows,    \* committed admin_audit_log rows, in order of commit
          nextId,  \* the table's id sequence, which no rollback undoes
          now,
          key,     \* is PACKMON_ADMIN_AUDIT_HMAC_KEY configured?
          lock,    \* table, row or the commit slot -> the process that holds it
          rev,     \* admin_auth and system_settings -> their revision
          live,    \* RuntimeSettings: the settings revision the server applies
          unacked, \* history: the settings commits this server saw fail
          tx       \* process -> its transaction
vars == <<rows, nextId, now, key, lock, rev, live, unacked, tx>>

Locks == {"commitSlot", "admin_auth", "system_settings", "admin_audit_log"}
Kinds == {"login", "password", "settings", "export"}
NoDigest == [id |-> 0, alg |-> ""]
Idle == [kind |-> "none", held |-> 0, seen |-> 0, row |-> <<>>]
Blind == -1  \* the revision of a form sent without updated_at

\* Mutant: one transaction takes the row lock before the table lock.
adminAuthAuditMutationStepsSwapped(k) ==
    CASE k = "login" -> <<"admin_audit_log", "admin_auth">>
      [] k = "password" -> <<"admin_auth", "admin_audit_log">>
      [] k = "settings" -> <<"commitSlot", "system_settings", "admin_audit_log">>
      [] k = "export" -> <<"admin_audit_log">>
      [] k = "publish" -> <<"commitSlot">>

\* What a transaction locks, in order, each lock held until it ends.  A
\* settings save waits for the commit slot first and keeps it until its
\* values are published.
adminAuthAuditMutationSteps(k) ==
    CASE k \in {"login", "password"} -> <<"admin_auth", "admin_audit_log">>
      [] k = "settings" -> <<"commitSlot", "system_settings", "admin_audit_log">>
      [] k = "export" -> <<"admin_audit_log">>
      [] k = "publish" -> <<"commitSlot">>

Legacy == [id |-> 1, at |-> 0, prev |-> NoDigest, digest |-> NoDigest, subject |-> ""]

\* A database with a row from before the digests, which retention may delete.
Init == /\ rows = <<Legacy>> /\ nextId = 1 /\ now = 1 /\ key = FALSE
        /\ lock = [l \in Locks |-> None] /\ rev = [l \in Locks |-> 0] /\ live = 0
        /\ unacked = {} /\ tx = [p \in Procs |-> Idle]

Tick == now < MaxTime /\ now' = now + 1 /\ UNCHANGED <<rows, nextId, key, lock, rev, live, unacked, tx>>

\* The server stops, its transactions roll back, and it starts again with the
\* stored settings, now or from now on with a digest key.
applyStoredSystemSettings == live' = rev["system_settings"]
SetAdminAuditDigestHMACKey == key' \in {key, TRUE}
Restart ==
    /\ SetAdminAuditDigestHMACKey /\ applyStoredSystemSettings
    /\ lock' = [l \in Locks |-> None] /\ tx' = [p \in Procs |-> Idle] /\ unacked' = {}
    /\ UNCHANGED <<rows, nextId, now, rev>>

\* The page is rendered, or the password verified, before the transaction.
Begin(p, k, seen) ==
    /\ tx[p] = Idle
    /\ tx' = [tx EXCEPT ![p] = [Idle EXCEPT !.kind = k, !.seen = seen]]
    /\ UNCHANGED <<rows, nextId, now, key, lock, rev, live, unacked>>
HandleSystemSettingsSave(p) ==
    \E seen \in {rev["system_settings"], Blind} : Begin(p, "settings", seen)

End(p) == /\ tx' = [tx EXCEPT ![p] = Idle]
          /\ lock' = [l \in Locks |-> IF lock[l] = p THEN None ELSE lock[l]]

Rollback(p) ==
    /\ tx[p].kind \in Kinds /\ End(p)
    /\ UNCHANGED <<rows, nextId, now, key, rev, live, unacked>>

\* Mutant: the table lock does not conflict with itself.
FreeShared(l) == l = "admin_audit_log" \/ lock[l] = None

\* SHARE ROW EXCLUSIVE conflicts with itself and with DELETE.
Free(l) == lock[l] = None

Wants(p) == adminAuthAuditMutationSteps(tx[p].kind)[tx[p].held + 1]
Waiting(p) == tx[p] # Idle /\ tx[p].held < Len(adminAuthAuditMutationSteps(tx[p].kind))

\* Mutant: the revision is not compared.
changeMatchesAny(p, l) == TRUE

\* UPDATE ... WHERE password_hash = $2, WHERE updated_at = $6: evaluated on
\* the row as it is once its lock is granted.  Without a revision the settings
\* are upserted.
changeAdminPasswordTx(p) == tx[p].seen = rev["admin_auth"]
writeSystemSettingsAtRevisionTx(p) == tx[p].seen \in {rev["system_settings"], Blind}
changeMatches(p, l) ==
    /\ tx[p].kind = "password" /\ l = "admin_auth" => changeAdminPasswordTx(p)
    /\ tx[p].kind = "settings" /\ l = "system_settings" => writeSystemSettingsAtRevisionTx(p)

Acquire(p) ==
    /\ Waiting(p) /\ Free(Wants(p)) /\ changeMatches(p, Wants(p))
    /\ lock' = [lock EXCEPT ![Wants(p)] = p]
    /\ tx' = [tx EXCEPT ![p].held = @ + 1]
    /\ UNCHANGED <<rows, nextId, now, key, rev, live, unacked>>

Conflict(p) == Waiting(p) /\ Free(Wants(p)) /\ ~changeMatches(p, Wants(p)) /\ Rollback(p)

ComputeAdminAuditDigest(id) == [id |-> id, alg |-> IF key THEN "hmac" ELSE "sha256"]

previousDigest == IF rows = <<>> THEN NoDigest
                  ELSE rows[CHOOSE i \in DOMAIN rows : \A j \in DOMAIN rows : rows[j].id <= rows[i].id].digest

insertAdminAuditLogTx(p, s) ==
    /\ tx[p].kind \in Kinds /\ ~Waiting(p) /\ tx[p].row = <<>> /\ nextId < MaxId
    /\ nextId' = nextId + 1
    /\ tx' = [tx EXCEPT ![p].row = <<[id |-> nextId', at |-> now, prev |-> previousDigest,
                                      digest |-> ComputeAdminAuditDigest(nextId'), subject |-> s]>>]
    /\ UNCHANGED <<rows, now, key, lock, rev, live, unacked>>

\* Mutant: the next save may commit before this one is published.
keptForPublicationNothing(k) == {}

\* What a save still holds when its transaction has committed.
keptForPublication(k) == IF k = "settings" THEN {"commitSlot"} ELSE {}

\* A committed save goes on to publish its values, unless the answer of the
\* database is lost: then CommitAndPublish returns the error.
Commit(p) ==
    /\ tx[p].row # <<>>
    /\ rows' = rows \o tx[p].row
    /\ rev' = CASE tx[p].kind = "password" -> [rev EXCEPT !["admin_auth"] = @ + 1]
                [] tx[p].kind = "settings" -> [rev EXCEPT !["system_settings"] = @ + 1]
                [] OTHER -> rev
    /\ \/ /\ lock' = [l \in Locks |-> IF lock[l] = p /\ l \notin keptForPublication(tx[p].kind) THEN None ELSE lock[l]]
          /\ tx' = [tx EXCEPT ![p] = IF tx[p].kind # "settings" THEN Idle
                                     ELSE [Idle EXCEPT !.kind = "publish", !.held = 1, !.seen = rev'["system_settings"]]]
          /\ UNCHANGED unacked
       \/ /\ tx[p].kind = "settings" /\ End(p)
          /\ unacked' = unacked \cup {rev'["system_settings"]}
    /\ UNCHANGED <<nextId, now, key, live>>

\* The second half of CommitAndPublish: the slot is given back afterwards.
CommitAndPublish(p) ==
    /\ tx[p].kind = "publish" /\ live' = tx[p].seen
    /\ End(p) /\ UNCHANGED <<rows, nextId, now, key, rev, unacked>>

\* DELETE waits for the table lock; its cutoff was read before.
PruneAdminAuditLogs(cutoff) ==
    /\ Free("admin_audit_log")
    /\ rows' = SelectSeq(rows, LAMBDA r : r.at >= cutoff)
    /\ UNCHANGED <<nextId, now, key, lock, rev, live, unacked, tx>>

Next == \/ Tick \/ Restart \/ \E c \in 1..(now - Retention) : PruneAdminAuditLogs(c)
        \/ \E p \in Procs : \/ \E k \in Kinds \ {"settings"} : Begin(p, k, rev["admin_auth"])
                            \/ HandleSystemSettingsSave(p) \/ CommitAndPublish(p)
                            \/ Acquire(p) \/ Conflict(p) \/ Commit(p) \/ Rollback(p)
                            \/ \E s \in Subjects \cup {""} : insertAdminAuditLogTx(p, s)

Spec == Init /\ [][Next]_vars

-----------------------------------------------------------------------------
\* ORDER BY created_at DESC, id DESC
Newer(a, b) == a.at > b.at \/ (a.at = b.at /\ a.id > b.id)
Listed(s) == [k \in DOMAIN s |-> s[CHOOSE i \in DOMAIN s : Cardinality({j \in DOMAIN s : Newer(s[j], s[i])}) = k - 1]]

ListAdminAuditLogPage(limit, offset) ==
    LET all == Listed(rows) IN SubSeq(all, offset + 1, IF offset + limit < Len(all) THEN offset + limit ELSE Len(all))

queryPrivacyAdminAuditLogs(s) == Listed(SelectSeq(rows, LAMBDA r : r.subject = s))

AdminAuditIntegrityStatus(r) ==
    CASE r.digest = NoDigest -> "legacy"
      [] r.digest.alg = "hmac" /\ ~key -> "broken"
      [] OTHER -> IF r.digest.id = r.id THEN "verified" ELSE "broken"

\* A verified row is compared with the row loaded after it.
LinkHolds(r, older) == r.prev = NoDigest \/ older.digest = NoDigest \/ r.prev = older.digest

AnnotateAdminAuditIntegrity(page) ==
    [i \in DOMAIN page |->
        IF AdminAuditIntegrityStatus(page[i]) = "verified" /\ i < Len(page) /\ ~LinkHolds(page[i], page[i + 1])
        THEN "broken" ELSE AdminAuditIntegrityStatus(page[i])]

TypeOK == /\ \A i \in DOMAIN rows : rows[i].id \in 1..nextId /\ rows[i].at \in 0..now
          /\ \A p \in Procs : tx[p].kind \in Kinds \cup {"none", "publish"} /\ tx[p].held \in 0..3
          /\ \A l \in Locks : lock[l] \in Procs \cup {None}

\* Nothing edits a row, so the audit page shows none as broken, whatever
\* transactions overlapped or rolled back after reserving an id, whenever the
\* retention job ran, and although the digests turned keyed half-way.
ListedVerified ==
    \A limit \in 1..MaxId, offset \in 0..MaxId :
        "broken" \notin Range(AnnotateAdminAuditIntegrity(ListAdminAuditLogPage(limit, offset)))

\* Transactions never wait for each other in a circle: logins and password
\* changes both lock admin_auth before admin_audit_log.
NoLockCycle ==
    ~\E p, q \in Procs : /\ p # q /\ Waiting(p) /\ Waiting(q)
                         /\ lock[Wants(p)] = q /\ lock[Wants(q)] = p

\* A settings save or password change that commits replaces the revision it
\* was based on: of two saves holding the same revision one fails.  Only a save
\* sent without a revision, which the settings page never does, replaces
\* whatever it finds.
ReplacesWhatItSaw ==
    \A l \in Locks : rev'[l] # rev[l] =>
      \E p \in Procs : /\ tx[p].row # <<>> /\ tx'[p].row = <<>> /\ lock[l] = p
                       /\ tx[p].seen = rev[l] \/ (tx[p].kind = "settings" /\ tx[p].seen = Blind)

\* The server applies the settings that were committed last, unless their save
\* is just about to publish them: overlapping saves and a crash between
\* commit and publication leave nothing older in force.  The exception is a
\* commit whose answer was lost: it stays unpublished until the next save or
\* restart, and only such commits are newer than what is applied.
LiveIsCommitted ==
    (\A p \in Procs : tx[p].kind # "publish") =>
        live <= rev["system_settings"] /\ (live + 1)..rev["system_settings"] \subseteq unacked

\* "verified" means "the row digest matches the row's canonical payload and,
\* when the adjacent prior row is loaded, the local digest-chain link is
\* intact": an exported row nobody touched is not reported broken.
\* Not so, and in no run: the rows of one subject are rarely adjacent, and the
\* export checks the chain link between the rows it selected.
ExportedVerified ==
    \A s \in Subjects : "broken" \notin Range(AnnotateAdminAuditIntegrity(queryPrivacyAdminAuditLogs(s)))
=============================================================================
