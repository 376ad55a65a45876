--------------------------- MODULE MaliciousStore ---------------------------
(***************************************************************************)
(* The table of malicious findings and everything that writes it: the      *)
(* OpenSSF snapshot builder, the source-scoped upserts, deletes and prunes *)
(* of the feeds and of the import endpoint, and the manual advisories that *)
(* administrators edit, which may live in this table or in vulnerabilities.*)
(*                                                                         *)
(* Two PostgreSQL advisory locks order the writers.  "openssf" is the      *)
(* outer lock: the builder holds it for its session, from before it stages *)
(* the first entry, and a transaction that can touch OpenSSF rows holds it *)
(* until it ends.  "mutation" is taken by every transaction, after         *)
(* "openssf".  (The per-advisory lock is only ever taken under "mutation", *)
(* so it excludes nobody "mutation" does not exclude already.)             *)
(*                                                                         *)
(* A transaction reads what its guard needs in one step and its writes     *)
(* become visible in a later one, its commit, as under READ COMMITTED.     *)
(***************************************************************************)
EXTENDS Naturals, FiniteSets

CONSTANTS Ids,          \* identifiers feeds use for malicious findings
          Txs,          \* slots for concurrent transactions
          Requests,     \* bound: the members of Ops that are explored
          None,
          MaxRev        \* bound: revisions of the manual advisory

VARIABLES rows,         \* [Ids -> None or [source, active]]
          manual,       \* the manual advisory: its active kinds, its revision
          builder,      \* the snapshot builder: [pc, active, withdrawn, fresh]
          tx,           \* [Txs -> transaction]
          holder        \* [lock -> who holds it or None]

vars == << rows, manual, builder, tx, holder >>

Sources == {"openssf", "osv"}
Kinds == {"malicious", "vulnerability"}
Idle == [pc |-> "idle"]
NoSnapshot == [pc |-> "idle", active |-> {}, withdrawn |-> {}, fresh |-> {}]

(* What a transaction is asked to do.  DeleteMaliciousFinding carries no   *)
(* source; a legacy prune deletes the source's rows outside "keep".        *)
Ops == [op : {"upsert", "delete"}, source : Sources, id : Ids]
       \cup [op : {"deleteAny"}, source : {"any"}, id : Ids]
       \cup [op : {"notIn"}, source : {"openssf"}, keep : SUBSET Ids]
       \cup [op : {"save"}, source : {"manual"}, kind : Kinds, new : BOOLEAN]
       \cup [op : {"remove"}, source : {"manual"}]

Init ==
  /\ rows = [i \in Ids |-> None]
  /\ manual = [kinds |-> {}, rev |-> 0]
  /\ builder = NoSnapshot
  /\ tx = [t \in Txs |-> Idle]
  /\ holder = [l \in {"openssf", "mutation"} |-> None]

Owned(i, source) == rows[i] # None /\ rows[i].source = source
Active(i) == rows[i] # None /\ rows[i].active

Take(l, who) == holder[l] = None /\ holder' = [holder EXCEPT ![l] = who]

Release(who) ==
  holder' = [l \in DOMAIN holder |-> IF holder[l] = who THEN None ELSE holder[l]]

(***************************************************************************)
(* Transactions                                                            *)
(***************************************************************************)

(* The administrator's page is rendered with the revision it shows; a form *)
(* for a new advisory carries none.  Feed requests carry no revision.      *)
Begin(t, o) ==
  /\ tx[t].pc = "idle"
  /\ o.op = "save" /\ ~o.new => manual.kinds # {}
  /\ tx' = [tx EXCEPT ![t] =
       [pc |-> "begun", o |-> o, ok |-> TRUE, prev |-> 0,
        base |-> IF o.op = "save" /\ ~o.new THEN manual.rev ELSE 0]]
  /\ UNCHANGED << rows, manual, builder, holder >>

(* HandleAdvisoryCreate loads the stored advisory, which the audit entry   *)
(* will name as the previous one, before the transaction that saves.       *)
loadExistingManualAdvisory(t) ==
  /\ tx[t].pc = "begun"
  /\ tx[t].o.op = "save"
  /\ tx' = [tx EXCEPT ![t].pc = "locks",
                      ![t].prev = IF manual.kinds = {} THEN 0 ELSE manual.rev]
  /\ UNCHANGED << rows, manual, builder, holder >>

Starts(t) == tx[t].pc = "locks" \/ (tx[t].pc = "begun" /\ tx[t].o.op # "save")

\* mutant: a source-scoped writer relies on the global lock alone
OuterLockDeletesOnly(o) == o.source = "any"
OuterLock(o) == o.source \in {"any", "openssf"}

LockOrder(t) == IF OuterLock(tx[t].o) /\ Starts(t) THEN "openssf" ELSE "mutation"

(* Feed writers take the OpenSSF lock first when they can touch its rows;  *)
(* a manual advisory only takes the global one.                            *)
acquireMaliciousMutationLocksTx(t) ==
  /\ Starts(t) \/ tx[t].pc = "inner"
  /\ Take(LockOrder(t), t)
  /\ tx' = [tx EXCEPT ![t].pc =
              IF OuterLock(tx[t].o) /\ Starts(t) THEN "inner" ELSE "locked"]
  /\ UNCHANGED << rows, manual, builder >>

\* mutant: the revision is only checked to exist
RevisionExists(x) == x.base = 0 \/ manual.kinds # {}
checkManualAdvisoryRevisionTx(x) ==
  x.base = 0 \/ (manual.kinds # {} /\ manual.rev = x.base)

(* An upsert is refused when another source owns the identifier; an edit   *)
(* when the advisory is not the revision the form was rendered from; the   *)
(* removal of a manual advisory when there is none.                        *)
Admissible(x) ==
  CASE x.o.op = "upsert" -> rows[x.o.id] = None \/ Owned(x.o.id, x.o.source)
    [] x.o.op = "save"   -> checkManualAdvisoryRevisionTx(x)
    [] x.o.op = "remove" -> manual.kinds # {}
    [] OTHER -> TRUE

CheckTx(t) ==
  /\ tx[t].pc = "locked"
  /\ tx' = [tx EXCEPT ![t].pc = "checked", ![t].ok = Admissible(tx[t])]
  /\ UNCHANGED << rows, manual, builder, holder >>

Deactivated(S) ==
  [i \in Ids |-> IF i \in S /\ rows[i] # None
                   THEN [rows[i] EXCEPT !.active = FALSE] ELSE rows[i]]

WrittenRows(o) ==
  CASE o.op = "upsert" ->
         [rows EXCEPT ![o.id] = [source |-> o.source, active |-> TRUE]]
    [] o.op = "delete"    -> Deactivated({i \in {o.id} : Owned(i, o.source)})
    [] o.op = "deleteAny" -> Deactivated({o.id})
    [] o.op = "notIn"     -> Deactivated({i \in Ids \ o.keep : Owned(i, o.source)})
    [] OTHER -> rows

(* Commit: the writes appear, the locks go.  ok is what CheckTx read.      *)
CommitTx(t) ==
  LET o == tx[t].o
      save == o.op = "save" IN
  /\ tx[t].pc = "checked"
  /\ tx[t].ok
  /\ save => manual.rev < MaxRev
  /\ rows' = WrittenRows(o)
  /\ manual' = CASE save -> [kinds |-> {o.kind}, rev |-> manual.rev + 1]
                 [] o.op = "remove" -> [manual EXCEPT !.kinds = {}]
                 [] OTHER -> manual
  /\ builder' = IF o.op = "upsert" /\ o.source = "openssf" /\ builder.pc # "idle"
                  THEN [builder EXCEPT !.fresh = @ \cup {o.id}] ELSE builder
  /\ tx' = [tx EXCEPT ![t] = Idle]
  /\ Release(t)

(* A refused check, an error of the database, a failed audit insert or a   *)
(* cancelled request: the transaction rolls back and its locks go.         *)
RollbackTx(t) ==
  /\ tx[t].pc # "idle"
  /\ tx' = [tx EXCEPT ![t] = Idle]
  /\ Release(t)
  /\ UNCHANGED << rows, manual, builder >>

(***************************************************************************)
(* The OpenSSF snapshot builder                                            *)
(***************************************************************************)

StartSnapshot ==
  /\ builder.pc = "idle"
  /\ Take("openssf", "builder")
  /\ builder' = [NoSnapshot EXCEPT !.pc = "staging"]
  /\ UNCHANGED << rows, manual, tx >>

(* A batch adds entries to the temporary tables; an identifier staged      *)
(* twice in one of them fails the COPY (AbortSnapshot).                    *)
stageMaliciousSnapshotBatch(i) ==
  /\ builder.pc = "staging"
  /\ \/ i \notin builder.active /\ builder' = [builder EXCEPT !.active = @ \cup {i}]
     \/ i \notin builder.withdrawn /\ builder' = [builder EXCEPT !.withdrawn = @ \cup {i}]
  /\ UNCHANGED << rows, manual, tx, holder >>

BeginFinalize ==
  /\ builder.pc = "staging"
  /\ builder.active # {}
  /\ Take("mutation", "builder")
  /\ builder' = [builder EXCEPT !.pc = "locked"]
  /\ UNCHANGED << rows, manual, tx >>

StagedIds == builder.active \cup builder.withdrawn

\* mutant: ownership of the staged identifiers is not validated
StagedDisjoint == builder.active \cap builder.withdrawn = {}
StagedValid ==
  /\ builder.active \cap builder.withdrawn = {}
  /\ \A i \in StagedIds : rows[i] = None \/ Owned(i, "openssf")

validateStagedMaliciousSnapshot ==
  /\ builder.pc = "locked"
  /\ StagedValid
  /\ builder' = [builder EXCEPT !.pc = "validated"]
  /\ UNCHANGED << rows, manual, tx, holder >>

(* Merge, withdrawal of the explicit and of the absent rows, commit.       *)
CommitSnapshot ==
  /\ builder.pc = "validated"
  /\ rows' = [i \in Ids |->
       CASE i \in builder.active -> [source |-> "openssf", active |-> TRUE]
         [] i \notin builder.active /\ Owned(i, "openssf") ->
              [rows[i] EXCEPT !.active = FALSE]
         [] OTHER -> rows[i]]
  /\ builder' = NoSnapshot
  /\ Release("builder")
  /\ UNCHANGED << manual, tx >>

(* Any failure discards the physical connection: the session lock and the  *)
(* temporary tables go with it.                                            *)
AbortSnapshot ==
  /\ builder.pc # "idle"
  /\ builder' = NoSnapshot
  /\ Release("builder")
  /\ UNCHANGED << rows, manual, tx >>

Builder == \/ BeginFinalize \/ validateStagedMaliciousSnapshot \/ CommitSnapshot

Step(t) == \/ loadExistingManualAdvisory(t)
           \/ acquireMaliciousMutationLocksTx(t)
           \/ CheckTx(t) \/ CommitTx(t)

Next == \/ \E t \in Txs : Step(t) \/ RollbackTx(t) \/ \E o \in Requests \cap Ops : Begin(t, o)
        \/ \E i \in Ids : stageMaliciousSnapshotBatch(i)
        \/ StartSnapshot \/ Builder \/ AbortSnapshot

Spec == Init /\ [][Next]_vars

(***************************************************************************)
(* Properties                                                              *)
(***************************************************************************)

TypeOK ==
  /\ \A i \in Ids : rows[i] = None \/ rows[i] \in [source : Sources, active : BOOLEAN]
  /\ manual.kinds \subseteq Kinds /\ manual.rev \in 0..MaxRev
  /\ builder.pc \in {"idle", "staging", "locked", "validated"}
  /\ StagedIds \subseteq Ids
  /\ \A l \in DOMAIN holder : holder[l] \in Txs \cup {"builder", None}

(* replaceMaliciousFindingsSnapshot: a finding that another writer commits *)
(* while a snapshot is being staged is never withdrawn by that snapshot's  *)
(* absence pass, because no OpenSSF writer commits during it.              *)
AbsencePassSeesNoNewer ==
  builder.pc = "validated" /\ builder'.pc = "idle" =>
    \A i \in builder.fresh : Active(i) => rows'[i].active

(* A row of malicious_findings keeps the source that created it: neither   *)
(* an upsert that checked before another source's commit nor the merge of  *)
(* a snapshot takes a row over.                                            *)
SourceKept ==
  \A i \in Ids : rows[i] # None => rows'[i].source = rows[i].source

(* checkManualAdvisoryRevisionTx: an edit made from a rendered revision    *)
(* replaces exactly that revision, and its audit entry names it as the     *)
(* previous one, although it was read outside the transaction.             *)
EditReplacesWhatItShowed ==
  \A t \in Txs : manual'.rev # manual.rev /\ tx'[t] # tx[t] /\ tx[t].base # 0 =>
    manual.kinds # {} /\ manual.rev = tx[t].base /\ tx[t].prev = tx[t].base
=============================================================================
