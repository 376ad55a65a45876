----------------------------- MODULE FeedImport -----------------------------
(***************************************************************************)
(* POST /api/v1/feeds/{feed}/import: the streaming EPSS and VulnCheck      *)
(* imports token by token, over a store that consumes batches while the    *)
(* body is still being read or one that gets the buffered entries, and the *)
(* record imports (advisories, malicious packages, KEV) whose body is      *)
(* decoded first.  The body is not known in advance: every step reads one  *)
(* token from the connection.                                              *)
(*                                                                         *)
(* An entry is "ok", "bad" (request validation refuses it) or "store" (the *)
(* store refuses its value); a status is "fine", "bad", or "short" (its    *)
(* entries_synced exceed the total counted at the end).  A record of the   *)
(* other imports has an id - "A", "" or that of the manual advisory "PM" - *)
(* a verdict of the same kind, and the source its body claims.             *)
(***************************************************************************)
EXTENDS Integers, Sequences, FiniteSets, SequencesExt

CONSTANTS BatchSize, MaxTokens, MaxImports

VARIABLES
    req,     \* the request being served
    body,    \* history: the tokens read so far
    data,    \* entries the store committed
    audit,   \* entries of the imports that have a feed_import audit row
    row,     \* feed_sync_status of the feed
    held,    \* advisory -> the sources that back it; one without is withdrawn
    answer   \* history: the last answer, with the body it answers

vars == <<req, body, data, audit, row, held, answer>>
stored == <<data, audit, row, held>>

Idle == [pc |-> "idle", feed |-> "epss", streams |-> FALSE, batch |-> <<>>,
         total |-> 0, sent |-> <<>>, status |-> "none", seen |-> {}]

Init ==
    /\ req = Idle /\ body = <<>> /\ answer = <<>>
    /\ data = 0 /\ audit = 0 /\ row = "none"
    /\ held = [A |-> {}, PM |-> {"manual"}]

(* A store that streams is handed every batch as it is read, any other the *)
(* buffered entries at the end.                                            *)
importEPSSRequest(streams) == [Idle EXCEPT !.pc = "object", !.feed = "epss", !.streams = streams]
importVulnCheckRequest(streams) ==
    [Idle EXCEPT !.pc = "object", !.feed = "vulncheck", !.streams = streams]

(* Authorised, a known feed, a JSON content type.                          *)
HandleImport ==
    /\ req.pc = "idle" /\ audit < MaxImports
    /\ \E streams \in BOOLEAN :
          req' \in {importEPSSRequest(streams), importVulnCheckRequest(streams)}
    /\ body' = <<>> /\ answer' = <<>>
    /\ UNCHANGED stored

Read(t) == Len(body) < MaxTokens /\ body' = Append(body, t)
Goto(r) == req' = r /\ UNCHANGED <<stored, answer>>
Rejected == [req EXCEPT !.pc = "reject"]

-----------------------------------------------------------------------------
(* streamImportEntriesObject: the top-level members.  A repeated or        *)
(* unknown member ends the import; a null entries member only VulnCheck    *)
(* refuses.                                                                *)

validateImportStatusInput(st) == st # "bad"

ReadMember ==
    /\ req.pc = "object"
    /\ \/ /\ Read("entries")
          /\ Goto(IF "entries" \in req.seen THEN Rejected
                  ELSE [req EXCEPT !.pc = "array", !.seen = @ \cup {"entries"}])
       \/ /\ Read("null")
          /\ Goto(IF "entries" \in req.seen \/ req.feed = "vulncheck" THEN Rejected
                  ELSE [req EXCEPT !.seen = @ \cup {"entries"}])
       \/ \E st \in {"fine", "bad", "short"} :
             /\ Read(st)
             /\ Goto(IF "status" \in req.seen \/ ~validateImportStatusInput(st) THEN Rejected
                     ELSE [req EXCEPT !.status = st, !.seen = @ \cup {"status"}])
       \/ Read("unknown") /\ Goto(Rejected)

(* The connection breaks, or the JSON is malformed.                        *)
ReadFails ==
    /\ req.pc \in {"object", "array"}
    /\ Read("cut")
    /\ Goto(Rejected)

(* streamImportEntriesArray: normalise a full batch, then hand it to the   *)
(* store; the last, shorter batch goes when the array closes.              *)
Flush(r, pc) ==
    IF \E i \in DOMAIN r.batch : r.batch[i] = "bad" THEN [r EXCEPT !.pc = "reject"]
    ELSE IF r.streams /\ Contains(r.batch, "store") THEN [r EXCEPT !.pc = "reject"]
    ELSE [r EXCEPT !.pc = pc, !.sent = @ \o r.batch, !.batch = <<>>]

ReadEntry ==
    /\ req.pc = "array"
    /\ \E e \in {"ok", "bad", "store"} :
          /\ Read(e)
          /\ LET r == [req EXCEPT !.batch = Append(@, e), !.total = @ + 1]
             IN Goto(IF Len(r.batch) = BatchSize THEN Flush(r, "array") ELSE r)

(* Mutant: the last, shorter batch is dropped.                             *)
CloseArrayUnflushed(r) == [r EXCEPT !.pc = "object", !.batch = <<>>]
CloseArray(r) == Flush(r, "object")

ReadArrayEnd ==
    /\ req.pc = "array"
    /\ Read("]")
    /\ Goto(CloseArray(req))

ReadEnd ==
    /\ req.pc = "object"
    /\ \/ Read("}") /\ Goto([req EXCEPT !.pc = "commit"])
       \/ Read("trailing") /\ Goto(Rejected)

-----------------------------------------------------------------------------
(* The status with its defaults, and for EPSS at least one score, are      *)
(* checked before the transaction commits; entries, status row and audit   *)
(* row then commit together or not at all.                                 *)

Answer(code) ==
    /\ answer' = <<code, req.feed, body>>
    /\ req' = Idle
    /\ UNCHANGED body

(* Mutant: the status is not compared with the total.                      *)
StatusUnchecked == TRUE
importStatusFromInput == req.status # "short"

Commit ==
    /\ req.pc = "commit"
    /\ IF ~importStatusFromInput \/ (req.feed = "epss" /\ req.total = 0) \/ Contains(req.sent, "store")
       THEN Goto(Rejected) /\ UNCHANGED body
       ELSE \/ /\ data' = data + Len(req.sent)
               /\ audit' = audit + req.total
               /\ row' = IF req.status = "none" THEN row ELSE "success"
               /\ held' = held
               /\ Answer(200)
            \/ Answer(500) /\ UNCHANGED stored

(* The rejection is written to the feed's row in a transaction of its own. *)
recordRejectedFeedImportStatus ==
    /\ req.pc = "reject"
    /\ \/ row' = "rejected" /\ Answer(400) /\ UNCHANGED <<data, audit, held>>
       \/ Answer(500) /\ UNCHANGED stored

-----------------------------------------------------------------------------
(* The record imports: the body is decoded as a whole, so `body` stays     *)
(* empty; everything is normalised and checked, then stored with status    *)
(* and audit in one transaction.                                           *)

Records == [id : {"A", "PM", ""}, is : {"ok"}, claims : {"manual"}]
           \cup [id : {"A"}, is : {"bad", "store"}, claims : {""}]
Deletions == {{}, {"A", ""}, {"PM"}}

(* importVulnerabilities and importMalicious: a record of a manual         *)
(* advisory, or one without an id, is refused.                             *)
isManualAdvisoryID(id) == id = "PM"
RefusedRecord(r) == isManualAdvisoryID(r.id) \/ r.id = "" \/ r.is = "bad"

(* Blank ids are skipped, that of a manual advisory is refused.            *)
normalizeImportDeleteIDs(ids) == ids \ {""}

(* Whatever source the record claims, it is stored as the feed's.          *)
normalizeImported(r, feed) == [r EXCEPT !.claims = feed]

RecordStatus == {"none", "fine", "bad", "short"}
Refuse == Goto([Idle EXCEPT !.pc = "reject"]) /\ body' = <<>>

(* n entries of a record import are committed.                             *)
Store(n, st, rows) ==
    /\ data' = data + n
    /\ audit' = audit + n
    /\ row' = IF st = "none" THEN row ELSE "success"
    /\ held' = rows
    /\ body' = <<>> /\ answer' = <<>> /\ UNCHANGED req

StoreFails == body' = <<>> /\ answer' = <<>> /\ UNCHANGED <<req, stored>>

RecordImports ==
    [feed : {"osv", "ghsa"}, recs : {{}} \cup {{r} : r \in Records}, ids : Deletions, st : RecordStatus]

RefusedImport(i) ==
    \/ ~validateImportStatusInput(i.st) \/ i.st = "short"
    \/ \E r \in i.recs : RefusedRecord(r) \/ r.is = "store"
    \/ \E id \in normalizeImportDeleteIDs(i.ids) : isManualAdvisoryID(id)

AcceptedImports == {i \in RecordImports : ~RefusedImport(i)}

importFeedRecords ==
    /\ req.pc = "idle" /\ audit < MaxImports
    /\ \/ RecordImports # AcceptedImports /\ Refuse
       \/ \E i \in AcceptedImports :
             LET items == {normalizeImported(r, i.feed) : r \in i.recs}
                 deletes == normalizeImportDeleteIDs(i.ids)
             IN  Store(Cardinality(items) + Cardinality(deletes), i.st,
                       [id \in DOMAIN held |->
                          (held[id] \cup {r.claims : r \in {x \in items : x.id = id}})
                            \ (IF id \in deletes THEN {i.feed} ELSE {})])
       \/ StoreFails

(* An invalid id, or an empty list that would clear every flag, is refused. *)
normalizeCISAKEVImportIDs(ids, clearMissing) ==
    "invalid" \notin ids /\ ~(clearMissing /\ ids = {})

KEVImports == [ids : SUBSET {"CVE", "invalid"}, clearMissing : BOOLEAN, st : RecordStatus]

RefusedKEVImport(i) ==
    \/ ~validateImportStatusInput(i.st) \/ i.st = "short"
    \/ ~normalizeCISAKEVImportIDs(i.ids, i.clearMissing)

AcceptedKEVImports == {i \in KEVImports : ~RefusedKEVImport(i)}

(* Only the n rows whose flag changes are counted.                         *)
importCISAKEV ==
    /\ req.pc = "idle" /\ audit < MaxImports
    /\ \/ KEVImports # AcceptedKEVImports /\ Refuse
       \/ \E i \in AcceptedKEVImports, n \in 0..1 :
             Store(IF i.ids = {} THEN 0 ELSE n, i.st, held)
       \/ StoreFails

(* The process stops: an open transaction is rolled back.                  *)
Crash ==
    /\ req.pc # "idle"
    /\ req' = Idle /\ body' = <<>> /\ answer' = <<>>
    /\ UNCHANGED stored

Next ==
    \/ HandleImport \/ ReadMember \/ ReadFails \/ ReadEntry \/ ReadArrayEnd \/ ReadEnd
    \/ Commit \/ recordRejectedFeedImportStatus
    \/ importFeedRecords \/ importCISAKEV \/ Crash

Spec == Init /\ [][Next]_vars

-----------------------------------------------------------------------------
TypeOK ==
    /\ req.pc \in {"idle", "object", "array", "commit", "reject"}
    /\ Len(req.batch) < BatchSize \/ req.pc = "reject"
    /\ data \in Nat /\ audit \in Nat /\ row \in {"none", "success", "rejected"}

(* Whether a store consumes batches or gets the buffered entries, the body *)
(* as a whole decides: 200 exactly for a complete body with one entries    *)
(* and one status member at most, nothing refused in it, a status that     *)
(* fits the total and, for EPSS, a score; never 200 for any other          *)
(* (DESIGN: "This policy is identical for stores that consume the import   *)
(* in bounded batches and stores that buffer the decoded entries").        *)
Count(s, t) == Len(SelectSeq(s, LAMBDA x : x = t))
Acceptable(feed, b) ==
    /\ b # <<>> /\ Last(b) = "}"
    /\ \A t \in {"bad", "store", "unknown", "cut", "short"} : ~Contains(b, t)
    /\ Count(b, "entries") + Count(b, "null") <= 1 /\ Count(b, "fine") <= 1
    /\ feed = "vulncheck" => ~Contains(b, "null")
    /\ feed = "epss" => Contains(b, "ok")
BodyDecides ==
    answer # <<>> => /\ answer[1] = 200 => Acceptable(answer[2], answer[3])
                     /\ answer[1] = 400 => ~Acceptable(answer[2], answer[3])

(* Nothing is stored that no audit row accounts for, and no audit row      *)
(* counts an entry that was not stored: a batch handed to the store, a     *)
(* late rejection or a crash leaves no part of an import behind.           *)
ImportAllOrNothing == data = audit

(* Imports leave what an administrator wrote alone: no sequence of feed    *)
(* imports withdraws a manual advisory or backs it with another source,    *)
(* and none makes a feed's record pass for a manual one (the checks of     *)
(* importVulnerabilities and normalizeImportDeleteIDs, and the source that *)
(* normalizeImportedVulnerability sets).                                   *)
ManualUntouched == held["PM"] = {"manual"} /\ "manual" \notin held["A"]

=============================================================================
