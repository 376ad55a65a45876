------------------------------ MODULE DevStore ------------------------------
(***************************************************************************)
(* The in-memory store of the development server (internal/devstore):      *)
(* findings and their tombstones for delta syncs, manual advisories,       *)
(* and revision-checked feed settings.  Every method holds the store's     *)
(* mutex from entry to return, so each is one action; the refresh queue of *)
(* the same store is DevQueue.                                             *)
(***************************************************************************)
EXTENDS Integers, FiniteSets

CONSTANTS Ids,      \* advisory ids
          Feeds,    \* feed names, sources of imported findings
          Forms,    \* admin pages open on the settings
          MaxTime   \* bound: settings changes, each at a time of its own

Manual == "manual"
Absent == "none"
Sources == Feeds \cup {Manual}

VARIABLES vulnerable,    \* [Ids -> SUBSET Sources], {} when absent
          malicious,     \* [Ids -> source or Absent]
          maliciousDel,  \* ids with a tombstone
          client,        \* a client: has it synced, and the malicious ids it holds
          config,        \* update time of the stored settings, 0 when absent
          form,          \* per page: the update time it was rendered with, -1 when closed
          now            \* the clock; each change of the settings has its audit row
findings == <<vulnerable, malicious, maliciousDel>>
settings == <<config, form, now>>
vars == <<findings, client, settings>>

Init ==
    /\ vulnerable = [i \in Ids |-> {}]
    /\ malicious = [i \in Ids |-> Absent]
    /\ maliciousDel = {}
    /\ client = [synced |-> FALSE, ids |-> {}]
    /\ config = 0
    /\ form = [f \in Forms |-> -1]
    /\ now = 0

Present(i) == malicious[i] # Absent

\* Mutant: a removed finding leaves no tombstone.
BuryForgetful(ids) ==
    /\ malicious' = [i \in Ids |-> IF i \in ids THEN Absent ELSE malicious[i]]
    /\ maliciousDel' = maliciousDel

\* Removing findings leaves a tombstone for each that was there.
Bury(ids) ==
    /\ malicious' = [i \in Ids |-> IF i \in ids THEN Absent ELSE malicious[i]]
    /\ maliciousDel' = maliciousDel \cup {i \in ids : Present(i)}

UpsertVulnerability(i, s) ==
    /\ vulnerable' = [vulnerable EXCEPT ![i] = {s}]
    /\ UNCHANGED <<malicious, maliciousDel, client, settings>>

UpsertMaliciousFinding(i, s) ==
    /\ malicious' = [malicious EXCEPT ![i] = s]
    /\ maliciousDel' = maliciousDel \ {i}
    /\ UNCHANGED <<vulnerable, client, settings>>

\* A feed import with one item and the deletions it lists, in this order; the
\* deletions skip what another source owns.
importVulnerabilityFeedLocked(feed, i, ids) ==
    LET v == [vulnerable EXCEPT ![i] = {feed}]
    IN vulnerable' = [j \in Ids |-> IF j \in ids THEN v[j] \ {feed} ELSE v[j]]

importMaliciousFeedLocked(feed, i, ids) ==
    LET m == [malicious EXCEPT ![i] = feed]
        gone == {j \in ids : m[j] = feed}
    IN /\ malicious' = [j \in Ids |-> IF j \in gone THEN Absent ELSE m[j]]
       /\ maliciousDel' = (maliciousDel \ {i}) \cup gone

ImportVulnerabilityFeed(feed, i, ids) ==
    /\ importVulnerabilityFeedLocked(feed, i, ids)
    /\ UNCHANGED <<malicious, maliciousDel, client, settings>>

ImportMaliciousFeed(feed, i, ids) ==
    /\ importMaliciousFeedLocked(feed, i, ids)
    /\ UNCHANGED <<vulnerable, client, settings>>

DeleteVulnerability(i) ==
    /\ vulnerable' = [vulnerable EXCEPT ![i] = {}]
    /\ UNCHANGED <<malicious, maliciousDel, client, settings>>

\* Only the source's own entry goes; the advisory goes with its last source.
deleteVulnerabilityForSourceLocked(i, source) ==
    /\ vulnerable' = [vulnerable EXCEPT ![i] = @ \ {source}]
    /\ UNCHANGED <<malicious, maliciousDel, client, settings>>

DeleteMaliciousFinding(i) ==
    /\ Bury({i})
    /\ UNCHANGED <<vulnerable, client, settings>>

DeleteMaliciousFindingForSource(i, source) ==
    /\ malicious[i] = source
    /\ Bury({i})
    /\ UNCHANGED <<vulnerable, client, settings>>

DeleteMaliciousFindingsNotInSource(source, keep) ==
    /\ Bury({i \in Ids \ keep : malicious[i] = source})
    /\ UNCHANGED <<vulnerable, client, settings>>

\* Saving a manual advisory may turn a malicious finding into a vulnerability
\* or back: the other kind is removed.
upsertManualAdvisoryLocked(i, type) ==
    \/ /\ type = "malicious"
       /\ malicious' = [malicious EXCEPT ![i] = Manual]
       /\ maliciousDel' = maliciousDel \ {i}
       /\ vulnerable' = [vulnerable EXCEPT ![i] = {}]
    \/ /\ type = "vulnerability"
       /\ vulnerable' = [vulnerable EXCEPT ![i] = {Manual}]
       /\ Bury(IF malicious[i] = Manual THEN {i} ELSE {})

UpsertManualAdvisory(i, type) ==
    /\ upsertManualAdvisoryLocked(i, type)
    /\ UNCHANGED <<client, settings>>

\* Deletes whichever kinds the manual source owns; an error when it owns none.
deleteManualAdvisoryLocked(i) ==
    /\ malicious[i] = Manual \/ Manual \in vulnerable[i]
    /\ Bury(IF malicious[i] = Manual THEN {i} ELSE {})
    /\ vulnerable' = [vulnerable EXCEPT ![i] = IF Manual \in @ THEN {} ELSE @]

DeleteManualAdvisory(i) ==
    /\ deleteManualAdvisoryLocked(i)
    /\ UNCHANGED <<client, settings>>

\* A client's sync: the first one gets every finding, a later one the
\* tombstones as well; it drops what is withdrawn and stores the rest.
ExportSync ==
    LET rows == {i \in Ids : Present(i)}
    IN /\ client' = [synced |-> TRUE,
                     ids |-> IF client.synced THEN (client.ids \ maliciousDel) \cup rows ELSE rows]
       /\ UNCHANGED <<findings, settings>>

-----------------------------------------------------------------------------
\* The settings page is rendered with the revision it shows.
GetFeedConfig(f) ==
    /\ form' = [form EXCEPT ![f] = config]
    /\ UNCHANGED <<findings, client, config, now>>

\* Mutant: only the existence of a revision is compared.
checkFeedConfigRevisionLockedFound(f) == (form[f] = 0) = (config = 0)

\* A zero revision stands for "nothing stored".
checkFeedConfigRevisionLocked(f) == form[f] = config

upsertFeedConfigLocked == config' = now + 1

\* A conflict leaves the store as it is; both outcomes close the form.
UpsertFeedConfigWithAudit(f) ==
    /\ form[f] # -1
    /\ form' = [form EXCEPT ![f] = -1]
    /\ \/ /\ checkFeedConfigRevisionLocked(f)
          /\ now < MaxTime
          /\ upsertFeedConfigLocked
          /\ now' = now + 1
       \/ /\ ~checkFeedConfigRevisionLocked(f)
          /\ UNCHANGED <<config, now>>
    /\ UNCHANGED <<findings, client>>

\* Resetting the settings deletes the row, under the same revision check.
DeleteFeedConfigWithAudit(f) ==
    /\ form[f] # -1
    /\ checkFeedConfigRevisionLocked(f)
    /\ config > 0 /\ now < MaxTime
    /\ form' = [form EXCEPT ![f] = -1]
    /\ config' = 0
    /\ now' = now + 1
    /\ UNCHANGED <<findings, client>>

Next ==
    \/ \E feed \in Feeds, i \in Ids, ids \in SUBSET Ids :
          ImportVulnerabilityFeed(feed, i, ids) \/ ImportMaliciousFeed(feed, i, ids)
    \/ \E i \in Ids : \/ DeleteVulnerability(i) \/ DeleteMaliciousFinding(i) \/ DeleteManualAdvisory(i)
                      \/ \E type \in {"malicious", "vulnerability"} : UpsertManualAdvisory(i, type)
                      \/ \E s \in Sources : \/ UpsertVulnerability(i, s) \/ UpsertMaliciousFinding(i, s)
                                            \/ deleteVulnerabilityForSourceLocked(i, s)
                                            \/ DeleteMaliciousFindingForSource(i, s)
    \/ \E s \in Sources, keep \in SUBSET Ids : DeleteMaliciousFindingsNotInSource(s, keep)
    \/ ExportSync
    \/ \E f \in Forms : GetFeedConfig(f) \/ UpsertFeedConfigWithAudit(f) \/ DeleteFeedConfigWithAudit(f)

Spec == Init /\ [][Next]_vars

-----------------------------------------------------------------------------
TypeOK ==
    /\ vulnerable \in [Ids -> SUBSET Sources]
    /\ malicious \in [Ids -> Sources \cup {Absent}]
    /\ maliciousDel \subseteq Ids
    /\ client \in [synced : BOOLEAN, ids : SUBSET Ids]
    /\ config \in 0..MaxTime /\ now \in 0..MaxTime
    /\ form \in [Forms -> -1..MaxTime]

\* A delta sync brings a client up to date: whatever it holds that the store no
\* longer has lies in a tombstone, and no tombstone withdraws a finding that is
\* there, across imports, deletions by id, source or absence, and manual
\* advisories that change their kind (noop_sync.go, noop_findings.go).
ClientCatchesUp ==
    LET rows == {i \in Ids : Present(i)}
    IN client.ids \ rows \subseteq maliciousDel /\ maliciousDel \cap rows = {}

\* Settings are replaced or reset only by a page that was rendered from exactly
\* what is stored (checkFeedConfigRevisionLocked), also when the row was
\* deleted and stored again in between.
SaveReplacesWhatItShowed ==
    config' # config => \E f \in Forms : form[f] = config /\ form'[f] = -1
=============================================================================
