---------------------------- MODULE AdvisoryStore ----------------------------
(***************************************************************************)
(* The vulnerability rows and the feeds that write their severity: the     *)
(* advisory feeds (upsert, source-scoped delete), the alias propagation    *)
(* after the first phase, VulnCheck's backup in batches, and NVD's paged   *)
(* look-up of rows whose severity is still open.                           *)
(*                                                                         *)
(* CVEs are the alias ids, ordered like the keyset cursor.  Severities are *)
(* 1 (LOW) upwards; 0 is a source without one (UNKNOWN), which the store   *)
(* writes as LOW.                                                          *)
(***************************************************************************)
EXTENDS Integers, FiniteSets, FiniteSetsExt

CONSTANTS Alias,      \* the CVEs of each vulnerability
          Feeds,      \* the advisory feeds
          Ended,      \* whether they bring advisories as withdrawn, as a set
          MaxSev, Page, None

Vulns == DOMAIN Alias
CVEs == UNION {Alias[v] : v \in Vulns}

VARIABLES
    rows,      \* vulnerabilities: sources, not withdrawn, severity, has a CVSS score;
               \* history: the last upsert brought it as withdrawn
    negative,  \* nvd_cvss_negative_cache: the answers that still count
    nvd,       \* the NVD sync: cursor and rest of the page
    vc,        \* the VulnCheck sync: running, batches to go; the digest is recorded
    done       \* history: the batches the running or the last sync stored

vars == <<rows, negative, nvd, vc, done>>

Init ==
    /\ rows = [v \in Vulns |-> None]
    /\ negative = {}
    /\ nvd = [pc |-> "idle", after |-> 0, page |-> {}]
    /\ vc = [on |-> FALSE, todo |-> {}, digest |-> FALSE]
    /\ done = {}

Stored == {v \in Vulns : rows[v] # None}
Linked(c) == {v \in Stored : c \in Alias[v]}

(* What NVD may still raise: the LOW fallback without a score.             *)
unresolved(r) == r # None /\ r.sev = 1 /\ ~r.cvss

(* A row that changes gets a new updated_at, and an open one then counts   *)
(* as changed since its negative answer.  Columns the model leaves out may *)
(* change in the touched rows as well; a source alone is another table.    *)
Core(r) == IF r = None THEN None ELSE <<r.active, r.sev, r.cvss>>
Update(new, touched) ==
    LET changed == {v \in Vulns : Core(new[v]) # Core(rows[v])}
        recheck(t) == UNION {Alias[v] : v \in {w \in t \cup changed : unresolved(new[w])}}
    IN  /\ rows' = new
        /\ negative' \in {negative \ recheck(t) : t \in SUBSET touched}

-----------------------------------------------------------------------------
(* The advisory feeds.                                                     *)

normalizeVulnerabilitySeverity(sev) == IF sev = 0 THEN 1 ELSE sev

(* The last upsert decides whether the row is withdrawn, whatever the      *)
(* other sources say; GHSA and imports bring withdrawn advisories.         *)
Merged(old, s, sev, cvss, withdrawn) ==
    IF old = None
    THEN [sources |-> {s}, active |-> ~withdrawn, sev |-> sev, cvss |-> cvss, ended |-> withdrawn]
    ELSE [sources |-> old.sources \cup {s}, active |-> ~withdrawn,
          sev |-> Max({sev, old.sev}), cvss |-> cvss \/ old.cvss, ended |-> withdrawn]

Advisories == {r \in [sev : 0..MaxSev, cvss : BOOLEAN, withdrawn : Ended] : r.sev = 0 => ~r.cvss}

UpsertVulnerability ==
    /\ \E v \in Vulns, s \in Feeds :
          \E new \in {Merged(rows[v], s, normalizeVulnerabilitySeverity(r.sev), r.cvss, r.withdrawn) :
                        r \in Advisories} :
             Update([rows EXCEPT ![v] = new], {v})
    /\ UNCHANGED <<nvd, vc, done>>

(* Mutant: the remaining sources are counted before the source is removed. *)
WithdrawnCountedBefore(r, s) ==
    [r EXCEPT !.sources = @ \ {s}, !.active = @ /\ r.sources # {}]

(* The row is withdrawn with its last source and keeps everything else.    *)
Withdrawn(r, s) ==
    [r EXCEPT !.sources = @ \ {s}, !.active = @ /\ r.sources \ {s} # {}]

DeleteVulnerabilityForSource ==
    /\ \E v \in Stored, s \in Feeds : Update([rows EXCEPT ![v] = Withdrawn(@, s)], {})
    /\ UNCHANGED <<nvd, vc, done>>

(* Only rows stored as UNKNOWN, which no writer stores.                    *)
PropagateSeverityViaAliases ==
    /\ Update([v \in Vulns |->
          IF v \in Stored /\ rows[v].sev = 0
          THEN [rows[v] EXCEPT !.sev = Max({0} \cup {rows[w].sev : w \in
                  {w \in Stored \ {v} : Alias[w] \cap Alias[v] # {}}})]
          ELSE rows[v]], {})
    /\ UNCHANGED <<nvd, vc, done>>

-----------------------------------------------------------------------------
(* VulnCheck: the digest in the row skips a processed backup; batches are  *)
(* transactions of their own; the digest is recorded after the last one.   *)

NewBackup ==
    /\ ~vc.on /\ vc.digest
    /\ vc' = [vc EXCEPT !.digest = FALSE]
    /\ UNCHANGED <<rows, negative, nvd, done>>

processBulk ==
    /\ ~vc.on /\ ~vc.digest
    /\ vc' = [vc EXCEPT !.on = TRUE, !.todo = CVEs]
    /\ done' = {}
    /\ UNCHANGED <<rows, negative, nvd>>

(* The score is taken over, the severity is not touched.                   *)
Enriched(r, cvss) == [r EXCEPT !.sources = @ \cup {"vulncheck"}, !.cvss = @ \/ cvss]

EnrichVulnCheck ==
    /\ vc.on
    /\ \E c \in vc.todo, cvss \in BOOLEAN :
          /\ Update([v \in Vulns |-> IF v \in Linked(c) THEN Enriched(rows[v], cvss) ELSE rows[v]], Linked(c))
          /\ vc' = [vc EXCEPT !.todo = @ \ {c}]
          /\ done' = done \cup {c}
    /\ UNCHANGED nvd

(* Mutant: a failed sync records the digest all the same.                  *)
VulnCheckFailsRecorded ==
    /\ vc.on
    /\ vc' = [vc EXCEPT !.on = FALSE, !.todo = {}, !.digest = TRUE]
    /\ UNCHANGED <<rows, negative, nvd, done>>

VulnCheckFails ==
    /\ vc.on
    /\ vc' = [vc EXCEPT !.on = FALSE, !.todo = {}]
    /\ UNCHANGED <<rows, negative, nvd, done>>

recordSyncSuccessWithDigest ==
    /\ vc.on /\ vc.todo = {}
    /\ vc' \in {[vc EXCEPT !.on = FALSE, !.digest = d] : d \in BOOLEAN}
    /\ UNCHANGED <<rows, negative, nvd, done>>

-----------------------------------------------------------------------------
(* NVD.                                                                    *)

Candidates(after) ==
    {c \in CVEs \ negative : c > after /\ \E v \in Linked(c) : unresolved(rows[v])}

FindUnknownSeverityCVEIDs ==
    /\ nvd.pc = "idle" \/ (nvd.pc = "page" /\ nvd.page = {})
    /\ LET found == Candidates(nvd.after)
           page == {c \in found : Cardinality({d \in found : d <= c}) <= Page}
       IN nvd' = IF page = {} THEN [pc |-> "idle", after |-> 0, page |-> {}]
                 ELSE [pc |-> IF Cardinality(page) < Page THEN "last" ELSE "page", after |-> Max(page), page |-> page]
    /\ nvd' # nvd
    /\ UNCHANGED <<rows, negative, vc, done>>

(* Mutant: NVD overwrites rows that are no longer open.                    *)
UpdateAny(c, sev) ==
    [v \in Vulns |-> IF v \in Linked(c) THEN [rows[v] EXCEPT !.sev = sev, !.cvss = TRUE] ELSE rows[v]]

UpdateSeverityByCVE(c, sev) ==
    [v \in Vulns |-> IF v \in Linked(c) /\ unresolved(rows[v])
                     THEN [rows[v] EXCEPT !.sev = sev, !.cvss = TRUE] ELSE rows[v]]

(* The pages are walked in order: answered with a score, without one, or   *)
(* with an error that only counts.                                         *)
Answer ==
    /\ nvd.page # {}
    /\ LET c == Min(nvd.page) IN
       /\ nvd' = [nvd EXCEPT !.page = @ \ {c}]
       /\ \/ \E sev \in 1..MaxSev : Update(UpdateSeverityByCVE(c, sev), {})
          \/ negative' = negative \cup {c} /\ UNCHANGED rows
          \/ UNCHANGED <<rows, negative>>
    /\ UNCHANGED <<vc, done>>

(* After a short page, cancelled or out of retries: the next sync starts   *)
(* over.                                                                   *)
NVDStops ==
    /\ nvd.pc # "idle"
    /\ nvd' = [pc |-> "idle", after |-> 0, page |-> {}]
    /\ UNCHANGED <<rows, negative, vc, done>>

(* A negative answer counts for 30 days.                                   *)
NegativeExpires ==
    /\ \E c \in negative : negative' = negative \ {c}
    /\ UNCHANGED <<rows, nvd, vc, done>>

Next ==
    \/ UpsertVulnerability \/ DeleteVulnerabilityForSource \/ PropagateSeverityViaAliases
    \/ NewBackup \/ processBulk \/ EnrichVulnCheck \/ VulnCheckFails \/ recordSyncSuccessWithDigest
    \/ FindUnknownSeverityCVEIDs \/ Answer \/ NVDStops \/ NegativeExpires

Spec == Init /\ [][Next]_vars

-----------------------------------------------------------------------------
TypeOK ==
    /\ \A v \in Stored : rows[v] \in [sources : SUBSET (Feeds \cup {"vulncheck"}), active : BOOLEAN,
                                      sev : 1..MaxSev, cvss : BOOLEAN, ended : BOOLEAN]
    /\ negative \subseteq CVEs
    /\ nvd.pc \in {"idle", "page", "last"} /\ nvd.page \subseteq CVEs
    /\ vc \in [on : BOOLEAN, todo : SUBSET CVEs, digest : BOOLEAN]

(* An active advisory has a source: a feed that deletes its evidence ends  *)
(* the advisory with the last source and never before                      *)
(* (deleteVulnerabilityForSourceTx).  Otherwise it is withdrawn exactly    *)
(* when the last feed or import to write it said so.                       *)
ActiveMeansSourced ==
    \A v \in Stored : /\ rows[v].active => rows[v].sources # {} /\ ~rows[v].ended
                      /\ rows[v].sources \cap Feeds # {} => rows[v].active = ~rows[v].ended

(* No feed lowers a stored severity, whatever order the upserts, NVD's     *)
(* late answers and VulnCheck's batches come in.                           *)
SeverityNeverLowered ==
    \A v \in Stored : rows'[v] # None /\ rows'[v].sev >= rows[v].sev

(* A recorded digest means the sync that recorded it stored every batch of *)
(* that backup (recordSyncSuccessWithDigest runs after the last batch), so *)
(* skipping the unchanged backup loses nothing.                            *)
DigestMeansProcessed == vc.digest => done = CVEs
=============================================================================
