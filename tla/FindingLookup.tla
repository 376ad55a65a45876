--------------------------- MODULE FindingLookup ----------------------------
(***************************************************************************)
(* Finding lookups of the PostgreSQL store and of the client's SQLite      *)
(* store: one package at a time, and the batch a check or a scan asks for. *)
(* A batch is a list of queries that may repeat a package, spell its name  *)
(* differently, ask for several versions or for none; the local store      *)
(* splits it into chunks of bound parameters.                              *)
(*                                                                         *)
(* A row says which versions it affects (VersionRanges decides that) and   *)
(* whether its constraint JSON is unreadable; an empty version asks for    *)
(* every finding of the package.  The local tables mirror the active rows. *)
(***************************************************************************)
EXTENDS Integers, Sequences, SequencesExt, FiniteSets

CONSTANTS Tables,         \* row sequences: [kind, id, key, hits, bad, active]
          Spellings,      \* [name as requested -> canonical name]
          Versions,       \* requested versions, "" for none
          MaxQueries,     \* bound: queries of a batch
          ChunkSize       \* keys per local chunk

Queries == [name : DOMAIN Spellings, version : Versions]

VARIABLES rows, batch
vars == <<rows, batch>>

Init == rows \in Tables /\ batch = <<>>

\* A request grows by one query at a time; every prefix is a batch too.
AddQuery ==
    /\ Len(batch) < MaxQueries
    /\ \E q \in Queries : batch' = Append(batch, q)
    /\ UNCHANGED rows

Next == AddQuery
Spec == Init /\ [][Next]_vars

-----------------------------------------------------------------------------
packageKey(q) == Spellings[q.name]

AppendNew(s, x) == IF Contains(s, x) THEN s ELSE Append(s, x)

\* The distinct packages of the batch, in request order.
packageLookupValues(pkgs) == FoldLeft(LAMBDA s, q : AppendNew(s, packageKey(q)), <<>>, pkgs)

\* The distinct versions requested of one package.
packageVersionsByKey(pkgs, key) ==
    FoldLeft(LAMBDA s, q : IF packageKey(q) = key THEN AppendNew(s, q.version) ELSE s, <<>>, pkgs)

\* Constraints that do not parse count as affecting the version.
versionAffectedWithEcosystem(row, v) == row.bad \/ v \in row.hits
maliciousFindingAffectsVersion(row, v) == v = "" \/ versionAffectedWithEcosystem(row, v)

findingsFromVulnerabilityRow(row, versions) ==
    LET hit == SelectSeq(versions, LAMBDA v : v = "" \/ versionAffectedWithEcosystem(row, v))
    IN [i \in DOMAIN hit |-> [id |-> row.id, version |-> hit[i]]]

MaliciousOfRow(row, versions) ==
    LET hit == SelectSeq(versions, LAMBDA v : maliciousFindingAffectsVersion(row, v))
    IN [i \in DOMAIN hit |-> [id |-> row.id, version |-> hit[i]]]

\* The rows of the wanted packages, each with the versions asked of its package.
Matching(kind, table, keys, Of(_)) ==
    LET wanted == SelectSeq(table, LAMBDA r : r.kind = kind /\ Contains(keys, r.key))
    IN FlattenSeq([i \in DOMAIN wanted |-> Of(wanted[i])])

ActiveRows == SelectSeq(rows, LAMBDA r : r.active)

FindVulnerabilities(q) ==
    Matching("vulnerability", ActiveRows, <<packageKey(q)>>,
             LAMBDA r : findingsFromVulnerabilityRow(r, <<q.version>>))

FindVulnerabilitiesBatch(pkgs) ==
    Matching("vulnerability", ActiveRows, packageLookupValues(pkgs),
             LAMBDA r : findingsFromVulnerabilityRow(r, packageVersionsByKey(pkgs, r.key)))

FindMalicious(q) ==
    Matching("malicious", ActiveRows, <<packageKey(q)>>, LAMBDA r : MaliciousOfRow(r, <<q.version>>))

FindMaliciousBatch(pkgs) ==
    Matching("malicious", ActiveRows, packageLookupValues(pkgs),
             LAMBDA r : MaliciousOfRow(r, packageVersionsByKey(pkgs, r.key)))

\* Reputation rows belong to one version; a query without one is skipped.
FindReputationFindingsBatch(pkgs) ==
    Matching("reputation", ActiveRows, packageLookupValues(pkgs),
             LAMBDA r : MaliciousOfRow(r, SelectSeq(packageVersionsByKey(pkgs, r.key), LAMBDA v : v # "")))

-----------------------------------------------------------------------------
\* The client's tables hold the rows that are active.
LocalRows == ActiveRows

\* Mutant: only the last chunk is searched for the package.
localPackagePredicateChunksReopened(pkgs) ==
    FoldLeft(LAMBDA cs, q :
        LET key == packageKey(q)
            last == Len(cs)
        IN IF last > 0 /\ Contains(cs[last], key) THEN cs
           ELSE IF last = 0 \/ Len(cs[last]) >= ChunkSize THEN Append(cs, <<key>>)
           ELSE [cs EXCEPT ![last] = Append(@, key)],
        <<>>, pkgs)

\* A new package goes to the last chunk while it has room, otherwise to a new
\* one; a package seen before keeps its chunk.
localPackagePredicateChunks(pkgs) ==
    FoldLeft(LAMBDA cs, q :
        LET key == packageKey(q)
            last == Len(cs)
        IN IF \E i \in DOMAIN cs : Contains(cs[i], key) THEN cs
           ELSE IF last = 0 \/ Len(cs[last]) >= ChunkSize THEN Append(cs, <<key>>)
           ELSE [cs EXCEPT ![last] = Append(@, key)],
        <<>>, pkgs)

\* Per (package, version) pair instead of per package.
localReputationPackagePredicateChunks(pkgs) ==
    LET pairs == FoldLeft(LAMBDA s, q : IF q.version = "" THEN s
                                        ELSE AppendNew(s, <<packageKey(q), q.version>>), <<>>, pkgs)
    IN FoldLeft(LAMBDA cs, p :
                  IF cs = <<>> \/ Len(Last(cs)) >= ChunkSize THEN Append(cs, <<p>>)
                  ELSE [cs EXCEPT ![Len(cs)] = Append(@, p)], <<>>, pairs)

localVulnerabilityFinding(row, v) == [id |-> row.id, version |-> v]
localMaliciousFinding(row, v) == [id |-> row.id, version |-> v]

LocalFindVulnerabilities(q) ==
    Matching("vulnerability", LocalRows, <<packageKey(q)>>,
             LAMBDA r : IF q.version = "" \/ versionAffectedWithEcosystem(r, q.version)
                        THEN <<localVulnerabilityFinding(r, q.version)>> ELSE <<>>)

findVulnerabilitiesBatchChunk(pkgs, keys) ==
    Matching("vulnerability", LocalRows, keys,
             LAMBDA r : LET hit == SelectSeq(packageVersionsByKey(pkgs, r.key),
                                             LAMBDA v : v = "" \/ versionAffectedWithEcosystem(r, v))
                        IN [i \in DOMAIN hit |-> localVulnerabilityFinding(r, hit[i])])

LocalFindVulnerabilitiesBatch(pkgs) ==
    LET chunks == localPackagePredicateChunks(pkgs)
    IN FlattenSeq([i \in DOMAIN chunks |-> findVulnerabilitiesBatchChunk(pkgs, chunks[i])])

\* Unlike the server, the local store refuses a malicious row it cannot read.
localMaliciousAffectsVersion(row, v) ==
    [error |-> v # "" /\ row.bad, affected |-> v = "" \/ v \in row.hits]

findMaliciousBatchChunk(pkgs, keys) ==
    Matching("malicious", LocalRows, keys,
             LAMBDA r : LET hit == SelectSeq(packageVersionsByKey(pkgs, r.key),
                                             LAMBDA v : localMaliciousAffectsVersion(r, v).affected)
                        IN [i \in DOMAIN hit |-> localMaliciousFinding(r, hit[i])])

LocalMaliciousFails(pkgs) ==
    \E i \in DOMAIN LocalRows : LET r == LocalRows[i]
        IN r.kind = "malicious" /\ \E j \in DOMAIN packageVersionsByKey(pkgs, r.key) :
              localMaliciousAffectsVersion(r, packageVersionsByKey(pkgs, r.key)[j]).error

LocalFindMaliciousBatch(pkgs) ==
    LET chunks == localPackagePredicateChunks(pkgs)
    IN FlattenSeq([i \in DOMAIN chunks |-> findMaliciousBatchChunk(pkgs, chunks[i])])

LocalFindReputationFindingsBatch(pkgs) ==
    LET chunks == localReputationPackagePredicateChunks(pkgs)
        InChunk(chunk) == SelectSeq(LocalRows, LAMBDA r : /\ r.kind = "reputation"
                                                          /\ \E v \in r.hits : Contains(chunk, <<r.key, v>>))
    IN FlattenSeq([i \in DOMAIN chunks |->
          [j \in DOMAIN InChunk(chunks[i]) |->
              [id |-> InChunk(chunks[i])[j].id, version |-> CHOOSE v \in InChunk(chunks[i])[j].hits : TRUE]]])

-----------------------------------------------------------------------------
\* The answer holds each finding once.
NoRepeats(s) == Cardinality(ToSet(s)) = Len(s)

Singles(Find(_), pkgs) == UNION {ToSet(Find(pkgs[i])) : i \in DOMAIN pkgs}

\* A batch reports what the single lookups of its queries report, each finding
\* once, and the local database reports what the server reports (DESIGN.md:
\* remote and local modes detect the same findings), whatever the batch repeats
\* and wherever the chunks of FindVulnerabilitiesBatch and FindMaliciousBatch
\* are cut.
LookupsAgree ==
    LET v == FindVulnerabilitiesBatch(batch)
        m == FindMaliciousBatch(batch)
        r == FindReputationFindingsBatch(batch)
    IN /\ NoRepeats(v) /\ NoRepeats(m) /\ NoRepeats(r)
       /\ ToSet(v) = Singles(FindVulnerabilities, batch)
       /\ ToSet(m) = Singles(FindMalicious, batch)
       /\ ToSet(v) = Singles(LocalFindVulnerabilities, batch)
       /\ NoRepeats(LocalFindVulnerabilitiesBatch(batch)) /\ ToSet(LocalFindVulnerabilitiesBatch(batch)) = ToSet(v)
       /\ ~LocalMaliciousFails(batch) =>
             /\ NoRepeats(LocalFindMaliciousBatch(batch)) /\ ToSet(LocalFindMaliciousBatch(batch)) = ToSet(m)
       /\ NoRepeats(LocalFindReputationFindingsBatch(batch))
       /\ ToSet(LocalFindReputationFindingsBatch(batch)) = ToSet(r)
=============================================================================
