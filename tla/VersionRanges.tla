--------------------------- MODULE VersionRanges ---------------------------
(***************************************************************************)
(* Version comparison and affected-range matching (internal/version).      *)
(*                                                                         *)
(* A version is a sequence of tokens: a digit, a separator, or a word such *)
(* as "rc", already trimmed and lowercased.  "1.0-rc.2" is                 *)
(* << "1", ".", "0", "-", "rc", ".", "2" >>; an absent version is << >>,   *)
(* and a full commit SHA is the one word "sha".                            *)
(* Range JSON is a sequence of items with a type, their events, and the    *)
(* introduced / fixed / last_affected fields of the flat format; "bad"     *)
(* marks JSON the decoder refuses.                                         *)
(***************************************************************************)
EXTENDS Integers, Sequences, SequencesExt

CONSTANTS Requests,  \* the lookups: [installed, eco, bad, ranges, versions]
          Candidates \* versions the order laws compare a request's version with

VARIABLES request, answer
vars == <<request, answer>>

Digits == <<"0", "1", "2", "3", "4", "5", "6", "7", "8", "9">>

\* The byte order of the tokens: separators before digits before letters.
Words == <<"a", "alpha", "b", "beta", "dev", "post", "rc", "sha", "snapshot", "sp", "v">>
Bytes == <<"!", "+", "-", ".">> \o Digits \o Words
Rank(t) == CHOOSE i \in DOMAIN Bytes : Bytes[i] = t

IsDigit(t) == \E i \in DOMAIN Digits : Digits[i] = t
Number(s) == FoldLeft(LAMBDA n, t : 10 * n + Rank(t) - 5, 0, s)

Cmp(x, y) == IF x < y THEN -1 ELSE IF x > y THEN 1 ELSE 0

\* The first verdict that is not a tie.
Decide(verdicts) ==
    IF \A i \in DOMAIN verdicts : verdicts[i] = 0 THEN 0
    ELSE verdicts[CHOOSE i \in DOMAIN verdicts :
                     verdicts[i] # 0 /\ \A j \in 1..(i - 1) : verdicts[j] = 0]

Longest(a, b) == 1..(IF Len(a) > Len(b) THEN Len(a) ELSE Len(b))

\* strings.Split(s, ".")
Split(s) ==
    FoldLeft(LAMBDA parts, t : IF t = "." THEN Append(parts, <<>>)
                               ELSE [parts EXCEPT ![Len(parts)] = Append(@, t)],
             << <<>> >>, s)

Before(s, i) == SubSeq(s, 1, i - 1)
After(s, i) == SubSeq(s, i + 1, Len(s))

parseLeadingInt(s) ==
    LET i == SelectInSeq(s, LAMBDA t : ~IsDigit(t))
    IN Number(IF i = 0 THEN s ELSE Before(s, i))

\* Every digit of the text counts: "1.dev2" reads as 12.
parseInt(s) == Number(SelectSeq(s, IsDigit))

isNumeric(s) == s # <<>> /\ \A i \in DOMAIN s : IsDigit(s[i])

Padded(s, i) == IF i <= Len(s) THEN s[i] ELSE 0
compareIntSlices(a, b) == Decide([i \in Longest(a, b) |-> Cmp(Padded(a, i), Padded(b, i))])

LeadingInts(parts) == [i \in DOMAIN parts |-> parseLeadingInt(parts[i])]
Ints(s) == LeadingInts(Split(s))

compareRelease(a, b) == compareIntSlices(Ints(a), Ints(b))

\* A "v" before a digit and everything from "+" on do not count.
normalizeSemverInput(v) ==
    LET w == IF Len(v) > 1 /\ v[1] = "v" /\ IsDigit(v[2]) THEN Tail(v) ELSE v
        plus == SelectInSeq(w, LAMBDA t : t = "+")
    IN IF plus = 0 THEN w ELSE Before(w, plus)

\* The release and what follows the first "-".
splitPrerelease(v) ==
    LET i == SelectInSeq(v, LAMBDA t : t = "-")
    IN IF i > 1 THEN <<Before(v, i), After(v, i)>> ELSE <<v, <<>>>>

\* Go's string order, token by token: a proper prefix comes first.
Ranks(s) == [i \in DOMAIN s |-> Rank(s[i])]
StringCmp(a, b) == compareIntSlices(Ranks(a), Ranks(b))

\* Mutant: numeric identifiers are compared as text.
compareIdentifierAsText(x, y) ==
    IF isNumeric(x) /\ isNumeric(y) THEN Cmp(Number(x), Number(y)) ELSE StringCmp(x, y)

compareIdentifier(x, y) ==
    IF isNumeric(x) THEN IF isNumeric(y) THEN Cmp(Number(x), Number(y)) ELSE -1
    ELSE IF isNumeric(y) THEN 1 ELSE StringCmp(x, y)

compareIdentifierLists(A, B) ==
    Decide([i \in Longest(A, B) |->
              IF i > Len(A) THEN -1 ELSE IF i > Len(B) THEN 1 ELSE compareIdentifier(A[i], B[i])])

comparePrereleaseIdentifiers(a, b) == compareIdentifierLists(Split(a), Split(b))

\* A release comes after each of its pre-releases.
comparePrereleaseStrings(a, b) ==
    CASE a = <<>> /\ b = <<>> -> 0
      [] a = <<>> /\ b # <<>> -> 1
      [] a # <<>> /\ b = <<>> -> -1
      [] OTHER -> comparePrereleaseIdentifiers(a, b)

compareSemverParts(A, B) ==
    Decide(<<compareRelease(A[1], B[1]), comparePrereleaseStrings(A[2], B[2])>>)

compareSemver(a, b) ==
    compareSemverParts(splitPrerelease(normalizeSemverInput(a)), splitPrerelease(normalizeSemverInput(b)))

\* Phase of a PEP 440 suffix, in the order the code tries the suffixes.
pep440Suffixes == <<<<"alpha", -4>>, <<"beta", -3>>, <<"post", 1>>, <<"dev", -5>>,
                    <<"rc", -2>>, <<"a", -4>>, <<"b", -3>>>>

\* The first suffix of the list that occurs, at its last occurrence ".word".
DotSuffix(v) ==
    LET Found(s) == {i \in 1..(Len(v) - 1) : v[i] = "." /\ v[i + 1] = s[1]}
        k == SelectInSeq(pep440Suffixes, LAMBDA s : Found(s) # {})
    IN IF k = 0 THEN <<0, 0>>
       ELSE <<CHOOSE i \in Found(pep440Suffixes[k]) :
                  \A j \in Found(pep440Suffixes[k]) : j <= i, pep440Suffixes[k][2]>>

\* Inline suffixes are tried in an order of their own: the first one of the
\* list whose first occurrence in the last dot-separated segment follows a
\* digit or starts the segment.
inlineSuffixes == <<<<"alpha", -4>>, <<"beta", -3>>, <<"dev", -5>>, <<"post", 1>>,
                    <<"rc", -2>>, <<"a", -4>>, <<"b", -3>>>>

splitInlineSuffix(v) ==
    LET dot == SelectLastInSeq(v, LAMBDA t : t = ".")
        seg == After(v, dot)
        At(s) == SelectInSeq(seg, LAMBDA t : t = s[1])
        k == SelectInSeq(inlineSuffixes, LAMBDA s : At(s) = 1 \/ (At(s) > 1 /\ IsDigit(seg[At(s) - 1])))
    IN IF k = 0 THEN <<v, 0, 0>>
       ELSE LET i == dot + At(inlineSuffixes[k])
            IN <<Before(v, i), inlineSuffixes[k][2], parseInt(After(v, i))>>

splitPEP440Suffix(v) ==
    LET d == DotSuffix(v)
    IN IF d[1] = 0 THEN splitInlineSuffix(v)
       ELSE <<Before(v, d[1]), d[2], parseInt(After(v, d[1] + 1))>>

\* Epoch, release, phase and number of the phase.
parsePEP440(v) ==
    LET w == IF v # <<>> /\ v[1] = "v" THEN Tail(v) ELSE v
        bang == SelectInSeq(w, LAMBDA t : t = "!")
    IN <<parseInt(Before(w, bang))>> \o splitPEP440Suffix(After(w, bang))

\* Empty segments of a release do not count.
pep440Release(s) == LeadingInts(SelectSeq(Split(s), LAMBDA segment : segment # <<>>))

comparePEP440Parts(A, B) ==
    Decide(<<Cmp(A[1], B[1]), compareIntSlices(pep440Release(A[2]), pep440Release(B[2])), Cmp(A[3], B[3]), Cmp(A[4], B[4])>>)

comparePEP440(a, b) == comparePEP440Parts(parsePEP440(a), parsePEP440(b))

mavenQualifierOrder(text) ==
    CASE text \in {<<"alpha">>, <<"a">>} -> -5
      [] text \in {<<"beta">>, <<"b">>} -> -4
      [] text = <<"rc">> -> -2
      [] text = <<"sp">> -> 1
      [] text = <<>> -> 0
      [] OTHER -> -1

\* Text and trailing number; separators are trimmed on the left only.
parseMavenQualifier(q) ==
    LET end == SelectLastInSeq(q, LAMBDA t : ~IsDigit(t))
        text == SubSeq(q, 1, end)
        from == SelectInSeq(text, LAMBDA t : t \notin {"-", "."})
    IN <<mavenQualifierOrder(IF from = 0 THEN <<>> ELSE SubSeq(text, from, end)),
         Number(After(q, end))>>

compareMavenQualifiers(a, b) == compareIntSlices(parseMavenQualifier(a), parseMavenQualifier(b))

compareMavenParts(A, B) ==
    Decide(<<compareRelease(A[1], B[1]), compareMavenQualifiers(A[2], B[2])>>)

compareMaven(a, b) == compareMavenParts(splitPrerelease(a), splitPrerelease(b))

\* NuGet and Chocolatey listings differ in case and build metadata only.
versionsEqual(a, b, eco) == IF eco = "nuget" THEN compareSemver(a, b) = 0 ELSE a = b

compareEcosystem(a, b, eco) ==
    CASE eco = "pypi" -> comparePEP440(a, b)
      [] eco = "maven" -> compareMaven(a, b)
      [] OTHER -> compareSemver(a, b)

Compare(a, b, type, eco) ==
    CASE type = "GIT" -> 0
      [] type = "ECOSYSTEM" -> compareEcosystem(a, b, eco)
      [] OTHER -> compareSemver(a, b)

Absent == <<>>

flatToFull(items) ==
    LET Events(top) == SelectSeq(<<[top EXCEPT !.fixed = Absent, !.last = Absent],
                                   [top EXCEPT !.introduced = Absent, !.last = Absent],
                                   [top EXCEPT !.introduced = Absent, !.fixed = Absent]>>,
                                 LAMBDA e : e.introduced # Absent \/ e.fixed # Absent \/ e.last # Absent)
    IN SelectSeq([i \in DOMAIN items |-> [items[i] EXCEPT !.type = "SEMVER", !.events = Events(items[i].top)]],
                 LAMBDA r : r.events # <<>>)

isFlatFormat(items) ==
    /\ \A i \in DOMAIN items : items[i].events = <<>>
    /\ \E i \in DOMAIN items : items[i].top.introduced # Absent

parseRanges(items) == IF isFlatFormat(items) THEN flatToFull(items) ELSE items

\* Mutant: "0" is compared like any version.
normalizeIntroducedAsIs(v) == v

normalizeIntroduced(v) == IF v = <<"0">> THEN Absent ELSE v

\* The event e of range r closes on the installed version.
versionInRange(q, r, introduced, e) ==
    \A side \in {<<introduced, {0, 1}>>, <<e.fixed, {-1}>>, <<e.last, {-1, 0}>>} :
       side[1] # Absent => Compare(q.installed, side[1], r.type, q.eco) \in side[2]

Closes(e) == e.fixed # Absent \/ e.last # Absent \/ e.limit # Absent

\* The bound in force at event i: the last introduced after the event that
\* closed the range before.
IntroducedAt(events, i) ==
    LET inForce == {j \in 1..i : /\ events[j].introduced # Absent
                                 /\ \A k \in j..(i - 1) : ~Closes(events[k])}
    IN IF inForce = {} THEN Absent ELSE normalizeIntroduced(events[Max(inForce)].introduced)

\* An introduced that no later event closes.
Open(events) ==
    \E j \in DOMAIN events : /\ events[j].introduced # Absent
                             /\ \A k \in j..Len(events) : ~Closes(events[k])

\* A tag of an action cannot be compared with a commit SHA.
skipRangeComparisonForVersion(q) == q.eco = "actions" /\ q.installed = <<"sha">>

RangeHits(q, r) ==
    LET n == Len(r.events)
    IN /\ r.type # "GIT"
       /\ ~skipRangeComparisonForVersion(q)
       /\ \E i \in 1..n : /\ Closes(r.events[i]) \/ (i = n /\ Open(r.events))
                          /\ versionInRange(q, r, IntroducedAt(r.events, i), r.events[i])

matchRanges(q, ranges) == \E i \in DOMAIN ranges : RangeHits(q, ranges[i])

\* Without anything to evaluate, or with JSON that does not parse, the version
\* counts as affected.
VersionAffected(q, ranges) ==
    \/ q.bad
    \/ matchRanges(q, ranges)
    \/ \E v \in q.versions : versionsEqual(q.installed, v, q.eco)
    \/ q.versions = {} /\ \A i \in DOMAIN ranges : ranges[i].type = "GIT"

Fixes(r) == SelectSeq([i \in DOMAIN r.events |-> r.events[i].fixed], LAMBDA fix : fix # Absent)

\* The lowest fix of the advisory, by semver whatever the ecosystem; of two
\* that tie, the one listed first.
LowestFix(fixes) ==
    IF fixes = <<>> THEN Absent
    ELSE FoldLeft(LAMBDA best, fix : IF compareSemver(fix, best) < 0 THEN fix ELSE best, Head(fixes), Tail(fixes))

ExtractFixedVersion(ranges) ==
    LowestFix(FlattenSeq([i \in DOMAIN ranges |-> Fixes(ranges[i])]))

\* The fixes of the closing events whose range holds the installed version.
FixFor(q, r, i) ==
    IF versionInRange(q, r, IntroducedAt(r.events, i), r.events[i]) THEN r.events[i].fixed ELSE Absent

FixesFor(q, r) ==
    IF r.type = "GIT" \/ skipRangeComparisonForVersion(q) THEN <<>>
    ELSE SelectSeq([i \in DOMAIN r.events |-> FixFor(q, r, i)], LAMBDA fix : fix # Absent)

\* Mutant: the lowest fix of the advisory is named.
ExtractFixedVersionForLowest(q, ranges) == IF q.bad THEN Absent ELSE ExtractFixedVersion(ranges)

FirstOf(fixes, fallback) == IF fixes = <<>> THEN fallback ELSE Head(fixes)

ExtractFixedVersionFor(q, ranges) ==
    IF q.bad THEN Absent
    ELSE IF q.installed = Absent THEN ExtractFixedVersion(ranges)
    ELSE FirstOf(FlattenSeq([i \in DOMAIN ranges |-> FixesFor(q, ranges[i])]), ExtractFixedVersion(ranges))

Pending == [done |-> FALSE, affected |-> FALSE, fix |-> Absent]

Init == request \in Requests /\ answer = Pending

\* One advisory row is matched against one package version.
Match ==
    /\ answer = Pending
    /\ answer' = [done |-> TRUE, affected |-> VersionAffected(request, parseRanges(request.ranges)),
                  fix |-> ExtractFixedVersionFor(request, parseRanges(request.ranges))]
    /\ UNCHANGED request

Next == Match
Spec == Init /\ [][Next]_vars

-----------------------------------------------------------------------------
\* Order laws of compareEcosystem: swapping the arguments negates the verdict
\* and "at most" is transitive, so that a version lies in one place relative to
\* the bounds of a range, in every ecosystem the switch of compare.go knows.
\* (The ranges play no part: it is evaluated for the requests without any.)
OrderLaws ==
    LET C(x, y) == compareEcosystem(x, y, request.eco)
        a == request.installed
    IN request.ranges = <<>> => \A b \in Candidates :
          /\ C(a, b) = -C(b, a)
          /\ C(a, b) <= 0 => \A c \in Candidates : C(b, c) <= 0 => C(a, c) <= 0

\* The version an event is about.
BoundOf(e) ==
    IF e.introduced # Absent THEN e.introduced ELSE IF e.fixed # Absent THEN e.fixed ELSE e.last

\* Introductions and closing events take turns, at rising versions.
Alternates(r, eco) ==
    /\ \A i \in DOMAIN r.events : Closes(r.events[i]) = (i % 2 = 0) /\ r.events[i].limit = Absent
    /\ \A i \in 1..(Len(r.events) - 1) :
          \/ BoundOf(r.events[i]) = <<"0">>
          \/ Compare(BoundOf(r.events[i]), BoundOf(r.events[i + 1]), r.type, eco) < 0

\* The event is at or before the version: an introduction or a fix takes effect
\* at its version, a last_affected after it.
Passed(q, r, e) ==
    \/ e.introduced = <<"0">>
    \/ Compare(q.installed, BoundOf(e), r.type, q.eco) >= (IF BoundOf(e) = e.last THEN 1 ELSE 0)

\* Range semantics of matchRanges: on a range whose events alternate and rise,
\* the version is affected exactly when an odd number of them has passed, which
\* is how the OSV schema defines a range.
RangeSemantics ==
    \A i \in DOMAIN request.ranges :
       LET r == request.ranges[i]
       IN r.type # "GIT" /\ ~skipRangeComparisonForVersion(request) /\ Alternates(r, request.eco)
             => RangeHits(request, r) = (Len(SelectSeq(r.events, LAMBDA e : Passed(request, r, e))) % 2 = 1)

\* The range that holds the installed version names a fix.
HeldByFixedRange(q) ==
    \E i \in DOMAIN q.ranges : /\ Alternates(q.ranges[i], q.eco)
                              /\ FixesFor(q, q.ranges[i]) # <<>>

\* Advice of ExtractFixedVersionFor: when a range that holds the installed
\* version has a fix, the fix named is above the installed version, in the
\* order of the range it comes from.
FixAboveInstalled ==
    answer.done /\ ~request.bad /\ HeldByFixedRange(request) =>
       \E i \in DOMAIN request.ranges :
          Compare(answer.fix, request.installed, request.ranges[i].type, request.eco) > 0

\* What the comment of ExtractFixedVersionFor promises (it exists because "a
\* version far below the one they already run" reads as being patched): a fix
\* is never named below a version that some range holds.
\* Not so, and in no run: when no range that holds the version names a fix, the
\* fallback names the fix of any range.
FixNeverUndercuts ==
    answer.fix # Absent
       /\ (\E i \in DOMAIN request.ranges : RangeHits(request, request.ranges[i])) =>
       \E i \in DOMAIN request.ranges :
          Compare(answer.fix, request.installed, request.ranges[i].type, request.eco) > 0

\* What the comment of compareMaven promises of "-alpha-1" and "-beta-2":
\* alpha before beta before rc before the release, whatever number follows.
\* Not so, and in no run: the dash before the number stays in the word, which is
\* then an unknown qualifier, above alpha, beta and rc.
MavenQualifierOrder ==
    \A m, n \in {<<"1">>, <<"-", "1">>, <<"2">>, <<"-", "2">>} :
       LET V(word, num) == request.installed \o <<"-", word>> \o num
       IN request.eco = "maven" /\ ~Contains(request.installed, "-") =>
             /\ compareMaven(V("alpha", m), V("beta", n)) < 0
             /\ compareMaven(V("beta", m), V("rc", n)) < 0
=============================================================================
