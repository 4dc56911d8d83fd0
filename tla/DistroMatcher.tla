--------------------------- MODULE DistroMatcher ---------------------------
(***************************************************************************)
(* The comparison of package versions and the verdict that rests on it     *)
(* (vuln/distro_matcher.py).  A part of a version is a sequence of         *)
(* characters; a version is [epoch, upstream, revision], what the split at *)
(* the first colon and the last hyphen leaves of the text.                 *)
(***************************************************************************)
EXTENDS Integers, Lists, FiniteSets

Digits == {"0", "1", "2", "3"}
Letters == {"a", "b"}
DigitValue == [c \in Digits |-> CASE c = "0" -> 0 [] c = "1" -> 1 [] c = "2" -> 2 [] c = "3" -> 3]

\* ord() of the characters in use.
Ord == [c \in {"~", "+", "."} \cup Letters \cup Digits |->
          CASE c = "~" -> 126 [] c = "+" -> 43 [] c = "." -> 46 [] c = "a" -> 97 [] c = "b" -> 98
            [] OTHER -> 48 + DigitValue[c]]

\* _order_char
OrderChar(c) ==
    CASE c = "~" -> -1
      [] c \in Letters -> Ord[c]
      [] c \in Digits -> Ord[c] + 1000
      [] OTHER -> Ord[c] + 2000

Sign(x, y) == IF x < y THEN -1 ELSE IF x > y THEN 1 ELSE 0

\* int() of a run of digits, and of its first digits.
NumberTo(chunk) ==
    LET value[k \in 0..Len(chunk)] == IF k = 0 THEN 0 ELSE 10 * value[k - 1] + DigitValue[chunk[k]]
    IN value
NumberOf(chunk) == NumberTo(chunk)[Len(chunk)]

IsNumber(chunk) == chunk # <<>> /\ \A k \in DOMAIN chunk : chunk[k] \in Digits
At(s, k) == IF k \in DOMAIN s THEN s[k] ELSE <<>>

\* The first position below n at which a comparison is not 0 decides.
FirstDifference(compare, n) ==
    LET differs == {k \in 1..n : compare[k] # 0}
    IN IF differs = {} THEN 0 ELSE compare[CHOOSE k \in differs : \A j \in differs : k <= j]

Longer(a, b) == IF Len(a) < Len(b) THEN Len(b) ELSE Len(a)

\* A character of a chunk counts by its order, and the end of the chunk 0.
Weight(chunk, k) == IF k \in DOMAIN chunk THEN OrderChar(chunk[k]) ELSE 0
CompareWeights(a, b) ==
    FirstDifference([k \in 1..Longer(a, b) |-> Sign(Weight(a, k), Weight(b, k))], Longer(a, b))

\* Mutant: numbers are compared like words.
CompareChunks_Words(a, b) == CompareWeights(a, b)

\* _compare_chunks: two numbers by value, anything else character by character, where the end of
\* a chunk comes after the tilde and before all others.
CompareChunks(a, b) ==
    IF IsNumber(a) /\ IsNumber(b) THEN Sign(NumberOf(a), NumberOf(b)) ELSE CompareWeights(a, b)

\* re.findall(r"\d+|\D+"): the maximal runs of digits and of other characters.
Chunks(part) ==
    LET Turns == {k \in DOMAIN part : k = 1 \/ (part[k] \in Digits) # (part[k - 1] \in Digits)}
        starts == Among([k \in DOMAIN part |-> k], Turns)
    IN [n \in DOMAIN starts |-> SubSeq(part, starts[n], IF n = Len(starts) THEN Len(part) ELSE starts[n + 1] - 1)]

\* compare_part: chunk by chunk, a missing one is empty.
ComparePart(a, b) ==
    LET ca == Chunks(a)
        cb == Chunks(b)
    IN FirstDifference([k \in 1..Longer(ca, cb) |-> CompareChunks(At(ca, k), At(cb, k))], Longer(ca, cb))

\* compare_dpkg_versions: the epoch, then the upstream version, then the revision.
CompareVersions(v, w) ==
    FirstDifference(<<Sign(v.epoch, w.epoch), ComparePart(v.upstream, w.upstream),
                      ComparePart(v.revision, w.revision)>>, 3)

-----------------------------------------------------------------------------
(* The verdict *)

\* get_cve_distro_intel: the fresh cache, the table that comes with the program, then the tracker of
\* the vendor, whose answer alone may be missing and is then not cached.
Intel(cached, tabled, tracked) ==
    IF cached # "none" THEN cached ELSE IF tabled # "none" THEN tabled ELSE tracked

\* Mutant: the fixed release itself is taken for unpatched.
Verdict_Strict(cve, distro, revision, fixed, proof, intel) ==
    IF proof THEN "confirmed"
    ELSE IF cve = "backported" /\ distro \in {"ubuntu", "debian"} /\ revision # <<>>
         THEN IF CompareVersions([epoch |-> 0, upstream |-> revision, revision |-> <<>>],
                                 [epoch |-> 0, upstream |-> fixed, revision |-> <<>>]) > 0
              THEN "not vulnerable" ELSE "likely vulnerable"
         ELSE "potentially affected"

\* evaluate_distro_security_status: proof settles it; the vulnerability that distributions have
\* backported a fix for is judged by the revision of the package, if the banner has one; all others
\* are reported as potentially affected, and one of them as an advisory.
Verdict(cve, distro, revision, fixed, proof, intel) ==
    IF proof THEN "confirmed"
    ELSE IF intel = "none" THEN "potentially affected"
    ELSE IF cve = "configuration" THEN "advisory"
    ELSE IF cve = "backported" /\ distro \in {"ubuntu", "debian"} /\ revision # <<>>
         THEN IF CompareVersions([epoch |-> 0, upstream |-> revision, revision |-> <<>>],
                                 [epoch |-> 0, upstream |-> fixed, revision |-> <<>>]) >= 0
              THEN "not vulnerable" ELSE "likely vulnerable"
         ELSE "potentially affected"

-----------------------------------------------------------------------------
(* Reference: the order of dpkg, blocks of a text without digits and a number, either of which   *)
(* may be missing                                                                                 *)

Blocks(part) ==
    LET chunks == Chunks(part)
    IN IF part # <<>> /\ part[1] \in Digits THEN <<<<>>>> \o chunks ELSE chunks

TextLess(s, t) == \E k \in 1..Longer(s, t) :
    Weight(s, k) < Weight(t, k) /\ \A j \in 1..k - 1 : Weight(s, j) = Weight(t, j)

DpkgLess(p, q) ==
    LET bp == Blocks(p)
        bq == Blocks(q)
        less(x, y, n) == IF n % 2 = 0 THEN NumberOf(x) < NumberOf(y) ELSE TextLess(x, y)
    IN \E n \in 1..Longer(bp, bq) :
         /\ less(At(bp, n), At(bq, n), n)
         /\ \A j \in 1..n - 1 : ~less(At(bp, j), At(bq, j), j) /\ ~less(At(bq, j), At(bp, j), j)

\* The order is dpkg's between parts that begin and end with a digit; that of others is not: a
\* number that is missing is not taken for 0, and a letter does not come after a number.
WellFormed(part) == part # <<>> /\ part[1] \in Digits /\ part[Len(part)] \in Digits
AsDpkg(a, b) == WellFormed(a) /\ WellFormed(b) => (ComparePart(a, b) = -1 <=> DpkgLess(a, b))

\* The comparison is an order of all texts, well-formed or not: antisymmetric, and transitive
\* through every part of a set.
OrdersAll(a, b, between) ==
    /\ ComparePart(a, b) = -ComparePart(b, a)
    /\ \A c \in between : ComparePart(a, c) <= 0 /\ ComparePart(c, b) <= 0 => ComparePart(a, b) <= 0

\* One fixed revision stands for all releases of a distribution, each of which has a fixed revision of
\* its own.  Where it is not below the release's own, no package that lacks the fix is cleared; where it
\* is not above, every package that has the fix is, so that no update makes the verdict worse.
FollowsRelease(revision, own, fixed) ==
    LET hasFix == ComparePart(revision, own) >= 0
        cleared(distro) == Verdict("backported", distro, revision, fixed, FALSE, "table") = "not vulnerable"
    IN \A distro \in {"ubuntu", "debian"} :
         /\ ComparePart(own, fixed) <= 0 /\ cleared(distro) => hasFix
         /\ ComparePart(fixed, own) <= 0 /\ hasFix /\ revision # <<>> => cleared(distro)
=============================================================================
