---------------------------- MODULE SharedFacts ----------------------------
(***************************************************************************)
(* Facts that the proofs of several components rest on: induction over the *)
(* naturals, with a set in the place of a predicate, by which what         *)
(* recursive functions compute is proved; what operations on lists yield;  *)
(* and the stages and checkpoints of a run.                                *)
(***************************************************************************)
EXTENDS StageGate, Lists, SequenceTheorems, WellFoundedInduction, TLAPS

-----------------------------------------------------------------------------
(* Induction                                                               *)

\* A set of naturals that is not empty has a least element.
LEMMA LeastNatural ==
  ASSUME NEW T \in SUBSET Nat, T # {}
  PROVE  \E least \in T : \A n \in T : least <= n
<1> DEFINE R == OpToRel(<, Nat)
<1>1. IsWellFoundedOn(R, Nat)
  BY NatLessThanWellFounded
<1>2. \A m, n \in Nat : <<m, n>> \in R <=> m < n
  BY DEF OpToRel
<1> HIDE DEF R
<1>3. PICK least \in T : \A n \in T : ~ (<<n, least>> \in R)
  BY <1>1, WFMin
<1>4. ASSUME NEW n \in T PROVE least <= n
  <2>1. least \in Nat /\ n \in Nat
    OBVIOUS
  <2>2. ~ (n < least)
    BY <1>2, <1>3, <2>1
  <2> QED
    BY <2>1, <2>2
<1> QED
  BY <1>4

\* A set that has 0, and with a number the next, has all of them.
LEMMA SetInduction ==
  ASSUME NEW S, 0 \in S, \A n \in Nat : n \in S => n + 1 \in S
  PROVE  \A n \in Nat : n \in S
<1> DEFINE T == {n \in Nat : n \notin S}
<1>1. SUFFICES ASSUME T # {} PROVE FALSE
  OBVIOUS
<1>2. PICK n \in T : \A m \in T : n <= m
  <2>1. T \in SUBSET Nat
    OBVIOUS
  <2> HIDE DEF T
  <2> QED
    BY <1>1, <2>1, LeastNatural
<1>3. n # 0 /\ n - 1 \in Nat /\ n - 1 \in S
  BY <1>2
<1> QED
  BY <1>2, <1>3

\* The same up to a bound.
LEMMA BoundedInduction ==
  ASSUME NEW bound \in Nat, NEW S, 0 \in S, \A n \in 0..bound - 1 : n \in S => n + 1 \in S
  PROVE  \A n \in 0..bound : n \in S
<1> DEFINE U == S \cup {n \in Nat : n > bound}
<1>1. 0 \in U /\ \A n \in Nat : n \in U => n + 1 \in U
  OBVIOUS
<1> HIDE DEF U
<1>2. \A n \in Nat : n \in U
  BY <1>1, SetInduction
<1> QED
  BY <1>2 DEF U

-----------------------------------------------------------------------------
(* Lists                                                                   *)

LEMMA ListOperations ==
  ASSUME NEW T, NEW s \in Seq(T), NEW t \in Seq(T)
  PROVE  /\ s \o t \in Seq(T) /\ Members(s \o t) = Members(s) \cup Members(t)
         /\ \A x \in T : Append(s, x) \in Seq(T) /\ Members(Append(s, x)) = Members(s) \cup {x}
         /\ s # <<>> => s[1] \in T /\ Tail(s) \in Seq(T) /\ Members(s) = {s[1]} \cup Members(Tail(s))
         /\ Members(s) \subseteq T
         /\ s = <<>> <=> Members(s) = {}
<1>1. /\ Len(s) \in Nat /\ DOMAIN s = 1..Len(s) /\ \A k \in 1..Len(s) : s[k] \in T
      /\ Len(t) \in Nat /\ DOMAIN t = 1..Len(t)
  OBVIOUS
<1>2. s \o t \in Seq(T) /\ Members(s \o t) = Members(s) \cup Members(t)
  <2>1. /\ s \o t \in Seq(T) /\ DOMAIN (s \o t) = 1..Len(s) + Len(t)
        /\ \A k \in 1..Len(s) : (s \o t)[k] = s[k]
        /\ \A k \in 1..Len(t) : (s \o t)[Len(s) + k] = t[k]
    BY <1>1
  <2>2. \A k \in 1..Len(s) + Len(t) : k \in 1..Len(s) \/ k - Len(s) \in 1..Len(t)
    BY <1>1
  <2>3. \A k \in DOMAIN (s \o t) : (s \o t)[k] \in Members(s) \cup Members(t)
    <3> SUFFICES ASSUME NEW k \in DOMAIN (s \o t) PROVE (s \o t)[k] \in Members(s) \cup Members(t)
      OBVIOUS
    <3>1. CASE k \in 1..Len(s)
      BY <1>1, <2>1, <3>1 DEF Members
    <3>2. CASE k - Len(s) \in 1..Len(t)
      <4>1. PICK j \in 1..Len(t) : k = Len(s) + j
        BY <1>1, <2>1, <3>2
      <4> QED
        BY <1>1, <2>1, <4>1 DEF Members
    <3> QED
      BY <2>1, <2>2, <3>1, <3>2
  <2>4. \A k \in 1..Len(s) : k \in DOMAIN (s \o t)
    BY <1>1, <2>1
  <2>5. \A k \in 1..Len(t) : Len(s) + k \in DOMAIN (s \o t)
    BY <1>1, <2>1
  <2>6. Members(s) \subseteq Members(s \o t)
    BY <1>1, <2>1, <2>4 DEF Members
  <2>7. Members(t) \subseteq Members(s \o t)
    BY <1>1, <2>1, <2>5 DEF Members
  <2>8. Members(s \o t) \subseteq Members(s) \cup Members(t)
    BY <2>3 DEF Members
  <2> QED
    BY <2>1, <2>6, <2>7, <2>8
<1>3. ASSUME NEW x \in T PROVE Append(s, x) \in Seq(T) /\ Members(Append(s, x)) = Members(s) \cup {x}
  <2>1. /\ Append(s, x) \in Seq(T) /\ DOMAIN Append(s, x) = 1..Len(s) + 1
        /\ \A k \in 1..Len(s) : Append(s, x)[k] = s[k]
        /\ Append(s, x)[Len(s) + 1] = x
    BY <1>1
  <2>2. 1..Len(s) + 1 = (1..Len(s)) \cup {Len(s) + 1}
    BY <1>1
  <2> QED
    BY <1>1, <2>1, <2>2 DEF Members
<1>4. s # <<>> => s[1] \in T /\ Tail(s) \in Seq(T) /\ Members(s) = {s[1]} \cup Members(Tail(s))
  <2> SUFFICES ASSUME s # <<>>
               PROVE  s[1] \in T /\ Tail(s) \in Seq(T) /\ Members(s) = {s[1]} \cup Members(Tail(s))
    OBVIOUS
  <2>1. Len(s) \in Nat \ {0} /\ s[1] \in T
    BY <1>1, EmptySeq
  <2>2. /\ Tail(s) \in Seq(T) /\ DOMAIN Tail(s) = 1..Len(s) - 1
        /\ \A k \in 1..Len(s) - 1 : Tail(s)[k] = s[k + 1]
    BY <1>1, <2>1
  <2>3. \A k \in 1..Len(s) : k = 1 \/ k - 1 \in 1..Len(s) - 1
    BY <2>1
  <2>4. \A k \in 1..Len(s) - 1 : k + 1 \in 1..Len(s)
    BY <2>1
  <2>5. ASSUME NEW k \in 1..Len(s) PROVE s[k] \in {s[1]} \cup Members(Tail(s))
    <3>1. CASE k = 1
      BY <3>1
    <3>2. CASE k - 1 \in 1..Len(s) - 1
      <4>1. Tail(s)[k - 1] = s[k]
        BY <2>2, <3>2
      <4> QED
        BY <2>2, <3>2, <4>1 DEF Members
    <3> QED
      BY <2>3, <3>1, <3>2
  <2>6. ASSUME NEW k \in 1..Len(s) - 1 PROVE Tail(s)[k] \in Members(s)
    BY <1>1, <2>2, <2>4 DEF Members
  <2>7. Members(s) \subseteq {s[1]} \cup Members(Tail(s))
    BY <1>1, <2>5 DEF Members
  <2>8. Members(Tail(s)) \subseteq Members(s)
    BY <2>2, <2>6 DEF Members
  <2>9. s[1] \in Members(s)
    BY <1>1, <2>1 DEF Members
  <2> QED
    BY <2>1, <2>2, <2>7, <2>8, <2>9
<1>5. Members(s) \subseteq T
  BY <1>1 DEF Members
<1>6. s = <<>> <=> Members(s) = {}
  <2>1. CASE s = <<>>
    BY <2>1 DEF Members
  <2>2. CASE s # <<>>
    BY <1>4, <2>2
  <2> QED
    BY <2>1, <2>2
<1> QED
  BY <1>2, <1>3, <1>4, <1>5, <1>6

\* One step of the recursion that defines AmongFirst.
AmongStep(f, s, S, n) == IF n = 0 THEN <<>> ELSE IF s[n] \in S THEN Append(f[n - 1], s[n]) ELSE f[n - 1]

\* The recursion has a solution, so AmongFirst is one.
LEMMA AmongEquation ==
  ASSUME NEW s, NEW S, Len(s) \in Nat
  PROVE  \A n \in 0..Len(s) : AmongFirst(s, S)[n] = AmongStep(AmongFirst(s, S), s, S, n)
<1> DEFINE Solves(f, m) == f = [n \in 0..m |-> AmongStep(f, s, S, n)]
           M == {m \in Nat : \E f : Solves(f, m)}
<1>1. 0 \in M
  <2> DEFINE f == [n \in 0..0 |-> <<>>]
  <2>1. Solves(f, 0)
    BY DEF AmongStep
  <2> HIDE DEF Solves, f
  <2> QED
    BY <2>1
<1>2. ASSUME NEW m \in Nat, m \in M PROVE m + 1 \in M
  <2>1. PICK f : Solves(f, m)
    BY <1>2
  <2> DEFINE g == [n \in 0..m + 1 |-> IF n = m + 1 THEN AmongStep(f, s, S, n) ELSE f[n]]
  <2>2. ASSUME NEW n \in 0..m + 1 PROVE g[n] = AmongStep(g, s, S, n)
    <3>1. g[n] = AmongStep(f, s, S, n)
      <4>1. n \in 0..m => f[n] = AmongStep(f, s, S, n)
        BY <2>1
      <4> QED
        BY <4>1
    <3>2. n # 0 => g[n - 1] = f[n - 1]
      OBVIOUS
    <3> HIDE DEF g
    <3> QED
      BY <3>1, <3>2 DEF AmongStep
  <2>3. Solves(g, m + 1)
    BY <2>2
  <2> HIDE DEF Solves, g
  <2> QED
    BY <2>3
<1>3. Len(s) \in M
  <2> HIDE DEF M
  <2>1. \A n \in Nat : n \in M
    BY <1>1, <1>2, SetInduction
  <2> QED
    BY <2>1
<1>4. Solves(AmongFirst(s, S), Len(s))
  BY <1>3 DEF AmongFirst, AmongStep
<1> QED
  BY <1>4

\* What is selected are the members that the set has, and they stand in the order of the list.
LEMMA AmongProperties ==
  ASSUME NEW T, NEW s \in Seq(T), NEW S
  PROVE  /\ Among(s, S) \in Seq(T)
         /\ Members(Among(s, S)) = Members(s) \cap S
         /\ \E place \in [1..Len(Among(s, S)) -> 1..Len(s)] :
              /\ \A j \in 1..Len(Among(s, S)) : Among(s, S)[j] = s[place[j]]
              /\ \A i, j \in 1..Len(Among(s, S)) : i < j => place[i] < place[j]
<1> DEFINE A == AmongFirst(s, S)
           Placed(n) == \E place \in [1..Len(A[n]) -> 1..n] :
                          /\ \A j \in 1..Len(A[n]) : A[n][j] = s[place[j]]
                          /\ \A i, j \in 1..Len(A[n]) : i < j => place[i] < place[j]
           I == {n \in 0..Len(s) : /\ A[n] \in Seq(T)
                                   /\ Members(A[n]) = {s[k] : k \in 1..n} \cap S
                                   /\ Placed(n)}
<1>0. Len(s) \in Nat /\ DOMAIN s = 1..Len(s) /\ \A k \in 1..Len(s) : s[k] \in T
  OBVIOUS
<1>1. \A n \in 0..Len(s) : A[n] = AmongStep(A, s, S, n)
  BY <1>0, AmongEquation
<1> HIDE DEF A
<1>2. 0 \in I
  <2>1. A[0] = <<>>
    BY <1>0, <1>1 DEF AmongStep
  <2>2. A[0] \in Seq(T) /\ Len(A[0]) = 0
    BY <2>1
  <2>3. Members(A[0]) = {}
    BY <2>1 DEF Members
  <2>4. Placed(0)
    <3>1. [j \in 1..0 |-> j] \in [1..Len(A[0]) -> 1..0]
      BY <2>2
    <3>2. \A j \in 1..Len(A[0]) : FALSE
      BY <2>2
    <3> QED
      BY <3>1, <3>2
  <2>5. {s[k] : k \in 1..0} = {} /\ 0 \in 0..Len(s)
    BY <1>0
  <2> HIDE DEF Placed
  <2> QED
    BY <2>2, <2>3, <2>4, <2>5
<1>3. ASSUME NEW n \in 0..Len(s) - 1, n \in I PROVE n + 1 \in I
  <2>1. n + 1 \in 0..Len(s) /\ n + 1 \in 1..Len(s) /\ n \in Nat /\ s[n + 1] \in T
    BY <1>0
  <2>2. A[n + 1] = IF s[n + 1] \in S THEN Append(A[n], s[n + 1]) ELSE A[n]
    <3>1. n + 1 # 0 /\ (n + 1) - 1 = n
      BY <2>1
    <3> QED
      BY <1>1, <2>1, <3>1 DEF AmongStep
  <2>3. A[n] \in Seq(T) /\ Members(A[n]) = {s[k] : k \in 1..n} \cap S /\ Placed(n)
    BY <1>3
  <2>4. 1..n + 1 = (1..n) \cup {n + 1}
    BY <2>1
  <2>5. {s[k] : k \in 1..n + 1} = {s[k] : k \in 1..n} \cup {s[n + 1]}
    BY <2>4
  <2>6. PICK place \in [1..Len(A[n]) -> 1..n] :
          /\ \A j \in 1..Len(A[n]) : A[n][j] = s[place[j]]
          /\ \A i, j \in 1..Len(A[n]) : i < j => place[i] < place[j]
    BY <2>3
  <2>7. CASE s[n + 1] \notin S
    <3>1. A[n + 1] = A[n]
      BY <2>2, <2>7
    <3>2. place \in [1..Len(A[n]) -> 1..n + 1]
      BY <2>4
    <3>3. Placed(n + 1)
      BY <2>6, <3>1, <3>2
    <3>4. {s[k] : k \in 1..n + 1} \cap S = {s[k] : k \in 1..n} \cap S
      BY <2>5, <2>7
    <3> HIDE DEF Placed
    <3> QED
      BY <2>1, <2>3, <3>1, <3>3, <3>4
  <2>8. CASE s[n + 1] \in S
    <3> DEFINE more == Append(A[n], s[n + 1])
               size == Len(A[n])
    <3>1. more \in Seq(T) /\ Members(more) = Members(A[n]) \cup {s[n + 1]}
      BY <2>1, <2>3, ListOperations
    <3>2. /\ size \in Nat /\ Len(more) = size + 1 /\ more[size + 1] = s[n + 1]
          /\ \A j \in 1..size : more[j] = A[n][j]
      BY <2>1, <2>3
    <3>3. A[n + 1] = more
      BY <2>2, <2>8
    <3>4. Placed(n + 1)
      <4> DEFINE next == [j \in 1..size + 1 |-> IF j = size + 1 THEN n + 1 ELSE place[j]]
      <4> HIDE DEF size, more
      <4>0. place \in [1..size -> 1..n]
        BY <2>6 DEF size
      <4>1. \A j \in 1..size : j \in 1..size + 1 /\ j # size + 1 /\ next[j] = place[j]
                                /\ place[j] \in 1..n /\ place[j] < n + 1
        <5> SUFFICES ASSUME NEW j \in 1..size
                     PROVE  j \in 1..size + 1 /\ j # size + 1 /\ next[j] = place[j]
                            /\ place[j] \in 1..n /\ place[j] < n + 1
          OBVIOUS
        <5>1. j \in 1..size + 1 /\ j # size + 1
          BY <3>2
        <5>2. place[j] \in 1..n
          BY <4>0
        <5> QED
          BY <2>1, <5>1, <5>2
      <4>2. \A j \in 1..size + 1 : j \in 1..size \/ j = size + 1
        BY <3>2
      <4>3. size + 1 \in 1..size + 1 /\ next[size + 1] = n + 1
        BY <3>2
      <4>4. next \in [1..size + 1 -> 1..n + 1]
        BY <2>1, <2>4, <4>1, <4>2
      <4> HIDE DEF next
      <4>5. \A j \in 1..size + 1 : more[j] = s[next[j]]
        BY <2>6, <3>2, <4>1, <4>2, <4>3 DEF size
      <4>6. ASSUME NEW i \in 1..size + 1, NEW j \in 1..size + 1, i < j PROVE next[i] < next[j]
        <5>1. i \in 1..size
          BY <3>2, <4>6
        <5>2. CASE j \in 1..size
          BY <2>6, <4>1, <4>6, <5>1, <5>2 DEF size
        <5>3. CASE j = size + 1
          BY <4>1, <4>3, <5>1, <5>3
        <5> QED
          BY <4>2, <5>2, <5>3
      <4> QED
        BY <3>2, <3>3, <4>4, <4>5, <4>6
    <3>5. {s[k] : k \in 1..n + 1} \cap S = ({s[k] : k \in 1..n} \cap S) \cup {s[n + 1]}
      BY <2>5, <2>8
    <3> HIDE DEF Placed, more
    <3> QED
      BY <2>1, <2>3, <3>1, <3>3, <3>4, <3>5
  <2> QED
    BY <2>7, <2>8
<1>4. Len(s) \in I
  <2> HIDE DEF I
  <2>1. \A n \in 0..Len(s) : n \in I
    BY <1>0, <1>2, <1>3, BoundedInduction
  <2> QED
    BY <1>0, <2>1
<1>5. Among(s, S) = A[Len(s)]
  BY DEF Among, A
<1>6. Members(s) = {s[k] : k \in 1..Len(s)}
  BY <1>0 DEF Members
<1>7. A[Len(s)] \in Seq(T) /\ Members(A[Len(s)]) = {s[k] : k \in 1..Len(s)} \cap S /\ Placed(Len(s))
  BY <1>4
<1> QED
  BY <1>5, <1>6, <1>7

-----------------------------------------------------------------------------
(* Stages and checkpoints                                                  *)

\* The ten steps, one by one.
LEMMA StepsListed ==
  Steps = {"1.company_resolve", "2.subdomains", "3.ip_resolve", "4.ports",
           "5.fingerprint", "6.nuclei_match", "7.cve_lookup", "8.people_osint",
           "9.ai_triage", "10.report_writer"}
<1> DEFINE p(i) == PIPELINE_STEPS[i]
<1>1. \A i \in 1..10 : i \in {1, 2, 3, 4, 5, 6, 7, 8, 9, 10}
  OBVIOUS
<1>2. /\ p(1) = "1.company_resolve" /\ p(2) = "2.subdomains"
      /\ p(3) = "3.ip_resolve"      /\ p(4) = "4.ports"
      /\ p(5) = "5.fingerprint"     /\ p(6) = "6.nuclei_match"
      /\ p(7) = "7.cve_lookup"      /\ p(8) = "8.people_osint"
      /\ p(9) = "9.ai_triage"       /\ p(10) = "10.report_writer"
  BY DEF PIPELINE_STEPS
<1>3. Steps = {p(i) : i \in {1, 2, 3, 4, 5, 6, 7, 8, 9, 10}}
  BY <1>1 DEF Steps
<1> HIDE DEF p
<1> QED
  BY <1>2, <1>3

\* The steps that await one another do await steps.
LEMMA AwaitedTyped == AwaitedBy \in [Steps -> SUBSET Steps]
  BY StepsListed DEF AwaitedBy

\* A run that starts from no stage at all skips none of those it may run.
LEMMA NothingSkipped ==
  ASSUME NEW current_step \in {"init", "aborted", "completed"}, NEW s,
         NEW scan_mode, NEW enabled_stages
  PROVE  ShouldRunStep(current_step, s, scan_mode, enabled_stages)
           <=> s \in Allowed(scan_mode, enabled_stages)
<1>1. current_step \notin Steps
  BY StepsListed
<1> QED
  BY <1>1 DEF ShouldRunStep, AtOrAfterCheckpoint
=============================================================================
