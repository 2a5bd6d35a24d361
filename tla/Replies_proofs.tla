--------------------------- MODULE Replies_proofs ---------------------------
(***************************************************************************)
(* Every endpoint that runs a sequence, for calls and sequences of any     *)
(* length. Of the runner: the browser of a request never outlives it,      *)
(* nothing runs after a halt, every step has one result, and starting over *)
(* never repeats a step. Of the replies: every capture and every probe     *)
(* result is in its own place, a good reply is complete unless the         *)
(* deadline cut it, and a capture shows the page as its shot left it.      *)
(*                                                                         *)
(* The invariant RepliesInv says of a state what the runner's own does,    *)
(* that the sequence it runs is the one its call asks for, and where the   *)
(* captures of the items before are. What a reply is read out of follows   *)
(* from it by what the sequence looks like (StepsOK) and what is left of   *)
(* a finished run (Finished): the steps that passed are a prefix of it,    *)
(* so that counting the captures of each kind finds the right ones.        *)
(***************************************************************************)
EXTENDS MC_Replies, FiniteSetTheorems, WellFoundedInduction, TLAPS

-----------------------------------------------------------------------------
(* Positions in order.                                                     *)

(* Induction over a set of natural numbers.                                *)
LEMMA NatSetInduction ==
    ASSUME NEW S, 0 \in S, \A n \in Nat : n \in S => n + 1 \in S
    PROVE  Nat \subseteq S
  <1> SUFFICES ASSUME NEW m \in Nat, m \notin S PROVE FALSE
    OBVIOUS
  <1> DEFINE T == Nat \ S
  <1>1. PICK x \in T : \A y \in T : <<y, x>> \notin OpToRel(<, Nat)
    <2>1. IsWellFoundedOn(OpToRel(<, Nat), Nat)
      BY NatLessThanWellFounded
    <2>2. T \subseteq Nat /\ T # {}
      OBVIOUS
    <2> HIDE DEF T
    <2>3. QED
      BY <2>1, <2>2, WFMin
  <1>2. x \in Nat /\ x # 0 /\ x - 1 \in Nat /\ x - 1 \notin S
    OBVIOUS
  <1>3. <<x - 1, x>> \in OpToRel(<, Nat)
    BY <1>2 DEF OpToRel
  <1>4. QED
    BY <1>1, <1>2, <1>3

(* What InOrder returns: f counts the elements of P from 1 to m, upwards.  *)
Enumerates(f, m, P) ==
    /\ f \in [1..m -> P]
    /\ \A i, j \in 1..m : i < j => f[i] < f[j]
    /\ \A p \in P : \E k \in 1..m : f[k] = p

(* Every bounded set of positions has such an enumeration.                 *)
LEMMA EnumerationExists ==
    ASSUME NEW N \in Nat, NEW P, \A p \in P : p \in 1..N
    PROVE  \E m \in 0..N : \E f : Enumerates(f, m, P)
  <1> DEFINE Q(n) == {p \in P : p <= n}
             Done(n) == \E m \in 0..n : \E f : Enumerates(f, m, Q(n))
             S == {n \in Nat : Done(n)}
  <1>0. \A p \in P : p \in Nat /\ 0 < p /\ p <= N
    OBVIOUS
  <1>1. 0 \in S
    <2>1. Q(0) = {}
      BY <1>0
    <2>2. Enumerates(<<>>, 0, Q(0))
      BY <2>1 DEF Enumerates
    <2>3. 0 \in 0..0
      OBVIOUS
    <2>4. Done(0)
      BY <2>2, <2>3
    <2> HIDE DEF Done
    <2>5. QED
      BY <2>4
  <1>2. ASSUME NEW n \in Nat, Done(n) PROVE Done(n + 1)
    <2>0. PICK m \in 0..n : \E f : Enumerates(f, m, Q(n))
      BY <1>2
    <2>1. PICK f : Enumerates(f, m, Q(n))
      BY <2>0
    <2>2. CASE n + 1 \notin P
      <3>1. Q(n + 1) = Q(n)
        BY <1>0, <2>2
      <3>2. m \in 0..(n + 1)
        OBVIOUS
      <3> HIDE DEF Q
      <3>3. QED
        BY <2>1, <3>1, <3>2
    <2>3. CASE n + 1 \in P
      <3> DEFINE g == [k \in 1..(m + 1) |-> IF k = m + 1 THEN n + 1 ELSE f[k]]
      <3>1. Q(n + 1) = Q(n) \cup {n + 1}
        BY <1>0, <2>3
      <3>2. m \in Nat /\ m + 1 \in 0..(n + 1)
        OBVIOUS
      <3>3. \A k \in 1..m : f[k] \in Nat /\ f[k] <= n
        BY <1>0, <2>1 DEF Enumerates
      <3>4. g \in [1..(m + 1) -> Q(n + 1)]
        BY <2>1, <3>1, <3>2 DEF Enumerates
      <3>5. \A i, j \in 1..(m + 1) : i < j => g[i] < g[j]
        <4>1. \A i, j \in 1..(m + 1) : i < j => i \in 1..m /\ (j = m + 1 \/ j \in 1..m)
          BY <3>2
        <4>2. \A k \in 1..m : g[k] = f[k]
          BY <3>2
        <4>3. g[m + 1] = n + 1
          BY <3>2
        <4> HIDE DEF g
        <4>4. \A i, j \in 1..m : i < j => g[i] < g[j]
          BY <2>1, <4>2 DEF Enumerates
        <4>5. \A i \in 1..m : g[i] < g[m + 1]
          BY <3>3, <4>2, <4>3
        <4>6. QED
          BY <4>1, <4>4, <4>5
      <3>6. \A p \in Q(n + 1) : \E k \in 1..(m + 1) : g[k] = p
        <4> SUFFICES ASSUME NEW p \in Q(n + 1) PROVE \E k \in 1..(m + 1) : g[k] = p
          OBVIOUS
        <4>1. CASE p = n + 1
          BY <3>2, <4>1
        <4>2. CASE p # n + 1
          <5>1. PICK k \in 1..m : f[k] = p
            BY <2>1, <3>1, <4>2 DEF Enumerates
          <5>2. k \in 1..(m + 1) /\ k # m + 1
            BY <3>2
          <5>3. QED
            BY <5>1, <5>2
        <4>3. QED
          BY <4>1, <4>2
      <3>7. Enumerates(g, m + 1, Q(n + 1))
        BY <3>4, <3>5, <3>6 DEF Enumerates
      <3> HIDE DEF Q, g
      <3>8. QED
        BY <3>2, <3>7
    <2>4. QED
      BY <2>2, <2>3
  <1>3. Done(N)
    <2> HIDE DEF Done
    <2>1. \A n \in Nat : n \in S => n + 1 \in S
      BY <1>2
    <2> HIDE DEF S
    <2>2. Nat \subseteq S
      BY <1>1, <2>1, NatSetInduction
    <2>3. QED
      BY <2>2 DEF S
  <1>4. Q(N) = P
    BY <1>0
  <1> HIDE DEF Q
  <1>5. QED
    BY <1>3, <1>4

(* An enumeration has as many places as the set has elements.              *)
LEMMA EnumerationCounts ==
    ASSUME NEW m \in Nat, NEW P, \A p \in P : p \in Nat, NEW f, Enumerates(f, m, P)
    PROVE  IsFiniteSet(P) /\ Cardinality(P) = m
  <1>1. f \in [1..m -> P]
    BY DEF Enumerates
  <1>2. \A i, j \in 1..m : f[i] = f[j] => i = j
    <2> SUFFICES ASSUME NEW i \in 1..m, NEW j \in 1..m, f[i] = f[j] PROVE i = j
      OBVIOUS
    <2>1. ~(i < j) /\ ~(j < i)
      BY DEF Enumerates
    <2>2. QED
      BY <2>1
  <1>3. f \in Bijection(1..m, P)
    BY <1>1, <1>2 DEF Enumerates, Bijection, Injection, Surjection, IsInjective
  <1>4. IsFiniteSet(1..m) /\ Cardinality(1..m) = m
    BY FS_Interval
  <1>5. ExistsBijection(1..m, P)
    BY <1>3 DEF ExistsBijection
  <1>6. QED
    BY <1>4, <1>5, FS_Bijection

(* The elements of P below x, and those not above it.                      *)
Below(P, x) == {p \in P : p < x}

UpTo(P, x) == {p \in P : p <= x}

(* Before the k-th element of an enumeration there are k - 1 others.       *)
LEMMA EnumerationRanks ==
    ASSUME NEW m \in Nat, NEW P, \A p \in P : p \in Nat, NEW f, Enumerates(f, m, P), NEW k \in 1..m
    PROVE  /\ Cardinality(Below(P, f[k])) = k - 1
           /\ Cardinality(UpTo(P, f[k])) = k
  <1> USE DEF Enumerates
  <1>1. \A i \in 1..m : f[i] \in Nat /\ (f[i] < f[k] <=> i < k) /\ (f[i] <= f[k] <=> i <= k)
    <2> SUFFICES ASSUME NEW i \in 1..m
                 PROVE  f[i] \in Nat /\ (f[i] < f[k] <=> i < k) /\ (f[i] <= f[k] <=> i <= k)
      OBVIOUS
    <2>1. f[i] \in Nat /\ f[k] \in Nat
      OBVIOUS
    <2>2. (i < k => f[i] < f[k]) /\ (k < i => f[k] < f[i])
      OBVIOUS
    <2>3. i < k \/ i = k \/ k < i
      OBVIOUS
    <2>4. QED
      BY <2>1, <2>2, <2>3
  <1>2. Enumerates([i \in 1..(k - 1) |-> f[i]], k - 1, Below(P, f[k]))
    BY <1>1 DEF Below
  <1>3. Enumerates([i \in 1..k |-> f[i]], k, UpTo(P, f[k]))
    BY <1>1 DEF UpTo
  <1> HIDE DEF Enumerates
  <1>4. /\ \A p \in Below(P, f[k]) : p \in Nat
        /\ \A p \in UpTo(P, f[k]) : p \in Nat
        /\ k \in Nat /\ k - 1 \in Nat
    BY DEF Below, UpTo
  <1>5. QED
    BY <1>2, <1>3, <1>4, EnumerationCounts

(* InOrder is the enumeration: there is only one.                          *)
LEMMA InOrderIs ==
    ASSUME NEW m \in Nat, NEW P, \A p \in P : p \in Nat, NEW f, Enumerates(f, m, P)
    PROVE  InOrder(P) = f /\ Cardinality(P) = m
  <1>1. Cardinality(P) = m
    BY EnumerationCounts
  <1>2. \A k \in 1..m : f[k] = CHOOSE i \in P : Cardinality({j \in P : j < i}) = k - 1
    <2> SUFFICES ASSUME NEW k \in 1..m
                 PROVE  f[k] = CHOOSE i \in P : Cardinality({j \in P : j < i}) = k - 1
      OBVIOUS
    <2>1. f[k] \in P
      BY DEF Enumerates
    <2>2. \A l \in 1..m : Cardinality(Below(P, f[l])) = l - 1
      BY EnumerationRanks
    <2>3. \A i \in P : \E l \in 1..m : i = f[l]
      BY DEF Enumerates
    <2>4. \A i \in P : Cardinality(Below(P, i)) = k - 1 => i = f[k]
      BY <2>2, <2>3
    <2>5. f[k] = CHOOSE i \in P : Cardinality(Below(P, i)) = k - 1
      BY <2>1, <2>2, <2>4
    <2>6. QED
      BY <2>5 DEF Below
  <1>3. f \in [1..m -> P]
    BY DEF Enumerates
  <1>4. QED
    BY <1>1, <1>2, <1>3 DEF InOrder

(* The instances count and order as the runner does.                       *)
LEMMA SameInOrder ==
    ASSUME NEW P
    PROVE  /\ Shot!InOrder(P) = InOrder(P) /\ Shot!Cardinality(P) = Cardinality(P)
           /\ Probe!InOrder(P) = InOrder(P) /\ Probe!Cardinality(P) = Cardinality(P)
  <1>1. Shot!InOrder(P) = InOrder(P) /\ Shot!Cardinality(P) = Cardinality(P)
    BY Zenon DEF Shot!InOrder, Shot!Cardinality, InOrder, Cardinality
  <1>2. Probe!InOrder(P) = InOrder(P) /\ Probe!Cardinality(P) = Cardinality(P)
    BY Zenon DEF Probe!InOrder, Probe!Cardinality, InOrder, Cardinality
  <1>3. QED
    BY <1>1, <1>2

(* So InOrder enumerates every bounded set.                                *)
LEMMA InOrderEnumerates ==
    ASSUME NEW N \in Nat, NEW P, \A p \in P : p \in 1..N
    PROVE  /\ Enumerates(InOrder(P), Cardinality(P), P)
           /\ Cardinality(P) \in 0..N
           /\ IsFiniteSet(P)
  <1>0. PICK m \in 0..N : \E f : Enumerates(f, m, P)
    BY EnumerationExists
  <1>1. PICK f : Enumerates(f, m, P)
    BY <1>0
  <1>2. m \in Nat /\ \A p \in P : p \in Nat
    OBVIOUS
  <1>3. QED
    BY <1>1, <1>2, InOrderIs, EnumerationCounts

(* Each element is found under its rank.                                   *)
LEMMA RankInOrder ==
    ASSUME NEW N \in Nat, NEW P, \A p \in P : p \in 1..N, NEW c \in P
    PROVE  LET n == Cardinality(UpTo(P, c))
           IN  n \in 1..Cardinality(P) /\ InOrder(P)[n] = c
  <1> DEFINE f == InOrder(P)
             m == Cardinality(P)
  <1>1. Enumerates(f, m, P) /\ m \in Nat
    BY InOrderEnumerates
  <1>2. \A p \in P : p \in Nat
    OBVIOUS
  <1> HIDE DEF f, m
  <1>3. PICK l \in 1..m : f[l] = c
    BY <1>1 DEF Enumerates
  <1>4. Cardinality(UpTo(P, f[l])) = l
    BY <1>1, <1>2, EnumerationRanks
  <1>5. QED
    BY <1>3, <1>4 DEF f, m

(* A set of positions without gaps is a prefix, and in order as it is.     *)
LEMMA PrefixInOrder ==
    ASSUME NEW N \in Nat, NEW P, \A p \in P : p \in 1..N,
           \A p \in P, q \in 1..N : q < p => q \in P
    PROVE  /\ Cardinality(P) \in 0..N
           /\ P = 1..Cardinality(P)
           /\ InOrder(P) = [n \in 1..Cardinality(P) |-> n]
  <1> DEFINE f == InOrder(P)
             m == Cardinality(P)
  <1>0. \A p \in P : p \in Nat /\ p \in 1..N
    OBVIOUS
  <1>1. Enumerates(f, m, P) /\ m \in Nat /\ m \in 0..N
    BY InOrderEnumerates
  <1>2. ASSUME NEW p \in P PROVE Below(P, p) = 1..(p - 1)
    <2>1. \A q \in 1..N : q < p => q \in P
      OBVIOUS
    <2>2. QED
      BY <1>0, <2>1 DEF Below
  <1>3. \A k \in 1..m : f[k] = k
    <2> SUFFICES ASSUME NEW k \in 1..m PROVE f[k] = k
      OBVIOUS
    <2>1. f[k] \in P
      BY <1>1 DEF Enumerates
    <2>2. f[k] \in Nat /\ k \in Int
      BY <1>0, <2>1
    <2>3. \A p \in P : p \in Nat
      BY <1>0
    <2> HIDE DEF f, m
    <2>4. Cardinality(Below(P, f[k])) = k - 1
      BY <1>1, <2>3, EnumerationRanks
    <2>5. Cardinality(1..(f[k] - 1)) = f[k] - 1
      <3>1. \A b \in Nat : Cardinality(1..b) = b
        BY FS_Interval
      <3>2. f[k] - 1 \in Nat
        BY <1>0, <2>1, <2>2
      <3>3. QED
        BY <3>1, <3>2
    <2>6. f[k] - 1 = k - 1
      BY <1>2, <2>1, <2>4, <2>5
    <2>7. QED
      BY <2>2, <2>6
  <1> HIDE DEF f, m
  <1>4. f = [n \in 1..m |-> n]
    BY <1>1, <1>3 DEF Enumerates
  <1>5. P = 1..m
    <2>1. \A p \in P : p \in 1..m
      BY <1>1, <1>3 DEF Enumerates
    <2>2. \A k \in 1..m : k \in P
      BY <1>1, <1>3 DEF Enumerates
    <2>3. QED
      BY <2>1, <2>2
  <1>6. QED
    BY <1>1, <1>4, <1>5 DEF f, m

-----------------------------------------------------------------------------
(* The count of a status among the results is a natural number, zero just  *)
(* when no step has it.                                                    *)
LEMMA CountFacts ==
    ASSUME results \in Seq(StepStatus), NEW s
    PROVE  /\ Count(s) \in Nat
           /\ Count(s) = 0 <=> \A i \in DOMAIN results : results[i] # s
  <1> DEFINE S == {i \in DOMAIN results : results[i] = s}
  <1>1. IsFiniteSet(1..Len(results))
    BY FS_Interval
  <1>2. IsFiniteSet(S)
    BY <1>1, FS_Subset
  <1>3. Cardinality(S) \in Nat /\ (Cardinality(S) = 0 <=> S = {})
    BY <1>2, FS_CardinalityType, FS_EmptySet
  <1>4. QED
    BY <1>3 DEF Count

(* Appending a result adds one to the count of its status alone.           *)
LEMMA CountAppend ==
    ASSUME results \in Seq(StepStatus), NEW r \in StepStatus,
           results' = Append(results, r), NEW s
    PROVE  Count(s)' = IF s = r THEN Count(s) + 1 ELSE Count(s)
  <1> DEFINE S == {i \in DOMAIN results : results[i] = s}
             T == {i \in DOMAIN results' : results'[i] = s}
             n == Len(results)
  <1>1. /\ n \in Nat
        /\ DOMAIN results = 1..n
        /\ DOMAIN results' = 1..(n + 1)
        /\ \A i \in 1..n : results'[i] = results[i]
        /\ results'[n + 1] = r
    OBVIOUS
  <1>2. IsFiniteSet(S)
    <2>1. IsFiniteSet(1..n)
      BY <1>1, FS_Interval
    <2>2. S \in SUBSET (1..n)
      BY <1>1
    <2>3. QED
      BY <2>1, <2>2, FS_Subset
  <1>3. CASE s = r
    <2>1. T = S \cup {n + 1} /\ n + 1 \notin S
      BY <1>1, <1>3
    <2>2. Cardinality(T) = Cardinality(S) + 1
      BY <1>2, <2>1, FS_AddElement
    <2>3. QED
      BY <1>3, <2>2 DEF Count
  <1>4. CASE s # r
    <2>1. T = S
      BY <1>1, <1>4
    <2>2. QED
      BY <1>4, <2>1 DEF Count
  <1>5. QED
    BY <1>3, <1>4

(* Without results nothing is counted.                                     *)
LEMMA CountNone ==
    ASSUME results = <<>>, NEW s
    PROVE  Count(s) = 0
  BY CountFacts

(* Steps that leave the results alone leave the counts alone.              *)
LEMMA CountUnchanged ==
    ASSUME results' = results, NEW s
    PROVE  Count(s)' = Count(s)
  BY DEF Count

(* The parts of the invariant that look at the results alone: the same     *)
(* before and after a step that leaves results, halt and request as they   *)
(* are, while the clock may pass the deadline.                             *)
Tally ==
    /\ Len(results) <= request.steps
    /\ executed + Count("SKIPPED") = Len(results)
    /\ \A i \in DOMAIN results :
          results[i] = "SKIPPED" \/ (results[i] = "FAILED" /\ request.halt_on_error) => halted
    /\ halted => late \/ (request.halt_on_error /\ Count("FAILED") = 1)
    /\ \A i, j \in DOMAIN results :
          i < j /\ results[i] = "SKIPPED" => results[j] = "SKIPPED"
    /\ \A i, j \in DOMAIN results :
          i < j /\ results[i] = "FAILED" /\ request.halt_on_error => results[j] = "SKIPPED"
    /\ executed = Count("PASSED") + Count("FAILED")

(* The invariant is made of the types, the run's position and the tally.   *)
Position ==
    /\ BrowserFollowsRun
    /\ NothingDoneYet
    /\ pc \in {"respond", "responded"} \/ (pc = "stop" /\ error = "none")
          => Len(results) = request.steps

(* The parts give back the whole.                                          *)
LEMMA PartsSuffice == TypeOK /\ Position /\ Tally => IInv
  <1> SUFFICES ASSUME TypeOK, Position, Tally PROVE IInv
    OBVIOUS
  <1>1. Count("SKIPPED") \in Nat /\ Count("FAILED") \in Nat /\ Count("PASSED") \in Nat
    BY CountFacts DEF TypeOK
  <1>2. Count("SKIPPED") > 0 => halted
    BY <1>1, CountFacts DEF TypeOK, Tally
  <1>3. HaltedForGood
    BY <1>2 DEF HaltedForGood, Tally, Position
  <1>4. executed <= request.steps
    <2>1. Len(results) \in Nat /\ request.steps \in Nat /\ executed \in Nat
      BY MaxStepsAssumption DEF TypeOK, Requests
    <2>2. QED
      BY <1>1, <2>1 DEF Tally
  <1>5. NoStepRunsTwice
    BY <1>4 DEF NoStepRunsTwice, Tally
  <1>6. HaltIsExplained
    BY DEF HaltIsExplained, Tally, Position
  <1>7. QED
    BY <1>3, <1>5, <1>6 DEF IInv, Position

(* A run that has just begun has the invariant, whatever its request.      *)
LEMMA FreshRun == request \in Requests(Nat) /\ InitRun => IInv
  <1> SUFFICES ASSUME request \in Requests(Nat), InitRun PROVE IInv
    OBVIOUS
  <1> USE DEF InitRun
  <1>1. TypeOK
    <2>1. results \in Seq(StepStatus)
      OBVIOUS
    <2>2. QED
      BY <2>1 DEF TypeOK
  <1>2. Position
    BY DEF Position, BrowserFollowsRun, NothingDoneYet, NoBrowserLeft
  <1>3. Tally
    <2>1. request.steps \in Nat
      BY DEF Requests
    <2>2. Count("SKIPPED") = 0 /\ Count("FAILED") = 0 /\ Count("PASSED") = 0
      BY CountNone
    <2>3. QED
      BY <2>1, <2>2 DEF Tally
  <1>4. QED
    BY <1>1, <1>2, <1>3, PartsSuffice

(* Every request starts with the invariant.                                *)
LEMMA InitIInv == Init => IInv
  <1> SUFFICES ASSUME Init PROVE IInv
    OBVIOUS
  <1>1. request \in Requests(Nat)
    BY MaxStepsAssumption DEF Init, Requests
  <1>2. QED
    BY <1>1, FreshRun DEF Init

(* Steps that are not those of the loop.                                   *)
Elsewhere ==
    \/ DeadlinePasses \/ Validate \/ Invalid \/ Launch \/ LaunchRaises \/ MakePage
    \/ ApplyCredentials \/ PrepareRaises \/ EndSteps \/ StopBrowser \/ Respond \/ Raise

(* Every step keeps the types.                                             *)
LEMMA NextTypeOK == IInv /\ [Next]_vars => TypeOK'
  <1> SUFFICES ASSUME IInv, [Next]_vars PROVE TypeOK'
    OBVIOUS
  <1> USE DEF IInv, TypeOK, GoTo, Errors
  <1>1. CASE Elsewhere
    BY <1>1 DEF Elsewhere, DeadlinePasses, Validate, Invalid, Launch, LaunchRaises, MakePage,
       ApplyCredentials, PrepareRaises, EndSteps, StopBrowser, Respond, Raise
  <1>2. CASE SkipStep
    BY <1>2 DEF SkipStep, MoreSteps, StepStatus
  <1>3. CASE RunStep
    BY <1>3 DEF RunStep, MoreSteps, StepStatus
  <1>4. CASE RunAgain
    <2>1. results' \in Seq(StepStatus)
      BY <1>4 DEF RunAgain
    <2>2. runs' = 2
      BY <1>4 DEF RunAgain, Retries
    <2>3. QED
      BY <1>4, <2>1, <2>2 DEF RunAgain
  <1>5. CASE UNCHANGED vars
    BY <1>5 DEF vars
  <1>6. QED
    BY <1>1, <1>2, <1>3, <1>4, <1>5 DEF Next, Elsewhere

(* Browser and exception move with the run's position.                     *)
LEMMA NextPosition == IInv /\ [Next]_vars => Position'
  <1> SUFFICES ASSUME IInv, [Next]_vars PROVE Position'
    OBVIOUS
  <1> USE DEF IInv, TypeOK, Position, BrowserFollowsRun, NothingDoneYet, NoBrowserLeft,
              HaltIsExplained, Held, GoTo, Errors
  <1>1. CASE DeadlinePasses
    BY <1>1 DEF DeadlinePasses
  <1>2. CASE Validate \/ Invalid
    BY <1>2 DEF Validate, Invalid
  <1>3. CASE Launch \/ LaunchRaises
    BY <1>3 DEF Launch, LaunchRaises
  <1>4. CASE MakePage \/ ApplyCredentials \/ PrepareRaises
    BY <1>4 DEF MakePage, ApplyCredentials, PrepareRaises
  <1>5. CASE SkipStep \/ RunStep
    BY <1>5 DEF SkipStep, RunStep, MoreSteps
  <1>6. CASE EndSteps
    BY <1>6 DEF EndSteps
  <1>7. CASE StopBrowser
    BY <1>7 DEF StopBrowser
  <1>8. CASE Respond \/ Raise
    BY <1>8 DEF Respond, Raise
  <1>9. CASE RunAgain
    BY <1>9 DEF RunAgain
  <1>10. CASE UNCHANGED vars
    BY <1>10 DEF vars
  <1>11. QED
    BY <1>1, <1>2, <1>3, <1>4, <1>5, <1>6, <1>7, <1>8, <1>9, <1>10 DEF Next

(* One more result, by the rules of the loop: a skipped one when the run   *)
(* has halted or is late, another one when neither.                        *)
LEMMA LoopTally ==
    ASSUME IInv, NEW r \in StepStatus,
           MoreSteps, results' = Append(results, r), UNCHANGED <<request, late>>,
           \/ /\ r = "SKIPPED"
              /\ halted \/ late
              /\ halted'
              /\ executed' = executed
           \/ /\ r # "SKIPPED"
              /\ ~halted
              /\ halted' = (r = "FAILED" /\ request.halt_on_error)
              /\ executed' = executed + 1
    PROVE  Tally'
  <1> DEFINE n == Len(results)
  <1>1. /\ n \in Nat
        /\ DOMAIN results = 1..n
        /\ DOMAIN results' = 1..(n + 1)
        /\ Len(results') = n + 1
        /\ \A i \in 1..n : results'[i] = results[i]
        /\ results'[n + 1] = r
    BY DEF IInv, TypeOK
  <1>2. \A s : Count(s) \in Nat /\ Count(s)' = IF s = r THEN Count(s) + 1 ELSE Count(s)
    BY CountFacts, CountAppend DEF IInv, TypeOK
  <1>3. Len(results') <= request'.steps
    BY <1>1, MaxStepsAssumption DEF MoreSteps, IInv, TypeOK, Requests
  <1>4. executed' = Count("PASSED")' + Count("FAILED")'
    BY <1>2 DEF StepStatus, IInv, TypeOK, NoStepRunsTwice
  <1>5. executed' + Count("SKIPPED")' = Len(results')
    BY <1>1, <1>2 DEF IInv, TypeOK, HaltIsExplained
  <1>6. ~halted => /\ \A i \in 1..n : results[i] # "SKIPPED"
                   /\ request.halt_on_error => \A i \in 1..n : results[i] # "FAILED"
    BY <1>1 DEF IInv, HaltIsExplained
  <1>7. \A i \in DOMAIN results' :
           results'[i] = "SKIPPED" \/ (results'[i] = "FAILED" /\ request'.halt_on_error) => halted'
    <2>1. CASE halted'
      BY <2>1
    <2>2. CASE ~halted'
      <3>1. ~halted /\ r # "SKIPPED" /\ ~(r = "FAILED" /\ request.halt_on_error)
        BY <2>2
      <3>2. QED
        BY <1>1, <1>6, <3>1
    <2>3. QED
      BY <2>1, <2>2
  <1>8. halted' => late' \/ (request'.halt_on_error /\ Count("FAILED")' = 1)
    <2>1. CASE r = "SKIPPED"
      BY <1>2, <2>1 DEF IInv, HaltIsExplained
    <2>2. CASE r # "SKIPPED" /\ halted'
      <3>1. r = "FAILED" /\ request.halt_on_error /\ ~halted
        BY <2>2
      <3>2. Count("FAILED") = 0
        BY <1>1, <1>6, <3>1, CountFacts DEF IInv, TypeOK
      <3>3. QED
        BY <1>2, <3>1, <3>2
    <2>3. QED
      BY <2>1, <2>2
  <1>9. /\ \A i, j \in DOMAIN results' :
              i < j /\ results'[i] = "SKIPPED" => results'[j] = "SKIPPED"
        /\ \A i, j \in DOMAIN results' :
              i < j /\ results'[i] = "FAILED" /\ request'.halt_on_error => results'[j] = "SKIPPED"
    BY <1>1, <1>6 DEF IInv, HaltedForGood
  <1>10. QED
    BY <1>3, <1>4, <1>5, <1>7, <1>8, <1>9 DEF Tally

(* Every step keeps the tally: the loop adds one result, starting over     *)
(* clears it, and the rest leaves it alone.                                *)
LEMMA NextTally == IInv /\ [Next]_vars => Tally'
  <1> SUFFICES ASSUME IInv, [Next]_vars PROVE Tally'
    OBVIOUS
  <1>0. Tally
    BY DEF IInv, Tally, HaltIsExplained, HaltedForGood, NoStepRunsTwice
  <1>1. CASE SkipStep
    BY <1>1, LoopTally DEF SkipStep, StepStatus
  <1>2. CASE RunStep
    <2>1. PICK r \in {"PASSED", "FAILED"} :
             /\ results' = Append(results, r)
             /\ halted' = (r = "FAILED" /\ request.halt_on_error)
      BY <1>2 DEF RunStep
    <2>2. QED
      BY <1>2, <2>1, LoopTally DEF RunStep, StepStatus
  <1>3. CASE RunAgain
    <2>1. results = <<>> /\ results' = <<>> /\ ~halted' /\ UNCHANGED <<request, executed>>
      BY <1>3 DEF RunAgain, Retries, IInv, NothingDoneYet
    <2>2. \A s : Count(s) = 0 /\ Count(s)' = 0
      BY <2>1, CountNone, CountUnchanged
    <2>3. QED
      BY <1>0, <2>1, <2>2 DEF Tally
  <1>4. CASE Elsewhere \/ UNCHANGED vars
    <2>1. UNCHANGED <<request, results, halted, executed>> /\ (late => late')
      BY <1>4 DEF Elsewhere, vars, DeadlinePasses, Validate, Invalid, Launch, LaunchRaises,
         MakePage, ApplyCredentials, PrepareRaises, EndSteps, StopBrowser, Respond, Raise
    <2>2. \A s : Count(s)' = Count(s)
      BY <2>1, CountUnchanged
    <2>3. QED
      BY <1>0, <2>1, <2>2 DEF Tally
  <1>5. QED
    BY <1>1, <1>2, <1>3, <1>4 DEF Next, Elsewhere

(* Every step keeps the invariant.                                         *)
LEMMA NextIInv == IInv /\ [Next]_vars => IInv'
  <1>1. TypeOK /\ Position /\ Tally => IInv
    BY PartsSuffice
  <1>2. (TypeOK /\ Position /\ Tally)' => IInv'
    BY <1>1, PTL
  <1>3. QED
    BY <1>2, NextTypeOK, NextPosition, NextTally

(* The inductive invariant holds in every reachable state.                 *)
THEOREM RunnerInvariance == Spec => []IInv
  BY InitIInv, NextIInv, PTL DEF Spec

(* Types are correct for sequences of any length; the runner is called at  *)
(* most twice.                                                             *)
THEOREM RunnerTypeCorrect == Spec => []TypeOK
  <1>1. IInv => TypeOK
    BY DEF IInv
  <1>2. QED
    BY <1>1, RunnerInvariance, PTL

(* Whatever raises and wherever, no browser is left when a run has ended.  *)
THEOREM BrowserAlwaysStopped == Spec => []NoBrowserLeft
  <1>1. IInv => NoBrowserLeft
    BY DEF IInv, BrowserFollowsRun
  <1>2. QED
    BY <1>1, RunnerInvariance, PTL

(* Every step has one result, and nothing runs after a halt.               *)
THEOREM HaltIsFinal == Spec => []HaltedForGood
  <1>1. IInv => HaltedForGood
    BY DEF IInv
  <1>2. QED
    BY <1>1, RunnerInvariance, PTL

(* Calling the runner again never executes a step a second time.           *)
THEOREM StepsRunOnce == Spec => []NoStepRunsTwice
  <1>1. IInv => NoStepRunsTwice
    BY DEF IInv
  <1>2. QED
    BY <1>1, RunnerInvariance, PTL

-----------------------------------------------------------------------------
(* Sequences put together: what a sequence has, and a relation that holds  *)
(* from each of its entries to every later one.                            *)
Has(s, x) == \E p \in DOMAIN s : s[p] = x

Ordered(s, R) == \A p, q \in DOMAIN s : p < q => <<s[p], s[q]>> \in R

(* What a concatenation has, and when it is ordered.                       *)
LEMMA ConcatHas ==
    ASSUME NEW X, NEW s \in Seq(X), NEW t \in Seq(X)
    PROVE  /\ s \o t \in Seq(X)
           /\ \A x : Has(s \o t, x) <=> Has(s, x) \/ Has(t, x)
  <1>1. /\ s \o t \in Seq(X)
        /\ Len(s) \in Nat /\ Len(t) \in Nat
        /\ DOMAIN s = 1..Len(s) /\ DOMAIN t = 1..Len(t)
        /\ DOMAIN (s \o t) = 1..(Len(s) + Len(t))
        /\ \A p \in 1..(Len(s) + Len(t)) :
              (s \o t)[p] = IF p <= Len(s) THEN s[p] ELSE t[p - Len(s)]
    OBVIOUS
  <1> DEFINE u == s \o t
             m == Len(s)
             n == Len(t)
  <1> HIDE DEF u, m, n
  <1>2. ASSUME NEW x, Has(u, x) PROVE Has(s, x) \/ Has(t, x)
    <2>1. PICK p \in 1..(m + n) : u[p] = x
      BY <1>1, <1>2 DEF Has, u, m, n
    <2>2. CASE p <= m
      BY <1>1, <2>1, <2>2 DEF Has, u, m, n
    <2>3. CASE p > m
      <3>1. p - m \in 1..n /\ ~(p <= m)
        BY <1>1, <2>3 DEF m, n
      <3>2. t[p - m] = x
        BY <1>1, <2>1, <3>1 DEF u, m, n
      <3>3. QED
        BY <1>1, <3>1, <3>2 DEF Has, n
    <2>4. m \in Nat /\ p \in Nat
      BY <1>1 DEF m, n
    <2>5. QED
      BY <2>2, <2>3, <2>4
  <1>3. ASSUME NEW x, Has(s, x) PROVE Has(u, x)
    <2>1. PICK p \in 1..m : s[p] = x
      BY <1>1, <1>3 DEF Has, m
    <2>2. p \in 1..(m + n) /\ p <= m
      BY <1>1 DEF m, n
    <2>3. u[p] = x
      BY <1>1, <2>1, <2>2 DEF u, m, n
    <2>4. QED
      BY <1>1, <2>2, <2>3 DEF Has, u, m, n
  <1>4. ASSUME NEW x, Has(t, x) PROVE Has(u, x)
    <2>1. PICK p \in 1..n : t[p] = x
      BY <1>1, <1>4 DEF Has, n
    <2>2. p + m \in 1..(m + n) /\ ~(p + m <= m) /\ (p + m) - m = p
      BY <1>1 DEF m, n
    <2>3. u[p + m] = x
      BY <1>1, <2>1, <2>2 DEF u, m, n
    <2>4. QED
      BY <1>1, <2>2, <2>3 DEF Has, u, m, n
  <1>5. QED
    BY <1>1, <1>2, <1>3, <1>4 DEF u

(* Two ordered sequences are ordered together when everything in the first *)
(* goes before everything in the second.                                   *)
LEMMA ConcatOrdered ==
    ASSUME NEW X, NEW s \in Seq(X), NEW t \in Seq(X), NEW R,
           Ordered(s, R), Ordered(t, R),
           \A x, y : Has(s, x) /\ Has(t, y) => <<x, y>> \in R
    PROVE  Ordered(s \o t, R)
  <1>1. /\ Len(s) \in Nat /\ Len(t) \in Nat
        /\ DOMAIN s = 1..Len(s) /\ DOMAIN t = 1..Len(t)
        /\ DOMAIN (s \o t) = 1..(Len(s) + Len(t))
        /\ \A p \in 1..(Len(s) + Len(t)) :
              (s \o t)[p] = IF p <= Len(s) THEN s[p] ELSE t[p - Len(s)]
    OBVIOUS
  <1> DEFINE u == s \o t
             m == Len(s)
             n == Len(t)
  <1> HIDE DEF u, m, n
  <1>2. /\ \A p \in 1..m : u[p] = s[p]
        /\ \A p \in 1..(m + n) : p > m => p - m \in 1..n /\ u[p] = t[p - m]
    BY <1>1 DEF u, m, n
  <1> SUFFICES ASSUME NEW p \in 1..(m + n), NEW q \in 1..(m + n), p < q
               PROVE  <<u[p], u[q]>> \in R
    BY <1>1 DEF Ordered, u, m, n
  <1>3. m \in Nat /\ n \in Nat
    BY <1>1 DEF m, n
  <1>4. CASE q <= m
    <2>1. p \in 1..m /\ q \in 1..m
      BY <1>3, <1>4
    <2>2. QED
      BY <1>1, <1>2, <2>1 DEF Ordered, m
  <1>5. CASE p > m
    <2>1. q > m /\ p - m < q - m
      BY <1>3, <1>5
    <2>2. p - m \in 1..n /\ q - m \in 1..n /\ u[p] = t[p - m] /\ u[q] = t[q - m]
      BY <1>2, <1>5, <2>1
    <2>3. QED
      BY <1>1, <2>1, <2>2 DEF Ordered, n
  <1>6. CASE p <= m /\ q > m
    <2>1. p \in 1..m /\ q - m \in 1..n /\ u[p] = s[p] /\ u[q] = t[q - m]
      BY <1>2, <1>3, <1>6
    <2>2. Has(s, u[p]) /\ Has(t, u[q])
      BY <1>1, <2>1 DEF Has, m, n
    <2>3. QED
      BY <2>2
  <1>7. QED
    BY <1>3, <1>4, <1>5, <1>6

(* The function by which FlattenSeq is defined refers to itself: f is such *)
(* a function of the first n sequences.                                    *)
Flattens(f, seqs, n) ==
    f = [i \in 1..n |-> IF i = 1 THEN seqs[i] ELSE f[i - 1] \o seqs[i]]

(* There is one, so that FlattenSeq is what its definition says.           *)
LEMMA FlattensExists ==
    ASSUME NEW seqs, NEW N \in Nat
    PROVE  \E f : Flattens(f, seqs, N)
  <1> DEFINE S == {n \in Nat : \E f : Flattens(f, seqs, n)}
  <1>1. 0 \in S
    <2>1. Flattens(<<>>, seqs, 0)
      BY DEF Flattens
    <2>2. QED
      BY <2>1
  <1>2. ASSUME NEW n \in Nat, n \in S PROVE n + 1 \in S
    <2>1. PICK f : Flattens(f, seqs, n)
      BY <1>2
    <2> DEFINE last == IF n = 0 THEN seqs[1] ELSE f[n] \o seqs[n + 1]
               g == [i \in 1..(n + 1) |-> IF i = n + 1 THEN last ELSE f[i]]
    <2>2. \A i \in 1..(n + 1) : g[i] = IF i = 1 THEN seqs[i] ELSE g[i - 1] \o seqs[i]
      <3> SUFFICES ASSUME NEW i \in 1..(n + 1)
                   PROVE  g[i] = IF i = 1 THEN seqs[i] ELSE g[i - 1] \o seqs[i]
        OBVIOUS
      <3>1. \A j \in 1..n : f[j] = IF j = 1 THEN seqs[j] ELSE f[j - 1] \o seqs[j]
        BY <2>1 DEF Flattens
      <3>2. /\ \A j \in 1..n : g[j] = f[j]
            /\ g[n + 1] = last
        <4> HIDE DEF last
        <4>1. \A j \in 1..n : j \in 1..(n + 1) /\ j # n + 1
          OBVIOUS
        <4>2. n + 1 \in 1..(n + 1)
          OBVIOUS
        <4>3. QED
          BY <4>1, <4>2
      <3> HIDE DEF g
      <3>3. CASE i \in 1..n
        <4>1. g[i] = f[i]
          BY <3>2, <3>3
        <4>2. i # 1 => i - 1 \in 1..n
          BY <3>3
        <4>3. QED
          BY <3>1, <3>2, <3>3, <4>1, <4>2
      <3>4. CASE i = n + 1
        <4>1. i # 1 => n # 0 /\ i - 1 \in 1..n /\ i - 1 = n
          BY <3>4
        <4>2. i = 1 => n = 0
          BY <3>4
        <4>3. QED
          BY <3>2, <3>4, <4>1, <4>2
      <3>5. QED
        BY <3>3, <3>4
    <2>3. Flattens(g, seqs, n + 1)
      <3> HIDE DEF last
      <3>1. g = [i \in 1..(n + 1) |-> g[i]]
        OBVIOUS
      <3> HIDE DEF g
      <3>2. QED
        BY <2>2, <3>1 DEF Flattens
    <2> HIDE DEF g
    <2>4. QED
      BY <2>3
  <1> HIDE DEF S
  <1>3. Nat \subseteq S
    BY <1>1, <1>2, NatSetInduction
  <1>4. QED
    BY <1>3 DEF S

(* FlattenSeq has what the sequences in it have, and is ordered when each  *)
(* of them is and their entries go before those of the later ones.         *)
LEMMA FlattenSeqIs ==
    ASSUME NEW X, NEW seqs \in Seq(Seq(X)), NEW R,
           \A i \in DOMAIN seqs : Ordered(seqs[i], R),
           \A i, j \in DOMAIN seqs :
              i < j => \A x, y : Has(seqs[i], x) /\ Has(seqs[j], y) => <<x, y>> \in R
    PROVE  LET s == Shot!FlattenSeq(seqs)
           IN  /\ s \in Seq(X)
               /\ Ordered(s, R)
               /\ \A x : Has(s, x) <=> \E i \in DOMAIN seqs : Has(seqs[i], x)
  <1> DEFINE N == Len(seqs)
             f == CHOOSE g : Flattens(g, seqs, N)
  <1>1. N \in Nat /\ DOMAIN seqs = 1..N /\ \A i \in 1..N : seqs[i] \in Seq(X)
    OBVIOUS
  <1> HIDE DEF N
  <1>2. Flattens(f, seqs, N)
    BY <1>1, FlattensExists
  <1>3. CASE N = 0
    <2>1. Shot!FlattenSeq(seqs) = seqs /\ seqs = <<>>
      BY <1>3 DEF Shot!FlattenSeq, N
    <2>2. QED
      BY <1>1, <1>3, <2>1 DEF Ordered, Has
  <1>4. CASE N # 0
    <2>1. Shot!FlattenSeq(seqs) = f[N]
      BY <1>4 DEF Shot!FlattenSeq, N, Flattens
    <2> HIDE DEF f
    <2>2. \A i \in 1..N : f[i] = IF i = 1 THEN seqs[i] ELSE f[i - 1] \o seqs[i]
      BY <1>2 DEF Flattens
    <2> DEFINE Good(n) ==
                  /\ f[n] \in Seq(X)
                  /\ Ordered(f[n], R)
                  /\ \A x : Has(f[n], x) <=> \E i \in 1..n : Has(seqs[i], x)
               S == {n \in Nat : n \in 1..N => Good(n)}
    <2>3. 0 \in S
      <3> HIDE DEF Good
      <3>1. 0 \notin 1..N
        BY <1>1
      <3>2. QED
        BY <3>1
    <2>4. ASSUME NEW n \in Nat, n \in 1..N => Good(n), n + 1 \in 1..N PROVE Good(n + 1)
      <3>1. CASE n = 0
        <4>1. f[1] = seqs[1] /\ 1 \in 1..N
          BY <2>2, <2>4, <3>1
        <4>2. \A x : Has(f[1], x) <=> \E i \in 1..1 : Has(seqs[i], x)
          BY <4>1
        <4>3. Good(1)
          BY <1>1, <4>1, <4>2
        <4> HIDE DEF Good
        <4>4. QED
          BY <3>1, <4>3
      <3>2. CASE n # 0
        <4>1. n \in 1..N /\ Good(n)
          BY <1>1, <2>4, <3>2
        <4>2. f[n + 1] = f[n] \o seqs[n + 1] /\ seqs[n + 1] \in Seq(X)
          <5>1. (n + 1) - 1 = n /\ n + 1 # 1
            BY <3>2
          <5>2. QED
            BY <1>1, <2>2, <2>4, <5>1
        <4>3. \A x : Has(f[n], x) <=> \E i \in 1..n : Has(seqs[i], x)
          BY <4>1
        <4>4. \A x, y : Has(f[n], x) /\ Has(seqs[n + 1], y) => <<x, y>> \in R
          <5> SUFFICES ASSUME NEW x, NEW y, Has(f[n], x), Has(seqs[n + 1], y)
                       PROVE  <<x, y>> \in R
            OBVIOUS
          <5>1. PICK i \in 1..n : Has(seqs[i], x)
            BY <4>3
          <5>2. i \in DOMAIN seqs /\ n + 1 \in DOMAIN seqs /\ i < n + 1
            BY <1>1, <2>4, <4>1
          <5>3. QED
            BY <5>1, <5>2
        <4>5. Ordered(f[n + 1], R)
          <5>1. Ordered(seqs[n + 1], R)
            BY <1>1, <2>4
          <5>2. f[n] \in Seq(X) /\ Ordered(f[n], R)
            BY <4>1
          <5> HIDE DEF Good
          <5>3. QED
            BY <4>2, <4>4, <5>1, <5>2, ConcatOrdered
        <4>6. f[n + 1] \in Seq(X) /\ \A x : Has(f[n + 1], x) <=> Has(f[n], x) \/ Has(seqs[n + 1], x)
          <5>1. f[n] \in Seq(X)
            BY <4>1
          <5> HIDE DEF Good
          <5>2. QED
            BY <4>2, <5>1, ConcatHas
        <4>7. \A i : i \in 1..(n + 1) <=> i \in 1..n \/ i = n + 1
          OBVIOUS
        <4>8. \A x : Has(f[n + 1], x) <=> \E i \in 1..(n + 1) : Has(seqs[i], x)
          BY <4>3, <4>6, <4>7
        <4>9. QED
          BY <4>5, <4>6, <4>8
      <3>3. QED
        BY <3>1, <3>2
    <2>5. \A n \in Nat : n \in S => n + 1 \in S
      <3> HIDE DEF Good
      <3>1. QED
        BY <2>4
    <2> HIDE DEF S
    <2>6. Nat \subseteq S
      BY <2>3, <2>5, NatSetInduction
    <2>7. N \in 1..N
      BY <1>1, <1>4
    <2>8. Good(N)
      <3> HIDE DEF Good
      <3>1. QED
        BY <2>6, <2>7, <1>1 DEF S
    <2>9. QED
      BY <1>1, <2>1, <2>8
  <1>5. QED
    BY <1>3, <1>4

-----------------------------------------------------------------------------
(* The sequence of an endpoint.                                            *)

(* The steps that leave a capture, and what an entry of a sequence is.     *)
Captured == {"png", "html"}

Entry == [does : {"navigate", "act", "url"} \cup Captured, shot : Nat]

(* A capture is the last step of its shot.                                 *)
Earlier ==
    {e \in Entry \X Entry :
        \/ e[1].shot < e[2].shot
        \/ e[1].shot = e[2].shot /\ e[1].does \notin Captured}

(* The capture that the i-th shot asks for, and whether the call takes it: *)
(* after the shot, or as the content of a one-shot call.                   *)
Kind(i) == IF call.shots[i].html THEN "html" ELSE "png"

Wants(i) == Shot!Captures(i) \/ (call.endpoint = "oneShot" /\ call.shots[i].html)

(* The call of an endpoint, and the item of it that is being run.          *)
ShotCallOK == call \in Shot!Calls /\ item \in DOMAIN call.shots

(* A call has at least one shot, a one-shot call just one.                 *)
LEMMA CallFacts ==
    ASSUME call \in Shot!Calls
    PROVE  /\ call.endpoint \in {"items", "steps", "oneShot"}
           /\ call.every \in BOOLEAN
           /\ call.shots \in Seq(Shot!Shots)
           /\ Len(call.shots) \in Nat
           /\ Len(call.shots) >= 1
           /\ DOMAIN call.shots = 1..Len(call.shots)
           /\ call.endpoint = "oneShot" => Len(call.shots) = 1
           /\ \A i \in DOMAIN call.shots :
                 /\ call.shots[i].navigates \in BOOLEAN
                 /\ call.shots[i].html \in BOOLEAN
                 /\ call.shots[i].acts \in Nat
  <1> DEFINE lists == UNION {[1..n -> Shot!Shots] : n \in 1..MaxShots}
  <1>1. /\ call.endpoint \in {"items", "steps", "oneShot"}
        /\ call.every \in BOOLEAN
        /\ \/ call.shots \in lists
           \/ \E s \in Shot!Shots : call.shots = <<s>>
        /\ call.endpoint = "oneShot" => \E s \in Shot!Shots : call.shots = <<s>>
    <2> HIDE DEF lists
    <2>1. QED
      BY DEF Shot!Calls, lists
  <1>2. /\ call.shots \in Seq(Shot!Shots)
        /\ Len(call.shots) >= 1
    <2>1. CASE call.shots \in lists
      <3>1. PICK n \in 1..MaxShots : call.shots \in [1..n -> Shot!Shots]
        BY <2>1
      <3>2. n \in Nat /\ n >= 1
        BY BoundsAssumption
      <3>3. call.shots \in Seq(Shot!Shots) /\ Len(call.shots) = n
        BY <3>1, <3>2
      <3>4. QED
        BY <3>2, <3>3
    <2>2. CASE \E s \in Shot!Shots : call.shots = <<s>>
      <3>1. PICK s \in Shot!Shots : call.shots = <<s>>
        BY <2>2
      <3>2. <<s>> \in Seq(Shot!Shots) /\ Len(<<s>>) = 1
        OBVIOUS
      <3>3. QED
        BY <3>1, <3>2
    <2>3. QED
      BY <1>1, <2>1, <2>2
  <1>3. call.endpoint = "oneShot" => Len(call.shots) = 1
    <2> HIDE DEF lists
    <2>1. \A s : Len(<<s>>) = 1
      OBVIOUS
    <2>2. QED
      BY <1>1, <2>1
  <1>4. \A x \in Shot!Shots : x.navigates \in BOOLEAN /\ x.html \in BOOLEAN /\ x.acts \in Nat
    BY BoundsAssumption DEF Shot!Shots
  <1> HIDE DEF lists
  <1>5. QED
    BY <1>1, <1>2, <1>3, <1>4

(* The steps of one shot.                                                  *)
LEMMA ShotStepsFacts ==
    ASSUME call \in Shot!Calls, NEW i \in DOMAIN call.shots
    PROVE  LET s == Shot!ShotSteps(i)
           IN  /\ s \in Seq(Entry)
               /\ Ordered(s, Earlier)
               /\ \A x : Has(s, x) => /\ x \in Entry
                                      /\ x.shot = i
                                      /\ x.does \in Captured => Wants(i) /\ x.does = Kind(i)
               /\ Wants(i) => Has(s, [does |-> Kind(i), shot |-> i])
               /\ call.endpoint = "oneShot" => Has(s, [does |-> "url", shot |-> i])
  <1> DEFINE nav == Shot!Navigate(i)
             acts == Shot!Acts(i)
             cap == Shot!Capture(i)
             url == Shot!GetUrl(i)
             entry(d) == [does |-> d, shot |-> i]
  <1>1. /\ i \in Nat
        /\ call.shots[i].navigates \in BOOLEAN /\ call.shots[i].html \in BOOLEAN
        /\ call.shots[i].acts \in Nat
        /\ call.endpoint \in {"items", "steps", "oneShot"}
    BY CallFacts
  <1>2. \A d \in {"navigate", "act", "url", "png", "html"} :
           entry(d) \in Entry /\ entry(d).does = d /\ entry(d).shot = i
    BY <1>1 DEF Entry, Captured
  <1>3. \A d, e \in {"navigate", "act", "url", "png", "html"} :
           d \notin Captured => <<entry(d), entry(e)>> \in Earlier
    BY <1>1, <1>2 DEF Earlier
  <1>4. /\ nav \in Seq(Entry)
        /\ Ordered(nav, Earlier)
        /\ \A x : Has(nav, x) => x = entry("navigate")
    BY <1>1, <1>2 DEF Shot!Navigate, Shot!Step, Ordered, Has
  <1>5. /\ acts \in Seq(Entry)
        /\ Ordered(acts, Earlier)
        /\ \A x : Has(acts, x) => x = entry("act")
    <2>1. acts = [n \in 1..call.shots[i].acts |-> entry("act")]
      BY DEF Shot!Acts
    <2>2. acts \in Seq(Entry)
      <3>1. entry("act") \in Entry
        BY <1>2
      <3>2. acts \in [1..call.shots[i].acts -> Entry]
        BY <2>1, <3>1
      <3> HIDE DEF acts
      <3>3. QED
        BY <1>1, <3>2
    <2>3. \A x : Has(acts, x) => x = entry("act")
      BY <2>1 DEF Has
    <2>4. \A n \in DOMAIN acts : acts[n] = entry("act")
      BY <2>1
    <2>5. <<entry("act"), entry("act")>> \in Earlier
      BY <1>3 DEF Captured
    <2> HIDE DEF acts, entry
    <2>6. QED
      BY <2>2, <2>3, <2>4, <2>5 DEF Ordered
  <1>6. /\ cap = IF Shot!Captures(i) THEN <<entry(Kind(i))>> ELSE <<>>
        /\ url = IF call.endpoint = "oneShot"
                 THEN <<entry("url")>> \o (IF call.shots[i].html THEN <<entry("html")>> ELSE <<>>)
                 ELSE <<>>
        /\ Shot!Captures(i) => call.endpoint # "oneShot"
    BY <1>1 DEF Shot!Capture, Shot!GetUrl, Shot!Step, Shot!Captures, Kind
  <1>7. Kind(i) \in {"png", "html"}
    BY DEF Kind
  <1>8. /\ cap \in Seq(Entry)
        /\ Ordered(cap, Earlier)
        /\ \A x : Has(cap, x) <=> Shot!Captures(i) /\ x = entry(Kind(i))
    BY <1>2, <1>6, <1>7 DEF Ordered, Has
  <1>9. /\ url \in Seq(Entry)
        /\ Ordered(url, Earlier)
        /\ \A x : Has(url, x) <=> /\ call.endpoint = "oneShot"
                                  /\ x = entry("url") \/ (call.shots[i].html /\ x = entry("html"))
    <2> DEFINE one == <<entry("url")>>
               two == IF call.shots[i].html THEN <<entry("html")>> ELSE <<>>
    <2>1. /\ one \in Seq(Entry) /\ two \in Seq(Entry)
          /\ Ordered(one, Earlier) /\ Ordered(two, Earlier)
          /\ \A x : Has(one, x) <=> x = entry("url")
          /\ \A x : Has(two, x) <=> call.shots[i].html /\ x = entry("html")
      BY <1>1, <1>2 DEF Ordered, Has
    <2>2. <<entry("url"), entry("html")>> \in Earlier
      BY <1>3 DEF Captured
    <2>3. url = IF call.endpoint = "oneShot" THEN one \o two ELSE <<>>
      BY <1>6
    <2> HIDE DEF one, two, url, entry
    <2>4. CASE call.endpoint = "oneShot"
      <3>1. \A x, y : Has(one, x) /\ Has(two, y) => <<x, y>> \in Earlier
        BY <2>1, <2>2
      <3>2. Ordered(one \o two, Earlier)
        BY <2>1, <3>1, ConcatOrdered
      <3>3. one \o two \in Seq(Entry) /\ \A x : Has(one \o two, x) <=> Has(one, x) \/ Has(two, x)
        BY <2>1, ConcatHas
      <3>4. QED
        BY <2>1, <2>3, <2>4, <3>2, <3>3
    <2>5. CASE call.endpoint # "oneShot"
      <3>1. url = <<>>
        BY <2>3, <2>5
      <3>2. url \in Seq(Entry) /\ Ordered(url, Earlier) /\ \A x : ~Has(url, x)
        BY <3>1 DEF Ordered, Has
      <3>3. QED
        BY <2>5, <3>2
    <2>6. QED
      BY <2>4, <2>5
  <1>10. Shot!ShotSteps(i) = ((nav \o acts) \o cap) \o url
    BY DEF Shot!ShotSteps
  <1> HIDE DEF nav, acts, cap, url
  <1> DEFINE u == nav \o acts
             v == u \o cap
             s == v \o url
  <1>11. /\ <<entry("navigate"), entry("act")>> \in Earlier
         /\ <<entry("navigate"), entry(Kind(i))>> \in Earlier
         /\ <<entry("act"), entry(Kind(i))>> \in Earlier
         /\ <<entry("navigate"), entry("url")>> \in Earlier
         /\ <<entry("act"), entry("url")>> \in Earlier
         /\ <<entry("navigate"), entry("html")>> \in Earlier
         /\ <<entry("act"), entry("html")>> \in Earlier
    BY <1>3, <1>7 DEF Captured
  <1>12. /\ u \in Seq(Entry)
         /\ Ordered(u, Earlier)
         /\ \A x : Has(u, x) => x = entry("navigate") \/ x = entry("act")
    <2> HIDE DEF entry
    <2>1. \A x : Has(u, x) <=> Has(nav, x) \/ Has(acts, x)
      BY <1>4, <1>5, ConcatHas
    <2>2. u \in Seq(Entry)
      BY <1>4, <1>5, ConcatHas
    <2>3. \A x, y : Has(nav, x) /\ Has(acts, y) => <<x, y>> \in Earlier
      BY <1>4, <1>5, <1>11
    <2>4. Ordered(u, Earlier)
      BY <1>4, <1>5, <2>3, ConcatOrdered
    <2> HIDE DEF u
    <2>5. QED
      BY <1>4, <1>5, <2>1, <2>2, <2>4
  <1> HIDE DEF u
  <1>13. /\ v \in Seq(Entry)
         /\ Ordered(v, Earlier)
         /\ \A x : Has(v, x) <=> Has(u, x) \/ (Shot!Captures(i) /\ x = entry(Kind(i)))
    <2> HIDE DEF entry
    <2>1. \A x : Has(v, x) <=> Has(u, x) \/ Has(cap, x)
      BY <1>8, <1>12, ConcatHas
    <2>2. v \in Seq(Entry)
      BY <1>8, <1>12, ConcatHas
    <2>3. \A x, y : Has(u, x) /\ Has(cap, y) => <<x, y>> \in Earlier
      BY <1>8, <1>11, <1>12
    <2>4. Ordered(v, Earlier)
      BY <1>8, <1>12, <2>3, ConcatOrdered
    <2> HIDE DEF v
    <2>5. QED
      BY <1>8, <2>1, <2>2, <2>4
  <1> HIDE DEF v
  <1>14. /\ s \in Seq(Entry)
         /\ Ordered(s, Earlier)
         /\ \A x : Has(s, x) <=> Has(v, x) \/ Has(url, x)
    <2> HIDE DEF entry
    <2>1. \A x : Has(s, x) <=> Has(v, x) \/ Has(url, x)
      BY <1>9, <1>13, ConcatHas
    <2>2. s \in Seq(Entry)
      BY <1>9, <1>13, ConcatHas
    <2>3. \A x, y : Has(v, x) /\ Has(url, y) => <<x, y>> \in Earlier
      BY <1>6, <1>9, <1>11, <1>12, <1>13
    <2>4. Ordered(s, Earlier)
      BY <1>9, <1>13, <2>3, ConcatOrdered
    <2> HIDE DEF s
    <2>5. QED
      BY <2>1, <2>2, <2>4
  <1>15. Shot!ShotSteps(i) = s
    BY <1>10 DEF u, v
  <1> HIDE DEF s
  <1>16. ASSUME NEW x, Has(s, x)
         PROVE  /\ x \in Entry
                /\ x.shot = i
                /\ x.does \in Captured => Wants(i) /\ x.does = Kind(i)
    <2>1. \/ x = entry("navigate") \/ x = entry("act")
          \/ Shot!Captures(i) /\ x = entry(Kind(i))
          \/ call.endpoint = "oneShot" /\ x = entry("url")
          \/ call.endpoint = "oneShot" /\ call.shots[i].html /\ x = entry("html")
      <3> HIDE DEF entry
      <3>1. QED
        BY <1>9, <1>12, <1>13, <1>14, <1>16
    <2>2. QED
      BY <1>1, <1>2, <1>7, <2>1 DEF Captured, Wants, Kind
  <1>17. Wants(i) => Has(s, entry(Kind(i)))
    BY <1>9, <1>13, <1>14 DEF Wants, Kind
  <1>18. call.endpoint = "oneShot" => Has(s, entry("url"))
    BY <1>9, <1>14
  <1>19. QED
    BY <1>14, <1>15, <1>16, <1>17, <1>18

(* The whole sequence: the steps of each shot that is run, in the order of *)
(* the shots.                                                              *)
StepsOK ==
    LET steps == Shot!Steps
    IN  /\ steps \in Seq(Entry)
        /\ Ordered(steps, Earlier)
        /\ \A x : Has(steps, x) =>
              /\ x.shot \in Shot!Current
              /\ x.does \in Captured => Wants(x.shot) /\ x.does = Kind(x.shot)
        /\ \A i \in Shot!Current : Wants(i) => Has(steps, [does |-> Kind(i), shot |-> i])
        /\ call.endpoint = "oneShot" => Has(steps, [does |-> "url", shot |-> 1])

(* What any call asks the runner for is such a sequence.                   *)
LEMMA StepsFacts == ShotCallOK => StepsOK
  <1> SUFFICES ASSUME ShotCallOK PROVE StepsOK
    OBVIOUS
  <1> DEFINE D == DOMAIN call.shots
             seqs == [i \in D |-> IF i \in Shot!Current THEN Shot!ShotSteps(i) ELSE <<>>]
             steps == Shot!FlattenSeq(seqs)
  <1>1. /\ call \in Shot!Calls /\ D = 1..Len(call.shots) /\ Len(call.shots) \in Nat
        /\ Shot!Current \subseteq D
        /\ call.endpoint = "oneShot" => 1 \in Shot!Current
    BY CallFacts DEF ShotCallOK, Shot!Current
  <1>2. ASSUME NEW i \in D
        PROVE  /\ seqs[i] \in Seq(Entry)
               /\ Ordered(seqs[i], Earlier)
               /\ \A x : Has(seqs[i], x) =>
                     /\ x \in Entry /\ x.shot = i /\ i \in Shot!Current
                     /\ x.does \in Captured => Wants(i) /\ x.does = Kind(i)
    <2>1. CASE i \in Shot!Current
      <3>1. seqs[i] = Shot!ShotSteps(i)
        BY <2>1
      <3> HIDE DEF seqs
      <3>2. QED
        BY <1>1, <2>1, <3>1, ShotStepsFacts
    <2>2. CASE i \notin Shot!Current
      <3>1. seqs[i] = <<>>
        BY <2>2
      <3> HIDE DEF seqs
      <3>2. QED
        BY <3>1 DEF Ordered, Has
    <2>3. QED
      BY <2>1, <2>2
  <1>3. ASSUME NEW i \in D, i \in Shot!Current
        PROVE  /\ Wants(i) => Has(seqs[i], [does |-> Kind(i), shot |-> i])
               /\ call.endpoint = "oneShot" => Has(seqs[i], [does |-> "url", shot |-> i])
    <2>1. seqs[i] = Shot!ShotSteps(i)
      BY <1>3
    <2> HIDE DEF seqs
    <2>2. QED
      BY <1>1, <2>1, ShotStepsFacts
  <1>4. DOMAIN seqs = D
    OBVIOUS
  <1>5. seqs \in Seq(Seq(Entry))
    <2>1. seqs \in [1..Len(call.shots) -> Seq(Entry)]
      BY <1>1, <1>2
    <2> HIDE DEF seqs, D
    <2>2. QED
      BY <1>1, <2>1
  <1> HIDE DEF seqs, D
  <1>6. \A i, j \in D :
           i < j => \A x, y : Has(seqs[i], x) /\ Has(seqs[j], y) => <<x, y>> \in Earlier
    BY <1>2 DEF Earlier
  <1>7. /\ steps \in Seq(Entry)
        /\ Ordered(steps, Earlier)
        /\ \A x : Has(steps, x) <=> \E i \in D : Has(seqs[i], x)
    BY <1>2, <1>4, <1>5, <1>6, FlattenSeqIs
  <1>8. Shot!Steps = steps
    BY DEF Shot!Steps, seqs, D
  <1> HIDE DEF steps
  <1>9. \A i \in Shot!Current : Wants(i) => Has(steps, [does |-> Kind(i), shot |-> i])
    BY <1>1, <1>3, <1>7
  <1>10. call.endpoint = "oneShot" => Has(steps, [does |-> "url", shot |-> 1])
    BY <1>1, <1>3, <1>7
  <1>11. \A x : Has(steps, x) =>
              /\ x.shot \in Shot!Current
              /\ x.does \in Captured => Wants(x.shot) /\ x.does = Kind(x.shot)
    BY <1>2, <1>7
  <1>12. QED
    BY <1>7, <1>8, <1>9, <1>10, <1>11 DEF StepsOK

-----------------------------------------------------------------------------
(* Pairing by index. Of N positions, each of a kind, some have passed:     *)
(* those up to a point, without gaps.                                      *)
WithoutGaps(passed, N) ==
    \A p \in 1..N, q \in 1..N : q < p /\ p \in passed => q \in passed

(* The positions of the kinds K; those of one kind that have passed; a map *)
(* that lists the kinds of the positions C in order, as ResultMap does.    *)
OfKinds(N, kind, K) == {p \in 1..N : kind[p] \in K}

PassedOfKind(N, kind, d, passed) == {p \in 1..N : kind[p] = d /\ p \in passed}

Lists(map, kind, C) == \A j \in 1..Cardinality(C) : map[j] = kind[InOrder(C)[j]]

(* The k-th of the positions has an index among those of its own kind, and *)
(* is what that index finds among the passed ones of the kind, just when   *)
(* it has passed itself.                                                   *)
LEMMA PairedByIndex ==
    ASSUME NEW N \in Nat, NEW kind, NEW K, NEW passed, WithoutGaps(passed, N),
           NEW C, C = OfKinds(N, kind, K),
           NEW map, Lists(map, kind, C),
           NEW k \in 1..Cardinality(C),
           NEW F, F = PassedOfKind(N, kind, map[k], passed)
    PROVE  LET c == InOrder(C)[k]
               n == Shot!IndexAmongKind(map, k)
           IN  /\ c \in C
               /\ n \in Nat \ {0}
               /\ n <= Cardinality(F) <=> c \in passed
               /\ c \in passed => InOrder(F)[n] = c
  <1> DEFINE m == Cardinality(C)
             cap == InOrder(C)
             c == cap[k]
             J == {j \in 1..k : map[j] = map[k]}
             P == {p \in 1..N : kind[p] = map[k]}
             U == UpTo(P, c)
             n == Cardinality(J)
  <1> USE DEF WithoutGaps, OfKinds, PassedOfKind
  <1>1. /\ Enumerates(cap, m, C) /\ m \in Nat /\ m \in 0..N
    <2>1. \A p \in C : p \in 1..N
      OBVIOUS
    <2>2. QED
      BY <2>1, InOrderEnumerates
  <1> HIDE DEF J, P, U, n, m, cap
  <1>2. /\ \A j \in 1..m : /\ cap[j] \in 1..N /\ cap[j] \in Nat /\ cap[j] \in C
                           /\ map[j] = kind[cap[j]]
        /\ \A i, j \in 1..m : i < j => cap[i] < cap[j]
        /\ \A p \in C : \E j \in 1..m : cap[j] = p
    <2>1. \A p \in C : p \in 1..N /\ p \in Nat
      OBVIOUS
    <2>2. \A j \in 1..m : map[j] = kind[cap[j]]
      BY DEF m, cap, Lists
    <2>3. \A j \in 1..m : cap[j] \in C
      BY <1>1 DEF Enumerates
    <2>4. QED
      BY <1>1, <2>1, <2>2, <2>3 DEF Enumerates
  <1>3. k \in Nat /\ k \in 1..m /\ k >= 1 /\ c \in 1..N /\ c \in Nat /\ c \in C /\ c \in P
    <2>1. k \in 1..m
      BY DEF m
    <2>2. k \in Nat /\ k >= 1
      BY <1>1, <2>1
    <2>3. c \in 1..N /\ c \in Nat /\ c \in C /\ kind[c] = map[k]
      BY <1>2, <2>1
    <2> HIDE DEF c
    <2>4. QED
      BY <2>1, <2>2, <2>3 DEF P
  <1>4. \A j \in 1..m : cap[j] <= c <=> j <= k
    <2> SUFFICES ASSUME NEW j \in 1..m PROVE cap[j] <= c <=> j <= k
      OBVIOUS
    <2>1. (j < k => cap[j] < c) /\ (k < j => c < cap[j])
      BY <1>2, <1>3
    <2>2. cap[j] \in Nat /\ c \in Nat
      BY <1>2, <1>3
    <2>3. j < k \/ j = k \/ k < j
      BY <1>3
    <2>4. QED
      BY <1>3, <2>1, <2>2, <2>3
  <1>5. IsFiniteSet(J) /\ n \in Nat /\ n # 0
    <2>1. IsFiniteSet(1..k)
      <3>1. k \in Int /\ 1 \in Int
        BY <1>3
      <3>2. QED
        BY <3>1, FS_Interval
    <2>2. J \subseteq 1..k /\ k \in J
      BY <1>3 DEF J
    <2>3. IsFiniteSet(J)
      BY <2>1, <2>2, FS_Subset
    <2>4. QED
      BY <2>2, <2>3, FS_EmptySet, FS_CardinalityType DEF n
  <1>6. IsFiniteSet(U) /\ Cardinality(U) = n
    <2> DEFINE g == [j \in J |-> cap[j]]
    <2>1. \A j \in J : j \in 1..m /\ j \in Nat /\ j <= k /\ map[j] = map[k]
      BY <1>1, <1>3 DEF J
    <2>2. g \in [J -> U]
      <3>1. \A j \in J : cap[j] \in 1..N /\ kind[cap[j]] = map[k] /\ cap[j] <= c
        BY <1>2, <1>4, <2>1
      <3> HIDE DEF c
      <3>2. QED
        BY <3>1 DEF UpTo, U, P
    <2>3. \A i, j \in J : cap[i] = cap[j] => i = j
      <3> SUFFICES ASSUME NEW i \in J, NEW j \in J, cap[i] = cap[j] PROVE i = j
        OBVIOUS
      <3>1. i \in 1..m /\ j \in 1..m /\ cap[i] \in Nat
        BY <1>2, <2>1
      <3>2. ~(i < j) /\ ~(j < i)
        BY <1>2, <3>1
      <3>3. QED
        BY <3>1, <3>2
    <2>4. \A p \in U : \E j \in J : cap[j] = p
      <3> SUFFICES ASSUME NEW p \in U PROVE \E j \in J : cap[j] = p
        OBVIOUS
      <3>1. p \in 1..N /\ kind[p] = map[k] /\ p <= c
        BY DEF UpTo, U, P
      <3>2. map[k] \in K
        BY <1>2, <1>3
      <3>3. PICK j \in 1..m : cap[j] = p
        BY <1>2, <3>1, <3>2
      <3>4. j <= k
        BY <1>4, <3>1, <3>3
      <3>5. j \in J
        <4>1. map[j] = map[k]
          BY <1>2, <3>1, <3>3
        <4>2. j \in 1..k
          BY <1>1, <1>3, <3>4
        <4>3. QED
          BY <4>1, <4>2 DEF J
      <3>6. QED
        BY <3>3, <3>5
    <2>5. g \in Bijection(J, U)
      BY <2>2, <2>3, <2>4 DEF Bijection, Injection, Surjection, IsInjective
    <2>6. ExistsBijection(J, U)
      BY <2>5 DEF ExistsBijection
    <2>7. QED
      BY <1>5, <2>6, FS_Bijection DEF n
  <1>7. /\ \A p \in F : p \in 1..N
        /\ Cardinality(F) \in Nat
        /\ Enumerates(InOrder(F), Cardinality(F), F)
    <2>1. \A p \in F : p \in 1..N
      OBVIOUS
    <2>2. QED
      BY <2>1, InOrderEnumerates
  <1>8. Shot!IndexAmongKind(map, k) = n
    BY SameInOrder DEF Shot!IndexAmongKind, n, J
  <1>9. CASE c \in passed
    <2>1. c \in F
      BY <1>3, <1>9 DEF P
    <2>2. UpTo(F, c) = U
      <3>1. \A p \in P : p <= c => p \in F
        BY <1>3, <1>9 DEF P
      <3>2. \A p \in F : p \in P
        BY DEF P
      <3> HIDE DEF c
      <3>3. QED
        BY <3>1, <3>2 DEF UpTo, U
    <2>3. Cardinality(UpTo(F, c)) \in 1..Cardinality(F) /\ InOrder(F)[Cardinality(UpTo(F, c))] = c
      <3> HIDE DEF c
      <3>1. QED
        BY <1>7, <2>1, RankInOrder
    <2> HIDE DEF c
    <2>4. n <= Cardinality(F) /\ InOrder(F)[n] = c
      BY <1>6, <1>7, <2>2, <2>3
    <2>5. QED
      BY <1>3, <1>5, <1>8, <1>9, <2>4 DEF c, cap
  <1>10. CASE c \notin passed
    <2>1. c \in U /\ c \notin F
      BY <1>3, <1>10 DEF UpTo, U
    <2>2. \A p \in F : p \in U
      <3> SUFFICES ASSUME NEW p \in F PROVE p \in U
        OBVIOUS
      <3>1. p \in P /\ p \in passed /\ p \in 1..N
        BY DEF P
      <3>2. ~(c < p)
        BY <1>3, <1>10, <3>1
      <3>3. p <= c
        BY <1>3, <3>1, <3>2
      <3>4. QED
        BY <3>1, <3>3 DEF UpTo, U
    <2> HIDE DEF c
    <2>3. F \in SUBSET U /\ F # U
      BY <2>1, <2>2
    <2>4. Cardinality(F) <= n /\ Cardinality(F) # n
      BY <1>6, <2>3, FS_Subset
    <2>5. ~(n <= Cardinality(F))
      BY <1>5, <1>7, <2>4
    <2>6. QED
      BY <1>3, <1>5, <1>10, <1>8, <2>5 DEF c, cap
  <1>11. QED
    BY <1>9, <1>10

-----------------------------------------------------------------------------
(* The reply.                                                              *)

(* The steps that have passed.                                             *)
PassedSteps == {p \in DOMAIN Shot!Steps : results[p] = "PASSED"}

(* The steps that leave a capture.                                         *)
CaptureSteps == {p \in DOMAIN Shot!Steps : Shot!Steps[p].does \in Captured}

(* A sequence that has run without a failure: its steps have passed up to  *)
(* where the deadline cut it.                                              *)
Finished ==
    /\ results \in Seq(StepStatus)
    /\ Len(results) = Len(Shot!Steps)
    /\ \A p, q \in DOMAIN Shot!Steps : q < p /\ p \in PassedSteps => q \in PassedSteps
    /\ ~late => PassedSteps = DOMAIN Shot!Steps

(* What can be found of a kind.                                            *)
LEMMA FoundIs ==
    ASSUME StepsOK, Finished, NEW d
    PROVE  LET F == {p \in DOMAIN Shot!Steps : Shot!Steps[p].does = d /\ p \in PassedSteps}
           IN  /\ Shot!Found(d) = InOrder(F)
               /\ Enumerates(InOrder(F), Cardinality(F), F)
               /\ Cardinality(F) \in Nat
               /\ Len(Shot!Found(d)) = Cardinality(F)
  <1> DEFINE steps == Shot!Steps
             N == Len(steps)
             F == {p \in DOMAIN steps : steps[p].does = d /\ p \in PassedSteps}
  <1>1. DOMAIN results = 1..N /\ DOMAIN steps = 1..N /\ N \in Nat
    BY DEF StepsOK, Finished
  <1>2. Shot!Found(d) = Shot!InOrder({p \in DOMAIN results : steps[p].does = d /\ Shot!Passed(p)})
    BY DEF Shot!Found
  <1>3. {p \in DOMAIN results : steps[p].does = d /\ Shot!Passed(p)} = F
    BY <1>1 DEF Shot!Passed, PassedSteps
  <1>4. \A p \in F : p \in 1..N
    BY <1>1
  <1> HIDE DEF F, N, steps
  <1>5. Shot!Found(d) = InOrder(F)
    BY <1>2, <1>3, SameInOrder
  <1>6. Enumerates(InOrder(F), Cardinality(F), F) /\ Cardinality(F) \in Nat
    BY <1>1, <1>4, InOrderEnumerates
  <1>7. Len(InOrder(F)) = Cardinality(F)
    <2>1. InOrder(F) \in [1..Cardinality(F) -> F]
      BY <1>6 DEF Enumerates
    <2>2. QED
      BY <1>6, <2>1
  <1>8. QED
    BY <1>5, <1>6, <1>7 DEF F, steps

(* The captures of the sequence are those the caller waits for, in the     *)
(* order of the shots.                                                     *)
LEMMA WantedIs ==
    ASSUME ShotCallOK, StepsOK, call.endpoint # "items"
    PROVE  LET cap == InOrder(CaptureSteps)
               m == Cardinality(CaptureSteps)
           IN  /\ Enumerates(cap, m, CaptureSteps)
               /\ m \in Nat
               /\ Shot!Wanted = [k \in 1..m |-> Shot!Steps[cap[k]].shot]
  <1> DEFINE steps == Shot!Steps
             N == Len(steps)
             cap == InOrder(CaptureSteps)
             m == Cardinality(CaptureSteps)
             D == DOMAIN call.shots
             W == {i \in D : Wants(i)}
             f == [k \in 1..m |-> steps[cap[k]].shot]
  <1>1. /\ DOMAIN steps = 1..N /\ N \in Nat
        /\ \A p \in 1..N : steps[p] \in Entry /\ Has(steps, steps[p])
    BY DEF StepsOK, Has
  <1>2. \A p \in CaptureSteps : p \in 1..N /\ p \in Nat /\ steps[p].does \in Captured
    BY <1>1 DEF CaptureSteps
  <1> HIDE DEF N
  <1>3. Enumerates(cap, m, CaptureSteps) /\ m \in Nat
    BY <1>1, <1>2, InOrderEnumerates
  <1> HIDE DEF cap, m
  <1>4. Shot!Current = D
    BY DEF Shot!Current
  <1>5. \A k \in 1..m : cap[k] \in CaptureSteps
    BY <1>3 DEF Enumerates
  <1>6. \A k \in 1..m : f[k] \in W
    <2> SUFFICES ASSUME NEW k \in 1..m PROVE f[k] \in W
      OBVIOUS
    <2>1. cap[k] \in 1..N /\ steps[cap[k]].does \in Captured /\ Has(steps, steps[cap[k]])
      BY <1>1, <1>2, <1>5
    <2>2. steps[cap[k]].shot \in D /\ Wants(steps[cap[k]].shot)
      BY <1>4, <2>1 DEF StepsOK
    <2>3. QED
      BY <2>2
  <1>7. \A i, j \in 1..m : i < j => f[i] < f[j]
    <2> SUFFICES ASSUME NEW i \in 1..m, NEW j \in 1..m, i < j PROVE f[i] < f[j]
      OBVIOUS
    <2>1. cap[i] < cap[j]
      BY <1>3 DEF Enumerates
    <2>2. <<steps[cap[i]], steps[cap[j]]>> \in Earlier
      BY <1>1, <1>2, <1>5, <2>1 DEF StepsOK, Ordered
    <2>3. steps[cap[i]].does \in Captured
      BY <1>2, <1>5
    <2>4. steps[cap[i]].shot < steps[cap[j]].shot
      BY <2>2, <2>3 DEF Earlier
    <2>5. QED
      BY <2>4
  <1>8. \A i \in W : \E k \in 1..m : f[k] = i
    <2> SUFFICES ASSUME NEW i \in W PROVE \E k \in 1..m : f[k] = i
      OBVIOUS
    <2>1. Has(steps, [does |-> Kind(i), shot |-> i])
      BY <1>4 DEF StepsOK
    <2>2. PICK p \in 1..N : steps[p] = [does |-> Kind(i), shot |-> i]
      BY <1>1, <2>1 DEF Has
    <2>3. p \in CaptureSteps
      BY <1>1, <2>2 DEF CaptureSteps, Captured, Kind
    <2>4. PICK k \in 1..m : cap[k] = p
      BY <1>3, <2>3 DEF Enumerates
    <2>5. f[k] = i
      BY <2>2, <2>4
    <2>6. QED
      BY <2>5
  <1>9. Enumerates(f, m, W)
    BY <1>6, <1>7, <1>8 DEF Enumerates
  <1>10. Shot!Wanted = Shot!InOrder(W)
    <2>1. W = {i \in DOMAIN call.shots :
                  /\ call.endpoint = "items" => i <= item
                  /\ Shot!Captures(i) \/ (call.endpoint = "oneShot" /\ call.shots[i].html)}
      BY DEF Wants
    <2> HIDE DEF W
    <2>2. QED
      BY <2>1 DEF Shot!Wanted
  <1>11. \A i \in W : i \in Nat
    BY CallFacts DEF ShotCallOK
  <1> HIDE DEF f, W
  <1>12. Shot!Wanted = f
    BY <1>3, <1>9, <1>10, <1>11, SameInOrder, InOrderIs
  <1>13. QED
    BY <1>3, <1>12 DEF f, cap, m, steps

(* The captures that are paired are the first ones, those that have passed. *)
LEMMA PairedIs ==
    ASSUME StepsOK, Finished
    PROVE  LET cap == InOrder(CaptureSteps)
               m == Cardinality(CaptureSteps)
           IN  \E h \in 0..m : /\ Shot!Paired = [n \in 1..h |-> cap[n]]
                               /\ \A k \in 1..m : k <= h <=> cap[k] \in PassedSteps
  <1> DEFINE steps == Shot!Steps
             N == Len(steps)
             cap == InOrder(CaptureSteps)
             m == Cardinality(CaptureSteps)
             map == Shot!ResultMap
             kind == [p \in 1..N |-> steps[p].does]
             F(d) == {p \in DOMAIN steps : steps[p].does = d /\ p \in PassedSteps}
             H == {k \in 1..m : cap[k] \in PassedSteps}
             found == [does \in {"png", "html"} |-> Shot!Found(does)]
  <1>1. /\ DOMAIN steps = 1..N /\ N \in Nat
        /\ \A p \in CaptureSteps : p \in 1..N /\ p \in Nat /\ steps[p].does \in {"png", "html"}
    BY DEF StepsOK, CaptureSteps, Captured
  <1> HIDE DEF N, F
  <1>2. Enumerates(cap, m, CaptureSteps) /\ m \in Nat
    BY <1>1, InOrderEnumerates
  <1>3. map = [k \in 1..m |-> steps[cap[k]].does]
    <2>1. CaptureSteps = {p \in DOMAIN steps : steps[p].does \in {"png", "html"}}
      BY DEF CaptureSteps, Captured
    <2>2. map = LET captures == Shot!InOrder({p \in DOMAIN steps : steps[p].does \in {"png", "html"}})
                IN  [k \in DOMAIN captures |-> steps[captures[k]].does]
      BY DEF Shot!ResultMap
    <2>3. DOMAIN cap = 1..m
      BY <1>2 DEF Enumerates
    <2> HIDE DEF map, cap
    <2>4. Shot!InOrder(CaptureSteps) = cap
      BY SameInOrder DEF cap
    <2>5. QED
      BY <2>1, <2>2, <2>3, <2>4
  <1>4. ASSUME NEW k \in 1..m
        PROVE  LET n == Shot!IndexAmongKind(map, k)
               IN  /\ map[k] \in {"png", "html"}
                   /\ n <= Len(found[map[k]]) <=> cap[k] \in PassedSteps
                   /\ cap[k] \in PassedSteps => found[map[k]][n] = cap[k]
    <2>1. cap[k] \in CaptureSteps
      BY <1>2 DEF Enumerates
    <2>2. map[k] \in {"png", "html"}
      BY <1>1, <1>3, <2>1
    <2>3. /\ found[map[k]] = InOrder(F(map[k]))
          /\ Len(found[map[k]]) = Cardinality(F(map[k]))
      <3>1. found[map[k]] = Shot!Found(map[k])
        BY <2>2
      <3> HIDE DEF found, map
      <3>2. QED
        BY <3>1, FoundIs DEF F
    <2>4. /\ WithoutGaps(PassedSteps, N)
          /\ CaptureSteps = OfKinds(N, kind, Captured)
          /\ Lists(map, kind, CaptureSteps)
          /\ F(map[k]) = PassedOfKind(N, kind, map[k], PassedSteps)
      <3>1. WithoutGaps(PassedSteps, N)
        BY <1>1 DEF Finished, WithoutGaps
      <3>2. CaptureSteps = OfKinds(N, kind, Captured)
        BY <1>1 DEF CaptureSteps, OfKinds
      <3>3. \A l \in 1..m : cap[l] \in 1..N
        BY <1>1, <1>2 DEF Enumerates
      <3>4. Lists(map, kind, CaptureSteps)
        <4> HIDE DEF map
        <4>1. QED
          BY <1>3, <3>3 DEF Lists
      <3> HIDE DEF cap, m, map
      <3>5. F(map[k]) = PassedOfKind(N, kind, map[k], PassedSteps)
        BY <1>1 DEF F, PassedOfKind
      <3>6. QED
        BY <3>1, <3>2, <3>4, <3>5
    <2> HIDE DEF kind, map, found
    <2>5. LET n == Shot!IndexAmongKind(map, k)
          IN  /\ n <= Cardinality(F(map[k])) <=> cap[k] \in PassedSteps
              /\ cap[k] \in PassedSteps => InOrder(F(map[k]))[n] = cap[k]
      BY <1>1, <2>4, PairedByIndex
    <2> HIDE DEF cap, m
    <2>6. QED
      BY <2>2, <2>3, <2>5
  <1> HIDE DEF map, found
  <1>5. DOMAIN map = 1..m
    BY <1>3
  <1>6. {k \in DOMAIN map : Shot!IndexAmongKind(map, k) <= Len(found[map[k]])} = H
    <2> HIDE DEF cap, m
    <2>1. QED
      BY <1>4, <1>5
  <1>7. \A k \in H, l \in 1..m : l < k => l \in H
    <2> SUFFICES ASSUME NEW k \in H, NEW l \in 1..m, l < k PROVE l \in H
      OBVIOUS
    <2>1. cap[l] < cap[k] /\ cap[l] \in DOMAIN steps /\ cap[k] \in DOMAIN steps
      BY <1>1, <1>2 DEF Enumerates
    <2>2. cap[k] \in PassedSteps
      OBVIOUS
    <2> HIDE DEF cap, m, steps
    <2>3. cap[l] \in PassedSteps
      BY <2>1, <2>2 DEF Finished, steps
    <2>4. QED
      BY <2>3
  <1> DEFINE h == Cardinality(H)
  <1>8. h \in 0..m /\ H = 1..h /\ InOrder(H) = [n \in 1..h |-> n]
    <2>1. \A k \in H : k \in 1..m
      OBVIOUS
    <2> HIDE DEF H, m
    <2>2. m \in Nat
      BY <1>2 DEF m
    <2>3. QED
      BY <1>7, <2>1, <2>2, PrefixInOrder
  <1>9. Shot!Paired = [n \in 1..h |-> found[map[n]][Shot!IndexAmongKind(map, n)]]
    <2> DEFINE has == Shot!InOrder({k \in DOMAIN map : Shot!IndexAmongKind(map, k) <= Len(found[map[k]])})
    <2>1. Shot!Paired = [n \in DOMAIN has |-> found[map[has[n]]][Shot!IndexAmongKind(map, has[n])]]
      BY DEF Shot!Paired, map, found
    <2>2. has = [n \in 1..h |-> n]
      <3> HIDE DEF H, map
      <3>1. QED
        BY <1>6, <1>8, SameInOrder
    <2> HIDE DEF has, h
    <2>3. QED
      BY <2>1, <2>2
  <1>10. \A k \in 1..m : k <= h <=> cap[k] \in PassedSteps
    <2>1. \A k \in 1..m : k \in H <=> cap[k] \in PassedSteps
      OBVIOUS
    <2> HIDE DEF H, m, cap
    <2>2. m \in Nat
      BY <1>2 DEF m
    <2>3. QED
      BY <1>8, <2>1, <2>2
  <1>11. \A n \in 1..h : found[map[n]][Shot!IndexAmongKind(map, n)] = cap[n]
    <2> HIDE DEF H, m, cap, h
    <2>1. \A n \in 1..h : n \in 1..m /\ n <= h
      BY <1>2, <1>8 DEF m
    <2>2. QED
      BY <1>4, <1>10, <2>1
  <1>12. Shot!Paired = [n \in 1..h |-> cap[n]]
    <2> HIDE DEF h, cap
    <2>1. QED
      BY <1>9, <1>11
  <1> HIDE DEF h
  <1>13. QED
    BY <1>8, <1>10, <1>12

-----------------------------------------------------------------------------
(* The captures of the items before: each is of its own item, or an empty  *)
(* page.                                                                   *)
TakenSoFar ==
    IF call.endpoint = "items"
    THEN /\ taken \in [1..(item - 1) -> Nat]
         /\ \A n \in 1..(item - 1) : taken[n] \in {n, Shot!Empty}
    ELSE taken = <<>>

(* The sequence that is run is the one the call asks for.                  *)
RequestFollowsCall ==
    /\ ShotCall => ShotCallOK /\ TakenSoFar /\ request.steps = Len(Shot!Steps)
    /\ call = ProbeCall => inspect \in Probe!Inspects /\ request.steps = Len(Probe!Steps)

(* The invariant of the composition.                                       *)
RepliesInv == IInv /\ RequestFollowsCall

(* The instances count results as the runner does.                         *)
LEMMA SameCount ==
    ASSUME NEW s
    PROVE  Shot!Count(s) = Count(s) /\ Probe!Count(s) = Count(s)
  BY SameInOrder DEF Shot!Count, Probe!Count, Count

(* A good reply is that of a finished sequence.                            *)
LEMMA FinishedFacts ==
    ASSUME RepliesInv, ShotCall, Shot!Succeeds
    PROVE  /\ ShotCallOK
           /\ StepsOK
           /\ Finished
           /\ Count("FAILED") = 0
  <1> DEFINE N == Len(Shot!Steps)
  <1>1. /\ ShotCallOK /\ StepsOK /\ IInv /\ pc = "responded"
        /\ request.steps = N
    BY StepsFacts DEF RepliesInv, RequestFollowsCall, Shot!Succeeds
  <1>2. results \in Seq(StepStatus) /\ Len(results) = N
    BY <1>1 DEF IInv, TypeOK, HaltedForGood
  <1>3. DOMAIN Shot!Steps = 1..N /\ DOMAIN results = 1..N /\ N \in Nat
    BY <1>1, <1>2 DEF StepsOK
  <1>4. /\ \A s : Count(s) \in Nat
        /\ \A s : Count(s) = 0 <=> \A i \in DOMAIN results : results[i] # s
    BY <1>2, CountFacts
  <1>5. Count("FAILED") = 0
    <2>1. Shot!SequenceStatus = "COMPLETED"
      BY DEF Shot!Succeeds, Shot!RaisesOnFailure
    <2>2. CASE Count("FAILED") # 0
      <3>1. Count("FAILED") > 0
        BY <1>4, <2>2
      <3>2. Shot!SequenceStatus = "FAILED" \/ Shot!SequenceStatus = "PARTIAL"
        BY <2>2, <3>1, SameCount DEF Shot!SequenceStatus
      <3>3. QED
        BY <2>1, <3>2
    <2>3. QED
      BY <2>2
  <1>6. \A p \in 1..N : results[p] \in {"PASSED", "SKIPPED"}
    BY <1>2, <1>3, <1>4, <1>5 DEF StepStatus
  <1>7. ASSUME NEW p \in 1..N, NEW q \in 1..N, q < p, p \in PassedSteps PROVE q \in PassedSteps
    <2>1. results[q] = "SKIPPED" => results[p] = "SKIPPED"
      BY <1>1, <1>3, <1>7 DEF IInv, HaltedForGood
    <2>2. QED
      BY <1>3, <1>6, <1>7, <2>1 DEF PassedSteps
  <1>8. ASSUME ~late PROVE PassedSteps = DOMAIN Shot!Steps
    <2>1. ~(Count("SKIPPED") > 0)
      BY <1>1, <1>5, <1>8 DEF IInv, HaltedForGood
    <2>2. \A p \in 1..N : results[p] # "SKIPPED"
      BY <1>3, <1>4, <2>1
    <2>3. \A p \in 1..N : results[p] = "PASSED"
      BY <1>6, <2>2
    <2>4. QED
      BY <1>3, <2>3 DEF PassedSteps
  <1>9. Finished
    BY <1>2, <1>3, <1>7, <1>8 DEF Finished
  <1>10. QED
    BY <1>1, <1>5, <1>9

(* What the reply owes the caller, whichever the endpoint.                 *)
ReplyOwes ==
    /\ \A n \in DOMAIN Shot!Taken :
          Shot!Taken[n] # Shot!Empty => Shot!Taken[n] \in CaptureSteps \cap PassedSteps
    /\ ~late => \A n \in DOMAIN Shot!Taken : Shot!Taken[n] # Shot!Empty
    /\ Len(Shot!Shown) <= Len(Shot!Wanted)
    /\ ~late => Len(Shot!Shown) = Len(Shot!Wanted)
    /\ \A n \in DOMAIN Shot!Shown : Shot!Shown[n] \in {Shot!Wanted[n], Shot!Empty}

(* The steps of a batch and the one-shot calls: the captures are paired.   *)
LEMMA PairedReply ==
    ASSUME ShotCallOK, StepsOK, Finished, call.endpoint # "items", TakenSoFar
    PROVE  ReplyOwes
  <1> DEFINE steps == Shot!Steps
             cap == InOrder(CaptureSteps)
             m == Cardinality(CaptureSteps)
  <1>1. /\ Enumerates(cap, m, CaptureSteps)
        /\ m \in Nat
        /\ Shot!Wanted = [k \in 1..m |-> steps[cap[k]].shot]
    BY WantedIs
  <1>2. PICK h \in 0..m : /\ Shot!Paired = [n \in 1..h |-> cap[n]]
                          /\ \A k \in 1..m : k <= h <=> cap[k] \in PassedSteps
    BY PairedIs
  <1> HIDE DEF cap, m
  <1>3. h \in Nat /\ h <= m /\ \A n \in 1..h : n \in 1..m /\ n <= h
    BY <1>1
  <1>4. Shot!Taken = [n \in 1..h |-> cap[n]]
    BY <1>2 DEF Shot!Taken
  <1>5. \A k \in 1..m : cap[k] \in CaptureSteps /\ cap[k] \in DOMAIN steps /\ cap[k] # Shot!Empty
    <2>1. \A p \in CaptureSteps : p \in DOMAIN steps /\ p # 0
      BY DEF CaptureSteps, StepsOK
    <2>2. QED
      BY <1>1, <2>1 DEF Enumerates, Shot!Empty
  <1>6. Shot!Shown = [n \in 1..h |-> steps[cap[n]].shot]
    <2> DEFINE now == [n \in 1..h |-> cap[n]]
               s == [n \in DOMAIN now |-> IF now[n] = Shot!Empty THEN Shot!Empty ELSE steps[now[n]].shot]
    <2>1. Shot!Shown = <<>> \o s
      BY <1>4 DEF Shot!Shown, TakenSoFar
    <2>2. s = [n \in 1..h |-> steps[cap[n]].shot]
      BY <1>3, <1>5
    <2>3. \A n \in 1..h : steps[cap[n]].shot \in Nat
      <3>1. \A p \in DOMAIN steps : steps[p] \in Entry
        BY DEF StepsOK
      <3>2. QED
        BY <1>3, <1>5, <3>1 DEF Entry
    <2> HIDE DEF s
    <2>4. s \in Seq(Nat)
      BY <1>3, <2>2, <2>3
    <2>5. QED
      BY <2>1, <2>2, <2>4
  <1>7. Len(Shot!Shown) = h /\ Len(Shot!Wanted) = m
    BY <1>1, <1>3, <1>6
  <1>8. \A n \in 1..h : Shot!Shown[n] = Shot!Wanted[n]
    BY <1>1, <1>3, <1>6
  <1>9. ~late => h = m
    <2> SUFFICES ASSUME ~late, h # m PROVE FALSE
      OBVIOUS
    <2>1. m \in 1..m /\ ~(m <= h)
      BY <1>1, <1>3
    <2>2. cap[m] \in PassedSteps
      BY <1>5, <2>1 DEF Finished
    <2>3. QED
      BY <1>2, <2>1, <2>2
  <1>10. DOMAIN Shot!Shown = 1..h /\ DOMAIN Shot!Taken = 1..h
    BY <1>4, <1>6
  <1>11. \A n \in 1..h : /\ Shot!Taken[n] \in CaptureSteps /\ Shot!Taken[n] \in PassedSteps
                         /\ Shot!Taken[n] # Shot!Empty
    BY <1>2, <1>3, <1>4, <1>5
  <1>12. QED
    BY <1>3, <1>7, <1>8, <1>9, <1>10, <1>11 DEF ReplyOwes

(* An item: its one capture, or an empty page.                             *)
LEMMA ItemReply ==
    ASSUME ShotCallOK, StepsOK, Finished, call.endpoint = "items", TakenSoFar, Shot!Taken # <<>>
    PROVE  /\ ReplyOwes
           /\ Shot!Shown \in [1..item -> Nat]
           /\ \A n \in 1..item : Shot!Shown[n] \in {n, Shot!Empty}
  <1> DEFINE steps == Shot!Steps
             N == Len(steps)
             kind == Kind(item)
             F == {p \in DOMAIN steps : steps[p].does = kind /\ p \in PassedSteps}
  <1>1. /\ item \in Nat /\ item >= 1 /\ DOMAIN call.shots = 1..Len(call.shots)
        /\ Len(call.shots) \in Nat /\ item <= Len(call.shots)
    BY CallFacts DEF ShotCallOK
  <1>2. DOMAIN steps = 1..N /\ N \in Nat
    BY DEF StepsOK
  <1> HIDE DEF N
  <1>3. kind \in {"html", "png"} /\ kind \in Captured
    BY DEF Kind, Captured
  <1>4. /\ Shot!Found(kind) = InOrder(F)
        /\ Enumerates(InOrder(F), Cardinality(F), F)
        /\ Cardinality(F) \in Nat
        /\ Len(Shot!Found(kind)) = Cardinality(F)
    <2> HIDE DEF kind
    <2>1. QED
      BY FoundIs
  <1>5. \A p \in F : p \in CaptureSteps /\ p \in PassedSteps /\ p \in DOMAIN steps /\ p # 0
    BY <1>2, <1>3 DEF CaptureSteps
  <1>6. \A p \in DOMAIN steps : steps[p].shot = item
    BY DEF StepsOK, Has, Shot!Current
  <1>7. ~late => Cardinality(F) # 0
    <2> SUFFICES ASSUME ~late PROVE Cardinality(F) # 0
      OBVIOUS
    <2>1. Wants(item) /\ item \in Shot!Current
      BY DEF Wants, Shot!Captures, Shot!Current
    <2>2. PICK p \in DOMAIN steps : steps[p] = [does |-> kind, shot |-> item]
      BY <2>1 DEF StepsOK, Has
    <2>3. p \in F
      BY <2>2 DEF Finished
    <2> HIDE DEF F
    <2>4. QED
      BY <1>4, <2>3 DEF Enumerates
  <1>8. Shot!Taken = Shot!OfItem
    BY DEF Shot!Taken
  <1>9. PICK t : /\ Shot!Taken = <<t>>
                 /\ \/ t \in F
                    \/ t = Shot!Empty /\ Cardinality(F) = 0
    <2>1. CASE Shot!Found(kind) # <<>>
      <3>1. Shot!Taken = <<Shot!Found(kind)[1]>>
        BY <1>8, <2>1 DEF Shot!OfItem, Kind
      <3> HIDE DEF F, kind
      <3>2. Cardinality(F) # 0
        <4>1. InOrder(F) \in [1..Cardinality(F) -> F]
          BY <1>4 DEF Enumerates
        <4>2. Cardinality(F) = 0 => InOrder(F) = <<>>
          BY <4>1
        <4>3. QED
          BY <1>4, <2>1, <4>2
      <3>3. 1 \in 1..Cardinality(F)
        BY <1>4, <3>2
      <3>4. Shot!Found(kind)[1] \in F
        BY <1>4, <3>3 DEF Enumerates
      <3>5. QED
        BY <3>1, <3>4
    <2>2. CASE Shot!Found(kind) = <<>>
      <3>1. Shot!Taken = IF kind = "html" THEN <<Shot!Empty>> ELSE <<>>
        BY <1>3, <1>8, <2>2 DEF Shot!OfItem, Kind
      <3>2. Cardinality(F) = 0
        BY <1>4, <2>2
      <3> HIDE DEF F, kind
      <3>3. QED
        BY <3>1, <3>2
    <2>3. QED
      BY <2>1, <2>2
  <1> DEFINE s == IF t = Shot!Empty THEN Shot!Empty ELSE item
  <1>10. Shot!Shown = taken \o <<s>>
    <2> DEFINE now == <<t>>
    <2>1. Shot!Shown = taken \o [n \in DOMAIN now |-> IF now[n] = Shot!Empty THEN Shot!Empty ELSE steps[now[n]].shot]
      BY <1>9 DEF Shot!Shown
    <2>2. DOMAIN now = 1..1 /\ now[1] = t
      OBVIOUS
    <2>3. (IF t = Shot!Empty THEN Shot!Empty ELSE steps[t].shot) = s
      BY <1>5, <1>6, <1>9
    <2> HIDE DEF now, s
    <2>4. [n \in 1..1 |-> IF now[n] = Shot!Empty THEN Shot!Empty ELSE steps[now[n]].shot] = <<s>>
      <3>1. [n \in 1..1 |-> s] = <<s>>
        OBVIOUS
      <3>2. \A n \in 1..1 : n = 1
        OBVIOUS
      <3>3. \A n \in 1..1 : (IF now[n] = Shot!Empty THEN Shot!Empty ELSE steps[now[n]].shot) = s
        BY <2>2, <2>3, <3>2
      <3>4. QED
        BY <3>1, <3>3
    <2>5. QED
      BY <2>1, <2>2, <2>4
  <1>11. taken \in Seq(Nat) /\ Len(taken) = item - 1 /\ \A n \in 1..(item - 1) : taken[n] \in {n, Shot!Empty}
    BY <1>1 DEF TakenSoFar
  <1>12. s \in Nat /\ s \in {item, Shot!Empty}
    BY <1>1 DEF Shot!Empty
  <1> HIDE DEF s
  <1>13. /\ Len(Shot!Shown) = item
         /\ Shot!Shown \in [1..item -> Nat]
         /\ \A n \in 1..(item - 1) : Shot!Shown[n] = taken[n]
         /\ Shot!Shown[item] = s
    <2> DEFINE u == taken \o <<s>>
    <2>1. <<s>> \in Seq(Nat) /\ Len(<<s>>) = 1 /\ <<s>>[1] = s
      BY <1>12
    <2>2. u \in Seq(Nat) /\ Len(u) = (item - 1) + 1
      BY <1>11, <2>1
    <2>3. \A n \in 1..(item - 1) : u[n] = taken[n]
      BY <1>1, <1>11, <2>1
    <2>4. u[item] = s
      <3>1. /\ item \in 1..(Len(taken) + Len(<<s>>))
            /\ ~(item <= Len(taken))
            /\ item - Len(taken) = 1
        BY <1>1, <1>11, <2>1
      <3>2. QED
        BY <1>11, <2>1, <3>1
    <2> HIDE DEF u
    <2>5. Len(u) = item
      BY <1>1, <2>2
    <2>6. u \in [1..item -> Nat]
      BY <2>2, <2>5
    <2>7. QED
      BY <1>10, <2>3, <2>4, <2>5, <2>6 DEF u
  <1>14. \A n \in 1..item : Shot!Shown[n] \in {n, Shot!Empty}
    <2>1. \A n \in 1..item : n = item \/ n \in 1..(item - 1)
      BY <1>1
    <2>2. QED
      BY <1>11, <1>12, <1>13, <2>1
  <1>15. Shot!Wanted = [n \in 1..item |-> n]
    <2> DEFINE W == {i \in DOMAIN call.shots : i <= item}
    <2>1. {i \in DOMAIN call.shots :
              /\ call.endpoint = "items" => i <= item
              /\ Shot!Captures(i) \/ (call.endpoint = "oneShot" /\ call.shots[i].html)} = W
      BY DEF Shot!Captures
    <2>2. Shot!Wanted = Shot!InOrder(W)
      BY <2>1 DEF Shot!Wanted
    <2>3. Enumerates([n \in 1..item |-> n], item, W) /\ \A i \in W : i \in Nat
      BY <1>1 DEF Enumerates
    <2> HIDE DEF W
    <2>4. QED
      BY <1>1, <2>2, <2>3, SameInOrder, InOrderIs
  <1>16. Len(Shot!Wanted) = item /\ \A n \in 1..item : Shot!Wanted[n] = n
    BY <1>1, <1>15
  <1>17. DOMAIN Shot!Taken = {1} /\ Shot!Taken[1] = t
    BY <1>9
  <1>18. t # Shot!Empty => t \in CaptureSteps /\ t \in PassedSteps
    BY <1>5, <1>9
  <1>19. ~late => t # Shot!Empty
    BY <1>5, <1>7, <1>9 DEF Shot!Empty
  <1>20. DOMAIN Shot!Shown = 1..item
    BY <1>13
  <1>21. ReplyOwes
    BY <1>1, <1>13, <1>14, <1>16, <1>17, <1>18, <1>19, <1>20 DEF ReplyOwes
  <1>22. QED
    BY <1>13, <1>14, <1>21

(* Every good reply has what it owes.                                      *)
LEMMA GoodReply ==
    ASSUME RepliesInv, ShotCall, Shot!Succeeds
    PROVE  ReplyOwes
  <1>1. ShotCallOK /\ StepsOK /\ Finished /\ TakenSoFar
    BY FinishedFacts DEF RepliesInv, RequestFollowsCall
  <1>2. call.endpoint = "items" => Shot!Taken # <<>>
    BY DEF Shot!Succeeds, Shot!ArtefactMissing
  <1>3. QED
    BY <1>1, <1>2, PairedReply, ItemReply

-----------------------------------------------------------------------------
(* The sequence of an inspect or a session probe.                          *)
LEMMA IntervalInOrder ==
    ASSUME NEW lo \in Nat, NEW n \in Nat
    PROVE  Probe!InOrder((lo + 1)..(lo + n)) = [k \in 1..n |-> lo + k]
  <1> DEFINE P == (lo + 1)..(lo + n)
             f == [k \in 1..n |-> lo + k]
  <1>1. f \in [1..n -> P] /\ \A i, j \in 1..n : i < j => f[i] < f[j]
    OBVIOUS
  <1>2. \A p \in P : \E k \in 1..n : f[k] = p
    <2> SUFFICES ASSUME NEW p \in P PROVE \E k \in 1..n : f[k] = p
      OBVIOUS
    <2>1. p - lo \in 1..n /\ f[p - lo] = p
      OBVIOUS
    <2>2. QED
      BY <2>1
  <1>3. \A p \in P : p \in Nat
    OBVIOUS
  <1> HIDE DEF f, P
  <1>4. Enumerates(f, n, P)
    BY <1>1, <1>2 DEF Enumerates
  <1>5. Probe!InOrder(P) = f
    BY <1>3, <1>4, SameInOrder, InOrderIs
  <1>6. QED
    BY <1>5 DEF f, P

(* A slice within the results is a run of them.                            *)
LEMMA SliceIs ==
    ASSUME results \in Seq(StepStatus), NEW from \in Nat, NEW n \in Nat, from + n <= Len(results)
    PROVE  Probe!Slice(from, n) = [k \in 1..n |-> results[from + k]]
  <1>1. Probe!Slice(from, n) = SubSeq(results, from + 1, from + n)
    BY DEF Probe!Slice
  <1>2. SubSeq(results, from + 1, from + n) = [k \in 1..n |-> results[from + k]]
    <2> DEFINE s == SubSeq(results, from + 1, from + n)
    <2>1. s = [k \in 1..((from + n) - (from + 1) + 1) |-> results[(from + 1) + k - 1]]
      OBVIOUS
    <2>2. (from + n) - (from + 1) + 1 = n
      OBVIOUS
    <2>3. \A k \in 1..n : (from + 1) + k - 1 = from + k
      OBVIOUS
    <2> HIDE DEF s
    <2>4. s = [k \in 1..n |-> results[(from + 1) + k - 1]]
      BY <2>1, <2>2
    <2>5. QED
      BY <2>3, <2>4 DEF s
  <1>3. QED
    BY <1>1, <1>2

(* The parts that steps play, and how many read the diagnostics.           *)
Roles == {"navigate", "settle", "probe", "consoleTail", "networkFailures"}

DiagnosticSteps == IF inspect.diagnostics_on_fail THEN 2 ELSE 0

(* Where the steps of each part are.                                       *)
LEMMA ProbeStepsFacts ==
    ASSUME inspect \in Probe!Inspects
    PROVE  LET a == Probe!NavigateOffset
               b == inspect.settle
               c == inspect.probes
               at(role) == {i \in DOMAIN Probe!Steps : Probe!Steps[i] = role}
           IN  /\ a \in Nat /\ b \in Nat /\ c \in Nat
               /\ Len(Probe!Steps) \in Nat
               /\ a + b + c <= Len(Probe!Steps)
               /\ at("navigate") = (0 + 1)..(0 + a)
               /\ at("settle") = (a + 1)..(a + b)
               /\ at("probe") = ((a + b) + 1)..((a + b) + c)
  <1> DEFINE a == Probe!NavigateOffset
             b == inspect.settle
             c == inspect.probes
             d == DiagnosticSteps
             nav == IF inspect.on_held_page THEN <<>> ELSE <<"navigate">>
             settle == [i \in 1..b |-> "settle"]
             probe == [i \in 1..c |-> "probe"]
             tail == IF inspect.diagnostics_on_fail THEN <<"consoleTail", "networkFailures">> ELSE <<>>
             s == ((nav \o settle) \o probe) \o tail
  <1>1. /\ a \in Nat /\ b \in Nat /\ c \in Nat /\ d \in Nat
        /\ inspect.on_held_page \in BOOLEAN /\ inspect.diagnostics_on_fail \in BOOLEAN
    BY BoundsAssumption DEF Probe!Inspects, Probe!NavigateOffset, DiagnosticSteps
  <1>2. Probe!Steps = s
    BY DEF Probe!Steps, Probe!Repeat
  <1>3. /\ nav \in Seq(Roles) /\ Len(nav) = a /\ \A i \in 1..a : nav[i] = "navigate"
        /\ tail \in Seq(Roles) /\ Len(tail) = d
        /\ \A i \in 1..d : tail[i] \in {"consoleTail", "networkFailures"}
    <2>1. a = (IF inspect.on_held_page THEN 0 ELSE 1) /\ d = (IF inspect.diagnostics_on_fail THEN 2 ELSE 0)
      BY DEF Probe!NavigateOffset, DiagnosticSteps
    <2> HIDE DEF a, d
    <2>2. nav \in Seq(Roles) /\ Len(nav) = a /\ \A i \in 1..a : nav[i] = "navigate"
      <3>1. CASE inspect.on_held_page
        <4>1. a = 0 /\ nav = <<>>
          BY <2>1, <3>1
        <4>2. QED
          BY <4>1
      <3>2. CASE ~inspect.on_held_page
        <4>1. a = 1 /\ nav = <<"navigate">>
          BY <2>1, <3>2
        <4>2. "navigate" \in Roles
          BY DEF Roles
        <4> HIDE DEF nav
        <4>3. QED
          BY <4>1, <4>2
      <3>3. QED
        BY <1>1, <3>1, <3>2
    <2>3. /\ tail \in Seq(Roles) /\ Len(tail) = d
          /\ \A i \in 1..d : tail[i] \in {"consoleTail", "networkFailures"}
      <3>1. CASE ~inspect.diagnostics_on_fail
        <4>1. d = 0 /\ tail = <<>>
          BY <2>1, <3>1
        <4> HIDE DEF tail
        <4>2. QED
          BY <4>1
      <3>2. CASE inspect.diagnostics_on_fail
        <4>1. d = 2 /\ tail = <<"consoleTail", "networkFailures">>
          BY <2>1, <3>2
        <4>2. "consoleTail" \in Roles /\ "networkFailures" \in Roles
          BY DEF Roles
        <4> HIDE DEF tail
        <4>3. tail \in Seq(Roles) /\ Len(tail) = d
          BY <4>1, <4>2
        <4>4. tail[1] = "consoleTail" /\ tail[2] = "networkFailures"
          BY <4>1
        <4>5. QED
          BY <4>1, <4>3, <4>4
      <3>3. QED
        BY <1>1, <3>1, <3>2
    <2>4. QED
      BY <2>2, <2>3
  <1>4. /\ settle \in Seq(Roles) /\ Len(settle) = b /\ \A i \in 1..b : settle[i] = "settle"
        /\ probe \in Seq(Roles) /\ Len(probe) = c /\ \A i \in 1..c : probe[i] = "probe"
    BY <1>1 DEF Roles
  <1> HIDE DEF a, b, c, d, nav, settle, probe, tail
  <1> DEFINE u == nav \o settle
             v == u \o probe
  <1>5. /\ u \in Seq(Roles) /\ Len(u) = a + b
        /\ \A i \in 1..(a + b) : u[i] = IF i <= a THEN "navigate" ELSE "settle"
    <2>1. u \in Seq(Roles) /\ Len(u) = a + b
      <3>1. nav \in Seq(Roles) /\ settle \in Seq(Roles) /\ Len(nav) = a /\ Len(settle) = b
        BY <1>3, <1>4
      <3>2. QED
        BY <1>1, <3>1
    <2>2. ASSUME NEW i \in 1..(a + b) PROVE u[i] = IF i <= a THEN "navigate" ELSE "settle"
      <3>1. u[i] = IF i <= a THEN nav[i] ELSE settle[i - a]
        BY <1>1, <1>3, <1>4
      <3>2. i <= a => i \in 1..a
        BY <1>1
      <3>3. ~(i <= a) => i - a \in 1..b
        BY <1>1
      <3> HIDE DEF u
      <3>4. QED
        BY <1>3, <1>4, <3>1, <3>2, <3>3
    <2>3. QED
      BY <2>1, <2>2
  <1> HIDE DEF u
  <1>6. /\ v \in Seq(Roles) /\ Len(v) = (a + b) + c
        /\ \A i \in 1..((a + b) + c) :
              v[i] = IF i <= a THEN "navigate" ELSE IF i <= a + b THEN "settle" ELSE "probe"
    <2>1. v \in Seq(Roles) /\ Len(v) = (a + b) + c
      BY <1>4, <1>5
    <2>2. ASSUME NEW i \in 1..((a + b) + c)
          PROVE  v[i] = IF i <= a THEN "navigate" ELSE IF i <= a + b THEN "settle" ELSE "probe"
      <3>1. v[i] = IF i <= a + b THEN u[i] ELSE probe[i - (a + b)]
        BY <1>1, <1>4, <1>5
      <3>2. i <= a + b => i \in 1..(a + b)
        BY <1>1
      <3>3. ~(i <= a + b) => i - (a + b) \in 1..c /\ ~(i <= a)
        BY <1>1
      <3> HIDE DEF v
      <3>4. QED
        BY <1>4, <1>5, <3>1, <3>2, <3>3
    <2>3. QED
      BY <2>1, <2>2
  <1> HIDE DEF v
  <1>7. s = v \o tail
    BY DEF u, v
  <1>8. /\ Len(s) = (a + b) + c + d /\ DOMAIN s = 1..((a + b) + c + d)
        /\ \A i \in 1..((a + b) + c) :
              s[i] = IF i <= a THEN "navigate" ELSE IF i <= a + b THEN "settle" ELSE "probe"
        /\ \A i \in 1..((a + b) + c + d) :
              i > (a + b) + c => s[i] \in {"consoleTail", "networkFailures"}
    <2>1. Len(s) = (a + b) + c + d /\ DOMAIN s = 1..((a + b) + c + d)
      <3> HIDE DEF s
      <3>1. v \in Seq(Roles) /\ tail \in Seq(Roles) /\ Len(v) = (a + b) + c /\ Len(tail) = d
        BY <1>3, <1>6
      <3>2. v \o tail \in Seq(Roles) /\ Len(v \o tail) = Len(v) + Len(tail)
        BY <3>1
      <3>3. s \in Seq(Roles) /\ Len(s) = (a + b) + c + d
        BY <1>7, <3>1, <3>2
      <3>4. DOMAIN s = 1..Len(s)
        BY <3>3
      <3>5. QED
        BY <3>3, <3>4
    <2>2. ASSUME NEW i \in 1..((a + b) + c + d)
          PROVE  s[i] = IF i <= (a + b) + c THEN v[i] ELSE tail[i - ((a + b) + c)]
      <3> HIDE DEF s
      <3>1. v \in Seq(Roles) /\ tail \in Seq(Roles) /\ Len(v) = (a + b) + c /\ Len(tail) = d
        BY <1>3, <1>6
      <3>2. i \in 1..(Len(v) + Len(tail))
        BY <1>1, <3>1
      <3>3. (v \o tail)[i] = IF i <= Len(v) THEN v[i] ELSE tail[i - Len(v)]
        BY <3>1, <3>2
      <3>4. QED
        BY <1>7, <3>1, <3>3
    <2> HIDE DEF s
    <2>3. ASSUME NEW i \in 1..((a + b) + c)
          PROVE  s[i] = IF i <= a THEN "navigate" ELSE IF i <= a + b THEN "settle" ELSE "probe"
      <3>1. i \in 1..((a + b) + c + d) /\ i <= (a + b) + c
        BY <1>1
      <3>2. QED
        BY <1>6, <2>2, <3>1
    <2>4. ASSUME NEW i \in 1..((a + b) + c + d), i > (a + b) + c
          PROVE  s[i] \in {"consoleTail", "networkFailures"}
      <3>1. i - ((a + b) + c) \in 1..d /\ ~(i <= (a + b) + c)
        BY <1>1, <2>4
      <3>2. QED
        BY <1>3, <2>2, <3>1
    <2>5. QED
      BY <2>1, <2>3, <2>4
  <1> HIDE DEF s
  <1>9. \A i \in DOMAIN s :
           /\ s[i] = "navigate" <=> i <= a
           /\ s[i] = "settle" <=> i > a /\ i <= a + b
           /\ s[i] = "probe" <=> i > a + b /\ i <= (a + b) + c
    <2> SUFFICES ASSUME NEW i \in 1..((a + b) + c + d)
                 PROVE  /\ s[i] = "navigate" <=> i <= a
                        /\ s[i] = "settle" <=> i > a /\ i <= a + b
                        /\ s[i] = "probe" <=> i > a + b /\ i <= (a + b) + c
      BY <1>8
    <2>1. CASE i <= (a + b) + c
      <3>1. i \in 1..((a + b) + c)
        BY <1>1, <2>1
      <3>2. QED
        BY <1>1, <1>8, <3>1
    <2>2. CASE i > (a + b) + c
      <3>1. s[i] \in {"consoleTail", "networkFailures"}
        BY <1>8, <2>2
      <3>2. QED
        BY <1>1, <2>2, <3>1
    <2>3. QED
      BY <1>1, <2>1, <2>2
  <1>10. /\ {i \in DOMAIN s : s[i] = "navigate"} = (0 + 1)..(0 + a)
         /\ {i \in DOMAIN s : s[i] = "settle"} = (a + 1)..(a + b)
         /\ {i \in DOMAIN s : s[i] = "probe"} = ((a + b) + 1)..((a + b) + c)
    <2>1. \A i : i \in DOMAIN s /\ s[i] = "navigate" <=> i \in (0 + 1)..(0 + a)
      BY <1>1, <1>8, <1>9
    <2>2. \A i : i \in DOMAIN s /\ s[i] = "settle" <=> i \in (a + 1)..(a + b)
      BY <1>1, <1>8, <1>9
    <2>3. \A i : i \in DOMAIN s /\ s[i] = "probe" <=> i \in ((a + b) + 1)..((a + b) + c)
      BY <1>1, <1>8, <1>9
    <2>4. QED
      BY <2>1, <2>2, <2>3
  <1>11. Len(s) \in Nat /\ a + b + c <= Len(s)
    BY <1>1, <1>8
  <1>12. QED
    BY <1>1, <1>2, <1>10, <1>11 DEF a, b, c

(* Cutting the results at the offsets gives each part its own.             *)
LEMMA ProbeReply == RepliesInv => ResultsUnderTheirNames
  <1> SUFFICES ASSUME RepliesInv, call = ProbeCall, pc = "responded"
               PROVE  /\ Probe!NavigateResults = Probe!ResultsOf("navigate")
                      /\ Probe!SettleResults = Probe!ResultsOf("settle")
                      /\ Probe!ProbeResults = Probe!ResultsOf("probe")
    BY DEF ResultsUnderTheirNames, Probe!ResultsUnderTheirNames, Probe!Answered
  <1> DEFINE a == Probe!NavigateOffset
             b == inspect.settle
             c == inspect.probes
             at(role) == {i \in DOMAIN Probe!Steps : Probe!Steps[i] = role}
  <1>1. /\ results \in Seq(StepStatus) /\ Len(results) = Len(Probe!Steps)
        /\ inspect \in Probe!Inspects
    BY DEF RepliesInv, RequestFollowsCall, IInv, TypeOK, HaltedForGood
  <1>2. /\ a \in Nat /\ b \in Nat /\ c \in Nat
        /\ a + b + c <= Len(results)
        /\ Len(results) \in Nat
        /\ at("navigate") = (0 + 1)..(0 + a)
        /\ at("settle") = (a + 1)..(a + b)
        /\ at("probe") = ((a + b) + 1)..((a + b) + c)
    BY <1>1, ProbeStepsFacts
  <1>3. ASSUME NEW role, NEW from \in Nat, NEW n \in Nat,
               at(role) = (from + 1)..(from + n), from + n <= Len(results)
        PROVE  Probe!Slice(from, n) = Probe!ResultsOf(role)
    <2> DEFINE positions == Probe!InOrder(at(role))
    <2>1. positions = [k \in 1..n |-> from + k]
      <3>1. Probe!InOrder((from + 1)..(from + n)) = [k \in 1..n |-> from + k]
        BY IntervalInOrder
      <3> HIDE DEF at
      <3>2. QED
        BY <1>3, <3>1
    <2>2. Probe!ResultsOf(role) = [k \in DOMAIN positions |-> results[positions[k]]]
      BY DEF Probe!ResultsOf
    <2> HIDE DEF positions
    <2>3. Probe!ResultsOf(role) = [k \in 1..n |-> results[from + k]]
      BY <2>1, <2>2
    <2>4. QED
      BY <1>1, <1>3, <2>3, SliceIs
  <1>4. 0 \in Nat /\ 0 + a <= Len(results) /\ a + b <= Len(results) /\ a + b \in Nat
    BY <1>2
  <1> HIDE DEF a, b, c, at
  <1>5. Probe!NavigateResults = Probe!ResultsOf("navigate")
    BY <1>2, <1>3, <1>4 DEF Probe!NavigateResults, a
  <1>6. Probe!SettleResults = Probe!ResultsOf("settle")
    BY <1>2, <1>3, <1>4 DEF Probe!SettleResults, a, b
  <1>7. Probe!ProbeResults = Probe!ResultsOf("probe")
    BY <1>2, <1>3, <1>4 DEF Probe!ProbeResults, a, b, c
  <1>8. QED
    BY <1>5, <1>6, <1>7

-----------------------------------------------------------------------------
(* Every step keeps the invariant of the composition.                      *)

(* The caller's own sequences, probes and the calls of the endpoints are   *)
(* told apart.                                                             *)
LEMMA CallsApart ==
    /\ OwnCall.endpoint = "sequence" /\ ProbeCall.endpoint = "probe"
    /\ OwnCall # ProbeCall
    /\ \A c \in Shot!Calls : c # OwnCall /\ c # ProbeCall
  <1>1. OwnCall.endpoint = "sequence" /\ ProbeCall.endpoint = "probe"
    BY DEF OwnCall, ProbeCall
  <1>2. ASSUME NEW c \in Shot!Calls PROVE c.endpoint \in {"items", "steps", "oneShot"}
    BY DEF Shot!Calls
  <1>3. QED
    BY <1>1, <1>2

(* A step of the runner is the same one for the endpoints and for the      *)
(* probes, and so is the start of a run.                                   *)
LEMMA RunnerSteps ==
    /\ Shot!Next => Next
    /\ Probe!Next => Next
    /\ Shot!InitRun => InitRun
    /\ Probe!InitRun => InitRun
  <1> USE DEF DeadlinePasses, Validate, Invalid, Launch, LaunchRaises, MakePage, ApplyCredentials,
              PrepareRaises, SkipStep, RunStep, EndSteps, StopBrowser, Respond, RunAgain, Raise,
              GoTo, Held, InLoop, Errors, MoreSteps, Retries
  <1>1. Shot!Next => Next
    BY DEF Next, Shot!Next, Shot!DeadlinePasses, Shot!Validate, Shot!Invalid, Shot!Launch,
           Shot!LaunchRaises, Shot!MakePage, Shot!ApplyCredentials, Shot!PrepareRaises,
           Shot!SkipStep, Shot!RunStep, Shot!EndSteps, Shot!StopBrowser, Shot!Respond,
           Shot!RunAgain, Shot!Raise, Shot!GoTo, Shot!Held, Shot!InLoop, Shot!Errors,
           Shot!MoreSteps, Shot!Retries
  <1>2. Probe!Next => Next
    BY DEF Next, Probe!Next, Probe!DeadlinePasses, Probe!Validate, Probe!Invalid, Probe!Launch,
           Probe!LaunchRaises, Probe!MakePage, Probe!ApplyCredentials, Probe!PrepareRaises,
           Probe!SkipStep, Probe!RunStep, Probe!EndSteps, Probe!StopBrowser, Probe!Respond,
           Probe!RunAgain, Probe!Raise, Probe!GoTo, Probe!Held, Probe!InLoop, Probe!Errors,
           Probe!MoreSteps, Probe!Retries
  <1>3. QED
    BY <1>1, <1>2 DEF InitRun, Shot!InitRun, Probe!InitRun

(* The runner never changes its request.                                   *)
LEMMA RequestKept == Next => request' = request
  BY DEF Next, DeadlinePasses, Validate, Invalid, Launch, LaunchRaises, MakePage, ApplyCredentials,
         PrepareRaises, SkipStep, RunStep, EndSteps, StopBrowser, Respond, RunAgain, Raise

(* A request that is turned down before its sequence begins.               *)
LEMMA TurnedDown ==
    /\ IInv
    /\ pc = "validate"
    /\ error' = "other"
    /\ pc' = "failed"
    /\ UNCHANGED <<request, runs, late, results, halted, browser, executed>>
    => IInv'
  <1> SUFFICES ASSUME IInv, pc = "validate", error' = "other", pc' = "failed",
                      UNCHANGED <<request, runs, late, results, halted, browser, executed>>
               PROVE  IInv'
    OBVIOUS
  <1>1. TypeOK'
    BY DEF IInv, TypeOK, Errors
  <1>2. Position'
    BY DEF IInv, Position, BrowserFollowsRun, NothingDoneYet, NoBrowserLeft, Held
  <1>3. \A s : Count(s)' = Count(s)
    BY CountUnchanged
  <1>4. Tally'
    BY <1>3 DEF IInv, Tally, HaltIsExplained, HaltedForGood, NoStepRunsTwice
  <1>5. (TypeOK /\ Position /\ Tally)' => IInv'
    BY PartsSuffice, PTL
  <1>6. QED
    BY <1>1, <1>2, <1>4, <1>5

(* Steps of the runner alone leave call and request as they are.           *)
LEMMA CallKept ==
    ASSUME RequestFollowsCall, UNCHANGED <<call, item, taken, inspect, request>>
    PROVE  RequestFollowsCall'
  <1>1. Shot!Steps' = Shot!Steps
    BY DEF Shot!Steps, Shot!Current, Shot!ShotSteps, Shot!Navigate, Shot!Acts, Shot!Capture,
           Shot!GetUrl, Shot!Captures
  <1>2. Probe!Steps' = Probe!Steps
    BY DEF Probe!Steps
  <1>3. /\ ShotCall' <=> ShotCall
        /\ ShotCallOK' <=> ShotCallOK
        /\ TakenSoFar' <=> TakenSoFar
    BY DEF ShotCall, ShotCallOK, TakenSoFar
  <1>4. QED
    BY <1>1, <1>2, <1>3 DEF RequestFollowsCall

(* The length of a sequence is a natural number.                           *)
LEMMA StepsCounted == ShotCallOK => Len(Shot!Steps) \in Nat
  BY StepsFacts DEF StepsOK

(* The initial states of all the endpoints have the invariant.             *)
LEMMA InitReplies == ReplyInit => RepliesInv
  <1> SUFFICES ASSUME ReplyInit PROVE RepliesInv
    OBVIOUS
  <1>1. CASE Init /\ call = OwnCall
    <2>1. IInv
      BY <1>1, InitIInv
    <2>2. RequestFollowsCall
      BY <1>1, CallsApart DEF RequestFollowsCall, ShotCall
    <2>3. QED
      BY <2>1, <2>2 DEF RepliesInv
  <1>2. CASE Shot!EndpointInit
    <2>1. ShotCallOK /\ call # ProbeCall
      <3>1. call \in Shot!Calls /\ item = 1
        BY <1>2 DEF Shot!EndpointInit
      <3>2. QED
        BY <3>1, CallFacts, CallsApart DEF ShotCallOK
    <2>2. Len(Shot!Steps) \in Nat
      BY <2>1, StepsFacts DEF StepsOK
    <2>3. request.steps = Len(Shot!Steps) /\ request \in Requests(Nat)
      BY <1>2, <2>2 DEF Shot!EndpointInit, Requests, Modes
    <2>4. IInv
      BY <1>2, <2>3, FreshRun, RunnerSteps DEF Shot!EndpointInit
    <2>5. TakenSoFar
      <3>1. taken = <<>> /\ item = 1
        BY <1>2 DEF Shot!EndpointInit
      <3>2. taken \in [1..(item - 1) -> Nat] /\ 1..(item - 1) = {}
        BY <3>1
      <3>3. QED
        BY <3>1, <3>2 DEF TakenSoFar
    <2>6. QED
      BY <2>1, <2>3, <2>4, <2>5 DEF RepliesInv, RequestFollowsCall
  <1>3. CASE Probe!ProbeInit /\ call = ProbeCall
    <2>1. inspect \in Probe!Inspects
      BY <1>3 DEF Probe!ProbeInit
    <2>2. Len(Probe!Steps) \in Nat
      BY <2>1, ProbeStepsFacts
    <2>3. request.steps = Len(Probe!Steps) /\ request \in Requests(Nat)
      <3>1. request \in [mode          : IF inspect.on_held_page THEN {"held"} ELSE Modes \ {"held"},
                         halt_on_error : {TRUE},
                         credentials   : IF inspect.on_held_page THEN {FALSE} ELSE BOOLEAN,
                         steps         : {Len(Probe!Steps)}]
        BY <1>3 DEF Probe!ProbeInit, Probe!DefaultHaltOnError, Modes, Probe!Modes
      <3>2. QED
        BY <2>2, <3>1 DEF Requests, Modes
    <2>4. IInv
      BY <1>3, <2>3, FreshRun, RunnerSteps DEF Probe!ProbeInit
    <2>5. QED
      BY <1>3, <2>1, <2>3, <2>4 DEF RepliesInv, RequestFollowsCall, ShotCall
  <1>4. QED
    BY <1>1, <1>2, <1>3 DEF ReplyInit

(* The next item of a call begins with what the items before it gave.      *)
LEMMA NextItemKeeps ==
    ASSUME RepliesInv, ShotCall, Shot!NextItem
    PROVE  RepliesInv'
  <1>1. /\ ShotCallOK /\ StepsOK /\ Finished /\ TakenSoFar
        /\ call.endpoint = "items"
        /\ Shot!Taken # <<>>
    BY FinishedFacts DEF Shot!NextItem, RepliesInv, RequestFollowsCall, Shot!Succeeds,
       Shot!ArtefactMissing
  <1>2. /\ Shot!Shown \in [1..item -> Nat]
        /\ \A n \in 1..item : Shot!Shown[n] \in {n, Shot!Empty}
    BY <1>1, ItemReply
  <1>3. /\ call' = call /\ item' = item + 1 /\ taken' = Shot!Shown
        /\ item < Len(call.shots)
        /\ request' = [request EXCEPT !.steps = Len(Shot!Steps')]
    BY DEF Shot!NextItem
  <1>4. /\ item \in Nat /\ DOMAIN call.shots = 1..Len(call.shots) /\ Len(call.shots) \in Nat
        /\ call # ProbeCall
    BY <1>1, CallFacts, CallsApart DEF ShotCallOK
  <1>5. ShotCallOK'
    BY <1>1, <1>3, <1>4 DEF ShotCallOK
  <1>6. Len(Shot!Steps)' \in Nat
    <2>1. ShotCallOK' => (Len(Shot!Steps) \in Nat)'
      BY StepsCounted, PTL
    <2>2. QED
      BY <1>5, <2>1
  <1>7. request' \in Requests(Nat) /\ request'.steps = Len(Shot!Steps)'
    BY <1>3, <1>6 DEF RepliesInv, IInv, TypeOK, Requests
  <1>8. InitRun'
    BY DEF Shot!NextItem, InitRun
  <1>9. IInv'
    <2>1. (request \in Requests(Nat))' /\ InitRun' => IInv'
      BY FreshRun, PTL
    <2>2. QED
      BY <1>7, <1>8, <2>1
  <1>10. TakenSoFar'
    <2>1. item' - 1 = item
      BY <1>3, <1>4
    <2>2. /\ taken' \in [1..(item' - 1) -> Nat]
          /\ \A n \in 1..(item' - 1) : taken'[n] \in {n, Shot!Empty}
      BY <1>2, <1>3, <2>1
    <2>3. QED
      BY <1>1, <1>3, <2>2 DEF TakenSoFar
  <1>11. call' # ProbeCall
    BY <1>3, <1>4
  <1>12. QED
    BY <1>5, <1>7, <1>9, <1>10, <1>11 DEF RepliesInv, RequestFollowsCall

(* Every step of the composition keeps the invariant.                      *)
LEMMA RepliesStep == RepliesInv /\ [ReplyNext]_replyVars => RepliesInv'
  <1> SUFFICES ASSUME RepliesInv, [ReplyNext]_replyVars PROVE RepliesInv'
    OBVIOUS
  <1>0. IInv /\ RequestFollowsCall
    BY DEF RepliesInv
  <1>1. ASSUME Next, UNCHANGED <<call, item, taken, inspect>> PROVE RepliesInv'
    BY <1>0, <1>1, NextIInv, RequestKept, CallKept DEF RepliesInv
  <1>2. CASE OwnStep
    BY <1>1, <1>2 DEF OwnStep
  <1>3. CASE ShotStep
    <2>1. CASE Shot!RejectItem
      <3>1. IInv' /\ UNCHANGED <<call, item, taken, inspect, request>>
        BY <1>0, <1>3, <2>1, TurnedDown DEF ShotStep, Shot!RejectItem, Shot!GoTo
      <3>2. QED
        BY <1>0, <3>1, CallKept DEF RepliesInv
    <2>2. CASE Shot!RunSequence
      BY <1>1, <1>3, <2>2, RunnerSteps DEF ShotStep, Shot!RunSequence
    <2>3. CASE Shot!NextItem
      BY <1>3, <2>3, NextItemKeeps DEF ShotStep
    <2>4. QED
      BY <1>3, <2>1, <2>2, <2>3 DEF ShotStep, Shot!EndpointNext
  <1>4. CASE ProbeStep
    <2>1. CASE Probe!RejectProbe
      <3>1. IInv' /\ UNCHANGED <<call, item, taken, inspect, request>>
        BY <1>0, <1>4, <2>1, TurnedDown DEF ProbeStep, Probe!RejectProbe, Probe!GoTo
      <3>2. QED
        BY <1>0, <3>1, CallKept DEF RepliesInv
    <2>2. CASE Probe!RunSequence
      BY <1>1, <1>4, <2>2, RunnerSteps DEF ProbeStep, Probe!RunSequence
    <2>3. QED
      BY <1>4, <2>1, <2>2 DEF ProbeStep, Probe!ProbeNext
  <1>5. CASE UNCHANGED replyVars
    <2>1. IInv'
      BY <1>0, <1>5, NextIInv DEF replyVars
    <2>2. QED
      BY <1>0, <1>5, <2>1, CallKept DEF RepliesInv, replyVars, vars
  <1>6. QED
    BY <1>2, <1>3, <1>4, <1>5 DEF ReplyNext

(* The invariant of the composition holds in every reachable state.        *)
THEOREM RepliesInvariance == ReplySpec => []RepliesInv
  BY InitReplies, RepliesStep, PTL DEF ReplySpec

-----------------------------------------------------------------------------
(* What the endpoints promise.                                             *)

(* Each capture of a reply is in the place of its own shot, for any number *)
(* of shots, any mix of formats and wherever the deadline cut the run.     *)
THEOREM RepliesInPlace == ReplySpec => []CapturesInPlace
  <1>1. RepliesInv => CapturesInPlace
    BY GoodReply DEF CapturesInPlace, Shot!CapturesInPlace, ReplyOwes
  <1>2. QED
    BY <1>1, RepliesInvariance, PTL

(* The url that a one-shot call asks the page for is in its results.       *)
LEMMA UrlWasRead ==
    ASSUME StepsOK, Finished, call.endpoint = "oneShot", ~late
    PROVE  Shot!FinalUrlRead
  <1> DEFINE steps == Shot!Steps
             F == {p \in DOMAIN steps : steps[p].does = "url" /\ p \in PassedSteps}
  <1>1. /\ Shot!Found("url") = InOrder(F)
        /\ Enumerates(InOrder(F), Cardinality(F), F)
        /\ Cardinality(F) \in Nat
        /\ Len(Shot!Found("url")) = Cardinality(F)
    BY FoundIs
  <1>2. PICK p \in DOMAIN steps : steps[p] = [does |-> "url", shot |-> 1]
    BY DEF StepsOK, Has
  <1>3. p \in F
    BY <1>2 DEF Finished
  <1> HIDE DEF F
  <1>4. Cardinality(F) # 0
    BY <1>1, <1>3 DEF Enumerates
  <1>5. QED
    BY <1>1, <1>4 DEF Shot!FinalUrlRead

(* A reply that is not an error is complete, unless the deadline has       *)
(* passed: no capture is missing and no failure is behind it.              *)
THEOREM GoodRepliesComplete == ReplySpec => []CompleteUnlessLate
  <1>1. RepliesInv => CompleteUnlessLate
    <2> SUFFICES ASSUME RepliesInv, ShotCall, Shot!Succeeds, ~late
                 PROVE  /\ Len(Shot!Shown) = Len(Shot!Wanted)
                        /\ \A n \in DOMAIN Shot!Taken : Shot!Taken[n] # Shot!Empty
                        /\ call.endpoint = "oneShot" => Shot!FinalUrlRead
                        /\ Shot!Count("FAILED") = 0
      BY DEF CompleteUnlessLate, Shot!CompleteUnlessLate
    <2>1. ReplyOwes
      BY GoodReply
    <2>2. StepsOK /\ Finished /\ Count("FAILED") = 0
      BY FinishedFacts
    <2>3. QED
      BY <2>1, <2>2, UrlWasRead, SameCount DEF ReplyOwes
  <1>2. QED
    BY <1>1, RepliesInvariance, PTL

(* A capture shows the page as its shot left it: what was asked for up to  *)
(* that shot has passed before it, and nothing of a later shot has run.    *)
THEOREM CapturesAfterTheirSteps == ReplySpec => []CapturedAfterItsSteps
  <1>1. RepliesInv => CapturedAfterItsSteps
    <2> SUFFICES ASSUME RepliesInv, ShotCall, Shot!Succeeds,
                        NEW n \in DOMAIN Shot!Taken, Shot!Taken[n] # Shot!Empty,
                        NEW q \in DOMAIN Shot!Steps, Shot!Steps[q].does \in {"navigate", "act"}
                 PROVE  LET p == Shot!Taken[n]
                        IN  IF Shot!Steps[q].shot <= Shot!Steps[p].shot
                            THEN q < p /\ Shot!Passed(q)
                            ELSE q > p
      BY DEF CapturedAfterItsSteps, Shot!CapturedAfterItsSteps
    <2> DEFINE steps == Shot!Steps
               N == Len(steps)
               p == Shot!Taken[n]
    <2>1. StepsOK /\ Finished
      BY FinishedFacts
    <2>2. p \in CaptureSteps /\ p \in PassedSteps
      BY GoodReply DEF ReplyOwes
    <2>3. /\ N \in Nat /\ DOMAIN steps = 1..N /\ p \in 1..N /\ q \in 1..N
          /\ steps[p].does \in Captured /\ steps[q].does \notin Captured
          /\ p # q
      BY <2>1, <2>2 DEF StepsOK, CaptureSteps, Captured
    <2>4. \A i, j \in 1..N : i < j => <<steps[i], steps[j]>> \in Earlier
      BY <2>1, <2>3 DEF StepsOK, Ordered
    <2>5. steps[p] \in Entry /\ steps[q] \in Entry
      BY <2>1, <2>3 DEF StepsOK
    <2>6. steps[p].shot \in Nat /\ steps[q].shot \in Nat
      BY <2>5 DEF Entry
    <2> HIDE DEF steps, N, p
    <2>7. CASE q < p
      <3>1. <<steps[q], steps[p]>> \in Earlier
        BY <2>3, <2>4, <2>7
      <3>2. steps[q].shot <= steps[p].shot
        BY <2>6, <3>1 DEF Earlier
      <3>3. q \in PassedSteps
        BY <2>1, <2>2, <2>3, <2>7 DEF Finished, steps, N
      <3>4. Shot!Passed(q)
        BY <3>3 DEF PassedSteps, Shot!Passed
      <3>5. QED
        BY <2>7, <3>2, <3>4 DEF steps, p
    <2>8. CASE p < q
      <3>1. <<steps[p], steps[q]>> \in Earlier
        BY <2>3, <2>4, <2>8
      <3>2. steps[p].shot < steps[q].shot
        BY <2>3, <2>6, <3>1 DEF Earlier
      <3>3. ~(steps[q].shot <= steps[p].shot)
        BY <2>6, <3>2
      <3>4. QED
        BY <2>3, <2>8, <3>3 DEF steps, p
    <2>9. QED
      BY <2>3, <2>7, <2>8
  <1>2. QED
    BY <1>1, RepliesInvariance, PTL

(* Every result of an inspect or a session probe is returned under the     *)
(* step it belongs to, for any number of settle steps and probes.          *)
THEOREM ProbeResultsNamed == ReplySpec => []ResultsUnderTheirNames
  BY ProbeReply, RepliesInvariance, PTL

(* What the runner promises of its own sequences it promises of those that *)
(* the endpoints and the probes make, over a whole call.                   *)
THEOREM RepliesRunWell == ReplySpec => [](TypeOK /\ NoBrowserLeft /\ HaltedForGood /\ NoStepRunsTwice)
  <1>1. RepliesInv => TypeOK /\ NoBrowserLeft /\ HaltedForGood /\ NoStepRunsTwice
    BY DEF RepliesInv, IInv, BrowserFollowsRun
  <1>2. QED
    BY <1>1, RepliesInvariance, PTL
=============================================================================
