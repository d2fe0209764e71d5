----------------------------- MODULE ProofFacts -----------------------------
(***************************************************************************)
(* Facts about natural numbers, finite sets and sequences that the proofs  *)
(* about several modules use.  Induction is stated over a set, the numbers *)
(* or the subsets for which the claim holds.                               *)
(***************************************************************************)
EXTENDS Integers, SequencesExt, WellFoundedInduction, FiniteSetTheorems, FunctionTheorems, TLAPS

(* Induction over the natural numbers, by a least counterexample.          *)
LEMMA NatInductionOver ==
  ASSUME NEW P, 0 \in P, \A n \in Nat : n \in P => n + 1 \in P
  PROVE  Nat \subseteq P
<1>1. SUFFICES ASSUME Nat \ P # {} PROVE FALSE
  OBVIOUS
<1>2. PICK m \in Nat \ P : \A k \in Nat \ P : <<k, m>> \notin OpToRel(<, Nat)
  <2>1. IsWellFoundedOn(OpToRel(<, Nat), Nat)
    BY NatLessThanWellFounded
  <2>2. QED
    BY <1>1, <2>1, WFMin
<1>3. m - 1 \in Nat /\ (m - 1) + 1 = m /\ m - 1 < m
  <2>1. m \in Nat /\ m # 0
    BY <1>2
  <2>2. QED
    BY <2>1
<1>4. m - 1 \notin P
  BY <1>2, <1>3
<1>5. QED
  BY <1>2, <1>3, <1>4 DEF OpToRel

(* Induction over the subsets of a finite set, by a least counterexample.  *)
LEMMA SubsetInductionOver ==
  ASSUME NEW S, IsFiniteSet(S), NEW P, {} \in P,
         \A T \in SUBSET S : \A x \in S : T \in P /\ x \notin T => T \cup {x} \in P
  PROVE  S \in P
<1>1. SUFFICES ASSUME (SUBSET S) \ P # {} PROVE FALSE
  OBVIOUS
<1>2. PICK m \in (SUBSET S) \ P :
        \A k \in (SUBSET S) \ P : <<k, m>> \notin StrictSubsetOrdering(S)
  <2>1. IsWellFoundedOn(StrictSubsetOrdering(S), SUBSET S)
    BY FS_StrictSubsetOrderingWellFounded, FS_FiniteSubsetsOfFinite
  <2>2. QED
    BY <1>1, <2>1, WFMin
<1>3. PICK x \in m : TRUE
  BY <1>2
<1>4. m \ {x} \in P
  <2>1. m \ {x} \in SUBSET S /\ m \in SUBSET S /\ m \ {x} \subseteq m /\ m \ {x} # m
    BY <1>2, <1>3
  <2>2. <<m \ {x}, m>> \in StrictSubsetOrdering(S)
    BY <2>1 DEF StrictSubsetOrdering
  <2>3. QED
    BY <1>2, <2>1, <2>2
<1>5. m = (m \ {x}) \cup {x}
  BY <1>3
<1>6. QED
  BY <1>2, <1>3, <1>4, <1>5

-----------------------------------------------------------------------------
(* A nonempty set of natural numbers has a least element.                  *)
LEMMA MinOfNaturals ==
  ASSUME NEW S \in SUBSET Nat, S # {}
  PROVE  Min(S) \in S /\ \A n \in S : Min(S) <= n
<1>1. PICK m \in S : \A k \in S : <<k, m>> \notin OpToRel(<, Nat)
  <2>1. IsWellFoundedOn(OpToRel(<, Nat), Nat)
    BY NatLessThanWellFounded
  <2>2. QED
    BY <2>1, WFMin
<1>2. ASSUME NEW n \in S PROVE m <= n
  <2>1. m \in Nat /\ n \in Nat
    OBVIOUS
  <2>2. ~(n < m)
    BY <1>1, <2>1 DEF OpToRel
  <2>3. QED
    BY <2>1, <2>2
<1>3. QED
  BY <1>2 DEF Min

(* A finite set of natural numbers has a bound.                            *)
LEMMA BoundOfNaturals ==
  ASSUME NEW S \in SUBSET Nat, IsFiniteSet(S)
  PROVE  \E b \in Nat : \A n \in S : n < b
<1> DEFINE P == {T \in SUBSET S : \E b \in Nat : \A n \in T : n < b}
<1>1. {} \in P
  OBVIOUS
<1>2. ASSUME NEW T \in SUBSET S, NEW x \in S, T \in P PROVE T \cup {x} \in P
  <2>1. PICK b \in Nat : \A n \in T : n < b
    BY <1>2
  <2>2. PICK c \in Nat : c = IF x < b THEN b ELSE x + 1
    OBVIOUS
  <2>3. \A n \in T \cup {x} : n < c
    BY <2>1, <2>2
  <2>4. QED
    BY <2>3
<1> HIDE DEF P
<1>3. S \in P
  BY <1>1, <1>2, SubsetInductionOver
<1>4. QED
  BY <1>3 DEF P

-----------------------------------------------------------------------------
(* A sequence that lists a finite set has its elements.                    *)
LEMMA ListElements ==
  ASSUME NEW S, IsFiniteSet(S), NEW s \in SetToSeqs(S)
  PROVE  s \in Seq(S) /\ DOMAIN s = 1 .. Cardinality(S) /\ ToSet(s) = S
<1>1. /\ Cardinality(S) \in Nat /\ s \in [1 .. Cardinality(S) -> S]
      /\ \A i, j \in 1 .. Cardinality(S) : i # j => s[i] # s[j]
  BY FS_CardinalityType DEF SetToSeqs
<1>2. s \in Injection(1 .. Cardinality(S), S)
  BY <1>1, Fun_IsInj
<1>3. s \in Surjection(1 .. Cardinality(S), S)
  <2>1. Cardinality(1 .. Cardinality(S)) = Cardinality(S)
    BY <1>1, FS_Interval
  <2>2. QED
    BY <1>2, <2>1, FS_Injection
<1>4. s \in Seq(S) /\ DOMAIN s = 1 .. Cardinality(S)
  BY <1>1
<1>5. ToSet(s) = S
  <2>1. \A x \in S : \E i \in 1 .. Cardinality(S) : s[i] = x
    BY <1>3 DEF Surjection
  <2>2. \A i \in 1 .. Cardinality(S) : s[i] \in S
    BY <1>1
  <2>3. QED
    BY <1>4, <2>1, <2>2 DEF ToSet
<1>6. QED
  BY <1>4, <1>5

(* A finite set can be listed.                                             *)
LEMMA ListExists ==
  ASSUME NEW S, IsFiniteSet(S)
  PROVE  \E s : s \in SetToSeqs(S)
<1>1. Cardinality(S) \in Nat /\ ExistsBijection(1 .. Cardinality(S), S)
  BY FS_CardinalityType
<1>2. PICK b \in Bijection(1 .. Cardinality(S), S) : TRUE
  BY <1>1 DEF ExistsBijection
<1>3. b \in SetToSeqs(S)
  BY <1>2, Fun_BijectionProperties DEF SetToSeqs
<1>4. QED
  BY <1>3

(* A finite set of natural numbers can be listed in their order.           *)
Ascending(s) == \A i, j \in DOMAIN s : i < j => s[i] < s[j]

(* A finite set of numbers can be listed in ascending order.               *)
LEMMA AscendingExists ==
  ASSUME NEW S \in SUBSET Nat, IsFiniteSet(S)
  PROVE  \E s \in SetToSeqs(S) : Ascending(s)
<1> DEFINE Listed(T) == \E s \in SetToSeqs(T) : Ascending(s)
           P == {n \in Nat : \A T \in SUBSET S : (\A x \in T : x < n) => Listed(T)}
<1>1. 0 \in P
  <2>1. ASSUME NEW T \in SUBSET S, \A x \in T : x < 0 PROVE Listed(T)
    <3>1. T = {}
      BY <2>1
    <3>2. Cardinality(T) = 0 /\ 1 .. 0 = {}
      BY <3>1, FS_EmptySet
    <3>3. << >> \in SetToSeqs(T)
      BY <3>1, <3>2 DEF SetToSeqs
    <3>4. Ascending(<< >>)
      BY DEF Ascending
    <3>5. QED
      BY <3>3, <3>4
  <2>2. QED
    BY <2>1
<1>2. ASSUME NEW n \in Nat, n \in P PROVE n + 1 \in P
  <2>1. SUFFICES ASSUME NEW T \in SUBSET S, \A x \in T : x < n + 1 PROVE Listed(T)
    OBVIOUS
  <2>2. CASE n \notin T
    <3>1. \A x \in T : x < n
      BY <2>1, <2>2
    <3>2. QED
      BY <1>2, <3>1
  <2>3. CASE n \in T
    <3>1. PICK U : U = T \ {n}
      OBVIOUS
    <3>2. U \in SUBSET S /\ \A x \in U : x < n
      BY <2>1, <3>1
    <3>3. PICK s \in SetToSeqs(U) : Ascending(s)
      BY <1>2, <3>2
    <3>4. /\ IsFiniteSet(T) /\ IsFiniteSet(U)
          /\ Cardinality(U) \in Nat /\ Cardinality(T) = Cardinality(U) + 1
      <4>1. IsFiniteSet(T) /\ IsFiniteSet(U)
        BY <2>1, <3>2, FS_Subset
      <4>2. Cardinality(T) \in Nat /\ Cardinality(U) \in Nat
        BY <4>1, FS_CardinalityType
      <4>3. Cardinality(U) = Cardinality(T) - 1
        BY <2>3, <3>1, <4>1, FS_RemoveElement
      <4>4. QED
        BY <4>1, <4>2, <4>3
    <3>5. PICK c \in Nat : c = Cardinality(U) /\ Cardinality(T) = c + 1
      BY <3>4
    <3>6. s \in [1 .. c -> U] /\ \A i, j \in 1 .. c : i # j => s[i] # s[j]
      BY <3>3, <3>5 DEF SetToSeqs
    <3> DEFINE t == [i \in 1 .. c + 1 |-> IF i = c + 1 THEN n ELSE s[i]]
    <3>7. t \in [1 .. c + 1 -> T]
      BY <2>3, <3>1, <3>6
    <3>8. \A i, j \in 1 .. c + 1 : i < j => t[i] < t[j]
      <4>1. \A i, j \in 1 .. c : i < j => s[i] < s[j]
        BY <3>3, <3>6 DEF Ascending
      <4>2. \A i \in 1 .. c : s[i] < n
        BY <3>2, <3>6
      <4>3. QED
        BY <4>1, <4>2
    <3>9. \A i, j \in 1 .. c + 1 : i # j => t[i] # t[j]
      <4>1. \A i \in 1 .. c + 1 : t[i] \in Nat
        BY <3>7
      <4>2. ASSUME NEW i \in 1 .. c + 1, NEW j \in 1 .. c + 1, i # j PROVE t[i] # t[j]
        <5>1. i < j \/ j < i
          BY <4>2
        <5>2. t[i] < t[j] \/ t[j] < t[i]
          BY <3>8, <5>1
        <5>3. QED
          BY <4>1, <5>2
      <4>3. QED
        BY <4>2
    <3>10. t \in SetToSeqs(T)
      BY <3>5, <3>7, <3>9 DEF SetToSeqs
    <3>11. Ascending(t)
      BY <3>8 DEF Ascending
    <3>12. QED
      BY <3>10, <3>11
  <2>4. QED
    BY <2>2, <2>3
<1> HIDE DEF P
<1>3. Nat \subseteq P
  BY <1>1, <1>2, NatInductionOver
<1>4. PICK b \in Nat : \A n \in S : n < b
  BY BoundOfNaturals
<1>5. QED
  BY <1>3, <1>4 DEF P

-----------------------------------------------------------------------------
(* Two sequences one after the other have the elements of both.            *)
LEMMA ToSetConcat ==
  ASSUME NEW S, NEW s \in Seq(S), NEW t \in Seq(S)
  PROVE  ToSet(s \o t) = ToSet(s) \cup ToSet(t)
<1>1. /\ s \o t \in Seq(S) /\ Len(s \o t) = Len(s) + Len(t)
      /\ \A i \in 1 .. Len(s) : (s \o t)[i] = s[i]
      /\ \A i \in 1 .. Len(t) : (s \o t)[Len(s) + i] = t[i]
  OBVIOUS
<1>2. DOMAIN s = 1 .. Len(s) /\ DOMAIN t = 1 .. Len(t) /\ DOMAIN (s \o t) = 1 .. Len(s \o t)
  BY <1>1
<1>3. ToSet(s) \subseteq ToSet(s \o t)
  BY <1>1, <1>2 DEF ToSet
<1>4. ToSet(t) \subseteq ToSet(s \o t)
  BY <1>1, <1>2 DEF ToSet
<1>5. ASSUME NEW i \in DOMAIN (s \o t)
      PROVE  (s \o t)[i] \in ToSet(s) \cup ToSet(t)
  <2>1. CASE i <= Len(s)
    BY <1>1, <1>2, <2>1 DEF ToSet
  <2>2. CASE i > Len(s)
    <3>1. i - Len(s) \in 1 .. Len(t) /\ i = Len(s) + (i - Len(s))
      BY <1>1, <1>2, <2>2
    <3>2. QED
      BY <1>1, <1>2, <3>1 DEF ToSet
  <2>3. QED
    BY <1>1, <1>2, <2>1, <2>2
<1>6. QED
  BY <1>1, <1>3, <1>4, <1>5 DEF ToSet

(* What a sequence of S holds is in S, and a sequence whose elements are   *)
(* in T is a sequence of T.                                                *)
LEMMA ElementsOfSeq ==
  ASSUME NEW S, NEW s \in Seq(S)
  PROVE  /\ ToSet(s) \subseteq S
         /\ DOMAIN s = 1 .. Len(s) /\ Len(s) \in Nat
         /\ \A T : ToSet(s) \subseteq T => s \in Seq(T)
<1>1. DOMAIN s = 1 .. Len(s) /\ Len(s) \in Nat /\ \A i \in 1 .. Len(s) : s[i] \in S
  OBVIOUS
<1>2. ToSet(s) \subseteq S
  BY <1>1 DEF ToSet
<1>3. ASSUME NEW T, ToSet(s) \subseteq T PROVE s \in Seq(T)
  <2>1. \A i \in 1 .. Len(s) : s[i] \in T
    BY <1>1, <1>3 DEF ToSet
  <2>2. QED
    BY <2>1
<1>4. QED
  BY <1>1, <1>2, <1>3

(* A nonempty sequence is its front and its last element.                  *)
LEMMA FrontAndLast ==
  ASSUME NEW S, NEW s \in Seq(S), s # << >>
  PROVE  /\ Last(s) \in S /\ Last(s) = s[Len(s)] /\ Len(s) \in Nat \ {0}
         /\ Front(s) \in Seq(S) /\ Len(Front(s)) = Len(s) - 1
         /\ \A i \in 1 .. Len(s) - 1 : Front(s)[i] = s[i]
         /\ ToSet(s) = ToSet(Front(s)) \cup {Last(s)}
<1>1. /\ Last(s) \in S /\ Last(s) = s[Len(s)] /\ Len(s) \in Nat \ {0}
      /\ Front(s) \in Seq(S) /\ Len(Front(s)) = Len(s) - 1
      /\ \A i \in 1 .. Len(s) - 1 : Front(s)[i] = s[i]
  <2>1. Len(s) \in Nat \ {0} /\ \A i \in 1 .. Len(s) : s[i] \in S
    OBVIOUS
  <2>2. PICK n \in Nat : n = Len(s) - 1 /\ Len(s) = n + 1
    BY <2>1
  <2>3. \A i \in 1 .. n : s[i] \in S
    BY <2>1, <2>2
  <2>4. /\ SubSeq(s, 1, n) \in Seq(S) /\ Len(SubSeq(s, 1, n)) = n
        /\ \A i \in 1 .. n : SubSeq(s, 1, n)[i] = s[i]
    BY <2>2
  <2>5. Front(s) = SubSeq(s, 1, n)
    BY <2>2 DEF Front
  <2>6. Last(s) = s[Len(s)] /\ Last(s) \in S
    BY <2>1 DEF Last
  <2>7. QED
    BY <2>1, <2>2, <2>4, <2>5, <2>6
<1>2. DOMAIN s = 1 .. Len(s) /\ DOMAIN Front(s) = 1 .. Len(s) - 1
  BY <1>1
<1>3. ToSet(s) \subseteq ToSet(Front(s)) \cup {Last(s)}
  <2>1. ASSUME NEW i \in DOMAIN s PROVE s[i] \in ToSet(Front(s)) \cup {Last(s)}
    <3>1. i = Len(s) \/ i \in 1 .. Len(s) - 1
      BY <1>1, <1>2
    <3>2. QED
      BY <1>1, <1>2, <3>1 DEF ToSet
  <2>2. QED
    BY <2>1 DEF ToSet
<1>4. ToSet(Front(s)) \cup {Last(s)} \subseteq ToSet(s)
  <2>1. Len(s) \in 1 .. Len(s) /\ \A i \in 1 .. Len(s) - 1 : i \in 1 .. Len(s)
    BY <1>1
  <2>2. QED
    BY <1>1, <1>2, <2>1 DEF ToSet
<1>5. QED
  BY <1>1, <1>3, <1>4

(* A nonempty sequence is its head and its tail.                           *)
LEMMA HeadAndTail ==
  ASSUME NEW S, NEW s \in Seq(S), s # << >>
  PROVE  /\ Head(s) \in S /\ Tail(s) \in Seq(S)
         /\ ToSet(s) = {Head(s)} \cup ToSet(Tail(s))
<1>1. /\ Head(s) \in S /\ Tail(s) \in Seq(S) /\ Len(s) \in Nat \ {0}
      /\ Head(s) = s[1] /\ Len(Tail(s)) = Len(s) - 1
      /\ \A i \in 1 .. Len(s) - 1 : Tail(s)[i] = s[i + 1]
  OBVIOUS
<1>2. DOMAIN s = 1 .. Len(s) /\ DOMAIN Tail(s) = 1 .. Len(s) - 1
  BY <1>1
<1>3. ToSet(s) \subseteq {Head(s)} \cup ToSet(Tail(s))
  <2>1. ASSUME NEW i \in DOMAIN s PROVE s[i] \in {Head(s)} \cup ToSet(Tail(s))
    <3>1. i = 1 \/ (i - 1 \in 1 .. Len(s) - 1 /\ (i - 1) + 1 = i)
      BY <1>1, <1>2
    <3>2. QED
      BY <1>1, <1>2, <3>1 DEF ToSet
  <2>2. QED
    BY <2>1 DEF ToSet
<1>4. {Head(s)} \cup ToSet(Tail(s)) \subseteq ToSet(s)
  <2>1. 1 \in 1 .. Len(s) /\ \A i \in 1 .. Len(s) - 1 : i + 1 \in 1 .. Len(s)
    BY <1>1
  <2>2. QED
    BY <1>1, <1>2, <2>1 DEF ToSet
<1>5. QED
  BY <1>1, <1>3, <1>4

(* Appending adds one element.                                             *)
LEMMA ToSetAppend ==
  ASSUME NEW S, NEW s \in Seq(S), NEW e
  PROVE  ToSet(Append(s, e)) = ToSet(s) \cup {e}
<1>1. /\ Len(Append(s, e)) = Len(s) + 1 /\ Len(s) \in Nat
      /\ \A i \in 1 .. Len(s) : Append(s, e)[i] = s[i]
      /\ Append(s, e)[Len(s) + 1] = e
  OBVIOUS
<1>2. DOMAIN s = 1 .. Len(s) /\ DOMAIN Append(s, e) = 1 .. Len(s) + 1
  OBVIOUS
<1>3. ASSUME NEW i \in DOMAIN Append(s, e) PROVE Append(s, e)[i] \in ToSet(s) \cup {e}
  <2>1. i = Len(s) + 1 \/ i \in 1 .. Len(s)
    BY <1>1, <1>2
  <2>2. QED
    BY <1>1, <1>2, <2>1 DEF ToSet
<1>4. ToSet(s) \cup {e} \subseteq ToSet(Append(s, e))
  <2>1. Len(s) + 1 \in 1 .. Len(s) + 1 /\ \A i \in 1 .. Len(s) : i \in 1 .. Len(s) + 1
    BY <1>1
  <2>2. QED
    BY <1>1, <1>2, <2>1 DEF ToSet
<1>5. QED
  BY <1>3, <1>4 DEF ToSet

(* Replacing one element of a sequence.                                    *)
LEMMA ReplaceElement ==
  ASSUME NEW S, NEW s \in Seq(S), NEW i \in 1 .. Len(s), NEW e \in S
  PROVE  /\ [s EXCEPT ![i] = e] \in Seq(S) /\ Len([s EXCEPT ![i] = e]) = Len(s)
         /\ DOMAIN [s EXCEPT ![i] = e] = 1 .. Len(s)
         /\ \A j \in 1 .. Len(s) : [s EXCEPT ![i] = e][j] = IF j = i THEN e ELSE s[j]
OBVIOUS

(* Replacing the last element leaves the front.                            *)
WithLast(s, e) == [s EXCEPT ![Len(s)] = e]

LEMMA ReplaceLast ==
  ASSUME NEW S, NEW s \in Seq(S), s # << >>, NEW e \in S
  PROVE  WithLast(s, e) \in Seq(S) /\ ToSet(WithLast(s, e)) = ToSet(Front(s)) \cup {e}
<1>1. PICK n \in Nat : n = Len(s) /\ n > 0
  BY FrontAndLast
<1> DEFINE t == [s EXCEPT ![n] = e]
<1>2. /\ Front(s) \in Seq(S) /\ Len(Front(s)) = n - 1
      /\ \A i \in 1 .. n - 1 : Front(s)[i] = s[i]
  BY <1>1, FrontAndLast
<1>3. DOMAIN Front(s) = 1 .. n - 1
  BY <1>2, ElementsOfSeq
<1>4. n \in 1 .. n /\ n \in 1 .. Len(s)
  BY <1>1
<1>5. DOMAIN t = 1 .. n /\ \A j \in 1 .. n : t[j] = IF j = n THEN e ELSE s[j]
  BY <1>1, <1>4, ReplaceElement
<1> HIDE DEF t
<1>6. \A j \in 1 .. n : j = n \/ (j \in 1 .. n - 1 /\ j # n)
  BY <1>1
<1>7. \A j \in 1 .. n - 1 : j \in 1 .. n /\ j # n
  BY <1>1
<1>8. \A j \in DOMAIN t : t[j] \in ToSet(Front(s)) \cup {e}
  BY <1>2, <1>3, <1>5, <1>6 DEF ToSet
<1>9. ToSet(Front(s)) \cup {e} \subseteq ToSet(t)
  BY <1>2, <1>3, <1>4, <1>5, <1>7 DEF ToSet
<1>10. ToSet(t) = ToSet(Front(s)) \cup {e}
  BY <1>8, <1>9 DEF ToSet
<1>11. WithLast(s, e) = t /\ t \in Seq(S)
  BY <1>1 DEF t, WithLast
<1>12. QED
  BY <1>10, <1>11
=============================================================================
