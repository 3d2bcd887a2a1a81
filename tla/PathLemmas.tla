----------------------------- MODULE PathLemmas -----------------------------
(***************************************************************************)
(* What the proofs need of the community modules' operators on sequences:  *)
(* the first and the last place of an element, and removing a place.       *)
(***************************************************************************)
EXTENDS Integers, Sequences, SequencesExt, SequenceTheorems, WellFoundedInduction, TLAPS

(* A set of numbers that is not empty has a least one. *)
LEMMA MinProperty ==
    ASSUME NEW I \in SUBSET Nat, I # {}
    PROVE  Min(I) \in I /\ \A j \in I : Min(I) <= j
<1>1. \E i \in I : \A j \in I : <<j, i>> \notin OpToRel(<, Nat)
  BY NatLessThanWellFounded, WFMin
<1>2. PICK i \in I : \A j \in I : <<j, i>> \notin OpToRel(<, Nat)
  BY <1>1
<1>3. \A j \in I : ~(j < i)
  BY <1>2 DEF OpToRel
<1>4. \A j \in I : i <= j
  BY <1>3
<1>5. QED
  BY <1>4 DEF Min

(* A bounded set of numbers that is not empty has a greatest one. *)
LEMMA MaxProperty ==
    ASSUME NEW n \in Nat, NEW I \in SUBSET (1..n), I # {}
    PROVE  Max(I) \in I /\ \A j \in I : Max(I) >= j
<1> DEFINE J == {n - i : i \in I}
<1>1. J \in SUBSET Nat /\ J # {}
  <2>1. \A i \in I : i \in 1..n /\ n - i \in Nat
    OBVIOUS
  <2>2. J \subseteq Nat
    BY <2>1
  <2>3. PICK i \in I : TRUE
    OBVIOUS
  <2>4. n - i \in J
    OBVIOUS
  <2>5. QED
    BY <2>2, <2>4
<1>2. Min(J) \in J /\ \A j \in J : Min(J) <= j
  BY <1>1, MinProperty
<1>3. PICK i \in I : Min(J) = n - i
  BY <1>2
<1>4. \A j \in I : i >= j
  <2> SUFFICES ASSUME NEW j \in I
               PROVE  i >= j
    OBVIOUS
  <2>1. n - j \in J
    OBVIOUS
  <2>2. n - i <= n - j
    BY <1>2, <1>3, <2>1
  <2>3. QED
    BY <2>2
<1>5. QED
  BY <1>4 DEF Max

(* Where SelectInSeq and SelectLastInSeq find an element; 0 if nowhere.    *)
FirstOf(s, e) == LET I == {i \in 1..Len(s) : s[i] = e} IN IF I # {} THEN Min(I) ELSE 0
LastOf(s, e) == LET I == {i \in 1..Len(s) : s[i] = e} IN IF I # {} THEN Max(I) ELSE 0

LEMMA FirstPlace ==
    ASSUME NEW S, NEW s \in Seq(S), NEW e
    PROVE  /\ FirstOf(s, e) \in 0..Len(s)
           /\ FirstOf(s, e) # 0 => s[FirstOf(s, e)] = e
           /\ FirstOf(s, e) = 0 => \A i \in 1..Len(s) : s[i] # e
<1> DEFINE I == {i \in 1..Len(s) : s[i] = e}
<1>1. CASE I # {}
  <2>1. I \in SUBSET Nat
    OBVIOUS
  <2>2. Min(I) \in I
    BY <1>1, <2>1, MinProperty
  <2>3. QED
    BY <1>1, <2>2 DEF FirstOf
<1>2. CASE I = {}
  BY <1>2 DEF FirstOf
<1>3. QED
  BY <1>1, <1>2

LEMMA LastPlace ==
    ASSUME NEW S, NEW s \in Seq(S), NEW e
    PROVE  /\ LastOf(s, e) \in 0..Len(s)
           /\ LastOf(s, e) # 0 => s[LastOf(s, e)] = e
           /\ LastOf(s, e) = 0 => \A i \in 1..Len(s) : s[i] # e
<1> DEFINE I == {i \in 1..Len(s) : s[i] = e}
<1>1. CASE I # {}
  <2>1. Len(s) \in Nat /\ I \in SUBSET (1..Len(s))
    OBVIOUS
  <2>2. Max(I) \in I
    BY <1>1, <2>1, MaxProperty
  <2>3. QED
    BY <1>1, <2>2 DEF LastOf
<1>2. CASE I = {}
  BY <1>2 DEF LastOf
<1>3. QED
  BY <1>1, <1>2

(* What is left when a place is removed. *)
LEMMA RemovedPlace ==
    ASSUME NEW S, NEW s \in Seq(S), NEW k \in 1..Len(s)
    PROVE  /\ RemoveAt(s, k) \in Seq(S)
           /\ Len(RemoveAt(s, k)) = Len(s) - 1
           /\ \A i \in 1..(Len(s) - 1) :
                  RemoveAt(s, k)[i] = IF i < k THEN s[i] ELSE s[i + 1]
<1> DEFINE low == SubSeq(s, 1, k - 1)
           high == SubSeq(s, k + 1, Len(s))
<1>1. Len(s) \in Nat /\ k \in Nat
  OBVIOUS
<1>2. low \in Seq(S) /\ Len(low) = k - 1 /\ \A i \in 1..(k - 1) : low[i] = s[i]
  BY <1>1
<1>3. high \in Seq(S) /\ Len(high) = Len(s) - k /\ \A i \in 1..(Len(s) - k) : high[i] = s[i + k]
  BY <1>1
<1>4. RemoveAt(s, k) = low \o high
  BY DEF RemoveAt
<1> HIDE DEF low, high
<1>5. /\ low \o high \in Seq(S) /\ Len(low \o high) = Len(low) + Len(high)
      /\ \A i \in 1..(Len(low) + Len(high)) :
             (low \o high)[i] = IF i <= Len(low) THEN low[i] ELSE high[i - Len(low)]
  BY <1>2, <1>3, ConcatProperties
<1>6. ASSUME NEW i \in 1..(Len(s) - 1)
      PROVE  RemoveAt(s, k)[i] = IF i < k THEN s[i] ELSE s[i + 1]
  <2>1. CASE i < k
    <3>1. i \in 1..(k - 1) /\ i \in 1..(Len(low) + Len(high)) /\ i <= Len(low)
      BY <1>1, <1>2, <1>3, <2>1
    <3>2. QED
      BY <1>2, <1>4, <1>5, <2>1, <3>1
  <2>2. CASE ~(i < k)
    <3>1. /\ i - Len(low) \in 1..(Len(s) - k) /\ (i - Len(low)) + k = i + 1
          /\ i \in 1..(Len(low) + Len(high)) /\ ~(i <= Len(low))
      BY <1>1, <1>2, <1>3, <2>2
    <3>2. QED
      BY <1>3, <1>4, <1>5, <2>2, <3>1
  <2>3. QED
    BY <2>1, <2>2
<1>7. QED
  BY <1>1, <1>2, <1>3, <1>4, <1>5, <1>6
=============================================================================
