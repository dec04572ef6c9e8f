-------------------------- MODULE SubsequenceTheorems --------------------------
(***************************************************************************)
(* What the operators of Subsequences return, for every sequence: exactly  *)
(* the elements that are asked for, no more of them, in their order.       *)
(***************************************************************************)
EXTENDS Subsequences, FiniteSetTheorems, SequenceTheorems, WellFoundedInduction, TLAPS

(* Every set of natural numbers has a least element; with it, what a step  *)
(* of induction would show is shown by a least counterexample.             *)
LEMMA LeastNat ==
    ASSUME NEW T, T \subseteq Nat, T # {}
    PROVE  \E x \in T : \A y \in T : x <= y
<1>1. OpToRel(<, Nat) = {p \in Nat \X Nat : p[1] < p[2]}
  BY DEF OpToRel
<1>2. \E x \in T : \A y \in T : ~ (<<y, x>> \in {p \in Nat \X Nat : p[1] < p[2]})
  BY <1>1, NatLessThanWellFounded, WFMin, ZenonT(30)
<1>3. \A x, y \in T : <<y, x>> \in {p \in Nat \X Nat : p[1] < p[2]} <=> y < x
  OBVIOUS
<1>4. \E x \in T : \A y \in T : ~ (y < x)
  BY <1>2, <1>3
<1> QED
  BY <1>4

(* The number of elements of S up to i, from which the position of i in    *)
(* the sorted S follows.                                                   *)
Upto(S, i) == {j \in S : j <= i}
Count(S, i) == Cardinality(Upto(S, i))

LEMMA CountType ==
    ASSUME NEW S, IsFiniteSet(S), NEW i
    PROVE  IsFiniteSet(Upto(S, i)) /\ Count(S, i) \in Nat /\ Count(S, i) <= Cardinality(S)
<1>1. Upto(S, i) \subseteq S
  BY DEF Upto
<1> QED
  BY <1>1, FS_Subset, FS_CardinalityType DEF Count

LEMMA CountGrows ==
    ASSUME NEW S, IsFiniteSet(S), S \subseteq Nat, NEW i \in S, NEW j \in S, i < j
    PROVE  Count(S, i) < Count(S, j)
<1>1. i \in Nat /\ j \in Nat /\ \A h \in S : h \in Nat
  OBVIOUS
<1>2. Upto(S, i) \subseteq Upto(S, j)
  <2>1. \A h \in S : h <= i => h <= j
    BY <1>1
  <2> QED
    BY <2>1 DEF Upto
<1>3. j \in Upto(S, j) /\ j \notin Upto(S, i)
  BY <1>1 DEF Upto
<1> QED
  BY <1>2, <1>3, CountType, FS_Subset DEF Count

LEMMA CountStep ==
    ASSUME NEW S, IsFiniteSet(S), S \subseteq Nat, NEW m \in Nat, m # 0
    PROVE  /\ m \notin S => Count(S, m) = Count(S, m - 1)
           /\ m \in S => Count(S, m) = Count(S, m - 1) + 1
<1>1. m - 1 \in Nat /\ \A h \in S : h \in Nat
  OBVIOUS
<1>2. m \notin S => Upto(S, m) = Upto(S, m - 1)
  <2>1. ASSUME m \notin S, NEW h \in S PROVE h <= m <=> h <= m - 1
    BY <1>1, <2>1
  <2> QED
    BY <2>1 DEF Upto
<1>3. m \in S => Upto(S, m) = Upto(S, m - 1) \cup {m} /\ m \notin Upto(S, m - 1)
  <2>1. ASSUME NEW h \in S PROVE h <= m <=> h <= m - 1 \/ h = m
    BY <1>1, <2>1
  <2>2. ~(m <= m - 1)
    BY <1>1
  <2> QED
    BY <2>1, <2>2 DEF Upto
<1>4. IsFiniteSet(Upto(S, m - 1))
  BY CountType
<1> QED
  BY <1>2, <1>3, <1>4, FS_AddElement DEF Count

(* Each position of the sorted S is taken by one element.                  *)
LEMMA CountOnto ==
    ASSUME NEW S, IsFiniteSet(S), S \subseteq Nat \ {0},
           NEW top \in Nat, \A j \in S : j <= top
    PROVE  /\ \A i \in S : Count(S, i) \in 1..Cardinality(S)
           /\ \A i, j \in S : Count(S, i) = Count(S, j) => i = j
           /\ \A n \in 1..Cardinality(S) : \E i \in S : Count(S, i) = n
<1>1. ASSUME NEW i \in S PROVE Count(S, i) \in 1..Cardinality(S)
  <2>1. i \in Upto(S, i)
    BY DEF Upto
  <2>2. Count(S, i) # 0
    BY <2>1, CountType, FS_EmptySet DEF Count
  <2> QED
    BY <2>2, CountType, FS_CardinalityType
<1>2. ASSUME NEW i \in S, NEW j \in S, Count(S, i) = Count(S, j) PROVE i = j
  <2>1. ~(i < j) /\ ~(j < i)
    <3>1. Count(S, i) < Count(S, j) \/ Count(S, j) < Count(S, i) => FALSE
      BY <1>2, CountType
    <3> QED
      BY <3>1, CountGrows
  <2> QED
    BY <2>1
<1>3. ASSUME NEW n \in 1..Cardinality(S) PROVE \E i \in S : Count(S, i) = n
  <2> DEFINE T == {h \in Nat : Count(S, h) >= n}
  <2>1. Upto(S, top) = S
    BY DEF Upto
  <2>2. top \in T
    BY <2>1, FS_CardinalityType DEF Count
  <2>3. PICK m \in T : \A h \in T : m <= h
    BY <2>2, LeastNat
  <2>4. m \in Nat /\ Count(S, m) >= n /\ Count(S, m) \in Nat /\ n \in Nat /\ n >= 1
    BY <2>3, CountType, FS_CardinalityType
  <2>5. m # 0
    <3>1. \A h \in S : ~(h <= 0)
      OBVIOUS
    <3>2. Upto(S, 0) = {}
      BY <3>1 DEF Upto
    <3> QED
      BY <2>4, <3>2, FS_EmptySet DEF Count
  <2>6. m - 1 \in Nat /\ Count(S, m - 1) \in Nat /\ Count(S, m - 1) < n
    <3>1. m - 1 \in Nat /\ ~(m <= m - 1)
      BY <2>4, <2>5
    <3>2. m - 1 \notin T
      BY <2>3, <3>1
    <3> QED
      BY <2>4, <3>1, <3>2, CountType
  <2>7. m \in S /\ Count(S, m) = n
    <3>1. S \subseteq Nat
      OBVIOUS
    <3>2. m \notin S => Count(S, m) = Count(S, m - 1)
      BY <2>4, <2>5, <3>1, CountStep
    <3>3. m \in S => Count(S, m) = Count(S, m - 1) + 1
      BY <2>4, <2>5, <3>1, CountStep
    <3> QED
      BY <2>4, <2>6, <3>2, <3>3
  <2> QED
    BY <2>7
<1> QED
  BY <1>1, <1>2, <1>3

LEMMA IntervalCounts ==
    ASSUME NEW n \in Nat PROVE IsFiniteSet(1..n) /\ Cardinality(1..n) = n
<1>1. IsFiniteSet(1..n) /\ Cardinality(1..n) = IF 1 > n THEN 0 ELSE n - 1 + 1
  BY FS_Interval
<1> QED
  BY <1>1

(* Subsequence takes exactly the elements at the given positions.          *)
LEMMA SubsequenceKept ==
    ASSUME NEW T, NEW seq \in Seq(T), NEW S \in SUBSET (1..Len(seq))
    PROVE  /\ Subsequence(seq, S) \in Seq(T)
           /\ Len(Subsequence(seq, S)) = Cardinality(S) /\ Cardinality(S) <= Len(seq)
           /\ \A i \in S : \E n \in 1..Len(Subsequence(seq, S)) :
                 Subsequence(seq, S)[n] = seq[i]
           /\ \A n \in 1..Len(Subsequence(seq, S)) : \E i \in S :
                 Subsequence(seq, S)[n] = seq[i]
<1> DEFINE N == Cardinality(S)
           place(n) == CHOOSE i \in S : Count(S, i) = n
<1>1. /\ Len(seq) \in Nat /\ seq \in [1..Len(seq) -> T]
      /\ S \subseteq Nat \ {0} /\ \A j \in S : j <= Len(seq)
  OBVIOUS
<1>2. IsFiniteSet(S) /\ N \in Nat /\ N <= Len(seq)
  <2>1. IsFiniteSet(1..Len(seq)) /\ Cardinality(1..Len(seq)) = Len(seq)
    BY <1>1, IntervalCounts
  <2> QED
    BY <2>1, FS_Subset, FS_CardinalityType
<1>3. /\ \A i \in S : Count(S, i) \in 1..N
      /\ \A i, j \in S : Count(S, i) = Count(S, j) => i = j
      /\ \A n \in 1..N : \E i \in S : Count(S, i) = n
  BY <1>1, <1>2, CountOnto
<1>4. \A n \in 1..N : place(n) \in S
  BY <1>3
<1>5. \A i \in S : place(Count(S, i)) = i
  BY <1>3
<1>6. Subsequence(seq, S) = [n \in 1..N |-> seq[place(n)]]
  BY DEF Subsequence, Count, Upto
<1> HIDE DEF place, N
<1>7. Subsequence(seq, S) \in [1..N -> T]
  BY <1>1, <1>4, <1>6
<1>8. Subsequence(seq, S) \in Seq(T) /\ Len(Subsequence(seq, S)) = N
  BY <1>2, <1>7
<1> QED
  BY <1>2, <1>3, <1>4, <1>5, <1>6, <1>8 DEF N

(* All positions taken, it is the sequence itself.                         *)
LEMMA SubsequenceWhole ==
    ASSUME NEW T, NEW seq \in Seq(T) PROVE Subsequence(seq, 1..Len(seq)) = seq
<1> DEFINE S == 1..Len(seq)
<1>1. Len(seq) \in Nat /\ Cardinality(S) = Len(seq) /\ seq = [n \in S |-> seq[n]]
  BY IntervalCounts
<1>2. ASSUME NEW n \in S, NEW i \in S PROVE Cardinality({j \in S : j <= i}) = n <=> i = n
  <2>1. {j \in S : j <= i} = 1..i
    BY <1>1
  <2>2. i \in Nat
    BY <1>1
  <2>3. Cardinality({j \in S : j <= i}) = i
    BY <2>1, <2>2, IntervalCounts
  <2> QED
    BY <2>3
<1>3. ASSUME NEW n \in S
      PROVE  (CHOOSE i \in S : Cardinality({j \in S : j <= i}) = n) = n
  BY <1>2, <1>3
<1> HIDE DEF S
<1>4. Subsequence(seq, S) = [n \in S |-> seq[n]]
  BY <1>1, <1>3 DEF Subsequence, S
<1> QED
  BY <1>1, <1>4 DEF S

(* Keep takes the elements of the sequence that are in the set; when that  *)
(* leaves none out, it is the sequence itself.                             *)
LEMMA KeepTaken ==
    ASSUME NEW T, NEW seq \in Seq(T), NEW K
    PROVE  /\ Keep(seq, K) \in Seq(T)
           /\ Len(Keep(seq, K)) <= Len(seq)
           /\ Range(Keep(seq, K)) = Range(seq) \cap K
           /\ Len(Keep(seq, K)) = Len(seq) => Keep(seq, K) = seq
<1> DEFINE S == {i \in 1..Len(seq) : seq[i] \in K}
<1>1. S \in SUBSET (1..Len(seq)) /\ Keep(seq, K) = Subsequence(seq, S)
  BY DEF Keep
<1>2. /\ Subsequence(seq, S) \in Seq(T)
      /\ Len(Subsequence(seq, S)) = Cardinality(S) /\ Cardinality(S) <= Len(seq)
      /\ \A i \in S : \E n \in 1..Len(Subsequence(seq, S)) :
            Subsequence(seq, S)[n] = seq[i]
      /\ \A n \in 1..Len(Subsequence(seq, S)) : \E i \in S :
            Subsequence(seq, S)[n] = seq[i]
  BY <1>1, SubsequenceKept
<1>3. Range(Keep(seq, K)) = Range(seq) \cap K
  <2>1. \A i \in S : i \in 1..Len(seq) /\ seq[i] \in K
    OBVIOUS
  <2>2. \A i \in 1..Len(seq) : seq[i] \in K => i \in S
    OBVIOUS
  <2> DEFINE sub == Subsequence(seq, S)
  <2>3. DOMAIN seq = 1..Len(seq) /\ DOMAIN sub = 1..Len(sub)
    BY <1>2
  <2> HIDE DEF S, sub
  <2>4. ASSUME NEW n \in DOMAIN sub PROVE sub[n] \in Range(seq) \cap K
    <3>1. PICK i \in S : sub[n] = seq[i]
      BY <1>2, <2>3 DEF sub
    <3> QED
      BY <2>1, <2>3, <3>1 DEF Range
  <2>5. ASSUME NEW i \in DOMAIN seq, seq[i] \in K PROVE \E n \in DOMAIN sub : sub[n] = seq[i]
    <3>1. i \in S
      BY <2>2, <2>3, <2>5
    <3> QED
      BY <1>2, <2>3, <3>1 DEF sub
  <2>6. Range(sub) = Range(seq) \cap K
    BY <2>4, <2>5 DEF Range
  <2> QED
    BY <1>1, <2>6 DEF sub
<1>4. ASSUME Cardinality(S) = Len(seq) PROVE Keep(seq, K) = seq
  <2>1. Len(seq) \in Nat /\ IsFiniteSet(1..Len(seq)) /\ Cardinality(1..Len(seq)) = Len(seq)
    BY IntervalCounts
  <2>2. S = 1..Len(seq)
    BY <1>1, <1>4, <2>1, FS_Subset
  <2> QED
    BY <1>1, <2>2, SubsequenceWhole
<1> QED
  BY <1>1, <1>2, <1>3, <1>4
=============================================================================
