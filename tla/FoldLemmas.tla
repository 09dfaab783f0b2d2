------------------------------- MODULE FoldLemmas -------------------------------
(* What a fold over a sequence returns.  FoldLeft() goes through a recursive       *)
(* function on the sets of positions; these lemmas say, of the function alone,     *)
(* that it exists and that what each step preserves holds of its result.  A proof  *)
(* about a fold expands it and cites them for its own step.                        *)
EXTENDS Integers, FiniteSets, SequencesExt, FiniteSetTheorems, TLAPS

\* The last position of a set of positions is one of them.
LEMMA LastPosition ==
  ASSUME NEW n \in Nat, NEW s \in SUBSET (1..n), s # {}
  PROVE  /\ Max(s) \in s /\ \A i \in s : i <= Max(s)
         /\ IsFiniteSet(s) /\ Cardinality(s) \in Nat
         /\ s \ {Max(s)} \in SUBSET (1..n)
         /\ Cardinality(s \ {Max(s)}) = Cardinality(s) - 1
<1> DEFINE Above == {n - i : i \in s}
<1>0. s \subseteq Int /\ \A i \in s : n - i \in Nat
  OBVIOUS
<1>1. Above \subseteq Nat /\ Above # {}
  BY <1>0
<1>2. PICK d \in Above : \A e \in Above : ~(<<e, d>> \in OpToRel(<, Nat))
  BY <1>1, NatLessThanWellFounded, WFMin
<1>3. \A e \in Above : d <= e
  <2> SUFFICES ASSUME NEW e \in Above, e < d PROVE FALSE
    BY <1>1
  <2>1. <<e, d>> \in OpToRel(<, Nat)
    BY <1>1 DEF OpToRel
  <2> QED
    BY <1>2, <2>1
<1>4. PICK x \in s : d = n - x
  OBVIOUS
<1>5. \A y \in s : x >= y
  <2> SUFFICES ASSUME NEW y \in s PROVE x >= y
    OBVIOUS
  <2>1. n - x <= n - y
    BY <1>3, <1>4
  <2>2. x \in Int /\ y \in Int /\ n \in Int
    BY <1>0
  <2> HIDE DEF Above
  <2> QED
    BY <2>1, <2>2
<1>6. Max(s) \in s /\ \A y \in s : Max(s) >= y
  BY <1>5 DEF Max
<1>7. IsFiniteSet(s)
  <2>1. IsFiniteSet(1..n)
    BY FS_Interval
  <2> QED
    BY <2>1, FS_Subset
<1>8. Cardinality(s) \in Nat /\ Cardinality(s \ {Max(s)}) = Cardinality(s) - 1
  BY <1>6, <1>7, FS_CardinalityType, FS_RemoveElement
<1> QED
  BY <1>6, <1>7, <1>8

\* Induction on sets of positions: what holds of a set when it holds of the set
\* without its last position holds of every one.
LEMMA PositionInduction ==
  ASSUME NEW n \in Nat, NEW Good,
         \A s \in SUBSET (1..n) : s = {} \/ s \ {Max(s)} \in Good => s \in Good
  PROVE  SUBSET (1..n) \subseteq Good
<1> DEFINE Bad == (SUBSET (1..n)) \ Good
           Sizes == {Cardinality(s) : s \in Bad}
<1> SUFFICES ASSUME Bad # {} PROVE FALSE
  OBVIOUS
<1>1. \A s \in Bad : s # {}
  OBVIOUS
<1>2. Sizes \subseteq Nat /\ Sizes # {}
  <2>1. \A s \in Bad : Cardinality(s) \in Nat
    BY <1>1, LastPosition
  <2> QED
    BY <2>1
<1>3. PICK k \in Sizes : \A j \in Sizes : ~(<<j, k>> \in OpToRel(<, Nat))
  BY <1>2, NatLessThanWellFounded, WFMin
<1>4. PICK s \in Bad : k = Cardinality(s)
  OBVIOUS
<1>5. s \ {Max(s)} \in Bad
  BY <1>1, <1>4, LastPosition
<1>6. Cardinality(s \ {Max(s)}) \in Sizes /\ Cardinality(s \ {Max(s)}) = k - 1
  BY <1>1, <1>4, <1>5, LastPosition
<1>7. <<k - 1, k>> \in OpToRel(<, Nat)
  BY <1>2, <1>6 DEF OpToRel
<1> QED
  BY <1>3, <1>6, <1>7

\* What the recursive function of a fold is made of: step[i] is what the element
\* at position i makes of each value.
Unfolded(n, base, step, f) ==
    [s \in SUBSET (1..n) |-> IF s = {} THEN base ELSE step[Max(s)][f[s \ {Max(s)}]]]

\* The recursive function of a fold exists, when its steps keep to a set U.
LEMMA FoldExists ==
  ASSUME NEW n \in Nat, NEW U, NEW base \in U, NEW step \in [1..n -> [U -> U]]
  PROVE  \E f \in [SUBSET (1..n) -> U] : f = Unfolded(n, base, step, f)
<1> DEFINE Next(f) == [s \in SUBSET (1..n) |-> IF s = {} THEN base
                                               ELSE step[Max(s)][f[s \ {Max(s)}]]]
           Fs == [SUBSET (1..n) -> U]
           UpTo(f, k) == \A s \in SUBSET (1..n) : Cardinality(s) <= k => f[s] = Next(f)[s]
           Ks == {k \in Nat : ~ \E f \in Fs : UpTo(f, k)}
<1>1. ASSUME NEW f \in Fs PROVE Next(f) \in Fs
  <2> SUFFICES ASSUME NEW s \in SUBSET (1..n), s # {}
               PROVE  step[Max(s)][f[s \ {Max(s)}]] \in U
    OBVIOUS
  <2>1. Max(s) \in 1..n /\ f[s \ {Max(s)}] \in U
    BY LastPosition
  <2> QED
    BY <2>1
<1>2. 0 \notin Ks
  <2>1. [s \in SUBSET (1..n) |-> base] \in Fs
    OBVIOUS
  <2>2. \A s \in SUBSET (1..n) : Cardinality(s) <= 0 => s = {}
    <3> SUFFICES ASSUME NEW s \in SUBSET (1..n), s # {} PROVE ~(Cardinality(s) <= 0)
      OBVIOUS
    <3>1. IsFiniteSet(s) /\ Cardinality(s) \in Nat /\ Cardinality(s \ {Max(s)}) = Cardinality(s) - 1
          /\ s \ {Max(s)} \in SUBSET (1..n)
      BY LastPosition
    <3>2. Cardinality(s \ {Max(s)}) \in Nat
      BY <3>1, FS_Subset, FS_CardinalityType
    <3> QED
      BY <3>1, <3>2
  <2> QED
    BY <2>1, <2>2
<1>3. ASSUME NEW k \in Nat, k \notin Ks PROVE k + 1 \notin Ks
  <2>1. PICK f \in Fs : UpTo(f, k)
    BY <1>3
  <2> DEFINE g == Next(f)
  <2>2. g \in Fs
    BY <1>1
  <2>3. ASSUME NEW s \in SUBSET (1..n), Cardinality(s) <= k + 1 PROVE g[s] = Next(g)[s]
    <3>1. CASE s = {}
      BY <3>1
    <3>2. CASE s # {}
      <4> DEFINE r == s \ {Max(s)}
      <4>1. r \in SUBSET (1..n) /\ Cardinality(r) <= k
        BY <2>3, <3>2, LastPosition
      <4>2. f[r] = g[r]
        BY <2>1, <4>1
      <4> QED
        BY <3>2, <4>2
    <3> QED
      BY <3>1, <3>2
  <2> QED
    BY <2>2, <2>3
<1>4. n \notin Ks
  <2> SUFFICES ASSUME Ks # {} PROVE FALSE
    OBVIOUS
  <2>1. PICK k \in Ks : \A j \in Ks : ~(<<j, k>> \in OpToRel(<, Nat))
    BY NatLessThanWellFounded, WFMin
  <2>2. k \in Nat /\ k # 0
    BY <1>2
  <2>3. k - 1 \in Nat /\ (k - 1) + 1 = k
    BY <2>2
  <2>4. k - 1 \in Ks
    BY <1>3, <2>3
  <2>5. <<k - 1, k>> \in OpToRel(<, Nat)
    BY <2>2, <2>3 DEF OpToRel
  <2> QED
    BY <2>1, <2>4, <2>5
<1>5. PICK f \in Fs : UpTo(f, n)
  BY <1>4
<1>6. \A s \in SUBSET (1..n) : Cardinality(s) <= n
  <2>1. IsFiniteSet(1..n) /\ Cardinality(1..n) = n
    BY FS_Interval
  <2>2. \A s \in SUBSET (1..n) : Cardinality(s) <= Cardinality(1..n)
    BY <2>1, FS_Subset
  <2> QED
    BY <2>1, <2>2
<1>7. f = Next(f)
  BY <1>5, <1>6
<1>8. f = Unfolded(n, base, step, f)
  BY <1>7 DEF Unfolded
<1> QED
  BY <1>5, <1>8

\* The result of a fold: f is its recursive function, kept[s] what holds of the
\* value once the elements at the positions s have been taken.
LEMMA FoldReaches ==
  ASSUME NEW n \in Nat, NEW f, NEW kept, f[{}] \in kept[{}],
         \A s \in SUBSET (1..n) : s # {} /\ f[s \ {Max(s)}] \in kept[s \ {Max(s)}]
                                    => f[s] \in kept[s]
  PROVE  f[1..n] \in kept[1..n]
<1> DEFINE Good == {s \in SUBSET (1..n) : f[s] \in kept[s]}
<1>1. \A s \in SUBSET (1..n) : s = {} \/ s \ {Max(s)} \in Good => s \in Good
  OBVIOUS
<1> HIDE DEF Good
<1>2. SUBSET (1..n) \subseteq Good
  BY <1>1, PositionInduction, Zenon
<1>3. 1..n \in Good
  BY <1>2
<1> QED
  BY <1>3 DEF Good

\* Every element of a finite set has one position in a sequence of its elements.
LEMMA OnePositionEach ==
  ASSUME NEW S, IsFiniteSet(S), NEW q \in [1..Cardinality(S) -> S], IsInjective(q)
  PROVE  /\ Cardinality(S) \in Nat
         /\ \A x \in S : \E i \in 1..Cardinality(S) : q[i] = x
         /\ \A i, j \in 1..Cardinality(S) : q[i] = q[j] => i = j
<1>1. Cardinality(S) \in Nat
  BY FS_CardinalityType
<1>2. /\ IsFiniteSet(1..Cardinality(S))
      /\ Cardinality(1..Cardinality(S)) = Cardinality(S)
  BY <1>1, FS_Interval
<1>3. q \in Injection(1..Cardinality(S), S)
  BY DEF Injection
<1>4. q \in Surjection(1..Cardinality(S), S)
  BY <1>2, <1>3, FS_Injection
<1> QED
  BY <1>1, <1>4 DEF Surjection, IsInjective

\* SetToSeq() lists the elements of a finite set, each once.
LEMMA Listing ==
  ASSUME NEW S, IsFiniteSet(S)
  PROVE  /\ Cardinality(S) \in Nat
         /\ SetToSeq(S) \in [1..Cardinality(S) -> S]
         /\ \A x \in S : \E i \in 1..Cardinality(S) : SetToSeq(S)[i] = x
         /\ \A i, j \in 1..Cardinality(S) : SetToSeq(S)[i] = SetToSeq(S)[j] => i = j
<1>1. \E q \in [1..Cardinality(S) -> S] : IsInjective(q)
  BY FS_CardinalityType DEF ExistsBijection, Bijection, Injection
<1>2. SetToSeq(S) \in [1..Cardinality(S) -> S] /\ IsInjective(SetToSeq(S))
  BY <1>1 DEF SetToSeq
<1> QED
  BY <1>2, OnePositionEach

\* SetToSeqs() gives the orders in which the elements of a finite set may come.
LEMMA Orders ==
  ASSUME NEW S, IsFiniteSet(S), NEW order \in SetToSeqs(S)
  PROVE  /\ Cardinality(S) \in Nat
         /\ order \in [1..Cardinality(S) -> S]
         /\ \A x \in S : \E i \in 1..Cardinality(S) : order[i] = x
         /\ \A i, j \in 1..Cardinality(S) : order[i] = order[j] => i = j
<1>1. order \in [1..Cardinality(S) -> S] /\ IsInjective(order)
  BY DEF SetToSeqs, IsInjective
<1> QED
  BY <1>1, OnePositionEach
================================================================================
