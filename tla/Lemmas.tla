--------------------------------- MODULE Lemmas ---------------------------------
(***************************************************************************)
(* Facts about numbers and sequences that the proofs of several modules    *)
(* use.                                                                    *)
(***************************************************************************)
EXTENDS Integers, Sequences, FiniteSets, FiniteSetsExt, FiniteSetTheorems,
        SequenceTheorems, TLAPS

-----------------------------------------------------------------------------
(* Least and greatest elements.                                            *)

(* The larger and the smaller of two numbers.                              *)
LEMMA Max2 ==
    ASSUME NEW a \in Nat, NEW b \in Nat
    PROVE  /\ Max({a, b}) \in Nat
           /\ Max({a, b}) = IF a >= b THEN a ELSE b
  <1>1. \E x \in {a, b} : \A y \in {a, b} : x >= y
    OBVIOUS
  <1>2. Max({a, b}) \in {a, b} /\ \A y \in {a, b} : Max({a, b}) >= y
    BY <1>1 DEF Max
  <1> QED
    BY <1>2

LEMMA Min2 ==
    ASSUME NEW a \in Nat, NEW b \in Nat
    PROVE  /\ Min({a, b}) \in Nat
           /\ Min({a, b}) = IF a <= b THEN a ELSE b
  <1>1. \E x \in {a, b} : \A y \in {a, b} : x <= y
    OBVIOUS
  <1>2. Min({a, b}) \in {a, b} /\ \A y \in {a, b} : Min({a, b}) <= y
    BY <1>1 DEF Min
  <1> QED
    BY <1>2

(* A non-empty set of naturals has a least element: its elements' initial  *)
(* segments are finite sets, and strict inclusion is well founded on them. *)
LEMMA MinNat ==
    ASSUME NEW S \in SUBSET Nat, S # {}
    PROVE  Min(S) \in S /\ \A y \in S : Min(S) <= y
  <1> DEFINE Below(n) == 0..(n - 1)
             T == {Below(n) : n \in S}
             R == StrictSubsetOrdering(Nat)
  <1>1. T \subseteq FiniteSubsetsOf(Nat) /\ T # {}
    <2>1. \A n \in S : IsFiniteSet(Below(n)) /\ Below(n) \subseteq Nat
      BY FS_Interval
    <2> QED
      BY <2>1 DEF FiniteSubsetsOf
  <1>2. IsWellFoundedOn(R, FiniteSubsetsOf(Nat))
    BY FS_StrictSubsetOrderingWellFounded
  <1>3. PICK t \in T : \A u \in T : ~(<<u, t>> \in R)
    <2> HIDE DEF R, T
    <2> QED
      BY <1>1, <1>2, WFMin
  <1>4. PICK x \in S : t = Below(x)
    OBVIOUS
  <1>5. ASSUME NEW y \in S PROVE x <= y
    <2>1. SUFFICES ASSUME y < x PROVE FALSE
      OBVIOUS
    <2>2. /\ Below(y) \in T
          /\ Below(y) \subseteq Nat /\ Below(x) \subseteq Nat
          /\ Below(y) \subseteq Below(x) /\ y \in Below(x) /\ y \notin Below(y)
      BY <2>1
    <2> QED
      BY <2>2, <1>3, <1>4 DEF StrictSubsetOrdering
  <1> QED
    BY <1>5 DEF Min

(* A non-empty finite set of naturals has a greatest element: the one with *)
(* the fewest above it.                                                    *)
LEMMA MaxNat ==
    ASSUME NEW S \in SUBSET Nat, S # {}, IsFiniteSet(S)
    PROVE  Max(S) \in S /\ \A y \in S : y <= Max(S)
  <1> DEFINE Above(n) == {k \in S : k > n}
             T == {Above(n) : n \in S}
             R == StrictSubsetOrdering(S)
  <1>1. T \subseteq FiniteSubsetsOf(S) /\ T # {}
    <2>1. \A n \in S : IsFiniteSet(Above(n)) /\ Above(n) \subseteq S
      BY FS_Subset
    <2> QED
      BY <2>1 DEF FiniteSubsetsOf
  <1>2. IsWellFoundedOn(R, FiniteSubsetsOf(S))
    BY FS_StrictSubsetOrderingWellFounded
  <1>3. PICK t \in T : \A u \in T : ~(<<u, t>> \in R)
    <2> HIDE DEF R, T
    <2> QED
      BY <1>1, <1>2, WFMin
  <1>4. PICK x \in S : t = Above(x)
    OBVIOUS
  <1>5. ASSUME NEW y \in S PROVE x >= y
    <2>1. SUFFICES ASSUME x < y PROVE FALSE
      OBVIOUS
    <2>2. /\ Above(y) \in T
          /\ Above(y) \subseteq S /\ Above(x) \subseteq S
          /\ Above(y) \subseteq Above(x) /\ y \in Above(x) /\ y \notin Above(y)
      <3>1. x \in Nat /\ y \in Nat /\ \A k \in S : k \in Nat
        OBVIOUS
      <3>2. Above(y) \in T
        OBVIOUS
      <3>3. y \in Above(x) /\ y \notin Above(y)
        BY <2>1, <3>1
      <3>4. \A k \in S : k > y => k > x
        BY <2>1, <3>1
      <3>5. Above(y) \subseteq Above(x)
        BY <3>4
      <3> QED
        BY <3>2, <3>3, <3>5
    <2> QED
      BY <2>2, <1>3, <1>4 DEF StrictSubsetOrdering
  <1>6. Max(S) \in S /\ \A y \in S : Max(S) >= y
    BY <1>5 DEF Max
  <1> QED
    BY <1>6

-----------------------------------------------------------------------------
(* Slices of a queue.                                                      *)

(* Cutting out position k shifts what follows down by one: the slice       *)
(* expressions of dequeue and waitForSaturatedSlot.                        *)
LEMMA CutOne ==
    ASSUME NEW S, NEW q \in Seq(S), NEW k \in 1..Len(q)
    PROVE  LET p == SubSeq(q, 1, k - 1) \o SubSeq(q, k + 1, Len(q))
           IN  /\ p \in Seq(S)
               /\ Len(p) = Len(q) - 1
               /\ \A i \in 1..Len(p) : p[i] = q[IF i < k THEN i ELSE i + 1]
<1> DEFINE h == SubSeq(q, 1, k - 1)
           t == SubSeq(q, k + 1, Len(q))
<1>1. Len(q) \in Nat /\ k \in Nat /\ 1 <= k /\ k <= Len(q)
  BY LenProperties
<1>2. h \in Seq(S) /\ Len(h) = k - 1 /\ \A i \in 1..(k-1) : h[i] = q[i]
  BY <1>1, SubSeqProperties
<1>3. t \in Seq(S) /\ Len(t) = Len(q) - k /\ \A i \in 1..(Len(q) - k) : t[i] = q[k + i]
  BY <1>1, SubSeqProperties
<1> HIDE DEF h, t
<1>4. /\ h \o t \in Seq(S)
      /\ Len(h \o t) = Len(h) + Len(t)
      /\ \A i \in 1 .. Len(h) + Len(t) :
            (h \o t)[i] = IF i <= Len(h) THEN h[i] ELSE t[i - Len(h)]
  BY <1>2, <1>3, ConcatProperties
<1>5. Len(h \o t) = Len(q) - 1
  BY <1>1, <1>2, <1>3, <1>4
<1>6. ASSUME NEW i \in 1..Len(h \o t)
      PROVE  (h \o t)[i] = q[IF i < k THEN i ELSE i + 1]
  <2>1. CASE i < k
    BY <1>1, <1>2, <1>3, <1>4, <1>5, <2>1
  <2>2. CASE ~(i < k)
    <3>1. i - (k - 1) \in 1..(Len(q) - k) /\ k + (i - (k - 1)) = i + 1
      BY <1>1, <1>5, <2>2
    <3> QED
      BY <1>1, <1>2, <1>3, <1>4, <1>5, <2>2, <3>1
  <2> QED BY <2>1, <2>2
<1> QED BY <1>4, <1>5, <1>6 DEF h, t

(* What the release loop leaves in a queue: a tail of it.                  *)
LEMMA TailFacts ==
    ASSUME NEW S, NEW q \in Seq(S), NEW n \in Nat, n <= Len(q)
    PROVE  LET p == SubSeq(q, n + 1, Len(q))
           IN  /\ p \in Seq(S)
               /\ Len(p) = Len(q) - n
               /\ \A i \in 1..Len(p) : p[i] = q[n + i] /\ n + i \in 1..Len(q)
<1>1. Len(q) \in Nat
  BY LenProperties
<1>2. \A i \in (n + 1)..Len(q) : q[i] \in S
  BY <1>1, ElementOfSeq
<1> DEFINE p == SubSeq(q, n + 1, Len(q))
<1>3. /\ p \in Seq(S)
      /\ Len(p) = IF n + 1 <= Len(q) THEN Len(q) - (n + 1) + 1 ELSE 0
      /\ \A i \in 1..(Len(q) - (n + 1) + 1) : p[i] = q[(n + 1) + i - 1]
  BY <1>1, <1>2, SubSeqProperties
<1> HIDE DEF p
<1>4. Len(p) = Len(q) - n
  BY <1>1, <1>3
<1>5. \A i \in 1..Len(p) : (n + 1) + i - 1 = n + i /\ n + i \in 1..Len(q)
  BY <1>1, <1>4
<1>6. \A i \in 1..Len(p) : p[i] = q[n + i]
  BY <1>1, <1>3, <1>4, <1>5
<1> QED BY <1>3, <1>4, <1>5, <1>6 DEF p
=============================================================================
