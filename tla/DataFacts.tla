----------------------------- MODULE DataFacts -----------------------------
(***************************************************************************)
(* Facts the proofs share: Min and Max of sets of natural numbers, and the *)
(* FIFO queues of waiters that stand for asyncio.Lock.                     *)
(***************************************************************************)
EXTENDS Integers, FiniteSets, FiniteSetsExt, SequencesExt, FiniteSetTheorems,
        SequenceTheorems, WellFoundedInduction, TLAPS

\* A non-empty set of natural numbers has a least element, and Min is it.
LEMMA MinOfNaturals ==
  ASSUME NEW S, S \subseteq Nat, S # {}
  PROVE  Min(S) \in S /\ \A x \in S : Min(S) <= x
<1> DEFINE R == OpToRel(<, Nat)
<1>1. IsWellFoundedOn(R, Nat)
  BY NatLessThanWellFounded
<1> HIDE DEF R
<1>2. PICK m \in S : \A y \in S : ~ (<<y, m>> \in R)
  BY <1>1, WFMin
<1>3. \A y \in S : m <= y
  <2> TAKE y \in S
  <2>1. <<y, m>> \in Nat \X Nat /\ <<y, m>>[1] = y /\ <<y, m>>[2] = m
    OBVIOUS
  <2>2. ~ (y < m)
    BY <1>2, <2>1 DEF R, OpToRel
  <2>3. QED
    BY <2>2
<1>4. QED
  BY <1>3 DEF Min

\* A non-empty set of natural numbers below a bound has a greatest element,
\* and Max is it.
LEMMA MaxOfBounded ==
  ASSUME NEW S, NEW n \in Nat, S \subseteq 0..n, S # {}
  PROVE  Max(S) \in S /\ \A x \in S : x <= Max(S)
<1> DEFINE T == {n - x : x \in S}
<1>1. T \subseteq Nat /\ T # {}
  OBVIOUS
<1>2. Min(T) \in T /\ \A y \in T : Min(T) <= y
  BY <1>1, MinOfNaturals
<1>3. PICK m \in S : Min(T) = n - m
  BY <1>2
<1>4. \A x \in S : x <= m
  <2> TAKE x \in S
  <2>1. Min(T) <= n - x
    BY <1>2
  <2>2. x \in Nat /\ m \in Nat
    OBVIOUS
  <2>3. n - m <= n - x
    BY <2>1, <1>3
  <2>4. QED
    BY <2>2, <2>3
<1>5. QED
  BY <1>4 DEF Max

\* Max and Min of two integers, as the code writes max(a, b) and min(a, b).
LEMMA MaxOfTwo ==
  ASSUME NEW a \in Int, NEW b \in Int
  PROVE  Max({a, b}) = IF a >= b THEN a ELSE b
<1>1. CASE a >= b
  BY <1>1 DEF Max
<1>2. CASE ~ (a >= b)
  BY <1>2 DEF Max
<1>3. QED
  BY <1>1, <1>2

LEMMA MinOfTwo ==
  ASSUME NEW a \in Int, NEW b \in Int
  PROVE  Min({a, b}) = IF a <= b THEN a ELSE b
<1>1. CASE a <= b
  BY <1>1 DEF Min
<1>2. CASE ~ (a <= b)
  BY <1>2 DEF Min
<1>3. QED
  BY <1>1, <1>2

-----------------------------------------------------------------------------
(* FIFO queues in which each waiter stands once: the locks *)

LEMMA JoinQueue ==
  ASSUME NEW S, NEW q \in Seq(S), IsInjective(q), NEW w \in S, w \notin ToSet(q)
  PROVE  /\ Append(q, w) \in Seq(S)
         /\ IsInjective(Append(q, w))
         /\ ToSet(Append(q, w)) = ToSet(q) \cup {w}
         /\ Append(q, w) # << >>
         /\ q # << >> => Head(Append(q, w)) = Head(q)
<1> DEFINE r == Append(q, w)
<1>1. /\ r \in Seq(S) /\ r # << >> /\ Len(r) = Len(q) + 1
      /\ \A i \in 1..Len(q) : r[i] = q[i]
      /\ r[Len(q) + 1] = w
  BY AppendProperties
<1>2. DOMAIN q = 1..Len(q) /\ DOMAIN r = 1..(Len(q) + 1) /\ Len(q) \in Nat
  BY <1>1, LenProperties
<1> HIDE DEF r
<1>3. IsInjective(r)
  BY <1>1, <1>2 DEF IsInjective, ToSet
<1>4. ToSet(r) = ToSet(q) \cup {w}
  BY <1>1, <1>2 DEF ToSet
<1>5. q # << >> => Head(r) = Head(q)
  BY <1>1, <1>2, EmptySeq
<1>6. QED
  BY <1>1, <1>3, <1>4, <1>5 DEF r

\* The owner lets the next waiter in.
LEMMA PassQueue ==
  ASSUME NEW S, NEW q \in Seq(S), IsInjective(q), q # << >>
  PROVE  /\ Tail(q) \in Seq(S)
         /\ IsInjective(Tail(q))
         /\ ToSet(Tail(q)) = ToSet(q) \ {Head(q)}
<1> DEFINE r == Tail(q)
<1>1. r \in Seq(S) /\ Len(r) = Len(q) - 1 /\ \A i \in 1..Len(r) : r[i] = q[i + 1]
  BY HeadTailProperties
<1>2. /\ DOMAIN q = 1..Len(q) /\ DOMAIN r = 1..Len(r) /\ Len(q) \in Nat \ {0}
      /\ Head(q) = q[1]
  BY <1>1, LenProperties, EmptySeq
<1> HIDE DEF r
<1>3. IsInjective(r)
  BY <1>1, <1>2 DEF IsInjective
<1>4. ToSet(r) = ToSet(q) \ {Head(q)}
  <2>1. \A x \in ToSet(r) : x \in ToSet(q) /\ x # q[1]
    BY <1>1, <1>2 DEF ToSet, IsInjective
  <2>2. ASSUME NEW x \in ToSet(q), x # q[1] PROVE x \in ToSet(r)
    <3>1. PICK i \in 2..Len(q) : q[i] = x
      BY <1>2, <2>2 DEF ToSet
    <3>2. i - 1 \in 1..Len(r) /\ r[i - 1] = x
      BY <1>1, <1>2, <3>1
    <3>3. QED
      BY <1>2, <3>2 DEF ToSet
  <2>3. QED
    BY <1>2, <2>1, <2>2
<1>5. QED
  BY <1>1, <1>3, <1>4 DEF r

\* Somebody, the owner or a waiter, leaves; whoever else stood first still does.
LEMMA LeaveQueue ==
  ASSUME NEW S, NEW q \in Seq(S), IsInjective(q), NEW w
  PROVE  /\ RemoveFirst(q, w) \in Seq(S)
         /\ IsInjective(RemoveFirst(q, w))
         /\ ToSet(RemoveFirst(q, w)) = ToSet(q) \ {w}
         /\ q # << >> /\ Head(q) # w =>
              RemoveFirst(q, w) # << >> /\ Head(RemoveFirst(q, w)) = Head(q)
<1> DEFINE I == {i \in 1..Len(q) : q[i] = w}
<1>1. DOMAIN q = 1..Len(q) /\ Len(q) \in Nat
  BY LenProperties
<1>2. CASE I = {}
  <2>1. RemoveFirst(q, w) = q
    BY <1>2 DEF RemoveFirst
  <2>2. ToSet(q) = ToSet(q) \ {w}
    BY <1>1, <1>2 DEF ToSet
  <2>3. QED
    BY <2>1, <2>2
<1>3. CASE I # {}
  <2> DEFINE p == Min(I)
             r == RemoveAt(q, p)
  <2>1. RemoveFirst(q, w) = r
    BY <1>3 DEF RemoveFirst, SelectInSeq
  <2>2. p \in 1..Len(q) /\ q[p] = w
    <3>1. I \subseteq Nat
      OBVIOUS
    <3>2. p \in I
      <4> HIDE DEF I
      <4>1. QED
        BY <1>3, <3>1, MinOfNaturals
    <3>3. QED
      BY <3>2
  <2> HIDE DEF p
  <2>3. /\ r \in Seq(S) /\ Len(r) = Len(q) - 1
        /\ \A i \in 1..Len(r) : r[i] = IF i < p THEN q[i] ELSE q[i + 1]
    <3> DEFINE left  == SubSeq(q, 1, p - 1)
               right == SubSeq(q, p + 1, Len(q))
    <3>1. /\ left \in Seq(S) /\ Len(left) = p - 1
          /\ \A i \in 1..(p - 1) : left[i] = q[i]
      BY <1>1, <2>2, SubSeqProperties
    <3>2. /\ right \in Seq(S) /\ Len(right) = Len(q) - p
          /\ \A i \in 1..(Len(q) - p) : right[i] = q[p + i]
      <4>1. p + 1 \in Int /\ Len(q) \in Int /\ \A i \in (p + 1)..Len(q) : q[i] \in S
        BY <1>1, <2>2
      <4>2. /\ right \in Seq(S)
            /\ Len(right) = IF p + 1 <= Len(q) THEN Len(q) - (p + 1) + 1 ELSE 0
            /\ \A i \in 1..(Len(q) - (p + 1) + 1) : right[i] = q[(p + 1) + i - 1]
        BY <4>1, SubSeqProperties
      <4> HIDE DEF right
      <4>3. \A i \in 1..(Len(q) - p) : (p + 1) + i - 1 = p + i
        BY <1>1, <2>2
      <4>4. Len(q) - (p + 1) + 1 = Len(q) - p
        BY <1>1, <2>2
      <4>5. \A i \in 1..(Len(q) - p) : right[i] = q[p + i]
        BY <4>2, <4>3, <4>4
      <4>6. Len(right) = Len(q) - p
        BY <1>1, <2>2, <4>2
      <4>7. QED
        BY <4>2, <4>5, <4>6
    <3>3. r = left \o right
      BY DEF RemoveAt
    <3> HIDE DEF left, right, r
    <3>4. /\ r \in Seq(S) /\ Len(r) = Len(q) - 1
          /\ \A i \in 1..(Len(q) - 1) : r[i] = IF i <= p - 1 THEN left[i] ELSE right[i - (p - 1)]
      <4>1. /\ r \in Seq(S) /\ Len(r) = Len(left) + Len(right)
            /\ \A i \in 1..(Len(left) + Len(right)) :
                 r[i] = IF i <= Len(left) THEN left[i] ELSE right[i - Len(left)]
        BY <3>1, <3>2, <3>3, ConcatProperties
      <4>2. Len(left) + Len(right) = Len(q) - 1
        BY <1>1, <2>2, <3>1, <3>2
      <4>3. QED
        BY <3>1, <4>1, <4>2
    <3>5. QED
      BY <1>1, <2>2, <3>1, <3>2, <3>4
  <2> HIDE DEF r
  <2>4. DOMAIN r = 1..Len(r) /\ Len(r) \in Nat
    BY <2>3, LenProperties
  <2>5. IsInjective(r)
    <3> SUFFICES ASSUME NEW i \in 1..Len(r), NEW j \in 1..Len(r), r[i] = r[j] PROVE i = j
      BY <2>4 DEF IsInjective
    <3> DEFINE at(k) == IF k < p THEN k ELSE k + 1
    <3>1. /\ at(i) \in 1..Len(q) /\ r[i] = q[at(i)]
          /\ at(j) \in 1..Len(q) /\ r[j] = q[at(j)]
      BY <1>1, <2>2, <2>3, <2>4
    <3>2. at(i) = at(j)
      <4> HIDE DEF at
      <4>1. QED
        BY <1>1, <3>1 DEF IsInjective
    <3>3. QED
      BY <2>2, <2>4, <3>2
  <2>6. ToSet(r) = ToSet(q) \ {w}
    <3>1. \A x \in ToSet(r) : x \in ToSet(q) /\ x # w
      BY <1>1, <2>2, <2>3, <2>4 DEF ToSet, IsInjective
    <3>2. ASSUME NEW x \in ToSet(q), x # w PROVE x \in ToSet(r)
      <4>1. PICK i \in 1..Len(q) : q[i] = x
        BY <1>1 DEF ToSet
      <4>2. \/ i \in 1..Len(r) /\ r[i] = x
            \/ i - 1 \in 1..Len(r) /\ r[i - 1] = x
        BY <1>1, <2>2, <2>3, <3>2, <4>1
      <4>3. QED
        BY <2>4, <4>2 DEF ToSet
    <3>3. QED
      BY <3>1, <3>2
  <2>7. q # << >> /\ Head(q) # w => r # << >> /\ Head(r) = Head(q)
    <3> SUFFICES ASSUME q # << >>, Head(q) # w PROVE r # << >> /\ Head(r) = Head(q)
      OBVIOUS
    <3>1. Len(q) # 0 /\ Head(q) = q[1] /\ p # 1
      BY <1>1, <2>2, EmptySeq
    <3>2. Len(r) # 0 /\ r[1] = q[1]
      BY <1>1, <2>2, <2>3, <2>4, <3>1
    <3>3. QED
      BY <2>3, <2>4, <3>1, <3>2, EmptySeq
  <2>8. QED
    BY <2>1, <2>3, <2>5, <2>6, <2>7
<1>4. QED
  BY <1>2, <1>3
=============================================================================
