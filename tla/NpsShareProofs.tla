---------------------------- MODULE NpsShareProofs ----------------------------
(***************************************************************************)
(* The clause exchange of share_worker, for any number of workers, any set  *)
(* of clauses and any limit: reference counts are right, everybody is       *)
(* offered a clause once, and a round uses its limit.                       *)
(***************************************************************************)
EXTENDS NpsShare, FiniteSetTheorems, NaturalsInduction, SequenceTheorems, WellFoundedInduction, TLAPS

(* The recursions are followed without an induction theorem: a least number *)
(* for which a claim fails is led to a contradiction.                       *)
LEMMA LeastNumber ==
  ASSUME NEW S \in SUBSET Nat, S # {}
  PROVE  \E x \in S : \A y \in S : x <= y
<1> DEFINE R == OpToRel(<, Nat)
<1>1. IsWellFoundedOn(R, Nat)
  BY NatLessThanWellFounded
<1>2. \A x, y \in Nat : y < x => <<y, x>> \in R
  BY DEF OpToRel
<1> HIDE DEF R
<1>3. PICK x \in S : \A y \in S : ~ (<<y, x>> \in R)
  BY <1>1, WFMin
<1>4. \A y \in S : ~ (y < x) /\ y \in Nat /\ x \in Nat
  BY <1>2, <1>3
<1> QED
  BY <1>4

(* What holds of 0 and passes from each number to the next holds up to M. *)
LEMMA Counting ==
  ASSUME NEW M \in Nat, NEW P, 0 \in P, \A n \in 0 .. M : n < M /\ n \in P => n + 1 \in P
  PROVE  \A n \in 0 .. M : n \in P
<1> SUFFICES ASSUME NEW n \in 0 .. M, n \notin P
             PROVE  FALSE
  OBVIOUS
<1> DEFINE S == {m \in 0 .. M : m \notin P}
<1>1. S \in SUBSET Nat /\ S # {}
  OBVIOUS
<1>2. PICK m \in S : \A y \in S : m <= y
  <2> HIDE DEF S
  <2> QED
    BY <1>1, LeastNumber
<1>3. m \in 0 .. M /\ m # 0 /\ m \notin P
  OBVIOUS
<1>4. m - 1 \in 0 .. M /\ m - 1 < M /\ m - 1 + 1 = m
  BY <1>3
<1>5. m - 1 \in P
  BY <1>2, <1>3, <1>4
<1> QED
  BY <1>3, <1>4, <1>5

(* A function may be defined by recursion on the numbers up to M. *)
IsStep(M, V, step) == step \in [(1 .. M) \X V -> V]
IsDefined(M, V, v, step) == \E f \in [0 .. M -> V] :
                              /\ f[0] = v
                              /\ \A n \in 1 .. M : f[n] = step[<<n, f[n - 1]>>]

LEMMA Recursion ==
  ASSUME NEW M \in Nat, NEW V, NEW v \in V, NEW step, IsStep(M, V, step)
  PROVE  IsDefined(M, V, v, step)
<1> USE DEF IsStep
<1> DEFINE Good(m, f) == /\ f[0] = v
                         /\ \A n \in 1 .. m : f[n] = step[<<n, f[n - 1]>>]
<1> DEFINE P == {m \in Nat : \E f \in [0 .. m -> V] : Good(m, f)}
<1>1. 0 \in P
  <2> DEFINE f == [n \in 0 .. 0 |-> v]
  <2>1. f \in [0 .. 0 -> V] /\ Good(0, f)
    OBVIOUS
  <2> QED
    BY <2>1
<1>2. ASSUME NEW m \in 0 .. M, m < M, m \in P
      PROVE  m + 1 \in P
  <2>1. PICK f \in [0 .. m -> V] : Good(m, f)
    BY <1>2
  <2> DEFINE u == step[<<m + 1, f[m]>>]
  <2> DEFINE g == [n \in 0 .. m + 1 |-> IF n = m + 1 THEN u ELSE f[n]]
  <2>2. f[m] \in V /\ m + 1 \in 1 .. M
    BY <1>2
  <2>3. <<m + 1, f[m]>> \in (1 .. M) \X V
    BY <2>2
  <2>4. u \in V
    BY <2>3
  <2> HIDE DEF u
  <2>5. g \in [0 .. m + 1 -> V]
    BY <2>4
  <2>6. g[0] = v
    BY <2>1
  <2>7. ASSUME NEW n \in 1 .. m + 1
        PROVE  g[n] = step[<<n, g[n - 1]>>]
    <3>1. n - 1 \in 0 .. m /\ g[n - 1] = f[n - 1]
      OBVIOUS
    <3>2. CASE n = m + 1
      <4>1. g[n] = u /\ n - 1 = m
        BY <3>2
      <4> QED
        BY <3>1, <3>2, <4>1 DEF u
    <3>3. CASE n # m + 1
      <4>1. n \in 1 .. m /\ g[n] = f[n]
        BY <3>3
      <4> QED
        BY <2>1, <3>1, <4>1
    <3> QED
      BY <3>2, <3>3
  <2> HIDE DEF g
  <2>8. Good(m + 1, g)
    BY <2>6, <2>7
  <2> QED
    BY <2>5, <2>8
<1> HIDE DEF P
<1>3. M \in P
  <2>1. M \in 0 .. M
    OBVIOUS
  <2> QED
    BY <1>1, <1>2, <2>1, Counting
<1> QED
  BY <1>3 DEF P, IsDefined

(* A finite set of numbers has a greatest. *)
LEMMA GreatestNumber ==
  ASSUME NEW S \in SUBSET Nat, IsFiniteSet(S), S # {}
  PROVE  \E x \in S : \A y \in S : x >= y
<1> DEFINE M == Cardinality(S)
<1>1. M \in Nat /\ ExistsBijection(1 .. M, S)
  BY FS_CardinalityType
<1>2. M # 0
  BY FS_EmptySet
<1> HIDE DEF M
<1>3. PICK f : f \in Bijection(1 .. M, S)
  BY <1>1 DEF ExistsBijection
<1>4. f \in [1 .. M -> S] /\ \A y \in S : \E n \in 1 .. M : f[n] = y
  BY <1>3 DEF Bijection, Surjection
<1> DEFINE P == {m \in Nat : m = 0 \/ \E x \in 1 .. M : \A n \in 1 .. m : f[x] >= f[n]}
<1>5. 0 \in P
  OBVIOUS
<1>6. ASSUME NEW m \in 0 .. M, m < M, m \in P
      PROVE  m + 1 \in P
  <2>1. m + 1 \in 1 .. M /\ \A n \in 1 .. m + 1 : n = m + 1 \/ n \in 1 .. m
    BY <1>1, <1>6
  <2>2. \A n \in 1 .. M : f[n] \in Nat
    BY <1>4
  <2>3. CASE m = 0
    <3>1. \A n \in 1 .. m + 1 : f[m + 1] >= f[n]
      BY <2>1, <2>2, <2>3
    <3> QED
      BY <2>1, <3>1
  <2>4. CASE m # 0
    <3>1. PICK x \in 1 .. M : \A n \in 1 .. m : f[x] >= f[n]
      BY <1>6, <2>4
    <3>2. CASE f[x] >= f[m + 1]
      <4>1. \A n \in 1 .. m + 1 : f[x] >= f[n]
        BY <2>1, <3>1, <3>2
      <4> QED
        BY <4>1
    <3>3. CASE ~ (f[x] >= f[m + 1])
      <4>1. \A n \in 1 .. m + 1 : f[m + 1] >= f[n]
        <5> TAKE n \in 1 .. m + 1
        <5>1. n \in 1 .. M
          BY <2>1, <1>1
        <5> QED
          BY <2>1, <2>2, <3>1, <3>3, <5>1
      <4> QED
        BY <2>1, <4>1
    <3> QED
      BY <3>2, <3>3
  <2> QED
    BY <2>3, <2>4
<1> HIDE DEF P
<1>7. M \in P
  <2>1. M \in 0 .. M
    BY <1>1
  <2> QED
    BY <1>1, <1>5, <1>6, <2>1, Counting
<1>8. PICK x \in 1 .. M : \A n \in 1 .. M : f[x] >= f[n]
  BY <1>2, <1>7 DEF P
<1>9. \A y \in S : f[x] >= y
  BY <1>4, <1>8
<1> QED
  BY <1>4, <1>8, <1>9

(* MaxSize is the greatest size; every clause has one of the Lengths. *)
LEMMA SizeTypes == MaxSize \in Nat \ {0} /\ \A c \in Clause : Size[c] \in Lengths
<1> DEFINE S == {Size[c] : c \in Clause}
<1>1. S \in SUBSET Nat /\ S # {} /\ \A c \in Clause : Size[c] \in Nat \ {0}
  BY ClauseAssumption
<1>2. IsFiniteSet(S)
  <2> DEFINE f == [c \in Clause |-> Size[c]]
  <2>1. f \in Surjection(Clause, S)
    BY DEF Surjection
  <2> HIDE DEF f, S
  <2> QED
    BY <2>1, ClauseAssumption, FS_Surjection
<1>3. \E x \in S : \A y \in S : x >= y
  <2> HIDE DEF S
  <2> QED
    BY <1>1, <1>2, GreatestNumber
<1>4. MaxSize \in S /\ \A y \in S : MaxSize >= y
  BY <1>3 DEF MaxSize, Max
<1> QED
  BY <1>1, <1>4 DEF Lengths

-----------------------------------------------------------------------------
(* What a sequence contains, and that it does so once. *)
LEMMA ContainsAppend ==
  ASSUME NEW S, NEW q \in Seq(S), NEW x \in S
  PROVE  /\ Append(q, x) \in Seq(S) /\ Len(Append(q, x)) = Len(q) + 1
         /\ \A y : Contains(Append(q, x), y) <=> Contains(q, y) \/ y = x
         /\ IsInjective(q) /\ ~Contains(q, x) => IsInjective(Append(q, x))
<1> DEFINE r == Append(q, x)
<1>1. /\ r \in Seq(S) /\ Len(q) \in Nat /\ Len(r) = Len(q) + 1
      /\ DOMAIN q = 1 .. Len(q) /\ DOMAIN r = 1 .. Len(r)
  BY AppendProperties, LenProperties
<1>2. (\A n \in 1 .. Len(q) : r[n] = q[n]) /\ r[Len(q) + 1] = x
  BY AppendProperties
<1> HIDE DEF r
<1>3. \A y : Contains(r, y) <=> Contains(q, y) \/ y = x
  BY <1>1, <1>2 DEF Contains
<1>4. ASSUME IsInjective(q), ~Contains(q, x)
      PROVE  IsInjective(r)
  <2>1. \A n \in 1 .. Len(q) : q[n] # x
    BY <1>4 DEF Contains
  <2>2. \A n \in 1 .. Len(r) : n = Len(q) + 1 \/ n \in 1 .. Len(q)
    BY <1>1
  <2> QED
    BY <1>1, <1>2, <1>4, <2>1, <2>2 DEF IsInjective
<1> QED
  BY <1>1, <1>3, <1>4 DEF r

LEMMA ContainsTail ==
  ASSUME NEW S, NEW q \in Seq(S), q # <<>>
  PROVE  /\ Head(q) \in S /\ Tail(q) \in Seq(S) /\ Len(Tail(q)) = Len(q) - 1
         /\ \A y : Contains(q, y) <=> Contains(Tail(q), y) \/ y = Head(q)
         /\ IsInjective(q) => IsInjective(Tail(q)) /\ ~Contains(Tail(q), Head(q))
<1> DEFINE r == Tail(q)
<1>1. /\ Head(q) \in S /\ r \in Seq(S) /\ Len(r) = Len(q) - 1 /\ Len(q) \in Nat \ {0}
      /\ \A n \in 1 .. Len(r) : r[n] = q[n + 1]
  BY HeadTailProperties, EmptySeq
<1>2. DOMAIN q = 1 .. Len(q) /\ DOMAIN r = 1 .. Len(r) /\ Head(q) = q[1]
  BY <1>1, LenProperties
<1> HIDE DEF r
<1>3. /\ \A n \in 1 .. Len(q) : n = 1 \/ (n - 1 \in 1 .. Len(r) /\ r[n - 1] = q[n])
      /\ \A n \in 1 .. Len(r) : n + 1 \in 1 .. Len(q) /\ n + 1 # 1
      /\ 1 \in 1 .. Len(q)
  BY <1>1
<1>4. \A y : Contains(q, y) <=> Contains(r, y) \/ y = Head(q)
  BY <1>1, <1>2, <1>3 DEF Contains
<1>5. ASSUME IsInjective(q)
      PROVE  IsInjective(r) /\ ~Contains(r, Head(q))
  <2>1. \A a, b \in 1 .. Len(q) : q[a] = q[b] => a = b
    BY <1>2, <1>5 DEF IsInjective
  <2>2. IsInjective(r)
    BY <1>1, <1>2, <1>3, <2>1 DEF IsInjective
  <2>3. ~Contains(r, Head(q))
    BY <1>1, <1>2, <1>3, <2>1 DEF Contains
  <2> QED
    BY <2>2, <2>3
<1> QED
  BY <1>1, <1>4, <1>5 DEF r

LEMMA ContainsConcat ==
  ASSUME NEW S, NEW q \in Seq(S), NEW r \in Seq(S)
  PROVE  /\ q \o r \in Seq(S) /\ Len(q \o r) = Len(q) + Len(r)
         /\ \A y : Contains(q \o r, y) <=> Contains(q, y) \/ Contains(r, y)
         /\ IsInjective(q) /\ IsInjective(r) /\ (\A y : ~ (Contains(q, y) /\ Contains(r, y)))
              => IsInjective(q \o r)
<1> DEFINE t == q \o r
<1>1. /\ t \in Seq(S) /\ Len(t) = Len(q) + Len(r) /\ Len(q) \in Nat /\ Len(r) \in Nat
      /\ DOMAIN q = 1 .. Len(q) /\ DOMAIN r = 1 .. Len(r) /\ DOMAIN t = 1 .. Len(t)
  BY ConcatProperties, LenProperties
<1>2. \A n \in 1 .. Len(q) + Len(r) : t[n] = IF n <= Len(q) THEN q[n] ELSE r[n - Len(q)]
  BY ConcatProperties
<1> HIDE DEF t
<1>3. /\ \A n \in 1 .. Len(q) : n \in 1 .. Len(t) /\ t[n] = q[n]
      /\ \A n \in 1 .. Len(r) : n + Len(q) \in 1 .. Len(t) /\ t[n + Len(q)] = r[n]
      /\ \A n \in 1 .. Len(t) : \/ n \in 1 .. Len(q) /\ t[n] = q[n]
                                \/ n - Len(q) \in 1 .. Len(r) /\ t[n] = r[n - Len(q)]
  <2>1. \A n \in 1 .. Len(q) : n \in 1 .. Len(t) /\ t[n] = q[n]
    BY <1>1, <1>2
  <2>2. ASSUME NEW n \in 1 .. Len(r)
        PROVE  n + Len(q) \in 1 .. Len(t) /\ t[n + Len(q)] = r[n]
    <3>1. /\ n + Len(q) \in 1 .. Len(q) + Len(r) /\ ~ (n + Len(q) <= Len(q))
          /\ n + Len(q) - Len(q) = n
      BY <1>1
    <3> QED
      BY <1>1, <1>2, <3>1
  <2>3. \A n \in 1 .. Len(t) : \/ n \in 1 .. Len(q) /\ t[n] = q[n]
                               \/ n - Len(q) \in 1 .. Len(r) /\ t[n] = r[n - Len(q)]
    BY <1>1, <1>2
  <2> QED
    BY <2>1, <2>2, <2>3
<1>4. \A y : Contains(t, y) <=> Contains(q, y) \/ Contains(r, y)
  BY <1>3 DEF Contains
<1>5. ASSUME IsInjective(q), IsInjective(r), \A y : ~ (Contains(q, y) /\ Contains(r, y))
      PROVE  IsInjective(t)
  <2>1. SUFFICES ASSUME NEW a \in 1 .. Len(t), NEW b \in 1 .. Len(t), t[a] = t[b]
                 PROVE  a = b
    BY <1>1 DEF IsInjective
  <2>2. ASSUME NEW m \in 1 .. Len(q), NEW n \in 1 .. Len(r)
        PROVE  q[m] # r[n]
    BY <1>5 DEF Contains
  <2>3. CASE a \in 1 .. Len(q) /\ b \in 1 .. Len(q)
    BY <1>1, <1>3, <1>5, <2>1, <2>3 DEF IsInjective
  <2>4. CASE a - Len(q) \in 1 .. Len(r) /\ b - Len(q) \in 1 .. Len(r)
    <3>1. a \notin 1 .. Len(q) /\ b \notin 1 .. Len(q)
      BY <1>1, <2>4
    <3>2. r[a - Len(q)] = r[b - Len(q)]
      BY <1>3, <2>1, <3>1
    <3>3. a - Len(q) = b - Len(q)
      BY <1>1, <1>5, <2>4, <3>2 DEF IsInjective
    <3> QED
      BY <1>1, <3>3
  <2>5. CASE a \in 1 .. Len(q) /\ b \notin 1 .. Len(q)
    BY <1>3, <2>1, <2>2, <2>5
  <2>6. CASE b \in 1 .. Len(q) /\ a \notin 1 .. Len(q)
    BY <1>3, <2>1, <2>2, <2>6
  <2> QED
    BY <1>3, <2>3, <2>4, <2>5, <2>6
<1> QED
  BY <1>1, <1>4, <1>5 DEF t

LEMMA ContainsPart ==
  ASSUME NEW S, NEW q \in Seq(S), NEW m \in 1 .. Len(q) + 1, NEW n \in 0 .. Len(q)
  PROVE  LET r == SubSeq(q, m, n)
         IN  /\ r \in Seq(S) /\ (m <= n + 1 => Len(r) = n - m + 1)
             /\ \A y : Contains(r, y) <=> \E a \in m .. n : q[a] = y
             /\ IsInjective(q) => IsInjective(r)
<1> DEFINE r == SubSeq(q, m, n)
<1>1. Len(q) \in Nat /\ DOMAIN q = 1 .. Len(q)
  BY LenProperties
<1>2. \A a \in m .. n : a \in 1 .. Len(q) /\ q[a] \in S
  BY <1>1, ElementOfSeq
<1>3. /\ r \in Seq(S) /\ Len(r) = IF m <= n THEN n - m + 1 ELSE 0
      /\ \A a \in 1 .. n - m + 1 : r[a] = q[m + a - 1]
  BY <1>1, <1>2, SubSeqProperties
<1>4. DOMAIN r = 1 .. Len(r) /\ Len(r) \in Nat
  BY <1>3, LenProperties
<1> HIDE DEF r
<1>5. ASSUME NEW a \in 1 .. Len(r)
      PROVE  m + a - 1 \in m .. n /\ r[a] = q[m + a - 1]
  BY <1>1, <1>3, <1>4
<1>6. ASSUME NEW a \in m .. n
      PROVE  a - m + 1 \in 1 .. Len(r) /\ r[a - m + 1] = q[a]
  <2>1. a - m + 1 \in 1 .. n - m + 1 /\ m + (a - m + 1) - 1 = a /\ m <= n
    BY <1>1
  <2> QED
    BY <1>3, <2>1
<1>7. \A y : Contains(r, y) <=> \E a \in m .. n : q[a] = y
  BY <1>5, <1>6 DEF Contains
<1>8. ASSUME IsInjective(q)
      PROVE  IsInjective(r)
  <2>1. SUFFICES ASSUME NEW a \in 1 .. Len(r), NEW b \in 1 .. Len(r), r[a] = r[b]
                 PROVE  a = b
    BY <1>4 DEF IsInjective
  <2>2. q[m + a - 1] = q[m + b - 1] /\ m + a - 1 \in 1 .. Len(q) /\ m + b - 1 \in 1 .. Len(q)
    BY <1>2, <1>5, <2>1
  <2>3. m + a - 1 = m + b - 1
    BY <1>1, <1>8, <2>2 DEF IsInjective
  <2> QED
    BY <1>1, <1>4, <2>3
<1>9. m <= n + 1 => Len(r) = n - m + 1
  <2>1. n \in Nat /\ m \in Nat
    BY <1>1
  <2> QED
    BY <1>3, <2>1
<1> QED
  BY <1>3, <1>7, <1>8, <1>9 DEF r

LEMMA ContainsReverse ==
  ASSUME NEW S, NEW q \in Seq(S)
  PROVE  LET r == Reverse(q)
         IN  /\ r \in Seq(S) /\ Len(r) = Len(q)
             /\ \A y : Contains(r, y) <=> Contains(q, y)
             /\ IsInjective(q) => IsInjective(r)
<1> DEFINE r == Reverse(q)
<1>1. Len(q) \in Nat /\ DOMAIN q = 1 .. Len(q) /\ q \in [1 .. Len(q) -> S]
  BY LenProperties
<1>2. \A a \in 1 .. Len(q) : Len(q) - a + 1 \in 1 .. Len(q) /\ r[a] = q[Len(q) - a + 1]
  BY <1>1 DEF Reverse
<1>3. DOMAIN r = 1 .. Len(q) /\ r \in [1 .. Len(q) -> S]
  BY <1>1, <1>2 DEF Reverse
<1>4. r \in Seq(S)
  BY <1>1, <1>3, SeqDef
<1>5. Len(r) = Len(q)
  BY <1>1, <1>3, <1>4, LenProperties
<1> HIDE DEF r
<1>6. ASSUME NEW a \in 1 .. Len(q)
      PROVE  r[Len(q) - a + 1] = q[a]
  <2>1. Len(q) - (Len(q) - a + 1) + 1 = a
    BY <1>1
  <2> QED
    BY <1>2, <2>1
<1>7. \A y : Contains(r, y) <=> Contains(q, y)
  BY <1>2, <1>5, <1>6 DEF Contains
<1>8. ASSUME IsInjective(q)
      PROVE  IsInjective(r)
  <2>1. SUFFICES ASSUME NEW a \in 1 .. Len(q), NEW b \in 1 .. Len(q), r[a] = r[b]
                 PROVE  a = b
    BY <1>3 DEF IsInjective
  <2>2. Len(q) - a + 1 = Len(q) - b + 1
    BY <1>1, <1>2, <1>8, <2>1 DEF IsInjective
  <2> QED
    BY <1>1, <2>2
<1> QED
  BY <1>4, <1>5, <1>7, <1>8 DEF r

(* A bucket is cut in two; what is taken comes in any order. *)
LEMMA Cut ==
  ASSUME NEW S, NEW q \in Seq(S), NEW n \in 0 .. Len(q)
  PROVE  LET l == LastOf(q, n)
             h == SubSeq(q, 1, Len(q) - n)
         IN  /\ l \in Seq(S) /\ Len(l) = n
             /\ h \in Seq(S) /\ Len(h) = Len(q) - n
             /\ \A y : Contains(q, y) <=> Contains(l, y) \/ Contains(h, y)
             /\ IsInjective(q) => /\ IsInjective(l) /\ IsInjective(h)
                                  /\ \A y : ~ (Contains(l, y) /\ Contains(h, y))
<1> DEFINE h == SubSeq(q, 1, Len(q) - n)
           t == SubSeq(q, Len(q) - n + 1, Len(q))
           l == LastOf(q, n)
<1>1. Len(q) \in Nat /\ DOMAIN q = 1 .. Len(q)
  BY LenProperties
<1>2. /\ 1 \in 1 .. Len(q) + 1 /\ Len(q) - n \in 0 .. Len(q)
      /\ Len(q) - n + 1 \in 1 .. Len(q) + 1 /\ Len(q) \in 0 .. Len(q)
  BY <1>1
<1>3. 1 <= Len(q) - n + 1 /\ Len(q) - n - 1 + 1 = Len(q) - n
  BY <1>1
<1>4. Len(q) - n + 1 <= Len(q) + 1 /\ Len(q) - (Len(q) - n + 1) + 1 = n
  BY <1>1
<1>5. /\ h \in Seq(S) /\ Len(h) = Len(q) - n
      /\ \A y : Contains(h, y) <=> \E a \in 1 .. Len(q) - n : q[a] = y
      /\ IsInjective(q) => IsInjective(h)
  <2> DEFINE e == Len(q) - n
  <2>1. e \in 0 .. Len(q) /\ 1 \in 1 .. Len(q) + 1 /\ 1 <= e + 1 /\ e - 1 + 1 = e
    BY <1>2, <1>3
  <2> HIDE DEF e
  <2>2. LET r == SubSeq(q, 1, e)
        IN  /\ r \in Seq(S) /\ Len(r) = e
            /\ \A y : Contains(r, y) <=> \E a \in 1 .. e : q[a] = y
            /\ IsInjective(q) => IsInjective(r)
    BY <2>1, ContainsPart
  <2> QED
    BY <2>2 DEF e
<1>6. /\ t \in Seq(S) /\ Len(t) = n
      /\ \A y : Contains(t, y) <=> \E a \in Len(q) - n + 1 .. Len(q) : q[a] = y
      /\ IsInjective(q) => IsInjective(t)
  BY <1>2, <1>4, ContainsPart
<1>7. /\ l \in Seq(S) /\ Len(l) = n
      /\ \A y : Contains(l, y) <=> Contains(t, y)
      /\ IsInjective(q) => IsInjective(l)
  <2>1. CASE n = Len(q)
    <3>1. Len(q) - n + 1 = 1
      BY <1>1, <2>1
    <3>2. t = q /\ l = q
      BY <2>1, <3>1, SubSeqFull DEF LastOf
    <3> QED
      BY <2>1, <3>2
  <2>2. CASE n # Len(q)
    <3>1. l = Reverse(t)
      BY <2>2 DEF LastOf
    <3> HIDE DEF t, l
    <3> QED
      BY <1>6, <3>1, ContainsReverse
  <2> QED
    BY <2>1, <2>2
<1> HIDE DEF h, t, l
<1>8. \A a \in 1 .. Len(q) : a \in 1 .. Len(q) - n \/ a \in Len(q) - n + 1 .. Len(q)
  BY <1>1
<1>9. /\ \A a \in 1 .. Len(q) - n : a \in 1 .. Len(q) /\ a \notin Len(q) - n + 1 .. Len(q)
      /\ \A a \in Len(q) - n + 1 .. Len(q) : a \in 1 .. Len(q)
  BY <1>1
<1>10. \A y : Contains(q, y) <=> Contains(l, y) \/ Contains(h, y)
  BY <1>5, <1>6, <1>7, <1>8, <1>9 DEF Contains
<1>11. ASSUME IsInjective(q), NEW y, Contains(l, y), Contains(h, y)
      PROVE  FALSE
  <2>1. PICK a \in 1 .. Len(q) - n : q[a] = y
    BY <1>5, <1>11
  <2>2. PICK b \in Len(q) - n + 1 .. Len(q) : q[b] = y
    BY <1>6, <1>7, <1>11
  <2>3. a \in 1 .. Len(q) /\ b \in 1 .. Len(q) /\ a # b
    BY <1>9
  <2> QED
    BY <1>1, <1>11, <2>1, <2>2, <2>3 DEF IsInjective
<1> QED
  BY <1>5, <1>7, <1>10, <1>11 DEF h, l

(* A product grows with its factor. *)
LEMMA Products == \A s, a, b \in Nat : a <= b => s * a <= s * b
<1> SUFFICES ASSUME NEW s \in Nat, NEW a \in Nat, NEW b \in Nat, a <= b
             PROVE  s * a <= s * b
  OBVIOUS
<1>1. PICK n \in Nat : b = a + n
  <2>1. b - a \in Nat /\ b = a + (b - a)
    OBVIOUS
  <2> QED
    BY <2>1
<1>2. s * b = s * a + s * n
  BY <1>1
<1>3. s * n \in Nat /\ s * a \in Nat
  BY <1>1
<1> QED
  BY <1>2, <1>3

(* What is taken from a bucket fits, and nothing is left of a bucket that   *)
(* more of would fit from.                                                  *)
LEMMA TakenTypes ==
  ASSUME NEW q \in Seq(Clause), NEW space \in Nat, NEW s \in Lengths
  PROVE  LET n == TakenOf(q, space, s)
         IN  /\ n \in 0 .. Len(q) /\ s * n <= space
             /\ n < Len(q) => space - s * n < s
             /\ space < s => n = 0
<1> DEFINE d == space \div s
           n == TakenOf(q, space, s)
<1>1. Len(q) \in Nat
  BY LenProperties
<1>2. s \in Nat \ {0}
  BY SizeTypes DEF Lengths
<1>3. d \in Nat /\ s * d <= space /\ space - s * d < s
  BY <1>2
<1>4. space < s => d = 0
  BY <1>2
<1> HIDE DEF d
<1>5. n \in {d, Len(q)} /\ n <= d /\ n <= Len(q)
  BY <1>1, <1>3 DEF TakenOf, Min, d
<1> HIDE DEF n
<1>6. n \in Nat /\ (n < Len(q) => n = d)
  BY <1>1, <1>3, <1>5
<1>7. s * n <= s * d
  BY <1>2, <1>3, <1>5, <1>6, Products
<1>8. s * n \in Nat /\ s * d \in Nat
  BY <1>2, <1>3, <1>6
<1> QED
  BY <1>1, <1>3, <1>4, <1>5, <1>6, <1>7, <1>8 DEF n

-----------------------------------------------------------------------------
(* The buckets of one worker: each takes clauses of its size, each of them  *)
(* once, and no more of them than fit into a round.                         *)
BucketsOK(b) ==
  /\ b \in [Lengths -> Seq(Clause)]
  /\ \A s \in Lengths : /\ s * Len(b[s]) <= share_lits /\ IsInjective(b[s])
                        /\ \A c \in Clause : Contains(b[s], c) => Size[c] = s

(* One turn of the first loop. *)
LEMMA PutInKeeps ==
  ASSUME NEW b, BucketsOK(b), NEW c \in Clause, ~Contains(b[Size[c]], c)
  PROVE  /\ BucketsOK(PutIn(b, c))
         /\ \A s \in Lengths : \A d \in Clause :
              /\ Contains(b[s], d) => Contains(PutIn(b, c)[s], d)
              /\ Contains(PutIn(b, c)[s], d) => Contains(b[s], d) \/ d = c
<1> DEFINE z == Size[c]
           q == Append(b[z], c)
           e == [b EXCEPT ![z] = q]
<1>1. z \in Lengths /\ b \in [Lengths -> Seq(Clause)] /\ b[z] \in Seq(Clause)
  BY SizeTypes DEF BucketsOK
<1>2. CASE ~Fits(b, c)
  BY <1>2 DEF PutIn
<1>3. CASE Fits(b, c)
  <2>1. /\ q \in Seq(Clause) /\ Len(q) = Len(b[z]) + 1
        /\ \A y : Contains(q, y) <=> Contains(b[z], y) \/ y = c
        /\ IsInjective(q)
    BY <1>1, ContainsAppend DEF BucketsOK
  <2>2. z * Len(q) <= share_lits
    BY <1>3, <2>1 DEF Fits
  <2>3. PutIn(b, c) = e
    BY <1>3 DEF PutIn
  <2>4. e \in [Lengths -> Seq(Clause)] /\ e[z] = q /\ \A s \in Lengths : s # z => e[s] = b[s]
    BY <1>1, <2>1
  <2> HIDE DEF q, e
  <2>5. ASSUME NEW s \in Lengths
        PROVE  /\ s * Len(e[s]) <= share_lits /\ IsInjective(e[s])
               /\ \A d \in Clause : /\ Contains(e[s], d) => Size[d] = s
                                    /\ Contains(b[s], d) => Contains(e[s], d)
                                    /\ Contains(e[s], d) => Contains(b[s], d) \/ d = c
    <3>1. CASE s = z
      BY <1>1, <2>1, <2>2, <2>4, <3>1 DEF BucketsOK
    <3>2. CASE s # z
      BY <2>4, <3>2 DEF BucketsOK
    <3> QED
      BY <3>1, <3>2
  <2> QED
    BY <2>3, <2>4, <2>5 DEF BucketsOK
<1> QED
  BY <1>2, <1>3

LEMMA PutInType ==
  ASSUME NEW b \in [Lengths -> Seq(Clause)], NEW c \in Clause
  PROVE  PutIn(b, c) \in [Lengths -> Seq(Clause)]
<1>1. Size[c] \in Lengths /\ b[Size[c]] \in Seq(Clause)
  BY SizeTypes
<1>2. Append(b[Size[c]], c) \in Seq(Clause)
  BY <1>1, AppendProperties
<1> QED
  BY <1>1, <1>2 DEF PutIn

(* The first loop of sort_clauses. *)
LEMMA FilledIs ==
  ASSUME NEW x \in Worker, BucketsOK(bucket[x]), cls \in Seq(Clause), IsInjective(cls),
         \A s \in Lengths : \A c \in Clause : Contains(bucket[x][s], c) => ~Contains(cls, c)
  PROVE  /\ BucketsOK(Filled(x))
         /\ \A s \in Lengths : \A c \in Clause :
              /\ Contains(bucket[x][s], c) => Contains(Filled(x)[s], c)
              /\ Contains(Filled(x)[s], c) => Contains(bucket[x][s], c) \/ Contains(cls, c)
<1> DEFINE M == Len(cls)
           V == [Lengths -> Seq(Clause)]
           Loop(f) == [n \in 0 .. M |-> IF n = 0 THEN bucket[x] ELSE PutIn(f[n - 1], cls[n])]
           b == CHOOSE f : f = Loop(f)
<1>1. M \in Nat /\ DOMAIN cls = 1 .. M /\ \A n \in 1 .. M : cls[n] \in Clause
  BY LenProperties, ElementOfSeq
<1>2. Filled(x) = b[M]
  BY DEF Filled
<1>3. bucket[x] \in V
  BY DEF BucketsOK
<1>4. b = Loop(b)
  <2> DEFINE step == [p \in (1 .. M) \X V |-> PutIn(p[2], cls[p[1]])]
  <2>1. \A p \in (1 .. M) \X V : PutIn(p[2], cls[p[1]]) \in V
    BY <1>1, PutInType
  <2>2. step \in [(1 .. M) \X V -> V]
    BY <2>1
  <2>3. \A n \in 1 .. M : \A u \in V : step[<<n, u>>] = PutIn(u, cls[n])
    OBVIOUS
  <2> HIDE DEF V, M, step
  <2>4. PICK f \in [0 .. M -> V] : /\ f[0] = bucket[x]
                                   /\ \A n \in 1 .. M : f[n] = step[<<n, f[n - 1]>>]
    <3> DEFINE v == bucket[x]
    <3>1. M \in Nat
      BY <1>1
    <3>2. v \in V
      BY <1>3
    <3> HIDE DEF v
    <3>3. IsStep(M, V, step)
      BY <2>2 DEF IsStep
    <3>4. IsDefined(M, V, v, step)
      BY <3>1, <3>2, <3>3, Recursion
    <3> QED
      BY <3>4 DEF v, IsDefined
  <2>5. \A n \in 1 .. M : n - 1 \in 0 .. M /\ f[n - 1] \in V
    BY <1>1
  <2>6. \A n \in 0 .. M : f[n] = IF n = 0 THEN bucket[x] ELSE PutIn(f[n - 1], cls[n])
    <3> TAKE n \in 0 .. M
    <3>1. CASE n = 0
      BY <2>4, <3>1
    <3>2. CASE n # 0
      <4>1. n \in 1 .. M
        BY <1>1, <3>2
      <4> QED
        BY <2>3, <2>4, <2>5, <3>2, <4>1
    <3> QED
      BY <3>1, <3>2
  <2>7. f = Loop(f)
    BY <2>6
  <2> QED
    BY <2>7
<1> HIDE DEF b, M
<1>5. b[0] = bucket[x] /\ \A n \in 1 .. M : b[n] = PutIn(b[n - 1], cls[n])
  BY <1>1, <1>4
<1> DEFINE Inv(n) ==
             /\ BucketsOK(b[n])
             /\ \A s \in Lengths : \A c \in Clause :
                  /\ Contains(bucket[x][s], c) => Contains(b[n][s], c)
                  /\ Contains(b[n][s], c) => \/ Contains(bucket[x][s], c)
                                             \/ \E m \in 1 .. n : cls[m] = c
           P == {n \in 0 .. M : Inv(n)}
<1>6. 0 \in P
  BY <1>1, <1>5
<1>7. ASSUME NEW n \in 0 .. M, n < M, n \in P
      PROVE  n + 1 \in P
  <2>1. n + 1 \in 1 .. M /\ n + 1 - 1 = n
    BY <1>1, <1>7
  <2> DEFINE e == cls[n + 1]
  <2>2. e \in Clause /\ Size[e] \in Lengths /\ b[n + 1] = PutIn(b[n], e)
    BY <1>1, <1>5, <2>1, SizeTypes
  <2>3. Inv(n)
    BY <1>7
  <2>4. \A m \in 1 .. n : m \in 1 .. M /\ m # n + 1
    BY <1>1, <1>7
  <2>5. \A m \in 1 .. n : cls[m] # e
    BY <1>1, <2>1, <2>4 DEF IsInjective
  <2>6. Contains(cls, e)
    BY <2>1 DEF Contains, M
  <2>7. ~Contains(b[n][Size[e]], e)
    BY <2>2, <2>3, <2>5, <2>6
  <2>8. /\ BucketsOK(PutIn(b[n], e))
        /\ \A s \in Lengths : \A d \in Clause :
             /\ Contains(b[n][s], d) => Contains(PutIn(b[n], e)[s], d)
             /\ Contains(PutIn(b[n], e)[s], d) => Contains(b[n][s], d) \/ d = e
    BY <2>2, <2>3, <2>7, PutInKeeps
  <2>9. n + 1 \in 1 .. n + 1 /\ \A m \in 1 .. n : m \in 1 .. n + 1
    BY <1>1
  <2>10. Inv(n + 1)
    BY <2>2, <2>3, <2>8, <2>9
  <2> QED
    BY <2>1, <2>10
<1> HIDE DEF P
<1>8. M \in P
  <2>1. M \in 0 .. M
    BY <1>1
  <2> QED
    BY <1>1, <1>6, <1>7, <2>1, Counting
<1>9. Inv(M)
  BY <1>8 DEF P
<1> QED
  BY <1>2, <1>9 DEF Contains, M

-----------------------------------------------------------------------------
(* The literals of a sequence of clauses are counted one clause at a time. *)
LEMMA LiteralsAre ==
  ASSUME NEW q \in Seq(Clause)
  PROVE  \E f \in [0 .. Len(q) -> Nat] :
            /\ f[0] = 0 /\ Literals(q) = f[Len(q)]
            /\ \A n \in 1 .. Len(q) : f[n] = f[n - 1] + Size[q[n]]
<1> DEFINE M == Len(q)
           Loop(f) == [n \in 0 .. M |-> IF n = 0 THEN 0 ELSE f[n - 1] + Size[q[n]]]
           b == CHOOSE f : f = Loop(f)
           step == [p \in (1 .. M) \X Nat |-> p[2] + Size[q[p[1]]]]
<1>1. M \in Nat /\ \A n \in 1 .. M : Size[q[n]] \in Nat
  BY LenProperties, ElementOfSeq, ClauseAssumption
<1>2. Literals(q) = b[M]
  BY DEF Literals
<1>3. \A p \in (1 .. M) \X Nat : p[2] + Size[q[p[1]]] \in Nat
  BY <1>1
<1>4. step \in [(1 .. M) \X Nat -> Nat]
  BY <1>3
<1>5. \A n \in 1 .. M : \A u \in Nat : step[<<n, u>>] = u + Size[q[n]]
  OBVIOUS
<1> HIDE DEF M, step
<1>6. IsDefined(M, Nat, 0, step)
  <2>1. 0 \in Nat /\ IsStep(M, Nat, step)
    BY <1>4 DEF IsStep
  <2> QED
    BY <1>1, <2>1, Recursion
<1>7. PICK f \in [0 .. M -> Nat] : /\ f[0] = 0
                                   /\ \A n \in 1 .. M : f[n] = step[<<n, f[n - 1]>>]
  BY <1>6 DEF IsDefined
<1>8. \A n \in 1 .. M : n - 1 \in 0 .. M /\ f[n - 1] \in Nat
  BY <1>1
<1>9. \A n \in 0 .. M : f[n] = IF n = 0 THEN 0 ELSE f[n - 1] + Size[q[n]]
  <2> TAKE n \in 0 .. M
  <2>1. CASE n = 0
    BY <1>7, <2>1
  <2>2. CASE n # 0
    <3>1. n \in 1 .. M
      BY <1>1, <2>2
    <3> QED
      BY <1>5, <1>7, <1>8, <2>2, <3>1
  <2> QED
    BY <2>1, <2>2
<1>10. b = Loop(b)
  <2>1. f = Loop(f)
    BY <1>9
  <2> QED
    BY <2>1
<1> HIDE DEF b
<1>11. b[0] = 0 /\ \A n \in 1 .. M : b[n] = b[n - 1] + Size[q[n]]
  BY <1>1, <1>10
<1> DEFINE P == {n \in Nat : b[n] \in Nat}
<1>12. 0 \in P
  BY <1>11
<1>13. ASSUME NEW n \in 0 .. M, n < M, n \in P
       PROVE  n + 1 \in P
  <2>1. n + 1 \in 1 .. M /\ n + 1 - 1 = n /\ n + 1 \in Nat
    BY <1>1, <1>13
  <2>2. b[n] \in Nat /\ Size[q[n + 1]] \in Nat /\ b[n + 1] = b[n] + Size[q[n + 1]]
    BY <1>1, <1>11, <1>13, <2>1
  <2> QED
    BY <2>1, <2>2
<1> HIDE DEF P
<1>14. \A n \in 0 .. M : b[n] \in Nat
  <2>1. \A n \in 0 .. M : n \in P
    BY <1>1, <1>12, <1>13, Counting
  <2> QED
    BY <2>1 DEF P
<1>15. b \in [0 .. M -> Nat]
  BY <1>10, <1>14
<1> QED
  BY <1>2, <1>11, <1>15 DEF M

(* Clauses of one size add their number times that size. *)
LEMMA LiteralsConcat ==
  ASSUME NEW q \in Seq(Clause), NEW r \in Seq(Clause), NEW s \in Nat,
         \A c \in Clause : Contains(r, c) => Size[c] = s
  PROVE  /\ Literals(q) \in Nat
         /\ Literals(q \o r) = Literals(q) + s * Len(r)
<1> DEFINE t == q \o r
           L == Len(q)
<1>1. L \in Nat /\ Len(r) \in Nat /\ t \in Seq(Clause) /\ Len(t) = L + Len(r)
  BY LenProperties, ConcatProperties
<1>2. \A n \in 1 .. L + Len(r) : t[n] = IF n <= L THEN q[n] ELSE r[n - L]
  BY ConcatProperties
<1>3. \A n \in 1 .. Len(r) : Size[r[n]] = s
  <2> TAKE n \in 1 .. Len(r)
  <2>1. r[n] \in Clause
    BY ElementOfSeq
  <2> QED
    BY <2>1 DEF Contains
<1> HIDE DEF t
<1>4. PICK f \in [0 .. L -> Nat] : /\ f[0] = 0 /\ Literals(q) = f[L]
                                   /\ \A n \in 1 .. L : f[n] = f[n - 1] + Size[q[n]]
  BY LiteralsAre
<1>5. PICK g \in [0 .. Len(t) -> Nat] : /\ g[0] = 0 /\ Literals(t) = g[Len(t)]
                                        /\ \A n \in 1 .. Len(t) : g[n] = g[n - 1] + Size[t[n]]
  BY <1>1, LiteralsAre
<1> HIDE DEF L
<1>6. /\ g[0] = 0 /\ Literals(t) = g[L + Len(r)]
      /\ \A n \in 1 .. L + Len(r) : g[n] = g[n - 1] + Size[t[n]]
  BY <1>1, <1>5
<1>7. Literals(q) \in Nat
  BY <1>1, <1>4
<1>8. g[L] = f[L]
  <2> DEFINE P == {n \in Nat : g[n] = f[n]}
  <2>1. 0 \in P
    BY <1>4, <1>6
  <2>2. ASSUME NEW n \in 0 .. L, n < L, n \in P
        PROVE  n + 1 \in P
    <3>1. n + 1 \in 1 .. L /\ n + 1 \in 1 .. L + Len(r) /\ n + 1 - 1 = n /\ n + 1 <= L
      BY <1>1, <2>2
    <3>2. t[n + 1] = q[n + 1]
      BY <1>2, <3>1
    <3>3. g[n] = f[n]
      BY <2>2
    <3>4. g[n + 1] = f[n + 1]
      BY <1>4, <1>6, <3>1, <3>2, <3>3
    <3> QED
      BY <3>1, <3>4
  <2> HIDE DEF P
  <2>3. L \in P
    <3>1. L \in 0 .. L
      BY <1>1
    <3> QED
      BY <1>1, <2>1, <2>2, <3>1, Counting
  <2> QED
    BY <2>3 DEF P
<1>9. g[L + Len(r)] = f[L] + s * Len(r)
  <2> DEFINE R == Len(r)
             P == {n \in Nat : g[L + n] = f[L] + s * n}
  <2>1. f[L] \in Nat /\ R \in Nat
    BY <1>1, <1>4
  <2>2. 0 \in P
    BY <1>1, <1>8, <2>1
  <2>3. ASSUME NEW n \in 0 .. R, n < R, n \in P
        PROVE  n + 1 \in P
    <3> DEFINE m == L + (n + 1)
    <3>1. /\ m \in 1 .. L + Len(r) /\ m - 1 = L + n
          /\ ~ (m <= L) /\ m - L = n + 1 /\ n + 1 \in 1 .. Len(r)
      BY <1>1, <2>3
    <3> HIDE DEF m
    <3>2. t[m] = r[n + 1]
      BY <1>2, <3>1
    <3>3. g[m] = g[m - 1] + Size[t[m]]
      BY <1>6, <3>1
    <3>4. Size[r[n + 1]] = s
      BY <1>3, <3>1
    <3>5. g[L + (n + 1)] = g[L + n] + s
      BY <3>1, <3>2, <3>3, <3>4 DEF m
    <3>6. g[L + n] = f[L] + s * n
      BY <2>3
    <3>7. s * (n + 1) = s * n + s /\ s * n \in Nat
      BY <1>1, <2>3
    <3>8. g[L + (n + 1)] = f[L] + s * (n + 1)
      BY <2>1, <3>5, <3>6, <3>7
    <3> QED
      BY <3>8
  <2> HIDE DEF P
  <2>4. R \in P
    <3>1. R \in 0 .. R
      BY <2>1
    <3> HIDE DEF R
    <3> QED
      BY <2>1, <2>2, <2>3, <3>1, Counting
  <2> QED
    BY <2>4 DEF P
<1> QED
  BY <1>4, <1>6, <1>9, <1>7 DEF t

-----------------------------------------------------------------------------
(* The second loop of sort_clauses: what it has taken from the buckets f    *)
(* when it is done with the sizes up to s.                                  *)
Loops == [space : Nat, cls : Seq(Clause), bucket : [Lengths -> Seq(Clause)]]
Split(f, t) ==
  \A c \in Clause : \A z \in Lengths :
    /\ Contains(f[z], c) <=> Contains(t.bucket[z], c) \/ (Contains(t.cls, c) /\ Size[c] = z)
    /\ ~ (Contains(t.bucket[z], c) /\ Contains(t.cls, c))
Tight(t, s) ==
  \A z \in Lengths : z <= s /\ t.bucket[z] # <<>> =>
    t.space < z /\ \A c \in Clause : Contains(t.cls, c) => Size[c] <= z
LoopInv(f, t, s) ==
  /\ t \in Loops /\ BucketsOK(t.bucket) /\ IsInjective(t.cls)
  /\ t.space + Literals(t.cls) = share_lits
  /\ \A c \in Clause : Contains(t.cls, c) => Size[c] <= s
  /\ Split(f, t) /\ Tight(t, s)

(* One turn of the second loop, for the size s. *)
LEMMA TakeKeeps ==
  ASSUME NEW f \in [Lengths -> Seq(Clause)], NEW t, NEW s \in Lengths, LoopInv(f, t, s - 1),
         share_lits \in Nat
  PROVE  LoopInv(f, Take(t, s), s)
<1> DEFINE q == t.bucket[s]
           n == TakenOf(q, t.space, s)
           l == LastOf(q, n)
           h == SubSeq(q, 1, Len(q) - n)
           cs == t.cls \o l
           b == [t.bucket EXCEPT ![s] = h]
           u == Take(t, s)
<1>1. /\ s \in Nat \ {0} /\ t \in Loops /\ t.space \in Nat /\ t.cls \in Seq(Clause)
      /\ t.bucket \in [Lengths -> Seq(Clause)] /\ q \in Seq(Clause)
  BY SizeTypes DEF LoopInv, Loops, Lengths
<1>2. /\ n \in 0 .. Len(q) /\ s * n <= t.space
      /\ n < Len(q) => t.space - s * n < s
      /\ t.space < s => n = 0
  <2> HIDE DEF q
  <2> QED
    BY <1>1, TakenTypes
<1>3. Len(q) \in Nat /\ s * n \in Nat /\ n \in Nat
  BY <1>1, <1>2, LenProperties
<1>4. u = [space |-> t.space - s * n, cls |-> cs, bucket |-> b]
  BY DEF Take
<1>5. IsInjective(q) /\ \A c \in Clause : Contains(q, c) => Size[c] = s
  BY <1>1 DEF LoopInv, BucketsOK
<1>6. /\ l \in Seq(Clause) /\ Len(l) = n
      /\ h \in Seq(Clause) /\ Len(h) = Len(q) - n
      /\ \A y : Contains(q, y) <=> Contains(l, y) \/ Contains(h, y)
      /\ IsInjective(l) /\ IsInjective(h)
      /\ \A y : ~ (Contains(l, y) /\ Contains(h, y))
  <2> HIDE DEF q, n
  <2> QED
    BY <1>1, <1>2, <1>5, Cut
<1>7. \A c \in Clause : \A z \in Lengths :
        /\ Contains(f[z], c) <=> Contains(t.bucket[z], c) \/ (Contains(t.cls, c) /\ Size[c] = z)
        /\ ~ (Contains(t.bucket[z], c) /\ Contains(t.cls, c))
  BY DEF LoopInv, Split
<1>8. \A y : Contains(l, y) => y \in Clause
  <2> HIDE DEF l
  <2> QED
    BY <1>6, LenProperties, ElementOfSeq DEF Contains
<1>9. \A y : ~ (Contains(t.cls, y) /\ Contains(l, y))
  BY <1>6, <1>7, <1>8
<1>10. /\ cs \in Seq(Clause) /\ IsInjective(cs)
       /\ \A y : Contains(cs, y) <=> Contains(t.cls, y) \/ Contains(l, y)
       /\ Literals(cs) = Literals(t.cls) + s * n /\ Literals(t.cls) \in Nat
  <2>1. IsInjective(t.cls)
    BY DEF LoopInv
  <2> HIDE DEF l, n, q, h
  <2>2. /\ cs \in Seq(Clause) /\ IsInjective(cs)
        /\ \A y : Contains(cs, y) <=> Contains(t.cls, y) \/ Contains(l, y)
    BY <1>1, <1>6, <1>9, <2>1, ContainsConcat
  <2>3. s \in Nat /\ \A c \in Clause : Contains(l, c) => Size[c] = s
    BY <1>1, <1>5, <1>6
  <2>4. Literals(cs) = Literals(t.cls) + s * Len(l) /\ Literals(t.cls) \in Nat
    BY <1>1, <1>6, <2>3, LiteralsConcat
  <2> QED
    BY <1>6, <2>2, <2>4
<1>11. b \in [Lengths -> Seq(Clause)] /\ b[s] = h /\ \A z \in Lengths : z # s => b[z] = t.bucket[z]
  BY <1>1, <1>6
<1>12. t.space - s * n \in Nat
  BY <1>1, <1>2, <1>3
<1> HIDE DEF b, cs, h, l, n, u
<1>13. u \in Loops /\ u.space = t.space - s * n /\ u.cls = cs /\ u.bucket = b
  BY <1>4, <1>10, <1>11, <1>12 DEF Loops
<1>14. BucketsOK(u.bucket)
  <2>1. ASSUME NEW z \in Lengths
        PROVE  /\ z * Len(b[z]) <= share_lits /\ IsInjective(b[z])
               /\ \A c \in Clause : Contains(b[z], c) => Size[c] = z
    <3>1. CASE z = s
      <4>1. s * Len(q) <= share_lits
        BY DEF LoopInv, BucketsOK
      <4>2. s * Len(h) <= s * Len(q)
        <5>1. Len(h) \in Nat /\ Len(h) <= Len(q)
          BY <1>2, <1>3, <1>6
        <5> QED
          BY <1>1, <1>3, <5>1, Products
      <4>3. s * Len(h) \in Nat /\ s * Len(q) \in Nat
        BY <1>1, <1>2, <1>3, <1>6
      <4>4. s * Len(h) <= share_lits
        BY <4>1, <4>2, <4>3
      <4> QED
        BY <1>5, <1>6, <1>11, <3>1, <4>4
    <3>2. CASE z # s
      BY <1>11, <3>2 DEF LoopInv, BucketsOK
    <3> QED
      BY <3>1, <3>2
  <2> QED
    BY <1>11, <1>13, <2>1 DEF BucketsOK
<1>15. u.space + Literals(u.cls) = share_lits
  <2>1. t.space + Literals(t.cls) = share_lits
    BY DEF LoopInv
  <2> QED
    BY <1>1, <1>3, <1>10, <1>13, <2>1
<1>16. \A c \in Clause : Contains(u.cls, c) => Size[c] <= s
  <2> TAKE c \in Clause
  <2>1. Contains(t.cls, c) => Size[c] <= s - 1
    BY DEF LoopInv
  <2>2. Contains(l, c) => Size[c] = s
    BY <1>5, <1>6
  <2>3. Size[c] \in Nat
    BY ClauseAssumption
  <2> QED
    BY <1>1, <1>10, <1>13, <2>1, <2>2, <2>3
<1>17. Split(f, u)
  <2>1. SUFFICES ASSUME NEW c \in Clause, NEW z \in Lengths
                 PROVE  /\ Contains(f[z], c) <=> Contains(b[z], c) \/ (Contains(cs, c) /\ Size[c] = z)
                        /\ ~ (Contains(b[z], c) /\ Contains(cs, c))
    BY <1>13 DEF Split
  <2>2. CASE z = s
    BY <1>5, <1>6, <1>7, <1>10, <1>11, <2>2
  <2>3. CASE z # s
    <3>1. Contains(l, c) => Size[c] # z /\ ~Contains(t.bucket[z], c)
      BY <1>5, <1>6, <2>3 DEF LoopInv, BucketsOK
    <3> QED
      BY <1>7, <1>10, <1>11, <2>3, <3>1
  <2> QED
    BY <2>2, <2>3
<1>18. Tight(u, s)
  <2>1. SUFFICES ASSUME NEW z \in Lengths, z <= s, b[z] # <<>>
                 PROVE  /\ t.space - s * n < z
                        /\ \A c \in Clause : Contains(cs, c) => Size[c] <= z
    BY <1>13 DEF Tight
  <2>2. z \in Nat
    BY SizeTypes DEF Lengths
  <2>3. CASE z = s
    <3>1. Len(h) # 0
      <4>1. h # <<>>
        BY <1>11, <2>1, <2>3
      <4> QED
        BY <1>6, <4>1, EmptySeq
    <3>2. n < Len(q)
      BY <1>2, <1>3, <1>6, <3>1
    <3> QED
      BY <1>2, <1>13, <1>16, <2>3, <3>2
  <2>4. CASE z # s
    <3>1. z <= s - 1 /\ t.bucket[z] # <<>>
      BY <1>1, <1>11, <2>1, <2>2, <2>4
    <3>2. t.space < z /\ \A c \in Clause : Contains(t.cls, c) => Size[c] <= z
      BY <3>1 DEF LoopInv, Tight
    <3>3. n = 0
      BY <1>1, <1>2, <2>1, <2>2, <3>2
    <3>4. s * n = 0
      BY <1>1, <3>3
    <3>5. \A y : ~Contains(l, y)
      BY <1>6, <3>3 DEF Contains
    <3> QED
      BY <1>1, <1>10, <3>2, <3>4, <3>5
  <2> QED
    BY <2>3, <2>4
<1> QED
  BY <1>10, <1>13, <1>14, <1>15, <1>16, <1>17, <1>18 DEF LoopInv, u

LEMMA TakeType ==
  ASSUME NEW t \in Loops, NEW s \in Lengths
  PROVE  Take(t, s) \in Loops
<1> DEFINE q == t.bucket[s]
           n == TakenOf(q, t.space, s)
           l == LastOf(q, n)
           h == SubSeq(q, 1, Len(q) - n)
<1>1. /\ t.space \in Nat /\ t.cls \in Seq(Clause) /\ t.bucket \in [Lengths -> Seq(Clause)]
      /\ q \in Seq(Clause) /\ s \in Nat
  BY SizeTypes DEF Loops, Lengths
<1>2. n \in 0 .. Len(q) /\ s * n <= t.space
  <2> HIDE DEF q
  <2> QED
    BY <1>1, TakenTypes
<1>3. Len(q) \in Nat
  BY <1>1, LenProperties
<1>4. t.space - s * n \in Nat
  <2> HIDE DEF n
  <2>1. n \in Nat
    BY <1>2, <1>3
  <2>2. s * n \in Nat
    BY <1>1, <2>1
  <2> QED
    BY <1>1, <1>2, <2>2
<1>5. l \in Seq(Clause) /\ h \in Seq(Clause)
  <2> HIDE DEF q, n
  <2> QED
    BY <1>1, <1>2, Cut
<1>6. t.cls \o l \in Seq(Clause)
  <2> HIDE DEF l
  <2> QED
    BY <1>1, <1>5, ConcatProperties
<1>7. [t.bucket EXCEPT ![s] = h] \in [Lengths -> Seq(Clause)]
  <2> HIDE DEF h
  <2> QED
    BY <1>1, <1>5
<1>8. Take(t, s) = [space |-> t.space - s * n, cls |-> t.cls \o l,
                    bucket |-> [t.bucket EXCEPT ![s] = h]]
  BY DEF Take
<1> HIDE DEF n, l, h
<1> QED
  BY <1>4, <1>6, <1>7, <1>8 DEF Loops

(* sort_clauses as a whole. *)
LEMMA SortedIs ==
  ASSUME NEW x \in Worker, BucketsOK(Filled(x)), share_lits \in Nat
  PROVE  LoopInv(Filled(x), Sorted(x), MaxSize)
<1> DEFINE start == [space |-> share_lits, cls |-> <<>>, bucket |-> Filled(x)]
           Loop(f) == [s \in 0 .. MaxSize |-> IF s = 0 THEN start ELSE Take(f[s - 1], s)]
           b == CHOOSE f : f = Loop(f)
           step == [p \in (1 .. MaxSize) \X Loops |-> Take(p[2], p[1])]
<1>1. MaxSize \in Nat /\ Lengths = 1 .. MaxSize
  BY SizeTypes DEF Lengths
<1>2. Sorted(x) = b[MaxSize]
  BY DEF Sorted
<1>3. Filled(x) \in [Lengths -> Seq(Clause)]
  BY DEF BucketsOK
<1>4. start \in Loops
  BY <1>3, EmptySeq DEF Loops
<1>5. step \in [(1 .. MaxSize) \X Loops -> Loops]
  <2>1. \A p \in (1 .. MaxSize) \X Loops : Take(p[2], p[1]) \in Loops
    BY <1>1, TakeType
  <2> QED
    BY <2>1
<1>6. \A s \in 1 .. MaxSize : \A u \in Loops : step[<<s, u>>] = Take(u, s)
  OBVIOUS
<1> HIDE DEF start, step
<1>7. IsDefined(MaxSize, Loops, start, step)
  <2>1. IsStep(MaxSize, Loops, step)
    BY <1>5 DEF IsStep
  <2> QED
    BY <1>1, <1>4, <2>1, Recursion
<1>8. PICK f \in [0 .. MaxSize -> Loops] : /\ f[0] = start
                                           /\ \A s \in 1 .. MaxSize : f[s] = step[<<s, f[s - 1]>>]
  BY <1>7 DEF IsDefined
<1>9. \A s \in 1 .. MaxSize : s - 1 \in 0 .. MaxSize /\ f[s - 1] \in Loops
  BY <1>1
<1>10. \A s \in 0 .. MaxSize : f[s] = IF s = 0 THEN start ELSE Take(f[s - 1], s)
  <2> TAKE s \in 0 .. MaxSize
  <2>1. CASE s = 0
    BY <1>8, <2>1
  <2>2. CASE s # 0
    <3>1. s \in 1 .. MaxSize
      BY <1>1, <2>2
    <3> QED
      BY <1>6, <1>8, <1>9, <2>2, <3>1
  <2> QED
    BY <2>1, <2>2
<1>11. b = Loop(b)
  <2>1. f = Loop(f)
    BY <1>10
  <2> QED
    BY <2>1
<1> HIDE DEF b
<1>12. b[0] = start /\ \A s \in 1 .. MaxSize : b[s] = Take(b[s - 1], s)
  BY <1>1, <1>11
<1> DEFINE P == {s \in Nat : LoopInv(Filled(x), b[s], s)}
<1>13. 0 \in P
  <2>1. start.space = share_lits /\ start.cls = <<>> /\ start.bucket = Filled(x)
    BY DEF start
  <2>2. Literals(<<>>) = 0
    <3>1. <<>> \in Seq(Clause) /\ Len(<<>>) = 0
      BY EmptySeq
    <3> QED
      BY <3>1, LiteralsAre
  <2>3. IsInjective(<<>>) /\ \A c : ~Contains(<<>>, c)
    BY DEF IsInjective, Contains
  <2>4. Split(Filled(x), start)
    BY <2>1, <2>3 DEF Split
  <2>5. Tight(start, 0)
    BY <1>1 DEF Tight
  <2>6. LoopInv(Filled(x), start, 0)
    BY <1>4, <2>1, <2>2, <2>3, <2>4, <2>5 DEF LoopInv
  <2> QED
    BY <1>12, <2>6
<1>14. ASSUME NEW s \in 0 .. MaxSize, s < MaxSize, s \in P
       PROVE  s + 1 \in P
  <2>1. s + 1 \in 1 .. MaxSize /\ s + 1 - 1 = s /\ s + 1 \in Nat
    BY <1>1, <1>14
  <2>2. LoopInv(Filled(x), b[s], s)
    BY <1>14
  <2>3. b[s + 1] = Take(b[s], s + 1)
    BY <1>12, <2>1
  <2>4. LoopInv(Filled(x), Take(b[s], s + 1), s + 1)
    <3> DEFINE n == s + 1
               t == b[s]
               f0 == Filled(x)
    <3>1. n \in Lengths /\ n - 1 = s
      BY <1>1, <2>1
    <3>2. f0 \in [Lengths -> Seq(Clause)]
      BY <1>3
    <3>3. LoopInv(f0, t, n - 1)
      BY <2>2, <3>1
    <3> HIDE DEF n, t, f0
    <3>4. LoopInv(f0, Take(t, n), n)
      BY <3>1, <3>2, <3>3, TakeKeeps
    <3> QED
      BY <3>4 DEF n, t, f0
  <2> QED
    BY <2>1, <2>3, <2>4
<1> HIDE DEF P
<1>15. MaxSize \in P
  <2>1. MaxSize \in 0 .. MaxSize
    BY <1>1
  <2> QED
    BY <1>1, <1>13, <1>14, <2>1, Counting
<1> QED
  BY <1>2, <1>15 DEF P

-----------------------------------------------------------------------------
(* A round: the sharer is busy with one producer, and with one consumer     *)
(* after the other; who is still to come has not been given a limit above   *)
(* the bound yet.                                                           *)
Round == share \in {"collect", "increase", "push", "free"}
Handing == share \in {"increase", "push", "free"}
RoundInv ==
  /\ Round => i \in Worker
  /\ ~Round => cls = <<>>
  /\ share \in {"increase", "push"} => j \in Worker /\ j # i
  /\ share = "free" => j = N + 1
  /\ \A w \in Worker : Round /\ (i < w \/ (i = w /\ share = "collect")) => good_clause_lbd[w] < MaxLimit

(* Where a clause may be: on its way from the worker that has learnt it,    *)
(* through one queue, the hands of the sharer and one bucket, in one of     *)
(* them; and from there to the workers it has been given to.                *)
Ungiven(c) == \A w \in Worker : given[c][w] = 0
Origin ==
  \A c \in Clause : \A w \in Worker :
    /\ Contains(export_clause[w], c) => /\ src[c] = w /\ Ungiven(c) /\ ~Contains(cls, c)
                                        /\ \A x \in Worker : \A s \in Lengths : ~Contains(bucket[x][s], c)
    /\ \A s \in Lengths : Contains(bucket[w][s], c) => src[c] = w /\ Ungiven(c) /\ ~Contains(cls, c)
    /\ Contains(import_clause[w], c) \/ c \in hand[w] => given[c][w] = 1
    /\ ~ (Contains(import_clause[w], c) /\ c \in hand[w])
    /\ given[c][w] \in {0, 1} /\ (given[c][w] = 1 => src[c] \notin {NoWorker, w})

Reached(w, n) == w # i /\ (w < j \/ (w = j /\ share = "push" /\ n < k))
InHand ==
  \A n \in DOMAIN cls :
    /\ src[cls[n]] = i
    /\ share = "collect" => Ungiven(cls[n])
    /\ Handing => \A w \in Worker : given[cls[n]][w] = IF Reached(w, n) THEN 1 ELSE 0

Sized == \A w \in Worker : BucketsOK(bucket[w])

(* A clause not learnt yet has been nowhere; one that has left the places   *)
(* on the way has been given to everybody or to nobody.                     *)
Outcome ==
  \A c \in Clause :
    /\ src[c] = NoWorker => lost[c] = 0 /\ Ungiven(c)
    /\ src[c] # NoWorker /\ ~Underway(c) =>
         \/ \A w \in Worker : w # src[c] => given[c][w] = 1
         \/ Ungiven(c) /\ lost[c] > 0

ShareInv == TypeOK /\ RoundInv /\ Sized /\ HeldOnce /\ Origin /\ InHand /\ Outcome /\ RefsMatchHolders

-----------------------------------------------------------------------------
(* Facts for the single steps: sets of workers can be counted. *)
LEMMA WorkersFinite ==
  \A S \in SUBSET Worker :
    /\ IsFiniteSet(S) /\ Cardinality(S) \in Nat
    /\ \A w \in Worker \ S : Cardinality(S \cup {w}) = Cardinality(S) + 1
    /\ \A w \in S : Cardinality(S \ {w}) = Cardinality(S) - 1 /\ Cardinality(S) > 0
<1>1. IsFiniteSet(Worker)
  BY NAssumption, FS_Interval DEF Worker
<1> TAKE S \in SUBSET Worker
<1>2. IsFiniteSet(S) /\ Cardinality(S) \in Nat
  BY <1>1, FS_Subset, FS_CardinalityType
<1>3. \A w \in Worker \ S : Cardinality(S \cup {w}) = Cardinality(S) + 1
  BY <1>2, FS_AddElement
<1>4. \A w \in S : Cardinality(S \ {w}) = Cardinality(S) - 1
  BY <1>2, FS_RemoveElement
<1>5. \A w \in S : Cardinality(S) > 0
  <2> TAKE w \in S
  <2>1. Cardinality(S) # 0
    BY <1>2, FS_EmptySet
  <2> QED
    BY <1>2, <2>1
<1> QED
  BY <1>2, <1>3, <1>4, <1>5

(* A sequence without repetition is no longer than there are clauses. *)
LEMMA LengthBound ==
  ASSUME NEW q \in Seq(Clause), IsInjective(q)
  PROVE  Cardinality(Clause) \in Nat /\ Len(q) <= Cardinality(Clause)
<1>1. Len(q) \in Nat /\ DOMAIN q = 1 .. Len(q) /\ q \in [1 .. Len(q) -> Clause]
  BY LenProperties
<1>2. Cardinality(Clause) \in Nat
  BY ClauseAssumption, FS_CardinalityType
<1>3. q \in Injection(1 .. Len(q), Clause)
  BY <1>1 DEF Injection, IsInjective
<1>4. Cardinality(1 .. Len(q)) <= Cardinality(Clause)
  BY <1>3, ClauseAssumption, FS_Injection
<1>5. Cardinality(1 .. Len(q)) = Len(q)
  BY <1>1, FS_Interval
<1> QED
  BY <1>2, <1>4, <1>5

(* What the sharer has done of its loop over cls and what is still to do. *)
LEMMA Parts ==
  ASSUME NEW q \in Seq(Clause), NEW n \in 1 .. Len(q)
  PROVE  \A c : /\ Contains(From(q, n), c) <=> \E m \in 1 .. Len(q) : m >= n /\ q[m] = c
                /\ Contains(SubSeq(q, 1, n - 1), c) <=> \E m \in 1 .. Len(q) : m < n /\ q[m] = c
<1>1. Len(q) \in Nat
  BY LenProperties
<1>2. /\ n \in 1 .. Len(q) + 1 /\ Len(q) \in 0 .. Len(q)
      /\ 1 \in 1 .. Len(q) + 1 /\ n - 1 \in 0 .. Len(q)
  BY <1>1
<1>3. \A c : Contains(SubSeq(q, n, Len(q)), c) <=> \E a \in n .. Len(q) : q[a] = c
  BY <1>2, ContainsPart
<1>4. \A c : Contains(SubSeq(q, 1, n - 1), c) <=> \E a \in 1 .. n - 1 : q[a] = c
  <2> DEFINE e == n - 1
  <2>1. e \in 0 .. Len(q)
    BY <1>2
  <2> HIDE DEF e
  <2>2. \A c : Contains(SubSeq(q, 1, e), c) <=> \E a \in 1 .. e : q[a] = c
    BY <1>2, <2>1, ContainsPart
  <2> QED
    BY <2>2 DEF e
<1>5. /\ \A m \in 1 .. Len(q) : /\ m >= n <=> m \in n .. Len(q)
                                /\ m < n <=> m \in 1 .. n - 1
      /\ \A m \in n .. Len(q) : m \in 1 .. Len(q)
      /\ \A m \in 1 .. n - 1 : m \in 1 .. Len(q)
  BY <1>1
<1> QED
  BY <1>3, <1>4, <1>5 DEF From

(* A clause that has not been learnt is nowhere. *)
LEMMA Fresh ==
  ASSUME ShareInv, NEW c \in Clause, src[c] = NoWorker
  PROVE  /\ ~Underway(c) /\ ~Contains(cls, c)
         /\ \A w \in Worker : /\ ~Contains(export_clause[w], c) /\ ~Contains(import_clause[w], c)
                              /\ c \notin hand[w]
                              /\ \A s \in Lengths : ~Contains(bucket[w][s], c)
<1>1. \A w \in Worker : w # NoWorker
  BY NAssumption DEF Worker, NoWorker
<1>2. ~Contains(cls, c)
  <2>1. Round => i # NoWorker
    BY <1>1 DEF ShareInv, RoundInv
  <2>2. DOMAIN cls = 1 .. Len(cls)
    BY LenProperties DEF ShareInv, TypeOK
  <2>3. ~Round => Len(cls) = 0
    BY EmptySeq DEF ShareInv, RoundInv
  <2> QED
    BY <2>1, <2>2, <2>3 DEF ShareInv, InHand, Contains
<1>3. \A w \in Worker : /\ ~Contains(export_clause[w], c)
                        /\ \A s \in Lengths : ~Contains(bucket[w][s], c)
  BY <1>1 DEF ShareInv, Origin
<1>4. \A w \in Worker : ~Contains(import_clause[w], c) /\ c \notin hand[w]
  BY DEF ShareInv, Origin
<1> QED
  BY <1>2, <1>3, <1>4 DEF Underway

(* The places that hold a clause can be counted. *)
LEMMA HolderNumbers ==
  ASSUME NEW c \in Clause
  PROVE  /\ Exporting(c) \in SUBSET Worker /\ Storing(c) \in SUBSET Worker
         /\ Importing(c) \in SUBSET Worker /\ Reading(c) \in SUBSET Worker
         /\ HeldByWorkers(c) \in Nat /\ HeldBySharer(c) \in Nat
<1>1. /\ Exporting(c) \in SUBSET Worker /\ Storing(c) \in SUBSET Worker
      /\ Importing(c) \in SUBSET Worker /\ Reading(c) \in SUBSET Worker
  BY DEF Exporting, Storing, Importing, Reading
<1>2. /\ Cardinality(Exporting(c)) \in Nat /\ Cardinality(Storing(c)) \in Nat
      /\ Cardinality(Importing(c)) \in Nat /\ Cardinality(Reading(c)) \in Nat
  BY <1>1, WorkersFinite
<1>3. One(Contains(Owned, c)) \in Nat /\ One(Contains(Promised, c)) \in Nat
  BY DEF One
<1> QED
  BY <1>1, <1>2, <1>3 DEF HeldByWorkers, HeldBySharer

(* Each step keeps the invariant. A solver learns a clause that has been    *)
(* nowhere.                                                                 *)
LEMMA LearnKeeps ==
  ASSUME ShareInv, NEW w \in Worker, NEW c \in Clause, Learn(w, c), share_lits' = share_lits
  PROVE  ShareInv'
<1>1. /\ ~Underway(c) /\ ~Contains(cls, c)
      /\ \A v \in Worker : /\ ~Contains(export_clause[v], c) /\ ~Contains(import_clause[v], c)
                           /\ c \notin hand[v]
                           /\ \A s \in Lengths : ~Contains(bucket[v][s], c)
  BY Fresh DEF Learn
<1>2. /\ src[c] = NoWorker
      /\ src' = [src EXCEPT ![c] = w] /\ refs' = [refs EXCEPT ![c] = 1]
      /\ UNCHANGED <<import_clause, hand, share, i, j, k, cls, bucket, good_clause_lbd, terminated, given>>
  BY DEF Learn, worker_vars, sharer_vars
<1>3. w # NoWorker /\ \A v \in Worker : v # NoWorker
  BY NAssumption DEF Worker, NoWorker
<1> DEFINE room == ~Full(export_clause[w])
<1>4. /\ export_clause' \in [Worker -> Seq(Clause)]
      /\ \A v \in Worker : /\ Len(export_clause'[v]) <= Capacity /\ IsInjective(export_clause'[v])
                           /\ \A d : Contains(export_clause'[v], d) <=>
                                       Contains(export_clause[v], d) \/ (room /\ v = w /\ d = c)
  <2>1. /\ export_clause \in [Worker -> Seq(Clause)]
        /\ \A v \in Worker : Len(export_clause[v]) <= Capacity /\ IsInjective(export_clause[v])
    BY DEF ShareInv, TypeOK, HeldOnce
  <2>2. CASE ~room
    BY <2>1, <2>2 DEF Learn
  <2>3. CASE room
    <3> DEFINE q == Append(export_clause[w], c)
    <3>1. export_clause' = [export_clause EXCEPT ![w] = q]
      BY <2>3 DEF Learn
    <3>2. /\ q \in Seq(Clause) /\ Len(q) = Len(export_clause[w]) + 1 /\ IsInjective(q)
          /\ \A d : Contains(q, d) <=> Contains(export_clause[w], d) \/ d = c
      BY <1>1, <2>1, ContainsAppend
    <3>3. Len(q) <= Capacity
      <4>1. Len(export_clause[w]) \in Nat /\ Capacity \in Nat /\ ~ (Len(export_clause[w]) >= Capacity)
        BY <2>1, <2>3, LimitAssumption, LenProperties DEF Full
      <4> QED
        BY <3>2, <4>1
    <3> HIDE DEF q
    <3> QED
      BY <2>1, <2>3, <3>1, <3>2, <3>3
  <2> QED
    BY <2>2, <2>3
<1>5. /\ lost' \in [Clause -> Nat] /\ lost \in [Clause -> Nat]
      /\ \A d \in Clause : lost'[d] = lost[d] + IF d = c /\ ~room THEN 1 ELSE 0
  <2>1. lost \in [Clause -> Nat]
    BY DEF ShareInv, TypeOK
  <2>2. CASE room
    <3>1. lost' = lost
      BY <2>2 DEF Learn
    <3> QED
      BY <2>1, <2>2, <3>1
  <2>3. CASE ~room
    <3>1. lost' = [lost EXCEPT ![c] = @ + 1]
      BY <2>3 DEF Learn, Inc
    <3> HIDE DEF room
    <3> QED
      BY <2>1, <2>3, <3>1
  <2> QED
    BY <2>2, <2>3
<1> HIDE DEF room
<1>6. TypeOK'
  BY <1>2, <1>4, <1>5 DEF ShareInv, TypeOK
<1>7. RoundInv'
  BY <1>2 DEF ShareInv, RoundInv, Round
<1>8. Sized'
  BY <1>2 DEF ShareInv, Sized, BucketsOK
<1>9. HeldOnce'
  BY <1>2, <1>4 DEF ShareInv, HeldOnce
<1>10. src \in [Clause -> Worker \cup {NoWorker}]
  BY DEF ShareInv, TypeOK
<1>11. Origin'
  <2> SUFFICES ASSUME NEW d \in Clause, NEW v \in Worker
               PROVE  /\ Contains(export_clause'[v], d) =>
                           /\ src'[d] = v /\ Ungiven(d)' /\ ~Contains(cls', d)
                           /\ \A x \in Worker : \A s \in Lengths : ~Contains(bucket'[x][s], d)
                      /\ \A s \in Lengths : Contains(bucket'[v][s], d) => /\ src'[d] = v /\ Ungiven(d)'
                                                                          /\ ~Contains(cls', d)
                      /\ Contains(import_clause'[v], d) \/ d \in hand'[v] => given'[d][v] = 1
                      /\ ~ (Contains(import_clause'[v], d) /\ d \in hand'[v])
                      /\ given'[d][v] \in {0, 1} /\ (given'[d][v] = 1 => src'[d] \notin {NoWorker, v})
    BY DEF Origin
  <2>1. CASE d = c
    <3>1. Ungiven(c)
      BY <1>2 DEF ShareInv, Outcome
    <3> QED
      BY <1>1, <1>2, <1>4, <1>10, <2>1, <3>1 DEF Ungiven
  <2>2. CASE d # c
    <3>1. src'[d] = src[d] /\ (Contains(export_clause'[v], d) <=> Contains(export_clause[v], d))
      BY <1>2, <1>4, <1>10, <2>2
    <3> QED
      BY <1>2, <3>1 DEF ShareInv, Origin, Ungiven
  <2> QED
    BY <2>1, <2>2
<1>12. InHand'
  <2>1. \A n \in DOMAIN cls : cls[n] # c
    <3>1. DOMAIN cls = 1 .. Len(cls)
      BY LenProperties DEF ShareInv, TypeOK
    <3> QED
      BY <1>1, <3>1 DEF Contains
  <2> QED
    BY <1>2, <1>10, <2>1 DEF ShareInv, InHand, Ungiven, Handing, Reached
<1>13. Outcome'
  <2> SUFFICES ASSUME NEW d \in Clause
               PROVE  /\ src'[d] = NoWorker => lost'[d] = 0 /\ Ungiven(d)'
                      /\ src'[d] # NoWorker /\ ~Underway(d)' =>
                           \/ \A v \in Worker : v # src'[d] => given'[d][v] = 1
                           \/ Ungiven(d)' /\ lost'[d] > 0
    BY DEF Outcome
  <2>1. CASE d = c
    <3>1. Ungiven(c)' /\ src'[d] = w
      BY <1>2, <1>10, <2>1 DEF ShareInv, Outcome, Ungiven
    <3>2. room => Underway(c)'
      BY <1>4 DEF Underway
    <3>3. ~room => lost'[c] > 0
      BY <1>5
    <3> QED
      BY <1>3, <2>1, <3>1, <3>2, <3>3
  <2>2. CASE d # c
    <3>1. src'[d] = src[d] /\ lost'[d] = lost[d]
      BY <1>2, <1>5, <1>10, <2>2
    <3>2. Underway(d) => Underway(d)'
      BY <1>2, <1>4, <2>2 DEF Underway
    <3> QED
      BY <1>2, <3>1, <3>2 DEF ShareInv, Outcome, Ungiven
  <2> QED
    BY <2>1, <2>2
<1>14. RefsMatchHolders'
  <2> SUFFICES ASSUME NEW d \in Clause
               PROVE  refs'[d] = HeldByWorkers(d)' + HeldBySharer(d)' + lost'[d]
    BY <1>9 DEF RefsMatchHolders
  <2>1. /\ Storing(d)' = Storing(d) /\ Importing(d)' = Importing(d) /\ Reading(d)' = Reading(d)
        /\ HeldBySharer(d)' = HeldBySharer(d)
    BY <1>2 DEF Storing, Importing, Reading, HeldBySharer, Owned, Promised
  <2>2. refs \in [Clause -> Nat] /\ refs[d] = HeldByWorkers(d) + HeldBySharer(d) + lost[d]
    BY DEF ShareInv, TypeOK, RefsMatchHolders
  <2>3. CASE d = c
    <3>1. lost[c] = 0
      BY <1>2 DEF ShareInv, Outcome
    <3>2. Storing(c) = {} /\ Importing(c) = {} /\ Reading(c) = {}
      BY <1>1 DEF Storing, Importing, Reading
    <3>3. HeldBySharer(c) = 0
      <4>1. ~Contains(Owned, c) /\ ~Contains(Promised, c)
        <5>1. Handing => k \in 1 .. Len(cls)
          BY LenProperties DEF ShareInv, TypeOK, Handing
        <5>2. cls \in Seq(Clause)
          BY DEF ShareInv, TypeOK
        <5>3. \A m \in 1 .. Len(cls) : cls[m] # c
          BY <1>1 DEF Contains
        <5>4. Handing => ~Contains(From(cls, k), c) /\ ~Contains(SubSeq(cls, 1, k - 1), c)
          BY <5>1, <5>2, <5>3, Parts
        <5>5. ~Contains(<<>>, c)
          BY DEF Contains
        <5> QED
          BY <1>1, <5>4, <5>5 DEF Owned, Promised, Handing
      <4> QED
        BY <4>1 DEF HeldBySharer, One
    <3>4. Exporting(c)' = IF room THEN {w} ELSE {}
      BY <1>1, <1>4 DEF Exporting
    <3>5. Cardinality({}) = 0 /\ Cardinality({w}) = 1
      BY FS_EmptySet, FS_Singleton
    <3>6. refs'[c] = 1 /\ lost'[c] = IF room THEN 0 ELSE 1
      BY <1>2, <1>5, <2>2, <3>1
    <3>7. CASE room
      BY <2>1, <2>3, <3>2, <3>3, <3>4, <3>5, <3>6, <3>7 DEF HeldByWorkers
    <3>8. CASE ~room
      BY <2>1, <2>3, <3>2, <3>3, <3>4, <3>5, <3>6, <3>8 DEF HeldByWorkers
    <3> QED
      BY <3>7, <3>8
  <2>4. CASE d # c
    <3>1. Exporting(d)' = Exporting(d) /\ lost'[d] = lost[d] /\ refs'[d] = refs[d]
      BY <1>2, <1>4, <1>5, <2>2, <2>4 DEF Exporting
    <3> QED
      BY <2>1, <2>2, <3>1 DEF HeldByWorkers
  <2> QED
    BY <2>3, <2>4
<1> QED
  BY <1>6, <1>7, <1>8, <1>9, <1>11, <1>12, <1>13, <1>14 DEF ShareInv

(* A clause goes from the queue to the hand of the solver, where it still   *)
(* counts.                                                                  *)
LEMMA PopKeeps ==
  ASSUME ShareInv, NEW w \in Worker, Pop(w), share_lits' = share_lits
  PROVE  ShareInv'
<1>1. PICK c : c = Head(import_clause[w])
  OBVIOUS
<1> DEFINE q == Tail(import_clause[w])
<1>2. /\ import_clause[w] # <<>> /\ hand[w] = {}
      /\ hand' = [hand EXCEPT ![w] = {c}] /\ import_clause' = [import_clause EXCEPT ![w] = q]
      /\ UNCHANGED <<src, refs, given, lost, share, i, j, k, cls, bucket, export_clause,
                     good_clause_lbd, terminated>>
  BY <1>1 DEF Pop, clause_vars, sharer_vars
<1>3. /\ import_clause \in [Worker -> Seq(Clause)] /\ hand \in [Worker -> {{}} \cup {{d} : d \in Clause}]
      /\ \A v \in Worker : Len(import_clause[v]) <= Capacity /\ IsInjective(import_clause[v])
  BY DEF ShareInv, TypeOK, HeldOnce
<1>4. /\ c \in Clause /\ q \in Seq(Clause) /\ Len(q) = Len(import_clause[w]) - 1
      /\ IsInjective(q) /\ ~Contains(q, c)
      /\ \A d : Contains(import_clause[w], d) <=> Contains(q, d) \/ d = c
  BY <1>2, <1>3, <1>1, ContainsTail
<1>5. Len(q) <= Capacity
  <2>1. Len(import_clause[w]) \in Nat /\ Capacity \in Nat
    BY <1>3, LimitAssumption, LenProperties
  <2> QED
    BY <1>3, <1>4, <2>1
<1> HIDE DEF q
<1>6. /\ import_clause' \in [Worker -> Seq(Clause)] /\ hand' \in [Worker -> {{}} \cup {{d} : d \in Clause}]
      /\ \A v \in Worker :
           /\ Len(import_clause'[v]) <= Capacity /\ IsInjective(import_clause'[v])
           /\ \A d \in Clause :
                /\ Contains(import_clause'[v], d) <=> Contains(import_clause[v], d) /\ ~ (v = w /\ d = c)
                /\ d \in hand'[v] <=> d \in hand[v] \/ (v = w /\ d = c)
  <2>1. hand' \in [Worker -> {{}} \cup {{d} : d \in Clause}]
    BY <1>2, <1>3, <1>4
  <2>2. import_clause' \in [Worker -> Seq(Clause)]
    BY <1>2, <1>3, <1>4
  <2>3. ASSUME NEW v \in Worker
        PROVE  /\ Len(import_clause'[v]) <= Capacity /\ IsInjective(import_clause'[v])
               /\ \A d \in Clause :
                    Contains(import_clause'[v], d) <=> Contains(import_clause[v], d) /\ ~ (v = w /\ d = c)
    BY <1>2, <1>3, <1>4, <1>5
  <2>4. ASSUME NEW v \in Worker, NEW d \in Clause
        PROVE  d \in hand'[v] <=> d \in hand[v] \/ (v = w /\ d = c)
    BY <1>2, <1>3
  <2> QED
    BY <2>1, <2>2, <2>3, <2>4
<1>7. Contains(import_clause[w], c)
  BY <1>4
<1>8. TypeOK'
  BY <1>2, <1>6 DEF ShareInv, TypeOK
<1>9. RoundInv'
  BY <1>2 DEF ShareInv, RoundInv, Round
<1>10. Sized'
  BY <1>2 DEF ShareInv, Sized, BucketsOK
<1>11. HeldOnce'
  BY <1>2, <1>6 DEF ShareInv, HeldOnce
<1>12. Origin'
  <2> SUFFICES ASSUME NEW d \in Clause, NEW v \in Worker
               PROVE  /\ Contains(import_clause'[v], d) \/ d \in hand'[v] => given[d][v] = 1
                      /\ ~ (Contains(import_clause'[v], d) /\ d \in hand'[v])
    BY <1>2 DEF ShareInv, Origin, Ungiven
  <2> QED
    BY <1>4, <1>6, <1>7 DEF ShareInv, Origin
<1>13. InHand'
  BY <1>2 DEF ShareInv, InHand, Ungiven, Handing, Reached
<1>14. Outcome'
  BY <1>2 DEF ShareInv, Outcome, Ungiven, Underway
<1>15. RefsMatchHolders'
  <2> SUFFICES ASSUME NEW d \in Clause
               PROVE  refs'[d] = HeldByWorkers(d)' + HeldBySharer(d)' + lost'[d]
    BY <1>11 DEF RefsMatchHolders
  <2>1. /\ Storing(d)' = Storing(d) /\ Exporting(d)' = Exporting(d)
        /\ HeldBySharer(d)' = HeldBySharer(d)
    BY <1>2 DEF Storing, Exporting, HeldBySharer, Owned, Promised
  <2>2. refs[d] = HeldByWorkers(d) + HeldBySharer(d) + lost[d]
    BY DEF ShareInv, RefsMatchHolders
  <2>3. CASE d = c
    <3>1. w \in Importing(c) /\ Importing(c)' = Importing(c) \ {w}
      BY <1>4, <1>6, <1>7 DEF Importing
    <3>2. w \notin Reading(c) /\ Reading(c)' = Reading(c) \cup {w}
      BY <1>2, <1>4, <1>6 DEF Reading
    <3>3. Importing(c) \in SUBSET Worker /\ Reading(c) \in SUBSET Worker
      BY DEF Importing, Reading
    <3>4. /\ Cardinality(Importing(c)) \in Nat /\ Cardinality(Reading(c)) \in Nat
          /\ Cardinality(Importing(c)') = Cardinality(Importing(c)) - 1
          /\ Cardinality(Reading(c)') = Cardinality(Reading(c)) + 1
      BY <3>1, <3>2, <3>3, WorkersFinite
    <3>5. Cardinality(Exporting(c)) \in Nat /\ Cardinality(Storing(c)) \in Nat
      BY WorkersFinite DEF Exporting, Storing
    <3> QED
      BY <1>2, <2>1, <2>2, <2>3, <3>4, <3>5 DEF HeldByWorkers
  <2>4. CASE d # c
    <3>1. Importing(d)' = Importing(d) /\ Reading(d)' = Reading(d)
      BY <1>6, <2>4 DEF Importing, Reading
    <3> QED
      BY <1>2, <2>1, <2>2, <3>1 DEF HeldByWorkers
  <2> QED
    BY <2>3, <2>4
<1> QED
  BY <1>8, <1>9, <1>10, <1>11, <1>12, <1>13, <1>14, <1>15 DEF ShareInv

(* A solver lets go of a clause; who else holds it has counted for it. *)
LEMMA FreeKeeps ==
  ASSUME ShareInv, NEW w \in Worker, Free(w), share_lits' = share_lits
  PROVE  ShareInv'
<1>1. PICK c \in hand[w] :
        /\ refs' = [refs EXCEPT ![c] = @ - 1] /\ hand' = [hand EXCEPT ![w] = {}]
        /\ UNCHANGED <<src, given, lost, import_clause, share, i, j, k, cls, bucket, export_clause,
                       good_clause_lbd, terminated>>
  BY DEF Free, sharer_vars, Dec
<1>2. /\ hand \in [Worker -> {{}} \cup {{d} : d \in Clause}]
      /\ refs \in [Clause -> Nat]
  BY DEF ShareInv, TypeOK
<1>3. c \in Clause /\ hand[w] = {c}
  BY <1>1, <1>2
<1>4. /\ hand' \in [Worker -> {{}} \cup {{d} : d \in Clause}]
      /\ \A v \in Worker : \A d \in Clause : d \in hand'[v] <=> d \in hand[v] /\ ~ (v = w /\ d = c)
  BY <1>1, <1>2, <1>3
<1>5. HeldOnce'
  BY <1>1 DEF ShareInv, HeldOnce
<1>6. ASSUME NEW d \in Clause
      PROVE  refs'[d] \in Nat /\ refs'[d] = HeldByWorkers(d)' + HeldBySharer(d)' + lost'[d]
  <2>1. /\ Storing(d)' = Storing(d) /\ Exporting(d)' = Exporting(d) /\ Importing(d)' = Importing(d)
        /\ HeldBySharer(d)' = HeldBySharer(d)
    BY <1>1 DEF Storing, Exporting, Importing, HeldBySharer, Owned, Promised
  <2>2. refs[d] = HeldByWorkers(d) + HeldBySharer(d) + lost[d] /\ refs[d] \in Nat
    BY <1>2 DEF ShareInv, RefsMatchHolders
  <2>3. CASE d = c
    <3>1. w \in Reading(c) /\ Reading(c)' = Reading(c) \ {w}
      BY <1>3, <1>4 DEF Reading
    <3>2. /\ Cardinality(Reading(c)) \in Nat /\ Cardinality(Reading(c)) > 0
          /\ Cardinality(Reading(c)') = Cardinality(Reading(c)) - 1
      <4>1. Reading(c) \in SUBSET Worker
        BY DEF Reading
      <4> QED
        BY <3>1, <4>1, WorkersFinite
    <3>3. /\ Cardinality(Exporting(c)) \in Nat /\ Cardinality(Storing(c)) \in Nat
          /\ Cardinality(Importing(c)) \in Nat
      BY WorkersFinite DEF Exporting, Storing, Importing
    <3>4. HeldBySharer(c) \in Nat
      BY <1>3, HolderNumbers
    <3>5. refs'[c] = refs[c] - 1 /\ lost[c] \in Nat
      BY <1>1, <1>2, <1>3 DEF ShareInv, TypeOK
    <3> QED
      BY <1>1, <2>1, <2>2, <2>3, <3>2, <3>3, <3>4, <3>5 DEF HeldByWorkers
  <2>4. CASE d # c
    <3>1. Reading(d)' = Reading(d)
      BY <1>4, <2>4 DEF Reading
    <3>2. refs'[d] = refs[d]
      BY <1>1, <1>2, <2>4
    <3> QED
      BY <1>1, <2>1, <2>2, <3>1, <3>2 DEF HeldByWorkers
  <2> QED
    BY <2>3, <2>4
<1>7. refs' \in [Clause -> Nat]
  <2>1. DOMAIN refs' = Clause /\ refs' = [d \in Clause |-> refs'[d]]
    BY <1>1, <1>2
  <2> QED
    BY <1>6, <2>1
<1>8. TypeOK'
  BY <1>1, <1>4, <1>7 DEF ShareInv, TypeOK
<1>9. RoundInv'
  BY <1>1 DEF ShareInv, RoundInv, Round
<1>10. Sized'
  BY <1>1 DEF ShareInv, Sized, BucketsOK
<1>11. Origin'
  <2> SUFFICES ASSUME NEW d \in Clause, NEW v \in Worker
               PROVE  /\ d \in hand'[v] => given[d][v] = 1
                      /\ ~ (Contains(import_clause[v], d) /\ d \in hand'[v])
    BY <1>1 DEF ShareInv, Origin, Ungiven
  <2> QED
    BY <1>4 DEF ShareInv, Origin
<1>12. InHand'
  BY <1>1 DEF ShareInv, InHand, Ungiven, Handing, Reached
<1>13. Outcome'
  BY <1>1 DEF ShareInv, Outcome, Ungiven, Underway
<1>14. RefsMatchHolders'
  BY <1>5, <1>6 DEF RefsMatchHolders
<1> QED
  BY <1>5, <1>8, <1>9, <1>10, <1>11, <1>12, <1>13, <1>14 DEF ShareInv

(* Steps that leave the exchange alone. *)
LEMMA CalmKeeps ==
  ASSUME ShareInv, Terminate \/ UNCHANGED vars, share_lits' = share_lits
  PROVE  ShareInv'
<1>1. /\ UNCHANGED <<src, refs, given, lost, import_clause, hand, share, i, j, k, cls, bucket,
                     export_clause, good_clause_lbd>>
      /\ terminated' \in BOOLEAN
  BY DEF Terminate, vars, clause_vars, worker_vars, sharer_vars, ShareInv, TypeOK
<1>2. TypeOK'
  BY <1>1 DEF ShareInv, TypeOK
<1>3. RoundInv' /\ Sized' /\ HeldOnce'
  BY <1>1 DEF ShareInv, RoundInv, Round, Sized, BucketsOK, HeldOnce
<1>4. Origin'
  BY <1>1 DEF ShareInv, Origin, Ungiven
<1>5. InHand' /\ Outcome'
  BY <1>1 DEF ShareInv, InHand, Ungiven, Handing, Reached, Outcome, Underway
<1>6. RefsMatchHolders'
  BY <1>1, <1>3 DEF ShareInv, RefsMatchHolders, HeldByWorkers, HeldBySharer, Exporting, Storing,
                    Importing, Reading, Owned, Promised
<1> QED
  BY <1>2, <1>3, <1>4, <1>5, <1>6 DEF ShareInv

(* A round begins with the first producer and with nothing in hand. *)
LEMMA WakeKeeps ==
  ASSUME ShareInv, Wake, share_lits' = share_lits
  PROVE  ShareInv'
<1>1. /\ UNCHANGED <<src, refs, given, lost, import_clause, hand, j, k, bucket, export_clause,
                     good_clause_lbd, terminated>>
      /\ share = "sleep" /\ share' \in {"end", "collect"} /\ i' = 1 /\ cls' = <<>>
      /\ \A w \in Worker : good_clause_lbd[w] < MaxLimit
  BY DEF Wake, clause_vars, worker_vars
<1>2. cls = <<>> /\ cls' = cls
  BY <1>1 DEF ShareInv, RoundInv, Round
<1>3. N \in Nat /\ 1 \in Worker /\ 1 \in 1 .. N + 1
  BY NAssumption DEF Worker
<1>4. DOMAIN cls = {}
  BY <1>2
<1>5. TypeOK'
  BY <1>1, <1>2, <1>3 DEF ShareInv, TypeOK
<1>6. RoundInv'
  BY <1>1, <1>2, <1>3 DEF ShareInv, RoundInv, Round
<1>7. Sized' /\ HeldOnce'
  BY <1>1, <1>2 DEF ShareInv, Sized, BucketsOK, HeldOnce
<1>8. Origin'
  BY <1>1, <1>2 DEF ShareInv, Origin, Ungiven
<1>9. InHand'
  BY <1>2, <1>4 DEF InHand
<1>10. Outcome'
  BY <1>1, <1>2 DEF ShareInv, Ungiven, Outcome, Underway
<1>11. RefsMatchHolders'
  <2>1. Owned' = Owned /\ Promised' = Promised
    BY <1>1, <1>2 DEF Owned, Promised
  <2> QED
    BY <1>1, <1>7, <2>1 DEF ShareInv, RefsMatchHolders, HeldByWorkers, HeldBySharer, Exporting, Storing,
                            Importing, Reading
<1> QED
  BY <1>5, <1>6, <1>7, <1>8, <1>9, <1>10, <1>11 DEF ShareInv

(* The consumers are taken in turn, without the producer. *)
LEMMA NextConsumerIs ==
  ASSUME NEW x \in Worker, NEW y \in 0 .. N
  PROVE  LET z == NextConsumer(x, y)
         IN  /\ z \in 1 .. N + 1 /\ (z <= N => z \in Worker /\ z # x) /\ (~ (z <= N) => z = N + 1)
             /\ \A w \in Worker : w # x => (w < z <=> w <= y)
<1> DEFINE after == {z \in Worker : z > y /\ z # x}
           c == NextConsumer(x, y)
<1>1. N \in Nat /\ y \in Nat /\ \A w \in Worker : w \in Nat /\ w >= 1 /\ w <= N
  BY NAssumption DEF Worker
<1>2. CASE after = {}
  <2>1. c = N + 1
    BY <1>2 DEF NextConsumer
  <2>2. \A w \in Worker : w # x => w <= y
    BY <1>1, <1>2
  <2> HIDE DEF c, after
  <2> QED
    BY <1>1, <2>1, <2>2 DEF c
<1>3. CASE after # {}
  <2>1. after \in SUBSET Nat
    BY <1>1
  <2>2. \E z \in after : \A v \in after : z <= v
    <3> HIDE DEF after
    <3> QED
      BY <1>3, <2>1, LeastNumber
  <2>3. c = CHOOSE z \in after : \A v \in after : z <= v
    BY <1>3 DEF NextConsumer, Min
  <2>4. c \in after /\ \A v \in after : c <= v
    <3> HIDE DEF after, c
    <3> QED
      BY <2>2, <2>3
  <2>5. c \in Worker /\ c > y /\ c # x
    BY <2>4
  <2> HIDE DEF c
  <2>6. c \in 1 .. N + 1 /\ c <= N
    BY <1>1, <2>5
  <2>7. \A w \in Worker : w # x => (w < c <=> w <= y)
    BY <1>1, <2>4, <2>5
  <2> QED
    BY <2>5, <2>6, <2>7 DEF c
<1> QED
  BY <1>2, <1>3

(* A clause goes from the queue of its producer to the hands of the sharer. *)
LEMMA CollectKeeps ==
  ASSUME ShareInv, Collect, share_lits' = share_lits
  PROVE  ShareInv'
<1>1. PICK w, c : w = i /\ c = Head(export_clause[i])
  OBVIOUS
<1> DEFINE q == Tail(export_clause[w])
           r == Append(cls, c)
<1>2. /\ share = "collect" /\ export_clause[w] # <<>>
      /\ cls' = r /\ export_clause' = [export_clause EXCEPT ![w] = q]
      /\ UNCHANGED <<src, refs, given, lost, import_clause, hand, share, i, j, k, bucket,
                     good_clause_lbd, terminated>>
  BY <1>1 DEF Collect, clause_vars, worker_vars
<1>3. /\ w \in Worker /\ export_clause \in [Worker -> Seq(Clause)] /\ cls \in Seq(Clause)
      /\ IsInjective(cls)
      /\ \A v \in Worker : Len(export_clause[v]) <= Capacity /\ IsInjective(export_clause[v])
  BY <1>1, <1>2 DEF ShareInv, TypeOK, HeldOnce, RoundInv, Round
<1>4. /\ c \in Clause /\ q \in Seq(Clause) /\ Len(q) = Len(export_clause[w]) - 1
      /\ IsInjective(q) /\ ~Contains(q, c)
      /\ \A d : Contains(export_clause[w], d) <=> Contains(q, d) \/ d = c
  BY <1>1, <1>2, <1>3, ContainsTail
<1>5. Len(q) <= Capacity
  <2>1. Len(export_clause[w]) \in Nat /\ Capacity \in Nat
    BY <1>3, LimitAssumption, LenProperties
  <2> QED
    BY <1>3, <1>4, <2>1
<1> HIDE DEF q
<1>6. /\ src[c] = w /\ Ungiven(c) /\ ~Contains(cls, c)
      /\ \A x \in Worker : \A s \in Lengths : ~Contains(bucket[x][s], c)
  BY <1>3, <1>4 DEF ShareInv, Origin
<1>7. /\ r \in Seq(Clause) /\ IsInjective(r) /\ Len(r) = Len(cls) + 1
      /\ \A d : Contains(r, d) <=> Contains(cls, d) \/ d = c
      /\ \A n \in DOMAIN r : (n \in DOMAIN cls /\ r[n] = cls[n]) \/ r[n] = c
  <2>1. /\ r \in Seq(Clause) /\ IsInjective(r) /\ Len(r) = Len(cls) + 1
        /\ \A d : Contains(r, d) <=> Contains(cls, d) \/ d = c
    BY <1>3, <1>4, <1>6, ContainsAppend
  <2>2. /\ \A n \in 1 .. Len(cls) : r[n] = cls[n]
        /\ r[Len(cls) + 1] = c
    BY <1>3, <1>4, AppendProperties
  <2>3. DOMAIN r = 1 .. Len(r) /\ DOMAIN cls = 1 .. Len(cls) /\ Len(cls) \in Nat
    BY <1>3, <2>1, LenProperties
  <2>4. \A n \in 1 .. Len(cls) + 1 : n \in 1 .. Len(cls) \/ n = Len(cls) + 1
    BY <2>3
  <2> HIDE DEF r
  <2> QED
    BY <2>1, <2>2, <2>3, <2>4
<1> HIDE DEF r
<1>8. /\ export_clause' \in [Worker -> Seq(Clause)]
      /\ \A v \in Worker :
           /\ Len(export_clause'[v]) <= Capacity /\ IsInjective(export_clause'[v])
           /\ \A d \in Clause : Contains(export_clause'[v], d) <=>
                                  Contains(export_clause[v], d) /\ ~ (v = w /\ d = c)
  BY <1>2, <1>3, <1>4, <1>5
<1>9. TypeOK'
  BY <1>2, <1>7, <1>8 DEF ShareInv, TypeOK
<1>10. RoundInv'
  BY <1>2 DEF ShareInv, RoundInv, Round
<1>11. Sized'
  BY <1>2 DEF ShareInv, Sized, BucketsOK
<1>12. HeldOnce'
  BY <1>2, <1>7, <1>8 DEF ShareInv, HeldOnce
<1>13. \A v \in Worker : Contains(export_clause[v], c) => v = w
  BY <1>4, <1>6 DEF ShareInv, Origin
<1>14. Origin'
  <2> SUFFICES ASSUME NEW d \in Clause, NEW v \in Worker
               PROVE  /\ Contains(export_clause'[v], d) =>
                           /\ src[d] = v /\ Ungiven(d) /\ ~Contains(cls', d)
                           /\ \A x \in Worker : \A s \in Lengths : ~Contains(bucket[x][s], d)
                      /\ \A s \in Lengths : Contains(bucket[v][s], d) => /\ src[d] = v /\ Ungiven(d)
                                                                         /\ ~Contains(cls', d)
    BY <1>2 DEF ShareInv, Origin, Ungiven
  <2> QED
    BY <1>2, <1>6, <1>7, <1>8, <1>13 DEF ShareInv, Origin
<1>15. InHand'
  BY <1>1, <1>2, <1>6, <1>7 DEF ShareInv, InHand, Ungiven, Handing, Reached
<1>16. Outcome'
  <2>1. \A d \in Clause : Underway(d) => Underway(d)'
    BY <1>2, <1>7, <1>8 DEF Underway
  <2> QED
    BY <1>2, <2>1 DEF ShareInv, Outcome, Ungiven
<1>17. RefsMatchHolders'
  <2> SUFFICES ASSUME NEW d \in Clause
               PROVE  refs'[d] = HeldByWorkers(d)' + HeldBySharer(d)' + lost'[d]
    BY <1>12 DEF RefsMatchHolders
  <2>1. /\ Storing(d)' = Storing(d) /\ Importing(d)' = Importing(d) /\ Reading(d)' = Reading(d)
        /\ refs'[d] = refs[d] /\ lost'[d] = lost[d]
    BY <1>2 DEF Storing, Importing, Reading
  <2>2. refs[d] = HeldByWorkers(d) + HeldBySharer(d) + lost[d]
    BY DEF ShareInv, RefsMatchHolders
  <2>3. /\ HeldBySharer(d) = One(Contains(cls, d)) + One(FALSE)
        /\ HeldBySharer(d)' = One(Contains(cls', d)) + One(FALSE)
    <3>1. ~Contains(<<>>, d)
      BY DEF Contains
    <3> QED
      BY <1>2, <3>1 DEF HeldBySharer, Owned, Promised, One
  <2>4. CASE d = c
    <3>1. w \in Exporting(c) /\ Exporting(c)' = Exporting(c) \ {w}
      BY <1>3, <1>4, <1>8 DEF Exporting
    <3>2. Cardinality(Exporting(c)) \in Nat /\ Cardinality(Exporting(c)') = Cardinality(Exporting(c)) - 1
      <4>1. Exporting(c) \in SUBSET Worker
        BY DEF Exporting
      <4> QED
        BY <3>1, <4>1, WorkersFinite
    <3>3. /\ Cardinality(Storing(c)) \in Nat /\ Cardinality(Importing(c)) \in Nat
          /\ Cardinality(Reading(c)) \in Nat
      BY WorkersFinite DEF Reading, Storing, Importing
    <3>4. HeldBySharer(c)' = 1 /\ HeldBySharer(c) = 0
      BY <1>2, <1>6, <1>7, <2>3, <2>4 DEF One
    <3>5. lost[c] \in Nat
      BY <1>4 DEF ShareInv, TypeOK
    <3> QED
      BY <2>1, <2>2, <2>4, <3>2, <3>3, <3>4, <3>5 DEF HeldByWorkers
  <2>5. CASE d # c
    <3>1. Exporting(d)' = Exporting(d)
      BY <1>8, <2>5 DEF Exporting
    <3>2. HeldBySharer(d)' = HeldBySharer(d)
      BY <1>2, <1>7, <2>3, <2>5 DEF One
    <3> QED
      BY <2>1, <2>2, <3>1, <3>2 DEF HeldByWorkers
  <2> QED
    BY <2>4, <2>5
<1> QED
  BY <1>9, <1>10, <1>11, <1>12, <1>14, <1>15, <1>16, <1>17 DEF ShareInv

(* Where the loop over cls stands: at one clause of it, which is there only *)
(* once.                                                                    *)
LEMMA HandingTypes ==
  ASSUME ShareInv, Handing
  PROVE  /\ cls \in Seq(Clause) /\ IsInjective(cls) /\ Len(cls) \in Nat /\ DOMAIN cls = 1 .. Len(cls)
         /\ k \in 1 .. Len(cls) /\ cls[k] \in Clause /\ Contains(cls, cls[k])
         /\ Cardinality(Clause) \in Nat /\ Len(cls) <= Cardinality(Clause)
         /\ i \in Worker /\ src[cls[k]] = i
         /\ \A c : Contains(cls, c) <=> \E m \in 1 .. Len(cls) : cls[m] = c
         /\ \A c : Contains(From(cls, k), c) <=> \E m \in 1 .. Len(cls) : m >= k /\ cls[m] = c
         /\ \A c : Contains(SubSeq(cls, 1, k - 1), c) <=> \E m \in 1 .. Len(cls) : m < k /\ cls[m] = c
         /\ \A m \in 1 .. Len(cls) : cls[m] = cls[k] => m = k
<1>1. /\ cls \in Seq(Clause) /\ IsInjective(cls) /\ k \in DOMAIN cls /\ i \in Worker
      /\ \A n \in DOMAIN cls : src[cls[n]] = i
  BY DEF ShareInv, TypeOK, HeldOnce, RoundInv, InHand, Handing, Round
<1>2. DOMAIN cls = 1 .. Len(cls) /\ Len(cls) \in Nat
  BY <1>1, LenProperties
<1>3. cls[k] \in Clause
  BY <1>1, <1>2, ElementOfSeq
<1>4. \A m \in 1 .. Len(cls) : cls[m] = cls[k] => m = k
  BY <1>1, <1>2 DEF IsInjective
<1>5. /\ \A c : Contains(From(cls, k), c) <=> \E m \in 1 .. Len(cls) : m >= k /\ cls[m] = c
      /\ \A c : Contains(SubSeq(cls, 1, k - 1), c) <=> \E m \in 1 .. Len(cls) : m < k /\ cls[m] = c
  <2>1. PICK q, n : q = cls /\ n = k
    OBVIOUS
  <2>2. q \in Seq(Clause) /\ n \in 1 .. Len(q)
    BY <1>1, <1>2, <2>1
  <2>3. \A c : /\ Contains(From(q, n), c) <=> \E m \in 1 .. Len(q) : m >= n /\ q[m] = c
               /\ Contains(SubSeq(q, 1, n - 1), c) <=> \E m \in 1 .. Len(q) : m < n /\ q[m] = c
    BY <2>2, Parts
  <2> QED
    BY <2>1, <2>3
<1>6. Contains(cls, cls[k]) /\ \A c : Contains(cls, c) <=> \E m \in 1 .. Len(cls) : cls[m] = c
  BY <1>1, <1>2 DEF Contains
<1> QED
  BY <1>1, <1>2, <1>3, <1>4, <1>5, <1>6, LengthBound

(* When the loop over cls begins again all of it is still to do. *)
LEMMA WholePart ==
  ASSUME NEW q \in Seq(Clause), 1 \in 1 .. Len(q)
  PROVE  \A c : /\ Contains(From(q, 1), c) <=> Contains(q, c)
                /\ ~Contains(SubSeq(q, 1, 1 - 1), c)
<1>1. Len(q) \in Nat
  BY LenProperties
<1>2. \A c : /\ Contains(From(q, 1), c) <=> \E m \in 1 .. Len(q) : m >= 1 /\ q[m] = c
             /\ Contains(SubSeq(q, 1, 1 - 1), c) <=> \E m \in 1 .. Len(q) : m < 1 /\ q[m] = c
  <2>1. PICK n : n = 1
    OBVIOUS
  <2>2. \A c : /\ Contains(From(q, n), c) <=> \E m \in 1 .. Len(q) : m >= n /\ q[m] = c
               /\ Contains(SubSeq(q, 1, n - 1), c) <=> \E m \in 1 .. Len(q) : m < n /\ q[m] = c
    BY <2>1, Parts
  <2> QED
    BY <2>1, <2>2
<1>3. DOMAIN q = 1 .. Len(q) /\ \A m \in 1 .. Len(q) : m >= 1 /\ ~ (m < 1)
  BY <1>1, LenProperties
<1>4. \A c : Contains(q, c) <=> \E m \in 1 .. Len(q) : q[m] = c
  BY <1>3 DEF Contains
<1> QED
  BY <1>2, <1>3, <1>4

(* A clause is counted for the consumer j before it is pushed. *)
LEMMA IncreaseKeeps ==
  ASSUME ShareInv, Increase, share_lits' = share_lits
  PROVE  ShareInv'
<1>1. /\ share = "increase" /\ Handing
      /\ UNCHANGED <<src, given, lost, import_clause, hand, i, j, cls, bucket, export_clause,
                     good_clause_lbd, terminated>>
      /\ refs' = [refs EXCEPT ![cls[k]] = @ + 1]
      /\ k' = IF k = Len(cls) THEN 1 ELSE k + 1
      /\ share' = IF k = Len(cls) THEN "push" ELSE "increase"
  BY DEF Increase, worker_vars, Inc, AtLast, Handing
<1>2. PICK c : c = cls[k]
  OBVIOUS
<1>3. /\ cls \in Seq(Clause) /\ Len(cls) \in Nat /\ DOMAIN cls = 1 .. Len(cls)
      /\ k \in 1 .. Len(cls) /\ c \in Clause /\ Contains(cls, c)
      /\ Cardinality(Clause) \in Nat /\ Len(cls) <= Cardinality(Clause)
      /\ \A d : Contains(SubSeq(cls, 1, k - 1), d) <=> \E m \in 1 .. Len(cls) : m < k /\ cls[m] = d
      /\ \A m \in 1 .. Len(cls) : cls[m] = c <=> m = k
  BY <1>1, <1>2, HandingTypes
<1>4. k' \in 1 .. Len(cls) /\ k' \in 1 .. Cardinality(Clause) /\ 1 \in 1 .. Len(cls)
  <2>1. PICK l : l = Len(cls)
    OBVIOUS
  <2>2. l \in Nat /\ k \in 1 .. l /\ l <= Cardinality(Clause) /\ k' = IF k = l THEN 1 ELSE k + 1
    BY <1>1, <1>3, <2>1
  <2>3. k' \in 1 .. l /\ 1 \in 1 .. l
    BY <2>2
  <2>4. k' \in 1 .. Cardinality(Clause)
    BY <1>3, <2>2, <2>3
  <2> QED
    BY <2>1, <2>3, <2>4
<1>5. /\ refs \in [Clause -> Nat] /\ refs' \in [Clause -> Nat]
      /\ \A d \in Clause : refs'[d] = IF d = c THEN refs[d] + 1 ELSE refs[d]
  <2>1. refs \in [Clause -> Nat]
    BY DEF ShareInv, TypeOK
  <2>2. refs' = [refs EXCEPT ![c] = @ + 1]
    BY <1>1, <1>2
  <2> QED
    BY <1>3, <2>1, <2>2
<1>6. TypeOK'
  BY <1>1, <1>3, <1>4, <1>5 DEF ShareInv, TypeOK
<1>7. RoundInv'
  BY <1>1 DEF ShareInv, RoundInv, Round
<1>8. Sized' /\ HeldOnce'
  BY <1>1 DEF ShareInv, Sized, BucketsOK, HeldOnce
<1>9. Origin'
  BY <1>1 DEF ShareInv, Origin, Ungiven
<1>10. InHand'
  <2>1. \A n \in DOMAIN cls : \A w \in Worker : Reached(w, n)' <=> Reached(w, n)
    <3>1. \A n \in DOMAIN cls : ~ (n < 1)
      BY <1>3
    <3> QED
      BY <1>1, <3>1 DEF Reached
  <2>2. Handing' /\ share' # "collect"
    BY <1>1 DEF Handing
  <2> QED
    BY <1>1, <2>1, <2>2 DEF ShareInv, InHand, Ungiven
<1>11. Outcome'
  BY <1>1 DEF ShareInv, Outcome, Underway, Ungiven
<1>12. RefsMatchHolders'
  <2> SUFFICES ASSUME NEW d \in Clause
               PROVE  refs'[d] = HeldByWorkers(d)' + HeldBySharer(d)' + lost'[d]
    BY <1>8 DEF RefsMatchHolders
  <2>1. HeldByWorkers(d)' = HeldByWorkers(d) /\ HeldByWorkers(d) \in Nat /\ lost[d] \in Nat
    BY <1>1, HolderNumbers DEF HeldByWorkers, Exporting, Storing, Importing, Reading, ShareInv, TypeOK
  <2>2. Contains(Promised, d) <=> \E m \in 1 .. Len(cls) : m < k /\ cls[m] = d
    BY <1>1, <1>3 DEF Promised
  <2>3. Contains(Promised', d) <=> \E m \in 1 .. Len(cls) : m <= k /\ cls[m] = d
    <3>1. CASE k = Len(cls)
      <4>1. Promised' = From(cls, 1)
        BY <1>1, <3>1 DEF Promised
      <4>2. \A m \in 1 .. Len(cls) : m <= k
        <5>1. PICK l : l = Len(cls)
          OBVIOUS
        <5>2. l \in Nat /\ k = l
          BY <1>3, <3>1, <5>1
        <5>3. \A m \in 1 .. l : m <= k
          BY <5>2
        <5> QED
          BY <5>1, <5>3
      <4>3. Contains(Promised', d) <=> Contains(cls, d)
        BY <1>3, <1>4, <4>1, WholePart
      <4>4. Contains(cls, d) <=> \E m \in 1 .. Len(cls) : cls[m] = d
        BY <1>3 DEF Contains
      <4> QED
        BY <4>2, <4>3, <4>4
    <3>2. CASE k # Len(cls)
      <4>1. PICK n, q : n = k + 1 /\ q = cls
        OBVIOUS
      <4>2. n = k' /\ k' = k + 1 /\ share' = "increase" /\ cls' = cls
        BY <1>1, <3>2, <4>1
      <4>3. Promised' = SubSeq(q, 1, n - 1)
        BY <4>1, <4>2 DEF Promised
      <4>4. n \in 1 .. Len(q) /\ q \in Seq(Clause)
        BY <1>3, <1>4, <4>1, <4>2
      <4>5. \A e : /\ Contains(From(q, n), e) <=> \E m \in 1 .. Len(q) : m >= n /\ q[m] = e
                   /\ Contains(SubSeq(q, 1, n - 1), e) <=> \E m \in 1 .. Len(q) : m < n /\ q[m] = e
        BY <4>4, Parts
      <4>6. \A m \in 1 .. Len(q) : m < n <=> m <= k
        <5>1. PICK o, l : o = k /\ l = Len(q)
          OBVIOUS
        <5>2. o \in Nat /\ l \in Nat /\ n = o + 1
          BY <1>3, <4>1, <5>1
        <5>3. n \in Nat /\ \A m \in 1 .. l : m \in Nat
          BY <5>2
        <5>4. \A m \in Nat : m < n <=> m <= o
          BY <5>2
        <5> QED
          BY <5>1, <5>3, <5>4
      <4> QED
        BY <4>1, <4>3, <4>5, <4>6
    <3> QED
      BY <3>1, <3>2
  <2>4. Owned' = cls /\ Owned = cls
    BY <1>1 DEF Owned
  <2>5. refs[d] = HeldByWorkers(d) + HeldBySharer(d) + lost[d]
    BY DEF ShareInv, RefsMatchHolders
  <2>6. CASE d = c
    <3>1. ~Contains(Promised, d) /\ Contains(Promised', d)
      BY <1>3, <2>2, <2>3, <2>6
    <3>2. HeldBySharer(d)' = HeldBySharer(d) + 1 /\ HeldBySharer(d) \in Nat
      BY <2>4, <3>1 DEF HeldBySharer, One
    <3>3. refs'[d] = refs[d] + 1
      BY <1>5, <2>6
    <3> QED
      BY <1>1, <2>1, <2>5, <3>2, <3>3
  <2>7. CASE d # c
    <3>1. Contains(Promised', d) <=> Contains(Promised, d)
      BY <1>3, <2>2, <2>3, <2>7
    <3>2. HeldBySharer(d)' = HeldBySharer(d)
      BY <2>4, <3>1 DEF HeldBySharer, One
    <3>3. refs'[d] = refs[d]
      BY <1>5, <2>7
    <3> QED
      BY <1>1, <2>1, <2>5, <3>2, <3>3
  <2> QED
    BY <2>6, <2>7
<1> QED
  BY <1>6, <1>7, <1>8, <1>9, <1>10, <1>11, <1>12 DEF ShareInv

(* A clause counted for j is pushed to j, or lost with its reference. *)
LEMMA PushKeeps ==
  ASSUME ShareInv, Push, share_lits' = share_lits
  PROVE  ShareInv'
<1>1. /\ share = "push" /\ Handing
      /\ UNCHANGED <<src, refs, hand, i, cls, bucket, export_clause, good_clause_lbd, terminated>>
  BY DEF Push, Handing
<1>2. PICK c, w, z, l : c = cls[k] /\ w = j /\ z = NextConsumer(i, j) /\ l = Len(cls)
  OBVIOUS
<1> DEFINE room == ~Full(import_clause[w])
<1>3. /\ cls \in Seq(Clause) /\ l \in Nat /\ DOMAIN cls = 1 .. l
      /\ k \in 1 .. l /\ c \in Clause /\ Contains(cls, c)
      /\ Cardinality(Clause) \in Nat /\ l <= Cardinality(Clause)
      /\ i \in Worker /\ src[c] = i
      /\ \A d : Contains(From(cls, k), d) <=> \E m \in 1 .. l : m >= k /\ cls[m] = d
      /\ \A m \in 1 .. l : cls[m] = c <=> m = k
  BY <1>1, <1>2, HandingTypes
<1>4. w \in Worker /\ w # i /\ w \in 0 .. N
  <2>1. w \in Worker /\ w # i
    BY <1>1, <1>2 DEF ShareInv, RoundInv
  <2> QED
    BY <2>1, NAssumption DEF Worker
<1>5. /\ z \in 1 .. N + 1 /\ (z <= N => z \in Worker /\ z # i) /\ (~ (z <= N) => z = N + 1)
      /\ \A v \in Worker : v # i => (v < z <=> v <= w)
  <2>1. PICK x : x = i
    OBVIOUS
  <2>2. z = NextConsumer(x, w)
    BY <1>2, <2>1
  <2> QED
    BY <1>3, <1>4, <2>1, <2>2, NextConsumerIs
<1>6. /\ k = l => /\ k' = 1 /\ j' = z
                  /\ share' = IF z <= N THEN "increase" ELSE "free"
      /\ k # l => k' = k + 1 /\ j' = w /\ share' = "push"
  BY <1>1, <1>2 DEF Push, AtLast, Turn
<1>7. /\ k' \in 1 .. l /\ k' \in 1 .. Cardinality(Clause) /\ 1 \in 1 .. l
      /\ j' \in 1 .. N + 1 /\ share' \in {"increase", "push", "free"}
  <2>1. k' \in 1 .. l /\ 1 \in 1 .. l
    BY <1>3, <1>6
  <2>2. k' \in 1 .. Cardinality(Clause)
    BY <1>3, <2>1
  <2>3. w \in 1 .. N + 1
    BY <1>4, NAssumption DEF Worker
  <2> QED
    BY <1>5, <1>6, <2>1, <2>2, <2>3
<1>8. /\ given \in [Clause -> [Worker -> Nat]] /\ given[c][w] = 0
      /\ given' \in [Clause -> [Worker -> Nat]]
      /\ \A d \in Clause : \A v \in Worker :
           given'[d][v] = IF d = c /\ v = w THEN 1 ELSE given[d][v]
  <2>1. given \in [Clause -> [Worker -> Nat]]
    BY DEF ShareInv, TypeOK
  <2>2. given[c][w] = 0
    <3>1. ~Reached(w, k)
      BY <1>1, <1>2, <1>3, <1>4 DEF Reached, Worker
    <3> QED
      BY <1>1, <1>2, <1>3, <1>4, <3>1 DEF ShareInv, InHand
  <2>3. given' = [given EXCEPT ![c][w] = @ + 1]
    BY <1>2 DEF Push
  <2>4. c \in Clause /\ w \in Worker /\ given[c] \in [Worker -> Nat]
    BY <1>3, <1>4, <2>1
  <2>5. given' = [given EXCEPT ![c] = [given[c] EXCEPT ![w] = 1]]
    BY <2>1, <2>2, <2>3, <2>4
  <2> QED
    BY <2>1, <2>2, <2>4, <2>5
<1>9. ~Contains(import_clause[w], c) /\ c \notin hand[w]
  BY <1>3, <1>4, <1>8 DEF ShareInv, Origin
<1>10. /\ import_clause' \in [Worker -> Seq(Clause)]
       /\ \A v \in Worker : /\ Len(import_clause'[v]) <= Capacity /\ IsInjective(import_clause'[v])
                            /\ \A d : Contains(import_clause'[v], d) <=>
                                        Contains(import_clause[v], d) \/ (room /\ v = w /\ d = c)
  <2>1. /\ import_clause \in [Worker -> Seq(Clause)]
        /\ \A v \in Worker : Len(import_clause[v]) <= Capacity /\ IsInjective(import_clause[v])
    BY DEF ShareInv, TypeOK, HeldOnce
  <2>2. CASE ~room
    <3>1. import_clause' = import_clause
      BY <1>2, <2>2 DEF Push
    <3> QED
      BY <2>1, <2>2, <3>1
  <2>3. CASE room
    <3> DEFINE q == Append(import_clause[w], c)
    <3>1. import_clause' = [import_clause EXCEPT ![w] = q]
      BY <1>2, <2>3 DEF Push
    <3>2. /\ q \in Seq(Clause) /\ Len(q) = Len(import_clause[w]) + 1 /\ IsInjective(q)
          /\ \A d : Contains(q, d) <=> Contains(import_clause[w], d) \/ d = c
      BY <1>3, <1>4, <1>9, <2>1, ContainsAppend
    <3>3. Len(q) <= Capacity
      <4>1. Len(import_clause[w]) \in Nat /\ Capacity \in Nat /\ ~ (Len(import_clause[w]) >= Capacity)
        BY <1>4, <2>1, <2>3, LimitAssumption, LenProperties DEF Full
      <4> QED
        BY <3>2, <4>1
    <3> HIDE DEF q
    <3> QED
      BY <1>4, <2>1, <2>3, <3>1, <3>2, <3>3
  <2> QED
    BY <2>2, <2>3
<1>11. /\ lost' \in [Clause -> Nat] /\ lost \in [Clause -> Nat]
       /\ \A d \in Clause : lost'[d] = lost[d] + IF d = c /\ ~room THEN 1 ELSE 0
  <2>1. lost \in [Clause -> Nat]
    BY DEF ShareInv, TypeOK
  <2>2. CASE room
    <3>1. lost' = lost
      BY <1>2, <2>2 DEF Push
    <3> QED
      BY <2>1, <2>2, <3>1
  <2>3. CASE ~room
    <3>1. lost' = [lost EXCEPT ![c] = @ + 1]
      BY <1>2, <2>3 DEF Push, Inc
    <3> HIDE DEF room
    <3> QED
      BY <1>3, <2>1, <2>3, <3>1
  <2> QED
    BY <2>2, <2>3
<1> HIDE DEF room
<1>12. TypeOK'
  BY <1>1, <1>2, <1>3, <1>7, <1>8, <1>10, <1>11 DEF ShareInv, TypeOK
<1>13. RoundInv'
  BY <1>1, <1>2, <1>4, <1>5, <1>6 DEF ShareInv, RoundInv, Round
<1>14. Sized' /\ HeldOnce'
  BY <1>1, <1>10 DEF ShareInv, Sized, BucketsOK, HeldOnce
<1>15. Origin'
  <2> SUFFICES ASSUME NEW d \in Clause, NEW v \in Worker
               PROVE  /\ Contains(export_clause[v], d) =>
                           /\ src[d] = v /\ Ungiven(d)' /\ ~Contains(cls, d)
                           /\ \A x \in Worker : \A s \in Lengths : ~Contains(bucket[x][s], d)
                      /\ \A s \in Lengths : Contains(bucket[v][s], d) => /\ src[d] = v /\ Ungiven(d)'
                                                                         /\ ~Contains(cls, d)
                      /\ Contains(import_clause'[v], d) \/ d \in hand[v] => given'[d][v] = 1
                      /\ ~ (Contains(import_clause'[v], d) /\ d \in hand[v])
                      /\ given'[d][v] \in {0, 1} /\ (given'[d][v] = 1 => src[d] \notin {NoWorker, v})
    BY <1>1 DEF Origin
  <2>1. CASE d = c
    <3>1. src[c] \notin {NoWorker, w}
      BY <1>3, <1>4, NAssumption DEF Worker, NoWorker
    <3>2. /\ ~Contains(export_clause[v], c) /\ \A s \in Lengths : ~Contains(bucket[v][s], c)
          /\ Contains(import_clause[v], c) \/ c \in hand[v] => given[c][v] = 1
          /\ ~ (Contains(import_clause[v], c) /\ c \in hand[v])
          /\ given[c][v] \in {0, 1} /\ (given[c][v] = 1 => src[c] \notin {NoWorker, v})
      BY <1>3 DEF ShareInv, Origin
    <3>3. given'[c][v] = IF v = w THEN 1 ELSE given[c][v]
      BY <1>3, <1>8
    <3>4. Contains(import_clause'[v], c) <=> Contains(import_clause[v], c) \/ (room /\ v = w)
      BY <1>10
    <3> QED
      BY <1>9, <2>1, <3>1, <3>2, <3>3, <3>4
  <2>2. CASE d # c
    <3>1. Ungiven(d)' <=> Ungiven(d)
      BY <1>8, <2>2 DEF Ungiven
    <3> QED
      BY <1>8, <1>10, <2>2, <3>1 DEF ShareInv, Origin
  <2> QED
    BY <2>1, <2>2
<1>16. InHand'
  <2>1. \A n \in 1 .. l :
          src[cls[n]] = i /\ \A v \in Worker : given[cls[n]][v] = IF Reached(v, n) THEN 1 ELSE 0
    BY <1>1, <1>3 DEF ShareInv, InHand
  <2>2. \A n \in 1 .. l : \A v \in Worker : Reached(v, n)' <=> Reached(v, n) \/ (v = w /\ n = k)
    <3> TAKE n \in 1 .. l
    <3> TAKE v \in Worker
    <3>1. v \in Nat /\ w \in Nat /\ n \in Nat /\ k \in Nat /\ n <= l
      BY <1>3, <1>4 DEF Worker
    <3>2. CASE k # l
      BY <1>1, <1>2, <1>4, <1>6, <3>1, <3>2 DEF Reached
    <3>3. CASE k = l
      <4>1. Reached(v, n)' <=> v # i /\ v <= w
        BY <1>1, <1>5, <1>6, <3>3 DEF Reached
      <4> QED
        BY <1>1, <1>2, <1>4, <3>1, <3>3, <4>1 DEF Reached
    <3> QED
      BY <3>2, <3>3
  <2>3. \A n \in 1 .. l : \A v \in Worker : given'[cls[n]][v] = IF Reached(v, n)' THEN 1 ELSE 0
    <3> TAKE n \in 1 .. l
    <3> TAKE v \in Worker
    <3>1. PICK e : e = cls[n]
      OBVIOUS
    <3>2. e \in Clause
      BY <1>2, <1>3, <3>1, ElementOfSeq
    <3>3. (e = c <=> n = k) /\ given[e][v] = IF Reached(v, n) THEN 1 ELSE 0
      BY <1>3, <2>1, <3>1
    <3>4. given'[e][v] = IF e = c /\ v = w THEN 1 ELSE given[e][v]
      BY <1>8, <3>2
    <3>5. Reached(v, n)' <=> Reached(v, n) \/ (v = w /\ n = k)
      BY <2>2
    <3>6. given'[e][v] = IF Reached(v, n)' THEN 1 ELSE 0
      BY <3>3, <3>4, <3>5
    <3> QED
      BY <3>1, <3>6
  <2> QED
    BY <1>1, <1>3, <1>7, <2>1, <2>3 DEF InHand
<1>17. Outcome'
  <2>1. \A d \in Clause : Underway(d)' <=> Underway(d)
    BY <1>1 DEF Underway
  <2>2. Underway(c) /\ src[c] # NoWorker
    BY <1>3, NAssumption DEF Underway, Worker, NoWorker
  <2>3. \A d \in Clause : d # c => /\ lost'[d] = lost[d] /\ given'[d] = given[d]
    BY <1>8, <1>11
  <2> QED
    BY <1>1, <2>1, <2>2, <2>3 DEF ShareInv, Outcome, Ungiven
<1>18. RefsMatchHolders'
  <2> SUFFICES ASSUME NEW d \in Clause
               PROVE  refs[d] = HeldByWorkers(d)' + HeldBySharer(d)' + lost'[d]
    BY <1>1, <1>14 DEF RefsMatchHolders
  <2>1. Exporting(d)' = Exporting(d) /\ Storing(d)' = Storing(d) /\ Reading(d)' = Reading(d)
    BY <1>1 DEF Exporting, Storing, Reading
  <2>2. /\ Exporting(d) \in SUBSET Worker /\ Storing(d) \in SUBSET Worker
        /\ Importing(d) \in SUBSET Worker /\ Reading(d) \in SUBSET Worker
        /\ HeldBySharer(d) \in Nat
    BY HolderNumbers
  <2>3. /\ Cardinality(Exporting(d)) \in Nat /\ Cardinality(Storing(d)) \in Nat
        /\ Cardinality(Importing(d)) \in Nat /\ Cardinality(Reading(d)) \in Nat /\ lost[d] \in Nat
    BY <1>11, <2>2, WorkersFinite
  <2>4. refs[d] = HeldByWorkers(d) + HeldBySharer(d) + lost[d]
    BY DEF ShareInv, RefsMatchHolders
  <2>5. Contains(Promised, d) <=> \E m \in 1 .. l : m >= k /\ cls[m] = d
    BY <1>1, <1>3 DEF Promised
  <2>6. Contains(Promised', d) <=> \E m \in 1 .. l : m > k /\ cls[m] = d
    <3>1. CASE k # l
      <4>1. PICK n, q : n = k' /\ q = cls
        OBVIOUS
      <4>2. Promised' = From(q, n)
        BY <1>1, <1>6, <3>1, <4>1 DEF Promised
      <4>3. n \in 1 .. Len(q) /\ q \in Seq(Clause) /\ Len(q) = l
        BY <1>2, <1>3, <1>7, <4>1
      <4>4. Contains(From(q, n), d) <=> \E m \in 1 .. Len(q) : m >= n /\ q[m] = d
        BY <4>3, Parts
      <4>5. \A m \in 1 .. l : m >= n <=> m > k
        BY <1>3, <1>6, <3>1, <4>1
      <4> QED
        BY <4>1, <4>2, <4>3, <4>4, <4>5
    <3>2. CASE k = l
      <4>1. ~Contains(Promised', d)
        <5>1. CASE share' = "increase"
          <6>1. Promised' = SubSeq(cls, 1, 1 - 1)
            BY <1>1, <1>6, <3>2, <5>1 DEF Promised
          <6>2. ~Contains(SubSeq(cls, 1, 1 - 1), d)
            BY <1>2, <1>3, <1>7, WholePart
          <6> QED
            BY <6>1, <6>2
        <5>2. CASE share' = "free"
          BY <5>2 DEF Promised, Contains
        <5> QED
          BY <1>6, <3>2, <5>1, <5>2
      <4>2. \A m \in 1 .. l : ~ (m > k)
        BY <1>3, <3>2
      <4> QED
        BY <4>1, <4>2
    <3> QED
      BY <3>1, <3>2
  <2>7. Contains(Owned', d) <=> Contains(Owned, d)
    <3>1. Owned = cls
      BY <1>1 DEF Owned
    <3>2. CASE share' = "free"
      <4>1. Owned' = From(cls, 1)
        BY <1>1, <1>6, <3>2 DEF Owned
      <4> QED
        BY <1>2, <1>3, <1>7, <3>1, <4>1, WholePart
    <3>3. CASE share' # "free"
      BY <1>1, <3>1, <3>3 DEF Owned
    <3> QED
      BY <3>2, <3>3
  <2>8. CASE d = c
    <3>1. Contains(Promised, d) /\ ~Contains(Promised', d)
      BY <1>3, <2>5, <2>6, <2>8
    <3>2. HeldBySharer(d)' = HeldBySharer(d) - 1
      BY <2>7, <3>1 DEF HeldBySharer, One
    <3>3. CASE room
      <4>1. w \notin Importing(d) /\ Importing(d)' = Importing(d) \cup {w}
        BY <1>4, <1>9, <1>10, <2>8, <3>3 DEF Importing
      <4>2. Cardinality(Importing(d)') = Cardinality(Importing(d)) + 1
        BY <1>4, <2>2, <4>1, WorkersFinite
      <4>3. lost'[d] = lost[d]
        BY <1>11, <3>3
      <4> QED
        BY <2>1, <2>2, <2>3, <2>4, <3>2, <4>2, <4>3 DEF HeldByWorkers
    <3>4. CASE ~room
      <4>1. Importing(d)' = Importing(d)
        BY <1>10, <3>4 DEF Importing
      <4>2. lost'[d] = lost[d] + 1
        BY <1>11, <2>8, <3>4
      <4> QED
        BY <2>1, <2>2, <2>3, <2>4, <3>2, <4>1, <4>2 DEF HeldByWorkers
    <3> QED
      BY <3>3, <3>4
  <2>9. CASE d # c
    <3>1. Contains(Promised', d) <=> Contains(Promised, d)
      <4>1. \A m \in 1 .. l : m # k => (m >= k <=> m > k)
        BY <1>3
      <4> QED
        BY <1>3, <2>5, <2>6, <2>9, <4>1
    <3>2. HeldBySharer(d)' = HeldBySharer(d)
      BY <2>7, <3>1 DEF HeldBySharer, One
    <3>3. Importing(d)' = Importing(d) /\ lost'[d] = lost[d]
      BY <1>10, <1>11, <2>3, <2>9 DEF Importing
    <3> QED
      BY <2>1, <2>4, <3>2, <3>3 DEF HeldByWorkers
  <2> QED
    BY <2>8, <2>9
<1> QED
  BY <1>12, <1>13, <1>14, <1>15, <1>16, <1>17, <1>18 DEF ShareInv

(* The sharer lets go of a clause that has reached everybody. *)
LEMMA FreeOwnKeeps ==
  ASSUME ShareInv, FreeOwn, share_lits' = share_lits
  PROVE  ShareInv'
<1>1. /\ share = "free" /\ Handing
      /\ UNCHANGED <<src, given, lost, import_clause, hand, j, bucket, export_clause,
                     good_clause_lbd, terminated>>
  BY DEF FreeOwn, worker_vars, Handing
<1>2. PICK c, l, x : c = cls[k] /\ l = Len(cls) /\ x = i
  OBVIOUS
<1>3. /\ cls \in Seq(Clause) /\ l \in Nat /\ DOMAIN cls = 1 .. l
      /\ k \in 1 .. l /\ c \in Clause
      /\ Cardinality(Clause) \in Nat /\ l <= Cardinality(Clause)
      /\ x \in Worker /\ j = N + 1
      /\ \A d : Contains(cls, d) <=> \E m \in 1 .. l : cls[m] = d
      /\ \A d : Contains(From(cls, k), d) <=> \E m \in 1 .. l : m >= k /\ cls[m] = d
      /\ \A m \in 1 .. l : cls[m] = c <=> m = k
  <2>1. j = N + 1
    BY <1>1 DEF ShareInv, RoundInv
  <2> QED
    BY <1>1, <1>2, <2>1, HandingTypes
<1>4. /\ k # l => k' = k + 1 /\ share' = "free" /\ i' = x /\ cls' = cls
      /\ k = l => k' = 1 /\ share' = (IF x = N THEN "sleep" ELSE "collect") /\ i' = x + 1 /\ cls' = <<>>
  BY <1>1, <1>2 DEF FreeOwn, AtLast, NextProducer
<1>5. /\ k' \in 1 .. Cardinality(Clause) /\ (k # l => k' \in 1 .. l)
      /\ i' \in 1 .. N + 1 /\ cls' \in Seq(Clause)
      /\ share' \in {"sleep", "collect", "free"}
      /\ (x # N => x + 1 \in Worker)
  <2>1. x \in 1 .. N /\ N \in Nat
    BY <1>3, NAssumption DEF Worker
  <2>2. x \in 1 .. N + 1 /\ x + 1 \in 1 .. N + 1 /\ (x # N => x + 1 \in Worker)
    BY <2>1 DEF Worker
  <2>3. /\ k # l => k + 1 \in 1 .. l /\ k + 1 \in 1 .. Cardinality(Clause)
        /\ 1 \in 1 .. Cardinality(Clause)
    BY <1>3
  <2>4. <<>> \in Seq(Clause)
    BY EmptySeq
  <2> QED
    BY <1>3, <1>4, <2>2, <2>3, <2>4
<1>6. Contains(Owned, c) /\ ~Contains(Promised, c)
  <2>1. Owned = From(cls, k) /\ Promised = <<>>
    BY <1>1 DEF Owned, Promised
  <2>2. Contains(From(cls, k), c)
    <3>1. k >= k
      BY <1>3
    <3> QED
      BY <1>3, <3>1
  <2>3. ~Contains(<<>>, c)
    BY DEF Contains
  <2> QED
    BY <2>1, <2>2, <2>3
<1>7. /\ refs \in [Clause -> Nat] /\ refs' \in [Clause -> Nat]
      /\ \A d \in Clause : refs'[d] = IF d = c THEN refs[d] - 1 ELSE refs[d]
  <2>1. refs \in [Clause -> Nat]
    BY DEF ShareInv, TypeOK
  <2>2. refs' = [refs EXCEPT ![c] = @ - 1]
    BY <1>2 DEF FreeOwn, Dec
  <2>3. refs[c] - 1 \in Nat
    <3>1. refs[c] = HeldByWorkers(c) + HeldBySharer(c) + lost[c]
      BY <1>3 DEF ShareInv, RefsMatchHolders
    <3>2. HeldByWorkers(c) \in Nat /\ lost[c] \in Nat
      BY <1>3, HolderNumbers DEF ShareInv, TypeOK
    <3>3. HeldBySharer(c) = 1
      BY <1>6 DEF HeldBySharer, One
    <3> QED
      BY <3>1, <3>2, <3>3
  <2> QED
    BY <1>3, <2>1, <2>2, <2>3
<1>8. \A d : Contains(cls', d) => k # l /\ Contains(cls, d)
  BY <1>4 DEF Contains
<1>9. TypeOK'
  BY <1>1, <1>3, <1>4, <1>5, <1>7 DEF ShareInv, TypeOK
<1>10. RoundInv'
  <2>1. \A w \in Worker : x + 1 <= w => x < w
    BY <1>3 DEF Worker
  <2>2. \A w \in Worker : (x + 1 < w \/ x + 1 = w) => x < w
    BY <1>3 DEF Worker
  <2>3. \A w \in Worker : x < w => good_clause_lbd[w] < MaxLimit
    BY <1>1, <1>2 DEF ShareInv, RoundInv, Round
  <2>4. CASE k = l
    BY <1>1, <1>4, <1>5, <2>2, <2>3, <2>4 DEF RoundInv, Round
  <2>5. CASE k # l
    BY <1>1, <1>3, <1>4, <2>3, <2>5 DEF RoundInv, Round
  <2> QED
    BY <2>4, <2>5
<1>11. Sized' /\ HeldOnce'
  <2>1. IsInjective(cls')
    BY <1>4 DEF ShareInv, HeldOnce, IsInjective
  <2> QED
    BY <1>1, <2>1 DEF ShareInv, Sized, BucketsOK, HeldOnce
<1>12. Origin'
  BY <1>1, <1>8 DEF ShareInv, Origin, Ungiven
<1>13. InHand'
  <2>1. CASE k = l
    BY <1>4, <2>1 DEF InHand
  <2>2. CASE k # l
    BY <1>1, <1>2, <1>4, <2>2 DEF ShareInv, InHand, Ungiven, Handing, Reached
  <2> QED
    BY <2>1, <2>2
<1>14. Outcome'
  <2> SUFFICES ASSUME NEW d \in Clause, src[d] # NoWorker, ~Underway(d)'
               PROVE  (\A w \in Worker : w # src[d] => given[d][w] = 1) \/ (Ungiven(d) /\ lost[d] > 0)
    BY <1>1 DEF ShareInv, Outcome, Ungiven
  <2>1. CASE Contains(cls, d)
    <3>1. PICK n \in 1 .. l : cls[n] = d
      BY <1>3, <2>1
    <3>2. src[d] = x /\ \A w \in Worker : given[d][w] = IF Reached(w, n) THEN 1 ELSE 0
      BY <1>1, <1>2, <1>3, <3>1 DEF ShareInv, InHand
    <3>3. \A w \in Worker : w # x => Reached(w, n)
      <4>1. \A w \in Worker : w < N + 1
        BY NAssumption DEF Worker
      <4> QED
        BY <1>2, <1>3, <4>1 DEF Reached
    <3> QED
      BY <3>2, <3>3
  <2>2. CASE ~Contains(cls, d)
    <3>1. ~Underway(d)
      BY <1>1, <2>2 DEF Underway
    <3> QED
      BY <3>1 DEF ShareInv, Outcome
  <2> QED
    BY <2>1, <2>2
<1>15. RefsMatchHolders'
  <2> SUFFICES ASSUME NEW d \in Clause
               PROVE  refs'[d] = HeldByWorkers(d)' + HeldBySharer(d)' + lost'[d]
    BY <1>11 DEF RefsMatchHolders
  <2>1. /\ HeldByWorkers(d)' = HeldByWorkers(d) /\ HeldByWorkers(d) \in Nat
        /\ lost[d] \in Nat /\ lost'[d] = lost[d]
    BY <1>1, HolderNumbers DEF HeldByWorkers, Exporting, Storing, Importing, Reading, ShareInv, TypeOK
  <2>2. refs[d] = HeldByWorkers(d) + HeldBySharer(d) + lost[d]
    BY DEF ShareInv, RefsMatchHolders
  <2>3. Contains(Owned, d) <=> \E m \in 1 .. l : m >= k /\ cls[m] = d
    BY <1>1, <1>3 DEF Owned
  <2>4. Contains(Owned', d) <=> \E m \in 1 .. l : m > k /\ cls[m] = d
    <3>1. CASE k # l
      <4>1. PICK n, q : n = k' /\ q = cls
        OBVIOUS
      <4>2. Owned' = From(q, n)
        BY <1>4, <3>1, <4>1 DEF Owned
      <4>3. n \in 1 .. Len(q) /\ q \in Seq(Clause) /\ Len(q) = l
        BY <1>2, <1>3, <1>5, <3>1, <4>1
      <4>4. Contains(From(q, n), d) <=> \E m \in 1 .. Len(q) : m >= n /\ q[m] = d
        BY <4>3, Parts
      <4>5. \A m \in 1 .. l : m >= n <=> m > k
        BY <1>3, <1>4, <3>1, <4>1
      <4> QED
        BY <4>1, <4>2, <4>3, <4>4, <4>5
    <3>2. CASE k = l
      <4>1. Owned' = <<>>
        BY <1>4, <3>2 DEF Owned
      <4>2. \A m \in 1 .. l : ~ (m > k)
        BY <1>3, <3>2
      <4> QED
        BY <4>1, <4>2 DEF Contains
    <3> QED
      BY <3>1, <3>2
  <2>5. ~Contains(Promised, d) /\ ~Contains(Promised', d)
    <3>1. Promised = <<>> /\ Promised' = <<>>
      BY <1>1, <1>5 DEF Promised
    <3> QED
      BY <3>1 DEF Contains
  <2>6. CASE d = c
    <3>1. Contains(Owned, d) /\ ~Contains(Owned', d)
      BY <1>3, <2>3, <2>4, <2>6
    <3>2. HeldBySharer(d) = 1 /\ HeldBySharer(d)' = 0
      BY <2>5, <3>1 DEF HeldBySharer, One
    <3> QED
      BY <1>7, <2>1, <2>2, <2>6, <3>2
  <2>7. CASE d # c
    <3>1. Contains(Owned', d) <=> Contains(Owned, d)
      <4>1. \A m \in 1 .. l : m # k => (m >= k <=> m > k)
        BY <1>3
      <4> QED
        BY <1>3, <2>3, <2>4, <2>7, <4>1
    <3>2. HeldBySharer(d)' = HeldBySharer(d)
      BY <2>5, <3>1 DEF HeldBySharer, One
    <3> QED
      BY <1>7, <2>1, <2>2, <2>7, <3>2
  <2> QED
    BY <2>6, <2>7
<1> QED
  BY <1>9, <1>10, <1>11, <1>12, <1>13, <1>14, <1>15 DEF ShareInv

(* sort_clauses as the round sees it: of what was in the bucket and what    *)
(* has been collected everything stays or goes out, but for what no bucket  *)
(* has taken.                                                               *)
LEMMA SelectionIs ==
  ASSUME ShareInv, share = "collect", NEW x \in Worker, x = i, NEW t, t = Sorted(x)
  PROVE  /\ BucketsOK(Filled(x)) /\ LoopInv(Filled(x), t, MaxSize)
         /\ \A c \in Clause :
              LET before == \E s \in Lengths : Contains(bucket[x][s], c)
                  stays  == \E s \in Lengths : Contains(t.bucket[s], c)
                  goes   == Contains(t.cls, c)
              IN  /\ ~ (stays /\ goes)
                  /\ stays \/ goes => before \/ Contains(cls, c)
                  /\ before => (stays \/ goes) /\ ~Contains(cls, c)
                  /\ Contains(cls, c) => (c \in Rejected(x) <=> ~ (stays \/ goes))
                  /\ c \in Rejected(x) => Contains(cls, c)
<1>1. /\ BucketsOK(bucket[x]) /\ cls \in Seq(Clause) /\ IsInjective(cls) /\ share_lits \in Nat
      /\ \A c \in Clause : \A s \in Lengths : Contains(bucket[x][s], c) => ~Contains(cls, c)
  BY LimitAssumption DEF ShareInv, Sized, TypeOK, HeldOnce, Origin
<1>2. PICK f : f = Filled(x)
  OBVIOUS
<1>3. /\ BucketsOK(f)
      /\ \A s \in Lengths : \A c \in Clause :
           /\ Contains(bucket[x][s], c) => Contains(f[s], c)
           /\ Contains(f[s], c) => Contains(bucket[x][s], c) \/ Contains(cls, c)
  BY <1>1, <1>2, FilledIs
<1>4. LoopInv(f, t, MaxSize)
  <2>1. BucketsOK(Filled(x))
    BY <1>2, <1>3
  <2>2. LoopInv(Filled(x), Sorted(x), MaxSize)
    BY <1>1, <2>1, SortedIs
  <2> QED
    BY <1>2, <2>2
<1>5. \A c \in Clause : Contains(cls, c) <=> c \in ToSet(cls)
  BY <1>1, LenProperties DEF Contains, ToSet
<1>6. \A c \in Clause : c \in Rejected(x) <=> Contains(cls, c) /\ ~Contains(f[Size[c]], c)
  BY <1>2, <1>5 DEF Rejected
<1>7. \A c \in Clause : Size[c] \in Lengths
  BY SizeTypes
<1>8. \A c \in Clause : \A z \in Lengths :
        /\ Contains(f[z], c) <=> Contains(t.bucket[z], c) \/ (Contains(t.cls, c) /\ Size[c] = z)
        /\ ~ (Contains(t.bucket[z], c) /\ Contains(t.cls, c))
        /\ Contains(f[z], c) => Size[c] = z
  BY <1>3, <1>4 DEF LoopInv, Split, BucketsOK
<1>9. ASSUME NEW c \in Clause
      PROVE  LET before == \E s \in Lengths : Contains(bucket[x][s], c)
                 stays  == \E s \in Lengths : Contains(t.bucket[s], c)
                 goes   == Contains(t.cls, c)
             IN  /\ ~ (stays /\ goes)
                 /\ stays \/ goes => before \/ Contains(cls, c)
                 /\ before => (stays \/ goes) /\ ~Contains(cls, c)
                 /\ Contains(cls, c) => (c \in Rejected(x) <=> ~ (stays \/ goes))
                 /\ c \in Rejected(x) => Contains(cls, c)
  <2> DEFINE before == \E s \in Lengths : Contains(bucket[x][s], c)
             stays  == \E s \in Lengths : Contains(t.bucket[s], c)
             goes   == Contains(t.cls, c)
             filled == Contains(f[Size[c]], c)
  <2>1. ~ (stays /\ goes)
    BY <1>8
  <2>2. stays \/ goes <=> filled
    BY <1>7, <1>8
  <2>3. filled => before \/ Contains(cls, c)
    BY <1>3, <1>7
  <2>4. before => filled /\ ~Contains(cls, c)
    BY <1>1, <1>3, <1>8
  <2>5. c \in Rejected(x) <=> Contains(cls, c) /\ ~filled
    BY <1>6
  <2> QED
    BY <2>1, <2>2, <2>3, <2>4, <2>5
<1> QED
  BY <1>2, <1>3, <1>4, <1>9

(* The buckets take over, some clauses go out, what nobody takes is lost. *)
LEMMA SortKeeps ==
  ASSUME ShareInv, Sort, share_lits' = share_lits
  PROVE  ShareInv'
<1>1. PICK x, t, z : x = i /\ t = Sorted(x) /\ z = NextConsumer(x, 0)
  OBVIOUS
<1>2. /\ share = "collect" /\ export_clause[x] = <<>>
      /\ bucket' = [bucket EXCEPT ![x] = t.bucket]
      /\ cls' = t.cls
      /\ UNCHANGED <<import_clause, hand, export_clause, terminated, src, refs, given>>
  BY <1>1 DEF Sort, NextProducer, worker_vars
<1>3. /\ t.cls = <<>> => /\ share' = (IF x = N THEN "sleep" ELSE "collect")
                         /\ i' = x + 1 /\ j' = j /\ k' = k
      /\ t.cls # <<>> => /\ share' = (IF z <= N THEN "increase" ELSE "free")
                         /\ i' = x /\ j' = z /\ k' = 1
  BY <1>1 DEF Sort, NextProducer, Turn
<1>4. PICK R : R = Rejected(x) /\ lost' = [c \in Clause |-> lost[c] + IF c \in R THEN 1 ELSE 0]
  BY <1>1 DEF Sort
<1>5. x \in Worker /\ N \in Nat /\ 0 \in 0 .. N /\ x \in 1 .. N
  BY <1>1, <1>2, NAssumption DEF ShareInv, RoundInv, Round, Worker
<1>6. /\ LoopInv(Filled(x), t, MaxSize)
      /\ \A c \in Clause :
           LET before == \E s \in Lengths : Contains(bucket[x][s], c)
               stays  == \E s \in Lengths : Contains(t.bucket[s], c)
               goes   == Contains(t.cls, c)
           IN  /\ ~ (stays /\ goes)
               /\ stays \/ goes => before \/ Contains(cls, c)
               /\ before => (stays \/ goes) /\ ~Contains(cls, c)
               /\ Contains(cls, c) => (c \in R <=> ~ (stays \/ goes))
               /\ c \in R => Contains(cls, c)
  BY <1>1, <1>2, <1>4, <1>5, SelectionIs
<1> DEFINE before(c) == \E s \in Lengths : Contains(bucket[x][s], c)
           stays(c)  == \E s \in Lengths : Contains(t.bucket[s], c)
           goes(c)   == Contains(t.cls, c)
           in(c)     == Contains(cls, c)
<1>7. \A c \in Clause : /\ ~ (stays(c) /\ goes(c))
                        /\ stays(c) \/ goes(c) => before(c) \/ in(c)
                        /\ before(c) => (stays(c) \/ goes(c)) /\ ~in(c)
                        /\ in(c) => (c \in R <=> ~ (stays(c) \/ goes(c)))
                        /\ c \in R => in(c)
  BY <1>6
<1>8. /\ t.cls \in Seq(Clause) /\ IsInjective(t.cls) /\ BucketsOK(t.bucket)
      /\ t.bucket \in [Lengths -> Seq(Clause)]
  BY <1>6 DEF LoopInv, Loops, BucketsOK
<1>9. /\ z \in 1 .. N + 1 /\ (z <= N => z \in Worker /\ z # x) /\ (~ (z <= N) => z = N + 1)
      /\ \A w \in Worker : w # x => ~ (w < z)
  <2>1. PICK y : y = 0
    OBVIOUS
  <2>2. /\ z \in 1 .. N + 1 /\ (z <= N => z \in Worker /\ z # x) /\ (~ (z <= N) => z = N + 1)
        /\ \A w \in Worker : w # x => (w < z <=> w <= y)
    BY <1>1, <1>5, <2>1, NextConsumerIs
  <2> QED
    BY <2>1, <2>2 DEF Worker
<1>10. /\ bucket \in [Worker -> [Lengths -> Seq(Clause)]]
       /\ bucket' \in [Worker -> [Lengths -> Seq(Clause)]]
       /\ bucket'[x] = t.bucket /\ \A w \in Worker : w # x => bucket'[w] = bucket[w]
  BY <1>2, <1>5, <1>8 DEF ShareInv, TypeOK
<1>11. /\ good_clause_lbd' \in [Worker -> 2 .. MaxLimit]
       /\ \A w \in Worker : w # x => good_clause_lbd'[w] = good_clause_lbd[w]
  <2>1. /\ good_clause_lbd \in [Worker -> 2 .. MaxLimit] /\ good_clause_lbd[x] < MaxLimit
        /\ MaxLimit \in Nat
    BY <1>1, <1>2, <1>5, LimitAssumption DEF ShareInv, TypeOK, RoundInv, Round
  <2>2. PICK l, p : l = good_clause_lbd[x] /\ p = Percent(t.space)
    OBVIOUS
  <2>3. good_clause_lbd' = [good_clause_lbd EXCEPT ![x] = Adjusted(l, p)]
    BY <1>1, <2>2 DEF Sort
  <2>4. Adjusted(l, p) \in 2 .. MaxLimit
    BY <1>5, <2>1, <2>2 DEF Adjusted
  <2> QED
    BY <2>1, <2>3, <2>4
<1>12. /\ lost \in [Clause -> Nat] /\ lost' \in [Clause -> Nat]
       /\ \A c \in Clause : lost'[c] = lost[c] + IF c \in R THEN 1 ELSE 0
  BY <1>4 DEF ShareInv, TypeOK
<1>13. /\ i' \in 1 .. N + 1 /\ j' \in 1 .. N + 1 /\ k' \in 1 .. Cardinality(Clause)
       /\ share' \in {"sleep", "collect", "increase", "push", "free"}
       /\ share' \in {"increase", "push", "free"} => k' \in DOMAIN t.cls
       /\ t.cls # <<>> => 1 \in 1 .. Len(t.cls)
       /\ x # N => x + 1 \in Worker
  <2>1. x \in 1 .. N + 1 /\ x + 1 \in 1 .. N + 1 /\ (x # N => x + 1 \in Worker)
    BY <1>5 DEF Worker
  <2>2. j \in 1 .. N + 1 /\ k \in 1 .. Cardinality(Clause)
    BY DEF ShareInv, TypeOK
  <2>3. /\ Len(t.cls) \in Nat /\ DOMAIN t.cls = 1 .. Len(t.cls)
        /\ Cardinality(Clause) \in Nat /\ Len(t.cls) <= Cardinality(Clause)
    BY <1>8, LengthBound, LenProperties
  <2>4. t.cls # <<>> => 1 \in 1 .. Len(t.cls)
    <3>1. t.cls # <<>> => Len(t.cls) # 0
      BY <1>8, EmptySeq
    <3> QED
      BY <2>3, <3>1
  <2>5. t.cls # <<>> => 1 \in DOMAIN t.cls /\ 1 \in 1 .. Cardinality(Clause)
    BY <2>3, <2>4
  <2>6. CASE t.cls = <<>>
    BY <1>3, <2>1, <2>2, <2>6
  <2>7. CASE t.cls # <<>>
    BY <1>3, <1>9, <2>1, <2>4, <2>5, <2>7
  <2> QED
    BY <2>6, <2>7
<1>14. TypeOK'
  <2>1. /\ export_clause \in [Worker -> Seq(Clause)] /\ import_clause \in [Worker -> Seq(Clause)]
        /\ hand \in [Worker -> {{}} \cup {{c} : c \in Clause}]
        /\ terminated \in BOOLEAN /\ share_lits \in ShareLits
        /\ src \in [Clause -> Worker \cup {NoWorker}] /\ refs \in [Clause -> Nat]
        /\ given \in [Clause -> [Worker -> Nat]]
    BY DEF ShareInv, TypeOK
  <2>2. \A w \in Worker : /\ Len(export_clause[w]) <= Capacity /\ Len(import_clause[w]) <= Capacity
                          /\ \A s \in Lengths : s * Len(bucket'[w][s]) <= share_lits
    BY <1>8, <1>10 DEF ShareInv, TypeOK, BucketsOK
  <2> QED
    BY <1>2, <1>8, <1>10, <1>11, <1>12, <1>13, <2>1, <2>2 DEF TypeOK
<1>15. RoundInv'
  <2>1. \A w \in Worker : x < w => good_clause_lbd'[w] < MaxLimit
    <3>1. \A w \in Worker : x < w => w # x
      BY <1>5 DEF Worker
    <3> QED
      BY <1>1, <1>2, <1>11, <3>1 DEF ShareInv, RoundInv, Round
  <2>2. \A w \in Worker : (x + 1 < w \/ x + 1 = w) => x < w
    BY <1>5 DEF Worker
  <2>3. CASE t.cls = <<>>
    BY <1>2, <1>3, <1>13, <2>1, <2>2, <2>3 DEF RoundInv, Round
  <2>4. CASE t.cls # <<>>
    BY <1>2, <1>3, <1>5, <1>9, <2>1, <2>4 DEF RoundInv, Round
  <2> QED
    BY <2>3, <2>4
<1>16. Sized' /\ HeldOnce'
  <2>1. BucketsOK(t.bucket)'
    BY <1>8 DEF BucketsOK
  <2>2. \A w \in Worker : \A s \in Lengths : /\ s * Len(bucket'[w][s]) <= share_lits
                                             /\ IsInjective(bucket'[w][s])
                                             /\ \A c \in Clause : Contains(bucket'[w][s], c) => Size[c] = s
    BY <1>8, <1>10 DEF ShareInv, Sized, BucketsOK
  <2>3. Sized'
    BY <1>10, <2>2 DEF Sized, BucketsOK
  <2>4. HeldOnce'
    BY <1>2, <1>8, <2>2 DEF ShareInv, HeldOnce
  <2> QED
    BY <2>3, <2>4
<1>17. \A c \in Clause : stays(c) \/ goes(c) =>
         /\ src[c] = x /\ Ungiven(c)
         /\ \A w \in Worker : ~Contains(export_clause[w], c)
  <2> SUFFICES ASSUME NEW c \in Clause, before(c) \/ in(c)
               PROVE  src[c] = x /\ Ungiven(c) /\ \A w \in Worker : ~Contains(export_clause[w], c)
    BY <1>7
  <2>1. CASE before(c)
    BY <1>5, <2>1 DEF ShareInv, Origin
  <2>2. CASE in(c)
    <3>1. src[c] = x /\ Ungiven(c)
      BY <1>1, <1>2, <2>2, LenProperties DEF ShareInv, TypeOK, InHand, Contains
    <3> QED
      BY <2>2, <3>1 DEF ShareInv, Origin
  <2> QED
    BY <2>1, <2>2
<1>18. \A c \in Clause : in(c) => src[c] = x /\ Ungiven(c)
  BY <1>1, <1>2, LenProperties DEF ShareInv, TypeOK, InHand, Contains
<1>19. Origin'
  <2> SUFFICES ASSUME NEW d \in Clause, NEW v \in Worker
               PROVE  /\ Contains(export_clause[v], d) =>
                           /\ src[d] = v /\ Ungiven(d) /\ ~Contains(t.cls, d)
                           /\ \A w \in Worker : \A s \in Lengths : ~Contains(bucket'[w][s], d)
                      /\ \A s \in Lengths : Contains(bucket'[v][s], d) => /\ src[d] = v /\ Ungiven(d)
                                                                          /\ ~Contains(t.cls, d)
    BY <1>2 DEF ShareInv, Origin, Ungiven
  <2>1. ASSUME Contains(export_clause[v], d)
        PROVE  /\ src[d] = v /\ Ungiven(d) /\ ~Contains(t.cls, d)
               /\ \A w \in Worker : \A s \in Lengths : ~Contains(bucket'[w][s], d)
    <3>1. ~stays(d) /\ ~goes(d)
      BY <1>17, <2>1
    <3>2. /\ src[d] = v /\ Ungiven(d)
          /\ \A w \in Worker : \A s \in Lengths : ~Contains(bucket[w][s], d)
      BY <2>1 DEF ShareInv, Origin
    <3> QED
      BY <1>10, <3>1, <3>2
  <2>2. ASSUME NEW s \in Lengths, Contains(bucket'[v][s], d)
        PROVE  src[d] = v /\ Ungiven(d) /\ ~Contains(t.cls, d)
    <3>1. CASE v = x
      <4>1. stays(d)
        BY <1>10, <2>2, <3>1
      <4> QED
        BY <1>7, <1>17, <3>1, <4>1
    <3>2. CASE v # x
      <4>1. Contains(bucket[v][s], d)
        BY <1>10, <2>2, <3>2
      <4>2. src[d] = v /\ Ungiven(d)
        BY <4>1 DEF ShareInv, Origin
      <4> QED
        BY <1>17, <3>2, <4>2
    <3> QED
      BY <3>1, <3>2
  <2> QED
    BY <2>1, <2>2
<1>20. InHand'
  <2>1. CASE t.cls = <<>>
    BY <1>2, <2>1 DEF InHand
  <2>2. CASE t.cls # <<>>
    <3>1. \A n \in DOMAIN t.cls : t.cls[n] \in Clause /\ goes(t.cls[n])
      BY <1>8, LenProperties, ElementOfSeq DEF Contains
    <3>2. \A n \in DOMAIN t.cls : src[t.cls[n]] = x /\ \A w \in Worker : given[t.cls[n]][w] = 0
      BY <1>17, <3>1 DEF Ungiven
    <3>3. \A w \in Worker : \A n \in DOMAIN t.cls : ~Reached(w, n)'
      BY <1>3, <1>9, <2>2 DEF Reached
    <3>4. share' # "collect" /\ i' = x
      BY <1>3, <2>2
    <3> QED
      BY <1>2, <3>2, <3>3, <3>4 DEF InHand
  <2> QED
    BY <2>1, <2>2
<1>21. Outcome'
  <2> SUFFICES ASSUME NEW d \in Clause
               PROVE  /\ src[d] = NoWorker => lost'[d] = 0 /\ Ungiven(d)
                      /\ src[d] # NoWorker /\ ~Underway(d)' =>
                           \/ \A w \in Worker : w # src[d] => given[d][w] = 1
                           \/ Ungiven(d) /\ lost'[d] > 0
    BY <1>2 DEF Outcome, Ungiven
  <2>1. lost[d] \in Nat /\ lost'[d] = lost[d] + IF d \in R THEN 1 ELSE 0
    BY <1>12
  <2>2. ASSUME src[d] = NoWorker
        PROVE  lost'[d] = 0 /\ Ungiven(d)
    <3>1. lost[d] = 0 /\ Ungiven(d)
      BY <2>2 DEF ShareInv, Outcome
    <3>2. d \notin R
      BY <1>7, <2>2, Fresh
    <3> QED
      BY <2>1, <3>1, <3>2
  <2>3. ASSUME src[d] # NoWorker, ~Underway(d)'
        PROVE  (\A w \in Worker : w # src[d] => given[d][w] = 1) \/ (Ungiven(d) /\ lost'[d] > 0)
    <3>1. /\ \A w \in Worker : ~Contains(export_clause[w], d)
          /\ \A w \in Worker : \A s \in Lengths : ~Contains(bucket'[w][s], d)
          /\ ~goes(d)
      BY <1>2, <2>3 DEF Underway
    <3>2. ~stays(d) /\ \A w \in Worker : w # x => \A s \in Lengths : ~Contains(bucket[w][s], d)
      BY <1>5, <1>10, <3>1
    <3>3. ~before(d)
      BY <1>7, <3>1, <3>2
    <3>4. CASE in(d)
      <4>1. d \in R /\ Ungiven(d)
        BY <1>7, <1>18, <3>1, <3>2, <3>4
      <4> QED
        BY <2>1, <4>1
    <3>5. CASE ~in(d)
      <4>1. ~Underway(d)
        BY <3>1, <3>2, <3>3, <3>5 DEF Underway
      <4>2. (\A w \in Worker : w # src[d] => given[d][w] = 1) \/ (Ungiven(d) /\ lost[d] > 0)
        BY <2>3, <4>1 DEF ShareInv, Outcome
      <4> QED
        BY <2>1, <4>2
    <3> QED
      BY <3>4, <3>5
  <2> QED
    BY <2>2, <2>3
<1>22. RefsMatchHolders'
  <2> SUFFICES ASSUME NEW d \in Clause
               PROVE  refs[d] = HeldByWorkers(d)' + HeldBySharer(d)' + lost'[d]
    BY <1>2, <1>16 DEF RefsMatchHolders
  <2>1. Exporting(d)' = Exporting(d) /\ Importing(d)' = Importing(d) /\ Reading(d)' = Reading(d)
    BY <1>2 DEF Exporting, Importing, Reading
  <2>2. /\ Cardinality(Exporting(d)) \in Nat /\ Cardinality(Storing(d)) \in Nat
        /\ Cardinality(Importing(d)) \in Nat /\ Cardinality(Reading(d)) \in Nat
        /\ Storing(d) \in SUBSET Worker
    BY HolderNumbers, WorkersFinite
  <2>3. lost[d] \in Nat /\ lost'[d] = lost[d] + IF d \in R THEN 1 ELSE 0
    BY <1>12
  <2>4. refs[d] = HeldByWorkers(d) + HeldBySharer(d) + lost[d]
    BY DEF ShareInv, RefsMatchHolders
  <2>5. ~Contains(<<>>, d)
    BY DEF Contains
  <2>6. HeldBySharer(d) = IF in(d) THEN 1 ELSE 0
    <3>1. Owned = cls /\ Promised = <<>>
      BY <1>2 DEF Owned, Promised
    <3> QED
      BY <2>5, <3>1 DEF HeldBySharer, One
  <2>7. HeldBySharer(d)' = IF goes(d) THEN 1 ELSE 0
    <3>1. CASE t.cls = <<>>
      <4>1. Owned' = t.cls /\ Promised' = <<>>
        BY <1>2, <1>3, <3>1 DEF Owned, Promised
      <4> QED
        BY <2>5, <4>1 DEF HeldBySharer, One
    <3>2. CASE t.cls # <<>>
      <4>1. PICK q : q = t.cls
        OBVIOUS
      <4>2. q \in Seq(Clause) /\ 1 \in 1 .. Len(q)
        BY <1>8, <1>13, <3>2, <4>1
      <4>3. /\ Contains(From(q, 1), d) <=> Contains(q, d)
            /\ ~Contains(SubSeq(q, 1, 1 - 1), d)
        BY <4>2, WholePart
      <4>4. CASE share' = "increase"
        <5>1. Owned' = q /\ Promised' = SubSeq(q, 1, 1 - 1)
          BY <1>2, <1>3, <3>2, <4>1, <4>4 DEF Owned, Promised
        <5> QED
          BY <4>1, <4>3, <5>1 DEF HeldBySharer, One
      <4>5. CASE share' = "free"
        <5>1. Owned' = From(q, 1) /\ Promised' = <<>>
          BY <1>2, <1>3, <3>2, <4>1, <4>5 DEF Owned, Promised
        <5> QED
          BY <2>5, <4>1, <4>3, <5>1 DEF HeldBySharer, One
      <4> QED
        BY <1>3, <3>2, <4>4, <4>5
    <3> QED
      BY <3>1, <3>2
  <2>8. \A w \in Worker : w # x => (w \in Storing(d)' <=> w \in Storing(d))
    BY <1>10 DEF Storing
  <2>9. (x \in Storing(d) <=> before(d)) /\ (x \in Storing(d)' <=> stays(d))
    BY <1>5, <1>10 DEF Storing
  <2>10. Storing(d)' \in SUBSET Worker
    BY DEF Storing
  <2>11. CASE before(d) /\ stays(d)
    <3>1. Storing(d)' = Storing(d)
      BY <2>2, <2>8, <2>9, <2>10, <2>11
    <3>2. ~in(d) /\ ~goes(d) /\ d \notin R
      BY <1>7, <2>11
    <3> QED
      BY <2>1, <2>2, <2>3, <2>4, <2>6, <2>7, <3>1, <3>2 DEF HeldByWorkers
  <2>12. CASE before(d) /\ ~stays(d)
    <3>1. x \in Storing(d) /\ Storing(d)' = Storing(d) \ {x}
      BY <2>2, <2>8, <2>9, <2>10, <2>12
    <3>2. Cardinality(Storing(d)') = Cardinality(Storing(d)) - 1
      BY <2>2, <3>1, WorkersFinite
    <3>3. ~in(d) /\ goes(d) /\ d \notin R
      BY <1>7, <2>12
    <3> QED
      BY <2>1, <2>2, <2>3, <2>4, <2>6, <2>7, <3>2, <3>3 DEF HeldByWorkers
  <2>13. CASE ~before(d) /\ stays(d)
    <3>1. x \notin Storing(d) /\ Storing(d)' = Storing(d) \cup {x}
      BY <1>5, <2>2, <2>8, <2>9, <2>10, <2>13
    <3>2. Cardinality(Storing(d)') = Cardinality(Storing(d)) + 1
      BY <1>5, <2>2, <3>1, WorkersFinite
    <3>3. in(d) /\ ~goes(d) /\ d \notin R
      BY <1>7, <2>13
    <3> QED
      BY <2>1, <2>2, <2>3, <2>4, <2>6, <2>7, <3>2, <3>3 DEF HeldByWorkers
  <2>14. CASE ~before(d) /\ ~stays(d)
    <3>1. Storing(d)' = Storing(d)
      BY <2>2, <2>8, <2>9, <2>10, <2>14
    <3>2. \/ in(d) /\ goes(d) /\ d \notin R
          \/ in(d) /\ ~goes(d) /\ d \in R
          \/ ~in(d) /\ ~goes(d) /\ d \notin R
      BY <1>7, <2>14
    <3> QED
      BY <2>1, <2>2, <2>3, <2>4, <2>6, <2>7, <3>1, <3>2 DEF HeldByWorkers
  <2> QED
    BY <2>11, <2>12, <2>13, <2>14
<1> QED
  BY <1>14, <1>15, <1>16, <1>19, <1>20, <1>21, <1>22 DEF ShareInv

LEMMA ShareInit == Init => ShareInv
<1> SUFFICES ASSUME Init PROVE ShareInv
  OBVIOUS
<1>1. /\ share_lits \in ShareLits /\ terminated = FALSE
      /\ export_clause = [w \in Worker |-> <<>>] /\ import_clause = [w \in Worker |-> <<>>]
      /\ good_clause_lbd = [w \in Worker |-> 2] /\ hand = [w \in Worker |-> {}]
      /\ src = [c \in Clause |-> NoWorker] /\ refs = [c \in Clause |-> 0]
      /\ share = "sleep" /\ i = 1 /\ j = 1 /\ k = 1
      /\ cls = <<>> /\ bucket = [w \in Worker |-> [s \in Lengths |-> <<>>]]
      /\ given = [c \in Clause |-> [w \in Worker |-> 0]] /\ lost = [c \in Clause |-> 0]
  BY DEF Init
<1>2. /\ <<>> \in Seq(Clause) /\ Len(<<>>) = 0 /\ IsInjective(<<>>) /\ \A y : ~Contains(<<>>, y)
      /\ \A s \in Lengths : s * 0 = 0
  BY EmptySeq, SizeTypes DEF IsInjective, Contains, Lengths
<1>3. 1 \in 1 .. N + 1 /\ 1 \in 1 .. Cardinality(Clause)
  <2>1. Cardinality(Clause) \in Nat /\ Cardinality(Clause) # 0
    BY ClauseAssumption, FS_CardinalityType, FS_EmptySet
  <2> QED
    BY <2>1, NAssumption
<1>4. share_lits \in Nat \ {0} /\ Capacity \in Nat \ {0} /\ 2 \in 2 .. MaxLimit
  BY <1>1, LimitAssumption
<1>5. TypeOK
  <2>1. /\ export_clause \in [Worker -> Seq(Clause)] /\ import_clause \in [Worker -> Seq(Clause)]
        /\ hand \in [Worker -> {{}} \cup {{c} : c \in Clause}]
        /\ good_clause_lbd \in [Worker -> 2 .. MaxLimit]
        /\ bucket \in [Worker -> [Lengths -> Seq(Clause)]] /\ cls \in Seq(Clause)
    BY <1>1, <1>2, <1>4
  <2>2. \A w \in Worker : /\ Len(export_clause[w]) <= Capacity /\ Len(import_clause[w]) <= Capacity
                          /\ \A s \in Lengths : s * Len(bucket[w][s]) <= share_lits
    BY <1>1, <1>2, <1>4
  <2>3. /\ src \in [Clause -> Worker \cup {NoWorker}] /\ refs \in [Clause -> Nat]
        /\ lost \in [Clause -> Nat] /\ given \in [Clause -> [Worker -> Nat]]
    BY <1>1
  <2> QED
    BY <1>1, <1>3, <2>1, <2>2, <2>3 DEF TypeOK
<1>6. RoundInv
  BY <1>1 DEF RoundInv, Round
<1>7. Sized /\ HeldOnce
  BY <1>1, <1>2, <1>4 DEF Sized, BucketsOK, HeldOnce
<1>8. Origin
  BY <1>1, <1>2 DEF Origin
<1>9. InHand
  BY <1>1, <1>2 DEF InHand
<1>10. Outcome
  BY <1>1 DEF Outcome, Ungiven
<1>11. RefsMatchHolders
  <2> SUFFICES ASSUME NEW c \in Clause
               PROVE  refs[c] = HeldByWorkers(c) + HeldBySharer(c) + lost[c]
    BY <1>7 DEF RefsMatchHolders
  <2>1. Exporting(c) = {} /\ Storing(c) = {} /\ Importing(c) = {} /\ Reading(c) = {}
    BY <1>1, <1>2 DEF Exporting, Storing, Importing, Reading
  <2>2. HeldByWorkers(c) = 0
    BY <2>1, FS_EmptySet DEF HeldByWorkers
  <2>3. HeldBySharer(c) = 0
    <3>1. Owned = <<>> /\ Promised = <<>>
      BY <1>1 DEF Owned, Promised
    <3> QED
      BY <1>2, <3>1 DEF HeldBySharer, One
  <2> QED
    BY <1>1, <2>2, <2>3
<1> QED
  BY <1>5, <1>6, <1>7, <1>8, <1>9, <1>10, <1>11 DEF ShareInv

LEMMA ShareNext == ShareInv /\ [Next]_vars => ShareInv'
<1> SUFFICES ASSUME ShareInv, [Next]_vars
             PROVE  ShareInv'
  OBVIOUS
<1>1. share_lits' = share_lits
  BY DEF Next, vars
<1>2. CASE Wake
  BY <1>1, <1>2, WakeKeeps
<1>3. CASE Collect
  BY <1>1, <1>3, CollectKeeps
<1>4. CASE Sort
  BY <1>1, <1>4, SortKeeps
<1>5. CASE Increase
  BY <1>1, <1>5, IncreaseKeeps
<1>6. CASE Push
  BY <1>1, <1>6, PushKeeps
<1>7. CASE FreeOwn
  BY <1>1, <1>7, FreeOwnKeeps
<1>8. CASE Terminate \/ UNCHANGED vars
  BY <1>1, <1>8, CalmKeeps
<1>9. ASSUME NEW w \in Worker, Solver(w)
      PROVE  ShareInv'
  <2>1. CASE \E c \in Clause : Learn(w, c)
    BY <1>1, <2>1, LearnKeeps
  <2>2. CASE Pop(w)
    BY <1>1, <2>2, PopKeeps
  <2>3. CASE Free(w)
    BY <1>1, <2>3, FreeKeeps
  <2> QED
    BY <1>9, <2>1, <2>2, <2>3 DEF Solver
<1> QED
  BY <1>2, <1>3, <1>4, <1>5, <1>6, <1>7, <1>8, <1>9 DEF Next, Sharer, Stopped

(* The inductive invariant of the exchange. *)
THEOREM ShareInvariant == Spec => []ShareInv
<1>1. Init => ShareInv
  BY ShareInit
<1> QED
  BY <1>1, ShareNext, PTL DEF Spec

(* No queue, bucket or counter of share_worker and of the callbacks passes  *)
(* its bound, for any number of workers and clauses.                        *)
THEOREM TypeCorrect == Spec => []TypeOK
<1>1. ShareInv => TypeOK
  BY DEF ShareInv
<1> QED
  BY <1>1, ShareInvariant, PTL

(* increase_refs and free_clause keep the reference count of a clause equal *)
(* to the number of places that hold it, whatever the interleaving of       *)
(* share_worker with the solvers.                                           *)
THEOREM RefsCorrect == Spec => []RefsMatchHolders
<1>1. ShareInv => RefsMatchHolders
  BY DEF ShareInv
<1> QED
  BY <1>1, ShareInvariant, PTL

(* What the invariant says of a clause is what OfferedOnce asks for. *)
LEMMA OutcomeIsOffer == ShareInv => OfferedOnce
<1> SUFFICES ASSUME ShareInv, NEW c \in Clause
             PROVE  LET others == Worker \ {src[c]}
                        to     == {w \in Worker : given[c][w] > 0}
                    IN  /\ \A w \in Worker : given[c][w] <= 1
                        /\ to \subseteq others
                        /\ src[c] # NoWorker /\ ~Underway(c) => to = others \/ (to = {} /\ lost[c] > 0)
  BY DEF OfferedOnce
<1>1. \A w \in Worker : given[c][w] \in {0, 1} /\ (given[c][w] = 1 => src[c] # w)
  BY DEF ShareInv, Origin
<1>2. \A w \in Worker : given[c][w] > 0 <=> given[c][w] = 1
  BY <1>1
<1>3. src[c] # NoWorker /\ ~Underway(c) =>
        (\A w \in Worker : w # src[c] => given[c][w] = 1) \/ (Ungiven(c) /\ lost[c] > 0)
  BY DEF ShareInv, Outcome
<1>4. Ungiven(c) => \A w \in Worker : given[c][w] # 1
  BY DEF Ungiven
<1>5. \A w \in Worker : given[c][w] <= 1
  BY <1>1
<1> QED
  BY <1>1, <1>2, <1>3, <1>4, <1>5

(* share_worker offers a clause to every worker but the one that has learnt *)
(* it, to each once, unless a full queue or bucket has refused it.          *)
THEOREM OfferedToEach == Spec => []OfferedOnce
  BY ShareInvariant, OutcomeIsOffer, PTL

(* The selection is right when sort_clauses returns and is not touched      *)
(* while it is handed out.                                                  *)
LEMMA SelectionNext == ShareInv /\ SelectionFits /\ [Next]_vars => SelectionFits'
<1> SUFFICES ASSUME ShareInv, SelectionFits, [Next]_vars
             PROVE  SelectionFits'
  OBVIOUS
<1>1. share_lits' = share_lits
  BY DEF Next, vars
<1>2. CASE share' \notin {"increase", "push", "free"}
  BY <1>2 DEF SelectionFits
<1>3. CASE share \in {"increase", "push", "free"} /\ UNCHANGED <<i, cls, bucket>>
  BY <1>1, <1>3 DEF SelectionFits
<1>4. CASE Sort
  <2>1. PICK x, t : x = i /\ t = Sorted(x)
    OBVIOUS
  <2>2. share = "collect" /\ x \in Worker
    BY <1>4, <2>1 DEF Sort, ShareInv, RoundInv, Round
  <2>3. LoopInv(Filled(x), t, MaxSize)
    BY <2>1, <2>2, SelectionIs
  <2>4. /\ t.space \in Nat /\ t.cls \in Seq(Clause) /\ t.space + Literals(t.cls) = share_lits
        /\ Tight(t, MaxSize)
    BY <2>3 DEF LoopInv, Loops
  <2>5. Literals(t.cls) \in Nat
    <3>1. PICK q : q = t.cls
      OBVIOUS
    <3>2. \E f \in [0 .. Len(q) -> Nat] : Literals(q) = f[Len(q)]
      BY <2>4, <3>1, LiteralsAre
    <3>3. Len(q) \in 0 .. Len(q)
      BY <2>4, <3>1, LenProperties
    <3> QED
      BY <3>1, <3>2, <3>3
  <2>6. Literals(t.cls) <= share_lits
    BY <2>4, <2>5
  <2>7. \A z \in Lengths : t.bucket[z] # <<>> =>
          /\ Literals(t.cls) + z > share_lits
          /\ \A n \in DOMAIN t.cls : Size[t.cls[n]] <= z
    <3> TAKE z \in Lengths
    <3> HAVE t.bucket[z] # <<>>
    <3>1. z \in Nat /\ z <= MaxSize
      BY SizeTypes DEF Lengths
    <3>2. t.space < z /\ \A c \in Clause : Contains(t.cls, c) => Size[c] <= z
      BY <2>4, <3>1 DEF Tight
    <3>3. Literals(t.cls) + z > share_lits
      BY <2>4, <2>5, <3>1, <3>2
    <3>4. \A n \in DOMAIN t.cls : t.cls[n] \in Clause /\ Contains(t.cls, t.cls[n])
      BY <2>4, LenProperties, ElementOfSeq DEF Contains
    <3> QED
      BY <3>2, <3>3, <3>4
  <2>8. /\ bucket' = [bucket EXCEPT ![x] = t.bucket] /\ cls' = t.cls
        /\ t.cls # <<>> => i' = x
        /\ t.cls = <<>> => share' \notin {"increase", "push", "free"}
    BY <1>4, <2>1 DEF Sort, NextProducer
  <2>9. bucket'[x] = t.bucket
    BY <2>2, <2>8 DEF ShareInv, TypeOK
  <2>10. CASE t.cls = <<>>
    BY <2>8, <2>10 DEF SelectionFits
  <2>11. CASE t.cls # <<>>
    <3>1. cls' = t.cls /\ bucket'[i'] = t.bucket
      BY <2>8, <2>9, <2>11
    <3>2. Literals(cls') = Literals(t.cls)
      BY <3>1
    <3> QED
      BY <1>1, <2>6, <2>7, <3>1, <3>2 DEF SelectionFits
  <2> QED
    BY <2>10, <2>11
<1>5. CASE FreeOwn
  <2>1. CASE AtLast
    BY <1>2, <1>5, <2>1 DEF FreeOwn, NextProducer
  <2>2. CASE ~AtLast
    BY <1>3, <1>5, <2>2 DEF FreeOwn
  <2> QED
    BY <2>1, <2>2
<1>6. CASE Increase \/ Push
  BY <1>3, <1>6 DEF Increase, Push
<1>7. CASE Wake \/ Collect
  BY <1>2, <1>7 DEF Wake, Collect
<1>8. CASE Terminate \/ UNCHANGED vars \/ \E w \in Worker : Solver(w)
  <2>1. UNCHANGED sharer_vars
    BY <1>8 DEF vars, Terminate, Solver, Learn, Pop, Free
  <2> QED
    BY <1>2, <1>3, <2>1 DEF sharer_vars
<1> QED
  BY <1>4, <1>5, <1>6, <1>7, <1>8 DEF Next, Sharer, Stopped

(* What sort_clauses selects keeps to share_lits, and nothing that stays    *)
(* behind is shorter or would still fit.                                    *)
THEOREM SelectionCorrect == Spec => []SelectionFits
<1>1. Init => SelectionFits
  BY DEF Init, SelectionFits
<1> QED
  BY <1>1, ShareInvariant, SelectionNext, PTL DEF Spec
===============================================================================
