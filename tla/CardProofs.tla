----------------------------- MODULE CardProofs ------------------------------
(***************************************************************************)
(* Lists, clauses and formulas of any length: what the operators of Cnf     *)
(* return and keep.  Card for any number of variables and any limits: what  *)
(* it refutes has no model.                                                 *)
(***************************************************************************)
EXTENDS Card, FiniteSetTheorems, NaturalsInduction, SequenceTheorems, WellFoundedInduction, TLAPS

(* The recursions are followed without an induction theorem: a least number *)
(* for which a claim fails is led to a contradiction.                       *)
LEMMA LeastNumber ==
  ASSUME NEW S \in SUBSET Nat, S # {}
  PROVE  \E x \in S : \A y \in S : x <= y
<1> DEFINE R == OpToRel(<, Nat)
<1>1. IsWellFoundedOn(R, Nat)
  BY NatLessThanWellFounded
<1>2. \A x, y \in Nat : y < x => <<y, x>> \in R
  BY DEF OpToRel
<1> HIDE DEF R
<1>3. PICK x \in S : \A y \in S : ~ (<<y, x>> \in R)
  BY <1>1, WFMin
<1>4. \A y \in S : ~ (y < x) /\ y \in Nat /\ x \in Nat
  BY <1>2, <1>3
<1> QED
  BY <1>4

(* What holds of 0 and passes from each number to the next holds up to M. *)
LEMMA Counting ==
  ASSUME NEW M \in Nat, NEW P, 0 \in P, \A n \in 0 .. M : n < M /\ n \in P => n + 1 \in P
  PROVE  \A n \in 0 .. M : n \in P
<1> SUFFICES ASSUME NEW n \in 0 .. M, n \notin P
             PROVE  FALSE
  OBVIOUS
<1> DEFINE S == {m \in 0 .. M : m \notin P}
<1>1. S \in SUBSET Nat /\ S # {}
  OBVIOUS
<1>2. PICK m \in S : \A y \in S : m <= y
  <2> HIDE DEF S
  <2> QED
    BY <1>1, LeastNumber
<1>3. m \in 0 .. M /\ m # 0 /\ m \notin P
  OBVIOUS
<1>4. m - 1 \in 0 .. M /\ m - 1 < M /\ m - 1 + 1 = m
  BY <1>3
<1>5. m - 1 \in P
  BY <1>2, <1>3, <1>4
<1> QED
  BY <1>3, <1>4, <1>5

(* A function may be defined by recursion on the numbers up to M. *)
IsStep(M, V, step) == step \in [(1 .. M) \X V -> V]
IsDefined(M, V, v, step) == \E f \in [0 .. M -> V] :
                              /\ f[0] = v
                              /\ \A n \in 1 .. M : f[n] = step[<<n, f[n - 1]>>]

LEMMA Recursion ==
  ASSUME NEW M \in Nat, NEW V, NEW v \in V, NEW step, IsStep(M, V, step)
  PROVE  IsDefined(M, V, v, step)
<1> USE DEF IsStep
<1> DEFINE Good(m, f) == /\ f[0] = v
                         /\ \A n \in 1 .. m : f[n] = step[<<n, f[n - 1]>>]
<1> DEFINE P == {m \in Nat : \E f \in [0 .. m -> V] : Good(m, f)}
<1>1. 0 \in P
  <2> DEFINE f == [n \in 0 .. 0 |-> v]
  <2>1. f \in [0 .. 0 -> V] /\ Good(0, f)
    OBVIOUS
  <2> QED
    BY <2>1
<1>2. ASSUME NEW m \in 0 .. M, m < M, m \in P
      PROVE  m + 1 \in P
  <2>1. PICK f \in [0 .. m -> V] : Good(m, f)
    BY <1>2
  <2> DEFINE u == step[<<m + 1, f[m]>>]
  <2> DEFINE g == [n \in 0 .. m + 1 |-> IF n = m + 1 THEN u ELSE f[n]]
  <2>2. f[m] \in V /\ m + 1 \in 1 .. M
    BY <1>2
  <2>3. <<m + 1, f[m]>> \in (1 .. M) \X V
    BY <2>2
  <2>4. u \in V
    BY <2>3
  <2> HIDE DEF u
  <2>5. g \in [0 .. m + 1 -> V]
    BY <2>4
  <2>6. g[0] = v
    BY <2>1
  <2>7. ASSUME NEW n \in 1 .. m + 1
        PROVE  g[n] = step[<<n, g[n - 1]>>]
    <3>1. n - 1 \in 0 .. m /\ g[n - 1] = f[n - 1]
      OBVIOUS
    <3>2. CASE n = m + 1
      <4>1. g[n] = u /\ n - 1 = m
        BY <3>2
      <4> QED
        BY <3>1, <3>2, <4>1 DEF u
    <3>3. CASE n # m + 1
      <4>1. n \in 1 .. m /\ g[n] = f[n]
        BY <3>3
      <4> QED
        BY <2>1, <3>1, <4>1
    <3> QED
      BY <3>2, <3>3
  <2> HIDE DEF g
  <2>8. Good(m + 1, g)
    BY <2>6, <2>7
  <2> QED
    BY <2>5, <2>8
<1> HIDE DEF P
<1>3. M \in P
  <2>1. M \in 0 .. M
    OBVIOUS
  <2> QED
    BY <1>1, <1>2, <2>1, Counting
<1> QED
  BY <1>3 DEF P, IsDefined

(* Pick as a loop. *)
PickTurns(a, X, s, S) ==
  /\ Pick(s, S) = a[Len(s)] /\ a[0] = <<>>
  /\ \A k \in 0 .. Len(s) : a[k] \in Seq(X)
  /\ \A k \in 1 .. Len(s) : a[k] = IF k \in S THEN Append(a[k - 1], s[k]) ELSE a[k - 1]

LEMMA PickLoop ==
  ASSUME NEW X, NEW s \in Seq(X), NEW S
  PROVE  \E a : PickTurns(a, X, s, S)
<1> DEFINE M == Len(s)
           V == Seq(X)
           v == <<>>
           Turn(x, k) == IF k \in S THEN Append(x, s[k]) ELSE x
           Loop(g) == [k \in 0 .. M |-> IF k = 0 THEN v ELSE Turn(g[k - 1], k)]
           a == CHOOSE g : g = Loop(g)
<1>1. Pick(s, S) = a[M]
  BY DEF Pick, Looped
<1>2. M \in Nat
  BY LenProperties
<1>3. v \in V /\ \A x \in V : \A k \in 1 .. M : Turn(x, k) \in V
  BY AppendProperties, ElementOfSeq, LenProperties
<1>4. a[0] = v /\ (\A k \in 0 .. M : a[k] \in V) /\ (\A k \in 1 .. M : a[k] = Turn(a[k - 1], k))
  <2> DEFINE step == [kx \in (1 .. M) \X V |-> Turn(kx[2], kx[1])]
  <2>1. \A kx \in (1 .. M) \X V : Turn(kx[2], kx[1]) \in V
    <3> HIDE DEF Turn, M, V
    <3> QED
      BY <1>3
  <2>2. IsStep(M, V, step) /\ \A k \in 1 .. M : \A x \in V : step[<<k, x>>] = Turn(x, k)
    <3> HIDE DEF Turn, M, V
    <3> QED
      BY <2>1 DEF IsStep
  <2> HIDE DEF step, M, V, v, Turn
  <2>3. PICK f \in [0 .. M -> V] : f[0] = v /\ \A k \in 1 .. M : f[k] = step[<<k, f[k - 1]>>]
    <3>1. IsDefined(M, V, v, step)
      BY <1>2, <1>3, <2>2, Recursion
    <3> QED
      BY <3>1 DEF IsDefined
  <2>4. \A k \in 1 .. M : f[k] = Turn(f[k - 1], k)
    <3>1. \A k \in 1 .. M : k - 1 \in 0 .. M
      BY <1>2
    <3> QED
      BY <2>2, <2>3, <3>1
  <2>5. f = Loop(f)
    BY <1>2, <2>3, <2>4
  <2>6. a = Loop(a)
    BY <2>5
  <2> HIDE DEF a
  <2>7. a[0] = v /\ \A k \in 1 .. M : a[k] = Turn(a[k - 1], k)
    BY <1>2, <2>6
  <2> DEFINE P == {k \in 0 .. M : a[k] \in V}
  <2>8. 0 \in P
    BY <1>2, <1>3, <2>7
  <2>9. ASSUME NEW j \in 0 .. M, j < M, j \in P
        PROVE  j + 1 \in P
    <3>1. j + 1 \in 1 .. M /\ j + 1 \in 0 .. M /\ (j + 1) - 1 = j /\ a[j] \in V
      BY <1>2, <2>9
    <3> QED
      BY <1>3, <2>7, <3>1
  <2> HIDE DEF P
  <2>10. \A j \in 0 .. M : j \in P
    BY <1>2, <2>8, <2>9, Counting
  <2> QED
    BY <2>7, <2>10 DEF P
<1>5. PickTurns(a, X, s, S)
  <2> HIDE DEF a
  <2> QED
    BY <1>1, <1>4 DEF PickTurns
<1> QED
  BY <1>5

(* A sequence by its places and by its members. *)
LEMMA InSeq ==
  ASSUME NEW X, NEW s \in Seq(X)
  PROVE  /\ Len(s) \in Nat /\ DOMAIN s = 1 .. Len(s)
         /\ \A i \in DOMAIN s : s[i] \in X
         /\ ToSet(s) \subseteq X
         /\ \A x : x \in ToSet(s) <=> \E i \in DOMAIN s : s[i] = x
         /\ \A x : x \in ToSet(s) <=> \E i \in 1 .. Len(s) : s[i] = x
         /\ \A x : Contains(s, x) <=> x \in ToSet(s)
<1>1. Len(s) \in Nat /\ DOMAIN s = 1 .. Len(s) /\ \A i \in DOMAIN s : s[i] \in X
  BY LenProperties, ElementOfSeq
<1>2. \A x : x \in ToSet(s) <=> \E i \in DOMAIN s : s[i] = x
  BY DEF ToSet
<1>3. ToSet(s) \subseteq X
  BY <1>1, <1>2
<1>4. \A x : x \in ToSet(s) <=> \E i \in 1 .. Len(s) : s[i] = x
  BY <1>1, <1>2
<1> QED
  BY <1>1, <1>2, <1>3, <1>4 DEF Contains

(* The members of a concatenation. *)
LEMMA ConcatSet ==
  ASSUME NEW X, NEW s \in Seq(X), NEW t \in Seq(X)
  PROVE  /\ s \o t \in Seq(X) /\ Len(s \o t) = Len(s) + Len(t)
         /\ \A x : x \in ToSet(s \o t) <=> x \in ToSet(s) \/ x \in ToSet(t)
<1> DEFINE u == s \o t
<1>1. u \in Seq(X)
  BY ConcatProperties
<1>2. /\ Len(s) \in Nat /\ Len(t) \in Nat /\ Len(u) = Len(s) + Len(t)
      /\ \A i \in 1 .. Len(s) : u[i] = s[i]
      /\ \A i \in 1 .. Len(t) : u[i + Len(s)] = t[i]
  BY ConcatProperties, LenProperties
<1>3. \A x : x \in ToSet(u) <=> \E i \in 1 .. Len(u) : u[i] = x
  <2> HIDE DEF u
  <2> QED
    BY <1>1, InSeq
<1>4. \A x : x \in ToSet(s) <=> \E i \in 1 .. Len(s) : s[i] = x
  BY InSeq
<1>5. \A x : x \in ToSet(t) <=> \E i \in 1 .. Len(t) : t[i] = x
  BY InSeq
<1> HIDE DEF u
<1>6. \A i \in 1 .. Len(u) : i \in 1 .. Len(s) \/ (i - Len(s) \in 1 .. Len(t) /\ i = (i - Len(s)) + Len(s))
  BY <1>2
<1>7. /\ \A i \in 1 .. Len(s) : i \in 1 .. Len(u)
      /\ \A i \in 1 .. Len(t) : i + Len(s) \in 1 .. Len(u)
  BY <1>2
<1>8. ASSUME NEW x \in ToSet(u)
      PROVE  x \in ToSet(s) \/ x \in ToSet(t)
  <2>1. PICK i \in 1 .. Len(u) : u[i] = x
    BY <1>3, <1>8
  <2>2. CASE i \in 1 .. Len(s)
    BY <1>2, <1>4, <2>1, <2>2
  <2>3. CASE i - Len(s) \in 1 .. Len(t) /\ i = (i - Len(s)) + Len(s)
    BY <1>2, <1>5, <2>1, <2>3
  <2> QED
    BY <1>6, <2>2, <2>3
<1>9. ASSUME NEW x \in ToSet(s)
      PROVE  x \in ToSet(u)
  BY <1>2, <1>3, <1>4, <1>7, <1>9
<1>10. ASSUME NEW x \in ToSet(t)
       PROVE  x \in ToSet(u)
  BY <1>2, <1>3, <1>5, <1>7, <1>10
<1> QED
  BY <1>1, <1>2, <1>8, <1>9, <1>10 DEF u

(* A part of a list: its members, and each of them once if that is so in *)
(* the list.                                                             *)
LEMMA PickIs ==
  ASSUME NEW X, NEW s \in Seq(X), NEW S
  PROVE  /\ Pick(s, S) \in Seq(X) /\ Len(Pick(s, S)) <= Len(s)
         /\ \A x : x \in ToSet(Pick(s, S)) <=> \E i \in DOMAIN s : i \in S /\ s[i] = x
         /\ (\A i, j \in DOMAIN s : i \in S /\ j \in S /\ s[i] = s[j] => i = j) => IsInjective(Pick(s, S))
         /\ (\A i \in DOMAIN s : i \in S) => Pick(s, S) = s
<1>0. PICK a : PickTurns(a, X, s, S)
  BY PickLoop
<1>1. /\ Pick(s, S) = a[Len(s)] /\ a[0] = <<>>
      /\ \A k \in 0 .. Len(s) : a[k] \in Seq(X)
      /\ \A k \in 1 .. Len(s) : a[k] = IF k \in S THEN Append(a[k - 1], s[k]) ELSE a[k - 1]
  BY <1>0 DEF PickTurns
<1> DEFINE M == Len(s)
           Inj(k) == \A i, j \in 1 .. k : i \in S /\ j \in S /\ s[i] = s[j] => i = j
           All(k) == \A i \in 1 .. k : i \in S
           Inv(k) == /\ Len(a[k]) \in 0 .. k
                     /\ \A i \in 1 .. Len(a[k]) : \E j \in 1 .. k : j \in S /\ s[j] = a[k][i]
                     /\ \A j \in 1 .. k : j \in S => \E i \in 1 .. Len(a[k]) : a[k][i] = s[j]
                     /\ Inj(k) => \A i, j \in 1 .. Len(a[k]) : a[k][i] = a[k][j] => i = j
                     /\ All(k) => Len(a[k]) = k /\ \A i \in 1 .. k : a[k][i] = s[i]
           P == {k \in 0 .. M : Inv(k)}
<1>2. M \in Nat /\ DOMAIN s = 1 .. M /\ \A i \in 1 .. M : s[i] \in X
  BY InSeq
<1>3. 0 \in P
  BY <1>1, <1>2
<1>4. ASSUME NEW n \in 0 .. M, n < M, n \in P
      PROVE  n + 1 \in P
  <2> DEFINE t == a[n]   u == a[n + 1]   e == s[n + 1]
  <2>1. n + 1 \in 1 .. M /\ n + 1 - 1 = n /\ n \in 0 .. M
    BY <1>2, <1>4
  <2>2. t \in Seq(X) /\ e \in X /\ u = IF n + 1 \in S THEN Append(t, e) ELSE t
    BY <1>1, <1>2, <2>1
  <2>3. Inv(n)
    BY <1>4
  <2>4. CASE n + 1 \in S
    <3>1. u = Append(t, e) /\ Len(u) = Len(t) + 1 /\ u[Len(t) + 1] = e /\ Len(t) \in Nat
          /\ \A i \in 1 .. Len(t) : u[i] = t[i]
      BY <2>2, <2>4, AppendProperties, InSeq
    <3> HIDE DEF t, u, e
    <3>2. \A i \in 1 .. Len(u) : i \in 1 .. Len(t) \/ i = Len(t) + 1
      BY <3>1
    <3>3. \A j \in 1 .. n + 1 : j \in 1 .. n \/ j = n + 1
      BY <2>1
    <3>4. Len(u) \in 0 .. n + 1
      BY <2>3, <3>1 DEF t
    <3>5. \A i \in 1 .. Len(u) : \E j \in 1 .. n + 1 : j \in S /\ s[j] = u[i]
      BY <2>3, <2>4, <3>1, <3>2, <2>1 DEF t, e
    <3>6. \A j \in 1 .. n + 1 : j \in S => \E i \in 1 .. Len(u) : u[i] = s[j]
      <4> TAKE j \in 1 .. n + 1
      <4>1. CASE j = n + 1
        BY <3>1, <4>1 DEF e
      <4>2. CASE j \in 1 .. n /\ j \in S
        <5>1. PICK i \in 1 .. Len(t) : t[i] = s[j]
          BY <2>3, <4>2 DEF t
        <5>2. i \in 1 .. Len(u) /\ u[i] = s[j]
          BY <3>1, <5>1
        <5> QED
          BY <5>2
      <4> QED
        BY <3>3, <4>1, <4>2
    <3>7. ASSUME Inj(n + 1)
          PROVE  \A i, j \in 1 .. Len(u) : u[i] = u[j] => i = j
      <4>1. \A i, j \in 1 .. Len(t) : t[i] = t[j] => i = j
        <5>1. Inj(n)
          BY <3>7, <2>1
        <5> QED
          BY <2>3, <5>1 DEF t
      <4>2. \A i \in 1 .. Len(t) : t[i] # e
        <5> SUFFICES ASSUME NEW i \in 1 .. Len(t), t[i] = e
                     PROVE  FALSE
          OBVIOUS
        <5>1. PICK j \in 1 .. n : j \in S /\ s[j] = t[i]
          BY <2>3 DEF t
        <5>2. j \in 1 .. n + 1 /\ n + 1 \in 1 .. n + 1 /\ j # n + 1
          BY <2>1, <5>1
        <5> QED
          BY <2>4, <3>7, <5>1, <5>2 DEF e
      <4> QED
        BY <3>1, <3>2, <4>1, <4>2
    <3>8. ASSUME All(n + 1)
          PROVE  Len(u) = n + 1 /\ \A i \in 1 .. n + 1 : u[i] = s[i]
      <4>1. All(n)
        BY <3>8, <2>1
      <4>2. Len(t) = n /\ \A i \in 1 .. n : t[i] = s[i]
        BY <2>3, <4>1 DEF t
      <4> QED
        BY <3>1, <3>3, <4>2 DEF e
    <3>9. Inv(n + 1)
      <4> HIDE DEF Inj, All
      <4> QED
        BY <3>4, <3>5, <3>6, <3>7, <3>8 DEF u
    <3> HIDE DEF Inv
    <3> QED
      BY <2>1, <3>9
  <2>5. CASE n + 1 \notin S
    <3>1. u = t
      BY <2>2, <2>5
    <3>2. \A j \in 1 .. n + 1 : j \in S => j \in 1 .. n
      BY <2>1, <2>5
    <3>3. ~All(n + 1)
      BY <2>1, <2>5
    <3>4. Inj(n + 1) => Inj(n)
      BY <2>1
    <3>5. 1 .. n \subseteq 1 .. n + 1 /\ 0 .. n \subseteq 0 .. n + 1
      BY <2>1
    <3>6. Inv(n + 1)
      <4> HIDE DEF Inj, All
      <4> QED
        BY <2>3, <3>1, <3>2, <3>3, <3>4, <3>5
    <3> HIDE DEF Inv
    <3> QED
      BY <2>1, <3>6
  <2> QED
    BY <2>4, <2>5
<1> HIDE DEF P
<1>5. M \in P
  <2>1. M \in 0 .. M
    BY <1>2
  <2> QED
    BY <1>2, <1>3, <1>4, <2>1, Counting
<1> DEFINE p == Pick(s, S)
<1>6. p = a[M] /\ p \in Seq(X) /\ Inv(M)
  <2>1. Inv(M)
    BY <1>5 DEF P
  <2>2. M \in 0 .. M
    BY <1>2
  <2> HIDE DEF Inv
  <2> QED
    BY <1>1, <2>1, <2>2
<1>7. DOMAIN p = 1 .. Len(p) /\ Len(p) \in Nat
  BY <1>6, InSeq
<1>8. \A x : x \in ToSet(p) <=> \E i \in DOMAIN s : i \in S /\ s[i] = x
  <2>1. \A x : x \in ToSet(p) <=> \E i \in DOMAIN p : p[i] = x
    BY <1>6, InSeq
  <2>2. \A i \in 1 .. Len(p) : \E j \in 1 .. M : j \in S /\ s[j] = p[i]
    BY <1>6
  <2>3. \A j \in 1 .. M : j \in S => \E i \in 1 .. Len(p) : p[i] = s[j]
    BY <1>6
  <2> HIDE DEF p, Inv, M
  <2> QED
    BY <2>1, <2>2, <2>3, <1>7, <1>2
<1>9. (\A i, j \in DOMAIN s : i \in S /\ j \in S /\ s[i] = s[j] => i = j) => IsInjective(p)
  <2> HIDE DEF p
  <2> QED
    BY <1>2, <1>6, <1>7 DEF IsInjective
<1>10. (\A i \in DOMAIN s : i \in S) => p = s
  <2> HIDE DEF p
  <2> QED
    BY <1>2, <1>6, <1>7, SeqEqual
<1> QED
  BY <1>2, <1>6, <1>8, <1>9, <1>10

(* Every value once, at its first place. *)
LEMMA DistinctIs ==
  ASSUME NEW X, NEW s \in Seq(X)
  PROVE  /\ Distinct(s) \in Seq(X) /\ IsInjective(Distinct(s))
         /\ ToSet(Distinct(s)) = ToSet(s) /\ Len(Distinct(s)) <= Len(s)
         /\ Distinct(s) = s <=> IsInjective(s)
<1> DEFINE S == {i \in DOMAIN s : \A j \in 1 .. i - 1 : s[j] # s[i]}
           p == Distinct(s)
<1>1. p = Pick(s, S)
  BY DEF Distinct
<1>2. Len(s) \in Nat /\ DOMAIN s = 1 .. Len(s)
      /\ \A x : x \in ToSet(s) <=> \E i \in DOMAIN s : s[i] = x
  BY InSeq
<1>3. /\ p \in Seq(X) /\ Len(p) <= Len(s)
      /\ \A x : x \in ToSet(p) <=> \E i \in DOMAIN s : i \in S /\ s[i] = x
      /\ (\A i, j \in DOMAIN s : i \in S /\ j \in S /\ s[i] = s[j] => i = j) => IsInjective(p)
      /\ (\A i \in DOMAIN s : i \in S) => p = s
  <2> HIDE DEF S, p
  <2> QED
    BY <1>1, PickIs
<1>4. IsInjective(p)
  <2> SUFFICES ASSUME NEW i \in DOMAIN s, NEW j \in DOMAIN s, i \in S, j \in S, s[i] = s[j], i # j
               PROVE  FALSE
    BY <1>3
  <2>1. i \in 1 .. j - 1 \/ j \in 1 .. i - 1
    BY <1>2
  <2> QED
    BY <2>1
<1>5. ToSet(p) = ToSet(s)
  <2>1. ASSUME NEW x \in ToSet(s)
        PROVE  x \in ToSet(p)
    <3> DEFINE At == {i \in 1 .. Len(s) : s[i] = x}
    <3>1. At \in SUBSET Nat /\ At # {}
      BY <1>2, <2>1
    <3>2. PICK i \in At : \A j \in At : i <= j
      <4> HIDE DEF At
      <4> QED
        BY <3>1, LeastNumber
    <3>3. i \in DOMAIN s /\ s[i] = x /\ i \in Nat
      BY <1>2
    <3>4. \A j \in 1 .. i - 1 : s[j] # x
      <4> SUFFICES ASSUME NEW j \in 1 .. i - 1, s[j] = x
                   PROVE  FALSE
        OBVIOUS
      <4>1. j \in At /\ ~(i <= j)
        BY <1>2, <3>3
      <4> QED
        BY <3>2, <4>1
    <3> QED
      BY <1>3, <3>3, <3>4
  <2>2. ASSUME NEW x \in ToSet(p)
        PROVE  x \in ToSet(s)
    BY <1>2, <1>3, <2>2
  <2> QED
    BY <2>1, <2>2
<1>6. ASSUME IsInjective(s)
      PROVE  p = s
  <2> SUFFICES ASSUME NEW i \in DOMAIN s
               PROVE  i \in S
    BY <1>3
  <2>1. \A j \in 1 .. i - 1 : j \in DOMAIN s /\ j # i
    BY <1>2
  <2> QED
    BY <1>6, <2>1 DEF IsInjective
<1> QED
  BY <1>3, <1>4, <1>5, <1>6

(* Flat as a loop. *)
FlatTurns(a, X, ss) ==
  /\ Flat(ss) = a[Len(ss)] /\ a[0] = <<>>
  /\ \A k \in 0 .. Len(ss) : a[k] \in Seq(X)
  /\ \A k \in 1 .. Len(ss) : a[k] = a[k - 1] \o ss[k]

LEMMA FlatLoop ==
  ASSUME NEW X, NEW ss \in Seq(Seq(X))
  PROVE  \E a : FlatTurns(a, X, ss)
<1> DEFINE M == Len(ss)
           V == Seq(X)
           v == <<>>
           Turn(x, k) == x \o ss[k]
           Loop(g) == [k \in 0 .. M |-> IF k = 0 THEN v ELSE Turn(g[k - 1], k)]
           a == CHOOSE g : g = Loop(g)
<1>1. Flat(ss) = a[M]
  BY DEF Flat, Looped
<1>2. M \in Nat
  BY LenProperties
<1>3. v \in V /\ \A x \in V : \A k \in 1 .. M : Turn(x, k) \in V
  BY ConcatProperties, InSeq
<1>4. a[0] = v /\ (\A k \in 0 .. M : a[k] \in V) /\ (\A k \in 1 .. M : a[k] = Turn(a[k - 1], k))
  <2> DEFINE step == [kx \in (1 .. M) \X V |-> Turn(kx[2], kx[1])]
  <2>1. \A kx \in (1 .. M) \X V : Turn(kx[2], kx[1]) \in V
    <3> HIDE DEF Turn, M, V
    <3> QED
      BY <1>3
  <2>2. IsStep(M, V, step) /\ \A k \in 1 .. M : \A x \in V : step[<<k, x>>] = Turn(x, k)
    <3> HIDE DEF Turn, M, V
    <3> QED
      BY <2>1 DEF IsStep
  <2> HIDE DEF step, M, V, v, Turn
  <2>3. PICK f \in [0 .. M -> V] : f[0] = v /\ \A k \in 1 .. M : f[k] = step[<<k, f[k - 1]>>]
    <3>1. IsDefined(M, V, v, step)
      BY <1>2, <1>3, <2>2, Recursion
    <3> QED
      BY <3>1 DEF IsDefined
  <2>4. \A k \in 1 .. M : f[k] = Turn(f[k - 1], k)
    <3>1. \A k \in 1 .. M : k - 1 \in 0 .. M
      BY <1>2
    <3> QED
      BY <2>2, <2>3, <3>1
  <2>5. f = Loop(f)
    BY <1>2, <2>3, <2>4
  <2>6. a = Loop(a)
    BY <2>5
  <2> HIDE DEF a
  <2>7. a[0] = v /\ \A k \in 1 .. M : a[k] = Turn(a[k - 1], k)
    BY <1>2, <2>6
  <2> DEFINE P == {k \in 0 .. M : a[k] \in V}
  <2>8. 0 \in P
    BY <1>2, <1>3, <2>7
  <2>9. ASSUME NEW j \in 0 .. M, j < M, j \in P
        PROVE  j + 1 \in P
    <3>1. j + 1 \in 1 .. M /\ j + 1 \in 0 .. M /\ (j + 1) - 1 = j /\ a[j] \in V
      BY <1>2, <2>9
    <3> QED
      BY <1>3, <2>7, <3>1
  <2> HIDE DEF P
  <2>10. \A j \in 0 .. M : j \in P
    BY <1>2, <2>8, <2>9, Counting
  <2> QED
    BY <2>7, <2>10 DEF P
<1>5. FlatTurns(a, X, ss)
  <2> HIDE DEF a
  <2> QED
    BY <1>1, <1>4 DEF FlatTurns
<1> QED
  BY <1>5

(* The lists one after the other have the members of all of them. *)
LEMMA FlatIs ==
  ASSUME NEW X, NEW ss \in Seq(Seq(X))
  PROVE  /\ Flat(ss) \in Seq(X)
         /\ \A x : x \in ToSet(Flat(ss)) <=> \E i \in DOMAIN ss : x \in ToSet(ss[i])
<1>0. PICK a : FlatTurns(a, X, ss)
  BY FlatLoop
<1> DEFINE M == Len(ss)
           Inv(k) == \A x : x \in ToSet(a[k]) <=> \E i \in 1 .. k : x \in ToSet(ss[i])
           P == {k \in 0 .. M : Inv(k)}
<1>1. /\ Flat(ss) = a[M] /\ a[0] = <<>>
      /\ \A k \in 0 .. M : a[k] \in Seq(X)
      /\ \A k \in 1 .. M : a[k] = a[k - 1] \o ss[k]
  BY <1>0 DEF FlatTurns
<1>2. M \in Nat /\ DOMAIN ss = 1 .. M /\ \A i \in 1 .. M : ss[i] \in Seq(X)
  BY InSeq
<1>3. 0 \in P
  BY <1>1, <1>2 DEF ToSet
<1>4. ASSUME NEW n \in 0 .. M, n < M, n \in P
      PROVE  n + 1 \in P
  <2> DEFINE t == a[n]   u == a[n + 1]   e == ss[n + 1]
  <2>1. n + 1 \in 1 .. M /\ n + 1 - 1 = n /\ n \in 0 .. M
    BY <1>2, <1>4
  <2>2. t \in Seq(X) /\ e \in Seq(X) /\ u = t \o e
    <3>1. t \in Seq(X)
      BY <1>1, <2>1
    <3>2. e \in Seq(X)
      BY <1>2, <2>1
    <3>3. a[n + 1] = a[n + 1 - 1] \o ss[n + 1]
      <4>1. PICK k \in 1 .. M : k = n + 1 /\ k - 1 = n + 1 - 1
        BY <2>1
      <4>2. a[k] = a[k - 1] \o ss[k]
        BY <1>1
      <4> QED
        BY <4>1, <4>2
    <3> QED
      BY <2>1, <3>1, <3>2, <3>3
  <2>3. Inv(n)
    BY <1>4
  <2> HIDE DEF t, u, e
  <2>8. \A x : x \in ToSet(u) <=> x \in ToSet(t) \/ x \in ToSet(e)
    BY <2>2, ConcatSet
  <2>9. \A i \in 1 .. n + 1 : i \in 1 .. n \/ i = n + 1
    BY <2>1
  <2>10. 1 .. n \subseteq 1 .. n + 1 /\ n + 1 \in 1 .. n + 1
    BY <2>1
  <2>11. Inv(n + 1)
    <3>1. \A x : x \in ToSet(t) <=> \E i \in 1 .. n : x \in ToSet(ss[i])
      BY <2>3 DEF t
    <3>2. \A x : x \in ToSet(u) <=> \E i \in 1 .. n + 1 : x \in ToSet(ss[i])
      BY <3>1, <2>8, <2>9, <2>10 DEF e
    <3> QED
      BY <3>2 DEF u
  <2> HIDE DEF Inv
  <2> QED
    BY <2>1, <2>11
<1> HIDE DEF P
<1>5. M \in P
  <2>1. M \in 0 .. M
    BY <1>2
  <2> QED
    BY <1>2, <1>3, <1>4, <2>1, Counting
<1>6. Inv(M) /\ M \in 0 .. M
  BY <1>5 DEF P
<1> QED
  BY <1>1, <1>2, <1>6

(* Numbers without their signs. *)
LEMMA LiteralFacts ==
  ASSUME NEW n \in Nat, NEW l \in Literals(n)
  PROVE  /\ l \in Int /\ l # 0 /\ Abs(l) \in 1 .. n /\ pnsign(l) \in {-1, 1} /\ l = pnsign(l) * Abs(l)
         /\ -l \in Literals(n) /\ Abs(-l) = Abs(l) /\ pnsign(-l) = -pnsign(l) /\ -(-l) = l
         /\ l = Abs(l) \/ l = -Abs(l)
BY DEF Literals, Abs, pnsign

(* A variable number and its negation as literals. *)
LEMMA SignedFacts ==
  ASSUME NEW n \in Nat, NEW v \in 1 .. n
  PROVE  /\ v \in Literals(n) /\ -v \in Literals(n) /\ Abs(v) = v /\ Abs(-v) = v
         /\ pnsign(v) = 1 /\ pnsign(-v) = -1
BY DEF Literals, Abs, pnsign

(* Two literals of one variable are equal or opposite. *)
LEMMA SameLiteral ==
  ASSUME NEW n \in Nat, NEW l \in Literals(n), NEW m \in Literals(n), Abs(l) = Abs(m)
  PROVE  l = m \/ l = -m
BY DEF Literals, Abs

(* The value of a literal and of its negation. *)
LEMMA ValueFacts ==
  ASSUME NEW n \in Nat, NEW l \in Literals(n), NEW val, val[Abs(l)] \in {-1, 0, 1}
  PROVE  /\ Value(val, l) \in {-1, 0, 1} /\ Value(val, -l) = -Value(val, l)
         /\ Value(val, l) = 0 <=> val[Abs(l)] = 0
         /\ Value(val, l) = 1 <=> val[Abs(l)] = pnsign(l)
         /\ Value(val, l) = -1 <=> val[Abs(l)] = -pnsign(l)
         /\ val[Abs(l)] = pnsign(l) * Value(val, l)
<1>1. /\ pnsign(l) \in {-1, 1} /\ Abs(-l) = Abs(l) /\ pnsign(-l) = -pnsign(l)
  BY LiteralFacts
<1> QED
  BY <1>1 DEF Value

(* The variables in the order of their mention: each that occurs, once. *)
LEMMA OrderIs ==
  ASSUME NEW n \in Nat, NEW cs \in Seq(Seq(Literals(n)))
  PROVE  /\ Order(cs) \in Seq(1 .. n) /\ IsInjective(Order(cs))
         /\ \A v : v \in ToSet(Order(cs)) <=> \E i \in DOMAIN cs : v \in VarsOf(cs[i])
<1> DEFINE f == Flat(cs)
           g == Mapped(Abs, f)
<1>1. f \in Seq(Literals(n)) /\ \A x : x \in ToSet(f) <=> \E i \in DOMAIN cs : x \in ToSet(cs[i])
  BY FlatIs
<1> HIDE DEF f
<1>2. Len(f) \in Nat /\ DOMAIN f = 1 .. Len(f) /\ (\A i \in DOMAIN f : f[i] \in Literals(n))
      /\ \A x : x \in ToSet(f) <=> \E i \in DOMAIN f : f[i] = x
  BY <1>1, InSeq
<1>3. g = [i \in DOMAIN f |-> Abs(f[i])]
  BY DEF Mapped
<1>4. \A i \in DOMAIN f : Abs(f[i]) \in 1 .. n
  BY <1>2, LiteralFacts
<1>5. g \in Seq(1 .. n)
  BY <1>2, <1>3, <1>4, IsASeq
<1>6. Order(cs) = Distinct(g)
  BY DEF Order, f
<1>7. \A v : v \in ToSet(g) <=> \E i \in DOMAIN f : Abs(f[i]) = v
  BY <1>3 DEF ToSet
<1>8. \A i : i \in DOMAIN cs => \A v : v \in VarsOf(cs[i]) <=> \E l \in ToSet(cs[i]) : Abs(l) = v
  BY DEF VarsOf
<1> HIDE DEF g
<1>9. /\ Distinct(g) \in Seq(1 .. n) /\ IsInjective(Distinct(g)) /\ ToSet(Distinct(g)) = ToSet(g)
  BY <1>5, DistinctIs
<1>10. \A v : v \in ToSet(g) <=> \E i \in DOMAIN cs : v \in VarsOf(cs[i])
  <2>1. ASSUME NEW v \in ToSet(g)
        PROVE  \E i \in DOMAIN cs : v \in VarsOf(cs[i])
    <3>1. PICK k \in DOMAIN f : Abs(f[k]) = v
      BY <1>7, <2>1
    <3>2. f[k] \in ToSet(f)
      BY <1>2
    <3>3. PICK i \in DOMAIN cs : f[k] \in ToSet(cs[i])
      BY <1>1, <3>2
    <3> QED
      BY <1>8, <3>1, <3>3
  <2>2. ASSUME NEW v, NEW i \in DOMAIN cs, v \in VarsOf(cs[i])
        PROVE  v \in ToSet(g)
    <3>1. PICK l \in ToSet(cs[i]) : Abs(l) = v
      BY <1>8, <2>2
    <3>2. l \in ToSet(f)
      BY <1>1, <3>1
    <3>3. PICK k \in DOMAIN f : f[k] = l
      BY <1>2, <3>2
    <3> QED
      BY <1>7, <3>1, <3>3
  <2> QED
    BY <2>1, <2>2
<1> QED
  BY <1>6, <1>9, <1>10

(* A list of different numbers up to n has at most n of them. *)
LEMMA ShortList ==
  ASSUME NEW n \in Nat, NEW s \in Seq(1 .. n), IsInjective(s)
  PROVE  Len(s) <= n
<1>1. Len(s) \in Nat /\ DOMAIN s = 1 .. Len(s) /\ s \in [1 .. Len(s) -> 1 .. n]
  BY LenProperties
<1>2. s \in Injection(1 .. Len(s), 1 .. n)
  BY <1>1 DEF IsInjective, Injection, IsInjective
<1>3. IsFiniteSet(1 .. n) /\ Cardinality(1 .. n) = n /\ Cardinality(1 .. Len(s)) = Len(s) /\ IsFiniteSet(1 .. Len(s))
  <2>1. \A m \in Nat : IsFiniteSet(1 .. m) /\ Cardinality(1 .. m) = IF 1 > m THEN 0 ELSE m - 1 + 1
    BY FS_Interval
  <2> QED
    BY <1>1, <2>1
<1>4. ExistsInjection(1 .. Len(s), 1 .. n)
  BY <1>2 DEF ExistsInjection
<1>5. Cardinality(1 .. Len(s)) <= Cardinality(1 .. n)
  BY <1>2, <1>3, FS_Injection
<1> QED
  BY <1>3, <1>5

(* The new number of a variable that is mentioned is its place in the order. *)
LEMMA ColorIs ==
  ASSUME NEW n \in Nat, NEW cs \in Seq(Seq(Literals(n)))
  PROVE  /\ Len(Order(cs)) \in 0 .. n
         /\ Color(cs, 1 .. n) \in [1 .. n -> 0 .. Len(Order(cs))]
         /\ \A v \in 1 .. n : Color(cs, 1 .. n)[v] # 0 <=> v \in ToSet(Order(cs))
         /\ \A v \in 1 .. n : Color(cs, 1 .. n)[v] # 0 => /\ Color(cs, 1 .. n)[v] \in 1 .. Len(Order(cs))
                                                         /\ Order(cs)[Color(cs, 1 .. n)[v]] = v
         /\ \A k \in 1 .. Len(Order(cs)) : Order(cs)[k] \in 1 .. n /\ Color(cs, 1 .. n)[Order(cs)[k]] = k
<1> DEFINE o == Order(cs)
           col == Color(cs, 1 .. n)
           At(v) == CHOOSE k \in DOMAIN o : o[k] = v
<1>1. col = [v \in 1 .. n |-> IF Contains(o, v) THEN At(v) ELSE 0]
  BY DEF Color
<1>2. o \in Seq(1 .. n) /\ IsInjective(o)
  BY OrderIs
<1> HIDE DEF o
<1>3. /\ Len(o) \in Nat /\ DOMAIN o = 1 .. Len(o) /\ (\A i \in DOMAIN o : o[i] \in 1 .. n)
      /\ \A x : x \in ToSet(o) <=> \E i \in 1 .. Len(o) : o[i] = x
      /\ \A x : Contains(o, x) <=> x \in ToSet(o)
  BY <1>2, InSeq
<1>4. Len(o) <= n
  BY <1>2, ShortList
<1>5. \A v \in 1 .. n : v \in ToSet(o) => At(v) \in 1 .. Len(o) /\ o[At(v)] = v
  BY <1>3
<1> HIDE DEF At
<1>6. \A v \in 1 .. n : col[v] = IF v \in ToSet(o) THEN At(v) ELSE 0
  BY <1>1, <1>3
<1>7. col \in [1 .. n -> 0 .. Len(o)]
  BY <1>1, <1>3, <1>5
<1> HIDE DEF col
<1>8. \A v \in 1 .. n : col[v] # 0 <=> v \in ToSet(o)
  BY <1>3, <1>5, <1>6
<1>9. \A v \in 1 .. n : col[v] # 0 => col[v] \in 1 .. Len(o) /\ o[col[v]] = v
  BY <1>3, <1>5, <1>6
<1>10. ASSUME NEW k \in 1 .. Len(o)
       PROVE  o[k] \in 1 .. n /\ col[o[k]] = k
  <2>1. o[k] \in 1 .. n /\ o[k] \in ToSet(o)
    BY <1>3
  <2>2. col[o[k]] \in 1 .. Len(o) /\ o[col[o[k]]] = o[k]
    BY <1>8, <1>9, <2>1
  <2> QED
    BY <1>2, <1>3, <2>1, <2>2 DEF IsInjective
<1> QED
  BY <1>3, <1>4, <1>7, <1>8, <1>9, <1>10 DEF o, col

Clauses(n) == Seq(Seq(Literals(n)))

(* The clauses of a formula by their places. *)
LEMMA InClauses ==
  ASSUME NEW n \in Nat, NEW cs \in Clauses(n)
  PROVE  /\ Len(cs) \in Nat /\ DOMAIN cs = 1 .. Len(cs)
         /\ \A i \in DOMAIN cs : /\ cs[i] \in Seq(Literals(n)) /\ Len(cs[i]) \in Nat /\ DOMAIN cs[i] = 1 .. Len(cs[i])
                                 /\ \A j \in DOMAIN cs[i] : cs[i][j] \in Literals(n)
                                 /\ \A l : l \in ToSet(cs[i]) <=> \E j \in DOMAIN cs[i] : cs[i][j] = l
                                 /\ ToSet(cs[i]) \subseteq Literals(n)
                                 /\ VarsOf(cs[i]) \subseteq 1 .. n
<1>1. Len(cs) \in Nat /\ DOMAIN cs = 1 .. Len(cs) /\ \A i \in DOMAIN cs : cs[i] \in Seq(Literals(n))
  BY InSeq DEF Clauses
<1>2. ASSUME NEW c \in Seq(Literals(n))
      PROVE  /\ Len(c) \in Nat /\ DOMAIN c = 1 .. Len(c)
             /\ \A j \in DOMAIN c : c[j] \in Literals(n)
             /\ \A l : l \in ToSet(c) <=> \E j \in DOMAIN c : c[j] = l
             /\ ToSet(c) \subseteq Literals(n)
             /\ VarsOf(c) \subseteq 1 .. n
  <2>1. /\ Len(c) \in Nat /\ DOMAIN c = 1 .. Len(c)
        /\ \A j \in DOMAIN c : c[j] \in Literals(n)
        /\ \A l : l \in ToSet(c) <=> \E j \in DOMAIN c : c[j] = l
        /\ ToSet(c) \subseteq Literals(n)
    BY InSeq
  <2>2. \A l \in ToSet(c) : Abs(l) \in 1 .. n
    BY <2>1, LiteralFacts
  <2> QED
    BY <2>1, <2>2 DEF VarsOf
<1> QED
  BY <1>1, <1>2

(* The clauses with other names for their variables. *)
LEMMA RelabelIs ==
  ASSUME NEW n \in Nat, NEW m \in Nat, NEW cs \in Clauses(n), NEW col,
         \A i \in DOMAIN cs : \A v \in VarsOf(cs[i]) : col[v] \in 1 .. m
  PROVE  LET R == Relabel(cs, col)
         IN  /\ R \in Clauses(m) /\ DOMAIN R = DOMAIN cs /\ Len(R) = Len(cs)
             /\ \A i \in DOMAIN cs :
                  /\ Len(R[i]) = Len(cs[i]) /\ DOMAIN R[i] = DOMAIN cs[i]
                  /\ \A j \in DOMAIN cs[i] : /\ R[i][j] = pnsign(cs[i][j]) * col[Abs(cs[i][j])]
                                             /\ Abs(R[i][j]) = col[Abs(cs[i][j])]
                                             /\ pnsign(R[i][j]) = pnsign(cs[i][j])
<1> DEFINE R == Relabel(cs, col)
           Lit(i, j) == pnsign(cs[i][j]) * col[Abs(cs[i][j])]
<1>1. R = [i \in DOMAIN cs |-> [j \in DOMAIN cs[i] |-> Lit(i, j)]]
  BY DEF Relabel
<1>2. /\ Len(cs) \in Nat /\ DOMAIN cs = 1 .. Len(cs)
      /\ \A i \in DOMAIN cs : /\ Len(cs[i]) \in Nat /\ DOMAIN cs[i] = 1 .. Len(cs[i])
                              /\ \A j \in DOMAIN cs[i] : cs[i][j] \in Literals(n)
                              /\ \A l : l \in ToSet(cs[i]) <=> \E j \in DOMAIN cs[i] : cs[i][j] = l
  BY InClauses
<1>3. ASSUME NEW i \in DOMAIN cs, NEW j \in DOMAIN cs[i]
      PROVE  Lit(i, j) \in Literals(m) /\ Abs(Lit(i, j)) = col[Abs(cs[i][j])] /\ pnsign(Lit(i, j)) = pnsign(cs[i][j])
  <2>1. cs[i][j] \in Literals(n) /\ cs[i][j] \in ToSet(cs[i])
    BY <1>2, <1>3
  <2>2. Abs(cs[i][j]) \in VarsOf(cs[i])
    BY <2>1 DEF VarsOf
  <2>3. PICK w : w = col[Abs(cs[i][j])] /\ w \in 1 .. m
    BY <2>2
  <2>4. PICK x : x = pnsign(cs[i][j]) /\ x \in {-1, 1}
    BY <2>1, LiteralFacts
  <2>5. /\ x * w \in Literals(m) /\ Abs(x * w) = w /\ pnsign(x * w) = x
    BY <2>3, <2>4 DEF Literals, Abs, pnsign
  <2> QED
    BY <2>3, <2>4, <2>5
<1>4. \A i \in DOMAIN cs : [j \in DOMAIN cs[i] |-> Lit(i, j)] \in Seq(Literals(m))
                           /\ Len([j \in DOMAIN cs[i] |-> Lit(i, j)]) = Len(cs[i])
  <2> TAKE i \in DOMAIN cs
  <2> DEFINE c == [j \in 1 .. Len(cs[i]) |-> Lit(i, j)]
  <2>1. \A j \in 1 .. Len(cs[i]) : Lit(i, j) \in Literals(m)
    BY <1>2, <1>3
  <2>2. Len(cs[i]) \in Nat /\ DOMAIN cs[i] = 1 .. Len(cs[i])
    BY <1>2
  <2> HIDE DEF Lit
  <2>3. c \in Seq(Literals(m)) /\ Len(c) = Len(cs[i])
    BY <2>1, <2>2, IsASeq
  <2> QED
    BY <2>2, <2>3
<1> HIDE DEF Lit
<1>5. R \in Seq(Seq(Literals(m))) /\ DOMAIN R = DOMAIN cs /\ Len(R) = Len(cs)
  BY <1>1, <1>2, <1>4, IsASeq
<1>6. \A i \in DOMAIN cs : R[i] = [j \in DOMAIN cs[i] |-> Lit(i, j)]
  BY <1>1
<1> HIDE DEF R
<1>7. \A i \in DOMAIN cs : Len(R[i]) = Len(cs[i]) /\ DOMAIN R[i] = DOMAIN cs[i]
  BY <1>4, <1>6
<1>8. \A i \in DOMAIN cs : \A j \in DOMAIN cs[i] : R[i][j] = Lit(i, j)
  BY <1>6
<1>9. \A i \in DOMAIN cs : \A j \in DOMAIN cs[i] : /\ R[i][j] = pnsign(cs[i][j]) * col[Abs(cs[i][j])]
                                                  /\ Abs(R[i][j]) = col[Abs(cs[i][j])]
                                                  /\ pnsign(R[i][j]) = pnsign(cs[i][j])
  BY <1>3, <1>8 DEF Lit
<1> QED
  BY <1>5, <1>7, <1>9 DEF R, Clauses

(* Named otherwise, a clause is satisfied by the assignment of the names. *)
LEMMA RelabelSatisfied ==
  ASSUME NEW n \in Nat, NEW m \in Nat, NEW cs \in Clauses(n), NEW col,
         \A i \in DOMAIN cs : \A v \in VarsOf(cs[i]) : col[v] \in 1 .. m,
         NEW val, NEW sol, NEW i \in DOMAIN cs, \A v \in VarsOf(cs[i]) : sol[col[v]] = val[v]
  PROVE  Satisfies(sol, Relabel(cs, col)[i]) <=> Satisfies(val, cs[i])
<1> DEFINE R == Relabel(cs, col)
           c == cs[i]
           r == R[i]
<1>1. /\ R \in Clauses(m) /\ DOMAIN R = DOMAIN cs
      /\ DOMAIN r = DOMAIN c
      /\ \A j \in DOMAIN c : /\ Abs(r[j]) = col[Abs(c[j])]
                             /\ pnsign(r[j]) = pnsign(c[j])
  BY RelabelIs
<1> HIDE DEF R
<1>2. /\ \A l : l \in ToSet(c) <=> \E j \in DOMAIN c : c[j] = l
      /\ \A l : l \in ToSet(r) <=> \E j \in DOMAIN r : r[j] = l
  BY <1>1, InClauses
<1> HIDE DEF c, r
<1>3. \A j \in DOMAIN c : Value(sol, r[j]) = Value(val, c[j])
  <2> TAKE j \in DOMAIN c
  <2>1. Abs(c[j]) \in VarsOf(c)
    BY <1>2 DEF VarsOf
  <2>2. sol[col[Abs(c[j])]] = val[Abs(c[j])]
    BY <2>1 DEF c
  <2> QED
    BY <1>1, <2>2 DEF Value
<1> QED
  BY <1>1, <1>2, <1>3 DEF Satisfies, c, r, R

(* One to one, the new names keep apart what was apart. *)
Named(cs, col, m) == \A i \in DOMAIN cs : \A v \in VarsOf(cs[i]) : col[v] \in 1 .. m
OneToOne(c, col) == \A v, w \in VarsOf(c) : col[v] = col[w] => v = w
StaysClean(c, r, col) ==
  /\ IsInjective(c) => IsInjective(r)
  /\ ~Tautology(c) => ~Tautology(r)
  /\ \A x : x \in VarsOf(r) <=> \E v \in VarsOf(c) : col[v] = x

LEMMA RelabelClean ==
  ASSUME NEW n \in Nat, NEW m \in Nat, NEW cs \in Clauses(n), NEW col, Named(cs, col, m),
         NEW i \in DOMAIN cs, OneToOne(cs[i], col)
  PROVE  StaysClean(cs[i], Relabel(cs, col)[i], col)
<1> DEFINE R == Relabel(cs, col)
           c == cs[i]
           r == R[i]
<1>1. /\ R \in Clauses(m) /\ DOMAIN R = DOMAIN cs
      /\ DOMAIN r = DOMAIN c
      /\ \A j \in DOMAIN c : /\ Abs(r[j]) = col[Abs(c[j])]
                             /\ pnsign(r[j]) = pnsign(c[j])
  BY RelabelIs DEF Named
<1> HIDE DEF R
<1>2. /\ \A l : l \in ToSet(c) <=> \E j \in DOMAIN c : c[j] = l
      /\ \A l : l \in ToSet(r) <=> \E j \in DOMAIN r : r[j] = l
      /\ \A j \in DOMAIN c : c[j] \in Literals(n)
      /\ \A j \in DOMAIN c : r[j] \in Literals(m)
  BY <1>1, InClauses
<1>3. \A v, w \in VarsOf(c) : col[v] = col[w] => v = w
  BY DEF OneToOne
<1> HIDE DEF c, r
<1>4. \A j \in DOMAIN c : Abs(c[j]) \in VarsOf(c)
  BY <1>2 DEF VarsOf
<1>5. \A j, k \in DOMAIN c : Abs(r[j]) = Abs(r[k]) => Abs(c[j]) = Abs(c[k])
  BY <1>1, <1>3, <1>4
<1>6. \A j, k \in DOMAIN c : r[j] = r[k] => c[j] = c[k]
  <2> TAKE j, k \in DOMAIN c
  <2> HAVE r[j] = r[k]
  <2>1. Abs(c[j]) = Abs(c[k]) /\ pnsign(c[j]) = pnsign(c[k])
    BY <1>1, <1>5
  <2>2. c[j] = pnsign(c[j]) * Abs(c[j]) /\ c[k] = pnsign(c[k]) * Abs(c[k])
    BY <1>2, LiteralFacts
  <2> QED
    BY <2>1, <2>2
<1>7. \A j, k \in DOMAIN c : r[j] = -r[k] => c[j] = -c[k]
  <2> TAKE j, k \in DOMAIN c
  <2> HAVE r[j] = -r[k]
  <2>1. Abs(r[j]) = Abs(r[k]) /\ pnsign(r[j]) = -pnsign(r[k])
    BY <1>2, LiteralFacts
  <2>2. Abs(c[j]) = Abs(c[k]) /\ pnsign(c[j]) = -pnsign(c[k])
    BY <1>1, <1>5, <2>1
  <2>3. /\ c[j] = pnsign(c[j]) * Abs(c[j]) /\ c[k] = pnsign(c[k]) * Abs(c[k])
        /\ pnsign(c[k]) \in {-1, 1} /\ Abs(c[k]) \in Int
    BY <1>2, LiteralFacts
  <2> QED
    BY <2>2, <2>3
<1>8. IsInjective(c) => IsInjective(r)
  BY <1>1, <1>6 DEF IsInjective
<1>9. ~Tautology(c) => ~Tautology(r)
  <2> SUFFICES ASSUME Tautology(r)
               PROVE  Tautology(c)
    OBVIOUS
  <2>1. PICK l \in ToSet(r) : -l \in ToSet(r)
    BY DEF Tautology
  <2>2. PICK k \in DOMAIN c, j \in DOMAIN c : r[k] = l /\ r[j] = -l
    BY <1>1, <1>2, <2>1
  <2>3. c[j] = -c[k] /\ c[k] \in ToSet(c) /\ c[j] \in ToSet(c)
    BY <1>2, <1>7, <2>2
  <2> QED
    BY <2>3 DEF Tautology
<1>10. ASSUME NEW x
       PROVE  x \in VarsOf(r) <=> \E v \in VarsOf(c) : col[v] = x
  <2>1. x \in VarsOf(r) <=> \E j \in DOMAIN c : Abs(r[j]) = x
    BY <1>1, <1>2 DEF VarsOf
  <2>2. \A v : v \in VarsOf(c) <=> \E j \in DOMAIN c : Abs(c[j]) = v
    BY <1>2 DEF VarsOf
  <2> QED
    BY <1>1, <2>1, <2>2
<1> QED
  BY <1>8, <1>9, <1>10 DEF c, r, R, StaysClean

(* update_var_clause_label: the clauses with their variables renumbered.    *)
(* Every new number is in use; what a clause says is what it said before.   *)
Renumbered(cs, n) == Relabel(cs, Color(cs, 1 .. n))

LEMMA ColorOfMentioned ==
  ASSUME NEW n \in Nat, NEW cs \in Clauses(n)
  PROVE  \A v \in 1 .. n : Color(cs, 1 .. n)[v] # 0 <=> \E i \in DOMAIN cs : v \in VarsOf(cs[i])
<1>1. \A v : v \in ToSet(Order(cs)) <=> \E i \in DOMAIN cs : v \in VarsOf(cs[i])
  BY OrderIs DEF Clauses
<1>2. \A v \in 1 .. n : Color(cs, 1 .. n)[v] # 0 <=> v \in ToSet(Order(cs))
  BY ColorIs DEF Clauses
<1> QED
  BY <1>1, <1>2

(* Renumbering keeps the clauses' shape and uses every new number. *)
LEMMA RenumberedIs ==
  ASSUME NEW n \in Nat, NEW cs \in Clauses(n)
  PROVE  LET R == Renumbered(cs, n)
             m == Len(Order(cs))
         IN  /\ m \in 0 .. n /\ R \in Clauses(m) /\ DOMAIN R = DOMAIN cs
             /\ \A i \in DOMAIN cs : /\ Len(R[i]) = Len(cs[i])
                                     /\ IsInjective(cs[i]) => IsInjective(R[i])
                                     /\ ~Tautology(cs[i]) => ~Tautology(R[i])
             /\ \A x \in 1 .. m : \E i \in DOMAIN R : x \in VarsOf(R[i])
             /\ \A i \in DOMAIN cs : \A v \in VarsOf(cs[i]) : Color(cs, 1 .. n)[v] \in 1 .. m
<1> DEFINE col == Color(cs, 1 .. n)
           R == Renumbered(cs, n)
           m == Len(Order(cs))
<1>1. /\ m \in 0 .. n /\ m \in Nat
      /\ col \in [1 .. n -> 0 .. m]
      /\ \A v \in 1 .. n : col[v] # 0 => col[v] \in 1 .. m /\ Order(cs)[col[v]] = v
      /\ \A k \in 1 .. m : Order(cs)[k] \in 1 .. n /\ col[Order(cs)[k]] = k
  BY ColorIs DEF Clauses
<1>2. \A v \in 1 .. n : col[v] # 0 <=> \E i \in DOMAIN cs : v \in VarsOf(cs[i])
  BY ColorOfMentioned
<1>3. \A i \in DOMAIN cs : VarsOf(cs[i]) \subseteq 1 .. n
  BY InClauses
<1> HIDE DEF col, m
<1>4. \A i \in DOMAIN cs : \A v \in VarsOf(cs[i]) : col[v] \in 1 .. m
  BY <1>1, <1>2, <1>3
<1>5. R = Relabel(cs, col)
  BY DEF Renumbered, col
<1> HIDE DEF R
<1>6. \A v, w \in 1 .. n : col[v] # 0 /\ col[w] # 0 /\ col[v] = col[w] => v = w
  BY <1>1
<1>7. \A i \in DOMAIN cs : \A v, w \in VarsOf(cs[i]) : col[v] = col[w] => v = w
  BY <1>2, <1>3, <1>6
<1>8. R \in Clauses(m) /\ DOMAIN R = DOMAIN cs /\ \A i \in DOMAIN cs : Len(R[i]) = Len(cs[i])
  BY <1>1, <1>4, <1>5, RelabelIs
<1>9. ASSUME NEW i \in DOMAIN cs
      PROVE  /\ IsInjective(cs[i]) => IsInjective(R[i])
             /\ ~Tautology(cs[i]) => ~Tautology(R[i])
             /\ \A x : x \in VarsOf(R[i]) <=> \E v \in VarsOf(cs[i]) : col[v] = x
  <2>1. OneToOne(cs[i], col) /\ Named(cs, col, m) /\ m \in Nat
    BY <1>1, <1>4, <1>7 DEF OneToOne, Named
  <2>2. StaysClean(cs[i], R[i], col)
    BY <1>5, <2>1, RelabelClean
  <2> QED
    BY <2>2 DEF StaysClean
<1>10. ASSUME NEW x \in 1 .. m
       PROVE  \E i \in DOMAIN R : x \in VarsOf(R[i])
  <2>1. PICK v \in 1 .. n : col[v] = x /\ x # 0
    BY <1>1
  <2>2. PICK i \in DOMAIN cs : v \in VarsOf(cs[i])
    BY <1>2, <2>1
  <2> QED
    BY <1>8, <1>9, <2>1, <2>2
<1> QED
  BY <1>1, <1>4, <1>8, <1>9, <1>10 DEF R, m, col

(* An assignment satisfies a clause iff the renumbered assignment satisfies the renumbered *)
(* clause. *)
LEMMA RenumberedSatisfied ==
  ASSUME NEW n \in Nat, NEW cs \in Clauses(n), NEW val, NEW sol,
         \A v \in 1 .. n : Color(cs, 1 .. n)[v] # 0 => sol[Color(cs, 1 .. n)[v]] = val[v]
  PROVE  \A i \in DOMAIN cs : Satisfies(sol, Renumbered(cs, n)[i]) <=> Satisfies(val, cs[i])
<1> DEFINE col == Color(cs, 1 .. n)
           m == Len(Order(cs))
<1>1. m \in Nat /\ \A i \in DOMAIN cs : \A v \in VarsOf(cs[i]) : col[v] \in 1 .. m
  BY RenumberedIs
<1>2. \A i \in DOMAIN cs : VarsOf(cs[i]) \subseteq 1 .. n
  BY InClauses
<1>3. \A v \in 1 .. n : col[v] # 0 => sol[col[v]] = val[v]
  OBVIOUS
<1> HIDE DEF col, m
<1>4. \A i \in DOMAIN cs : \A v \in VarsOf(cs[i]) : sol[col[v]] = val[v]
  <2> TAKE i \in DOMAIN cs
  <2> TAKE v \in VarsOf(cs[i])
  <2>1. v \in 1 .. n /\ col[v] \in 1 .. m
    BY <1>1, <1>2
  <2>2. col[v] # 0
    BY <1>1, <2>1
  <2> QED
    BY <1>3, <2>1, <2>2
<1>5. \A i \in DOMAIN cs : Satisfies(sol, Relabel(cs, col)[i]) <=> Satisfies(val, cs[i])
  BY <1>1, <1>4, RelabelSatisfied
<1> QED
  BY <1>5 DEF Renumbered, col

(* A model of the renumbered clauses, read in the old numbers. *)
LEMMA RenumberedBack ==
  ASSUME NEW n \in Nat, NEW cs \in Clauses(n), NEW val \in [1 .. n -> {-1, 1}]
  PROVE  LET sol == [k \in 1 .. Len(Order(cs)) |-> val[Order(cs)[k]]]
         IN  /\ sol \in [1 .. Len(Order(cs)) -> {-1, 1}]
             /\ \A v \in 1 .. n : Color(cs, 1 .. n)[v] # 0 => sol[Color(cs, 1 .. n)[v]] = val[v]
<1> DEFINE o == Order(cs)
           col == Color(cs, 1 .. n)
           m == Len(o)
<1>1. /\ m \in Nat
      /\ \A v \in 1 .. n : col[v] # 0 => col[v] \in 1 .. m /\ o[col[v]] = v
      /\ \A k \in 1 .. m : o[k] \in 1 .. n /\ col[o[k]] = k
  BY ColorIs DEF Clauses
<1> HIDE DEF o, col, m
<1> DEFINE sol == [k \in 1 .. m |-> val[o[k]]]
<1>2. sol \in [1 .. m -> {-1, 1}]
  BY <1>1
<1>3. \A v \in 1 .. n : col[v] # 0 => sol[col[v]] = val[v]
  BY <1>1
<1> QED
  BY <1>2, <1>3 DEF o, col, m

(* One list after the other. *)
LEMMA ConcatIs ==
  ASSUME NEW X, NEW s \in Seq(X), NEW t \in Seq(X)
  PROVE  /\ s \o t \in Seq(X) /\ Len(s \o t) = Len(s) + Len(t) /\ DOMAIN (s \o t) = 1 .. Len(s) + Len(t)
         /\ \A i \in 1 .. Len(s) : (s \o t)[i] = s[i]
         /\ \A i \in 1 .. Len(t) : (s \o t)[Len(s) + i] = t[i]
         /\ \A i \in 1 .. Len(s) + Len(t) : i \in 1 .. Len(s) \/ \E j \in 1 .. Len(t) : i = Len(s) + j
<1>1. s \o t \in Seq(X) /\ Len(s \o t) = Len(s) + Len(t) /\ Len(s) \in Nat /\ Len(t) \in Nat
  BY InSeq
<1>2. DOMAIN (s \o t) = 1 .. Len(s) + Len(t)
  BY <1>1, InSeq
<1>3. \A i \in 1 .. Len(s) : (s \o t)[i] = s[i]
  BY <1>1
<1>4. \A i \in 1 .. Len(t) : (s \o t)[Len(s) + i] = t[i]
  BY <1>1
<1>5. ASSUME NEW i \in 1 .. Len(s) + Len(t), i \notin 1 .. Len(s)
      PROVE  \E j \in 1 .. Len(t) : i = Len(s) + j
  <2>1. i - Len(s) \in 1 .. Len(t) /\ i = Len(s) + (i - Len(s))
    BY <1>1, <1>5
  <2> QED
    BY <2>1
<1> QED
  BY <1>1, <1>2, <1>3, <1>4, <1>5

-------------------------------------------------------------------------------
(* Assignments that give every variable a value. *)
Total(n) == [1 .. n -> {-1, 1}]
All(val, cs) == \A i \in DOMAIN cs : Satisfies(val, cs[i])
Says(key, val) == \E l \in key : Value(val, l) = 1

LEMMA TotalValue ==
  ASSUME NEW n \in Nat, NEW val \in Total(n), NEW l \in Literals(n)
  PROVE  /\ Value(val, l) \in {-1, 1} /\ Value(val, -l) = -Value(val, l) /\ val[Abs(l)] \in {-1, 1}
         /\ Value(val, l) = 1 <=> val[Abs(l)] = pnsign(l)
         /\ Value(val, l) # 1 <=> Value(val, -l) = 1
<1>1. Abs(l) \in 1 .. n
  BY LiteralFacts
<1>2. val[Abs(l)] \in {-1, 1}
  BY <1>1 DEF Total
<1> QED
  BY <1>2, ValueFacts

-------------------------------------------------------------------------------
(* preprocess_card.  The at-most-one constraints that are found hold in     *)
(* every model, and so does every row of the elimination.                   *)
\* Of two places in the list at most, or at least, one has a true literal.
AtMost(val, c) == \A i, j \in DOMAIN c : i # j => Value(val, c[i]) # 1 \/ Value(val, c[j]) # 1
AnyTwo(val, c) == \A i, j \in DOMAIN c : i # j => Value(val, c[i]) = 1 \/ Value(val, c[j]) = 1
Cards(n, val)   == {c \in Seq(Literals(n)) : AtMost(val, c)}
Cliques(n, val) == {c \in Seq(Literals(n)) : AnyTwo(val, c)}
Pairs2(n, val)   == {p \in SUBSET Literals(n) : Says(p, val)}

\* A part of a list has its entries from different places.
Places(r, s, S) == \E f \in [DOMAIN r -> DOMAIN s] :
                     /\ \A i \in DOMAIN r : f[i] \in S /\ r[i] = s[f[i]]
                     /\ \A i, j \in DOMAIN r : f[i] = f[j] => i = j

LEMMA PickPlaces ==
  ASSUME NEW X, NEW s \in Seq(X), NEW S
  PROVE  Places(Pick(s, S), s, S)
<1>1. PICK a : PickTurns(a, X, s, S)
  BY PickLoop
<1> DEFINE M == Len(s)
           P == {k \in 0 .. M : Places(a[k], s, S \cap (1 .. k))}
<1>2. /\ M \in Nat /\ DOMAIN s = 1 .. M /\ Pick(s, S) = a[M] /\ a[0] = <<>>
      /\ \A i \in DOMAIN s : s[i] \in X
      /\ \A k \in 0 .. M : a[k] \in Seq(X)
      /\ \A k \in 1 .. M : a[k] = IF k \in S THEN Append(a[k - 1], s[k]) ELSE a[k - 1]
  BY <1>1, InSeq DEF PickTurns
<1> HIDE DEF M
<1>3. 0 \in P
  <2>1. DOMAIN a[0] = {}
    BY <1>2
  <2>2. Places(a[0], s, S \cap (1 .. 0))
    <3> DEFINE f == [i \in {} |-> 0]
    <3>1. f \in [DOMAIN a[0] -> DOMAIN s]
      BY <2>1
    <3> HIDE DEF f
    <3> QED
      BY <2>1, <3>1 DEF Places
  <2> QED
    BY <1>2, <2>2
<1>4. ASSUME NEW k \in 0 .. M, k < M, k \in P
      PROVE  k + 1 \in P
  <2>1. k + 1 \in 1 .. M /\ (k + 1) - 1 = k /\ k + 1 \in 0 .. M /\ \A i \in 1 .. k : i \in 1 .. k + 1
    BY <1>2, <1>4
  <2>2. a[k + 1] = (IF k + 1 \in S THEN Append(a[k], s[k + 1]) ELSE a[k]) /\ a[k] \in Seq(X) /\ s[k + 1] \in X
    BY <1>2, <2>1
  <2>3. PICK f \in [DOMAIN a[k] -> DOMAIN s] :
          /\ \A i \in DOMAIN a[k] : f[i] \in S \cap (1 .. k) /\ a[k][i] = s[f[i]]
          /\ \A i, j \in DOMAIN a[k] : f[i] = f[j] => i = j
    BY <1>4 DEF Places
  <2>4. CASE k + 1 \notin S
    <3>1. a[k + 1] = a[k]
      BY <2>2, <2>4
    <3>2. Places(a[k + 1], s, S \cap (1 .. k + 1))
      BY <2>1, <2>3, <3>1 DEF Places
    <3> QED
      BY <2>1, <3>2
  <2>5. CASE k + 1 \in S
    <3> DEFINE m == Len(a[k])
               t == a[k + 1]
               g == [i \in 1 .. m + 1 |-> IF i = m + 1 THEN k + 1 ELSE f[i]]
    <3>1. /\ m \in Nat /\ DOMAIN a[k] = 1 .. m /\ DOMAIN t = 1 .. m + 1 /\ t[m + 1] = s[k + 1]
          /\ \A i \in 1 .. m : t[i] = a[k][i]
      <4>1. t = Append(a[k], s[k + 1])
        BY <2>2, <2>5
      <4>2. t \in Seq(X) /\ Len(t) = m + 1 /\ t[m + 1] = s[k + 1] /\ \A i \in 1 .. m : t[i] = a[k][i]
        BY <2>2, <4>1, AppendProperties
      <4> QED
        BY <2>2, <4>2, InSeq
    <3> HIDE DEF m, t
    <3>2. \A i \in 1 .. m + 1 : i = m + 1 \/ i \in 1 .. m
      BY <3>1
    <3>3. m + 1 \in 1 .. m + 1 /\ \A i \in 1 .. m : i # m + 1 /\ f[i] # k + 1 /\ f[i] \in S \cap (1 .. k + 1)
      <4>1. ASSUME NEW i \in 1 .. m
            PROVE  i # m + 1 /\ f[i] # k + 1 /\ f[i] \in S \cap (1 .. k + 1)
        <5>1. f[i] \in S /\ f[i] \in 1 .. k
          BY <2>3, <3>1
        <5> QED
          BY <3>1, <5>1
      <4> QED
        BY <3>1, <4>1
    <3>4. \A i \in 1 .. m + 1 : g[i] = IF i = m + 1 THEN k + 1 ELSE f[i]
      OBVIOUS
    <3>5. g \in [DOMAIN t -> DOMAIN s]
      <4>1. \A i \in 1 .. m + 1 : (IF i = m + 1 THEN k + 1 ELSE f[i]) \in DOMAIN s
        BY <1>2, <2>1, <2>3, <3>1, <3>2
      <4> QED
        BY <3>1, <4>1
    <3> HIDE DEF g
    <3>6. \A i \in DOMAIN t : g[i] \in S \cap (1 .. k + 1) /\ t[i] = s[g[i]]
      <4>1. k + 1 \in S \cap (1 .. k + 1)
        BY <2>1, <2>5
      <4> QED
        BY <2>3, <3>1, <3>2, <3>3, <3>4, <4>1
    <3>7. \A i, j \in DOMAIN t : g[i] = g[j] => i = j
      BY <2>3, <3>1, <3>2, <3>3, <3>4
    <3>8. Places(t, s, S \cap (1 .. k + 1))
      BY <3>5, <3>6, <3>7 DEF Places
    <3> QED
      BY <2>1, <3>8 DEF t
  <2> QED
    BY <2>4, <2>5
<1>5. M \in P
  <2> HIDE DEF P
  <2>1. \A k \in 0 .. M : k \in P
    BY <1>2, <1>3, <1>4, Counting
  <2> QED
    BY <1>2, <2>1
<1>6. Places(Pick(s, S), s, S \cap (1 .. M))
  BY <1>2, <1>5
<1>7. S \cap (1 .. M) \subseteq S
  OBVIOUS
<1> QED
  BY <1>6, <1>7 DEF Places

(* A part of an at-most-one constraint is one. *)
LEMMA PickCard ==
  ASSUME NEW n \in Nat, NEW val, NEW c \in Cards(n, val), NEW S
  PROVE  Pick(c, S) \in Cards(n, val)
<1> DEFINE r == Pick(c, S)
<1>1. c \in Seq(Literals(n)) /\ AtMost(val, c)
  BY DEF Cards
<1>2. r \in Seq(Literals(n)) /\ Places(r, c, S)
  BY <1>1, PickIs, PickPlaces
<1> HIDE DEF r
<1>3. AtMost(val, r)
  BY <1>1, <1>2 DEF AtMost, Places
<1> QED
  BY <1>2, <1>3 DEF Cards, r

(* A clique as it grows: any two of its literals are in a clause of the pairs. *)
CliqueTurns(a, n, val, pairs, i, nei) ==
  /\ Clique(pairs, i, nei) = a[Len(nei)] /\ a[0] = <<i>>
  /\ \A k \in 0 .. Len(nei) : a[k] \in Cliques(n, val)
  /\ \A k \in 1 .. Len(nei) : a[k] = IF \A u \in ToSet(a[k - 1]) : {u, nei[k]} \in pairs THEN Append(a[k - 1], nei[k]) ELSE a[k - 1]

LEMMA CliqueLoop ==
  ASSUME NEW n \in Nat, NEW val, NEW pairs, \A p \in pairs : Says(p, val), NEW i \in Literals(n), NEW nei \in Seq(Literals(n))
  PROVE  \E a : CliqueTurns(a, n, val, pairs, i, nei)
<1> DEFINE M == Len(nei)
           V == Cliques(n, val)
           v == <<i>>
           Turn(x, k) == IF \A u \in ToSet(x) : {u, nei[k]} \in pairs THEN Append(x, nei[k]) ELSE x
           Loop(g) == [k \in 0 .. M |-> IF k = 0 THEN v ELSE Turn(g[k - 1], k)]
           a == CHOOSE g : g = Loop(g)
<1>1. Clique(pairs, i, nei) = a[M]
  BY DEF Clique, Looped
<1>2. M \in Nat
  BY InSeq
<1>3. v \in V /\ \A x \in V : \A k \in 1 .. M : Turn(x, k) \in V
  <2>1. <<i>> \in Cliques(n, val)
    BY DEF Cliques, AnyTwo
  <2>2. ASSUME NEW x \in Cliques(n, val), NEW k \in 1 .. Len(nei), \A u \in ToSet(x) : {u, nei[k]} \in pairs
        PROVE  Append(x, nei[k]) \in Cliques(n, val)
    <3> DEFINE l == nei[k]
               t == Append(x, l)
    <3>1. x \in Seq(Literals(n)) /\ AnyTwo(val, x) /\ l \in Literals(n)
      BY InSeq DEF Cliques
    <3>2. \A u \in ToSet(x) : Value(val, u) = 1 \/ Value(val, l) = 1
      BY <2>2 DEF Says
    <3> HIDE DEF l
    <3>3. /\ t \in Seq(Literals(n)) /\ Len(t) = Len(x) + 1 /\ t[Len(x) + 1] = l
          /\ \A j \in 1 .. Len(x) : t[j] = x[j]
      BY <3>1, AppendProperties
    <3>4. Len(x) \in Nat /\ DOMAIN x = 1 .. Len(x) /\ DOMAIN t = 1 .. Len(x) + 1 /\ \A j \in DOMAIN x : x[j] \in ToSet(x)
      BY <3>1, <3>3, InSeq
    <3> DEFINE m == Len(x)
    <3> HIDE DEF t, m
    <3>5. \A j \in 1 .. m + 1 : j = m + 1 \/ j \in 1 .. m
      BY <3>4 DEF m
    <3>6. AnyTwo(val, t)
      BY <3>1, <3>2, <3>3, <3>4, <3>5 DEF AnyTwo, m
    <3> QED
      BY <3>3, <3>6 DEF Cliques, t, l
  <2> QED
    BY <2>1, <2>2
<1>4. a[0] = v /\ (\A k \in 0 .. M : a[k] \in V) /\ (\A k \in 1 .. M : a[k] = Turn(a[k - 1], k))
  <2> DEFINE step == [kx \in (1 .. M) \X V |-> Turn(kx[2], kx[1])]
  <2>1. \A kx \in (1 .. M) \X V : Turn(kx[2], kx[1]) \in V
    <3> HIDE DEF Turn, M, V
    <3> QED
      BY <1>3
  <2>2. IsStep(M, V, step) /\ \A k \in 1 .. M : \A x \in V : step[<<k, x>>] = Turn(x, k)
    <3> HIDE DEF Turn, M, V
    <3> QED
      BY <2>1 DEF IsStep
  <2> HIDE DEF step, M, V, v, Turn
  <2>3. PICK f \in [0 .. M -> V] : f[0] = v /\ \A k \in 1 .. M : f[k] = step[<<k, f[k - 1]>>]
    <3>1. IsDefined(M, V, v, step)
      BY <1>2, <1>3, <2>2, Recursion
    <3> QED
      BY <3>1 DEF IsDefined
  <2>4. \A k \in 1 .. M : f[k] = Turn(f[k - 1], k)
    <3>1. \A k \in 1 .. M : k - 1 \in 0 .. M
      BY <1>2
    <3> QED
      BY <2>2, <2>3, <3>1
  <2>5. f = Loop(f)
    BY <1>2, <2>3, <2>4
  <2>6. a = Loop(a)
    BY <2>5
  <2> HIDE DEF a
  <2>7. a[0] = v /\ \A k \in 1 .. M : a[k] = Turn(a[k - 1], k)
    BY <1>2, <2>6
  <2> DEFINE P == {k \in 0 .. M : a[k] \in V}
  <2>8. 0 \in P
    BY <1>2, <1>3, <2>7
  <2>9. ASSUME NEW j \in 0 .. M, j < M, j \in P
        PROVE  j + 1 \in P
    <3>1. j + 1 \in 1 .. M /\ j + 1 \in 0 .. M /\ (j + 1) - 1 = j /\ a[j] \in V
      BY <1>2, <2>9
    <3> QED
      BY <1>3, <2>7, <3>1
  <2> HIDE DEF P
  <2>10. \A j \in 0 .. M : j \in P
    BY <1>2, <2>8, <2>9, Counting
  <2> QED
    BY <2>7, <2>10 DEF P
<1>5. CliqueTurns(a, n, val, pairs, i, nei)
  <2> HIDE DEF a
  <2> QED
    BY <1>1, <1>4 DEF CliqueTurns
<1> QED
  BY <1>5

(* Clique only gathers literals of which no two are false together. *)
LEMMA CliqueIs ==
  ASSUME NEW n \in Nat, NEW val, NEW pairs, \A p \in pairs : Says(p, val),
         NEW i \in Literals(n), NEW nei \in Seq(Literals(n))
  PROVE  Clique(pairs, i, nei) \in Cliques(n, val)
<1>1. PICK a : CliqueTurns(a, n, val, pairs, i, nei)
  BY CliqueLoop
<1>2. Len(nei) \in 0 .. Len(nei)
  BY InSeq
<1> QED
  BY <1>1, <1>2 DEF CliqueTurns

\* Of the negations of a clique at most one is true.
LEMMA NegatedClique ==
  ASSUME NEW n \in Nat, NEW val \in Total(n), NEW c \in Cliques(n, val)
  PROVE  Mapped(LAMBDA x : -x, c) \in Cards(n, val)
<1> DEFINE e(i) == -c[i]
           M == Len(c)
           r == [i \in 1 .. M |-> e(i)]
<1>1. c \in Seq(Literals(n)) /\ AnyTwo(val, c) /\ M \in Nat /\ DOMAIN c = 1 .. M /\ \A i \in DOMAIN c : c[i] \in Literals(n)
  BY InSeq DEF Cliques
<1>2. Mapped(LAMBDA x : -x, c) = r
  BY <1>1 DEF Mapped
<1>3. \A i \in 1 .. M : e(i) \in Literals(n) /\ Value(val, e(i)) = -Value(val, c[i])
  BY <1>1, LiteralFacts, TotalValue
<1>4. \A i \in 1 .. M : r[i] = e(i)
  OBVIOUS
<1>5. DOMAIN r = 1 .. M
  OBVIOUS
<1>6. r \in Seq(Literals(n))
  <2> HIDE DEF e, M
  <2> QED
    BY <1>1, <1>3, IsASeq
<1> HIDE DEF e, M, r
<1>7. AtMost(val, r)
  BY <1>1, <1>3, <1>4, <1>5 DEF AtMost, AnyTwo
<1> QED
  BY <1>2, <1>6, <1>7 DEF Cards

(* search_almost_one: pairs are two-literal clauses of the formula, one the *)
(* constraints so far.                                                      *)
Found2(n, val) == [pairs : SUBSET Pairs2(n, val), one : Seq(Cards(n, val))]

LEMMA OneMoreIs ==
  ASSUME NEW n \in Nat, NEW val \in Total(n), NEW st \in Found2(n, val),
         NEW i \in Literals(n), NEW nei \in Seq(Literals(n))
  PROVE  OneMore(st, i, nei) \in Found2(n, val)
<1> DEFINE ino == Clique(st.pairs, i, nei)
           neg == Mapped(LAMBDA x : -x, ino)
<1>1. st.pairs \in SUBSET Pairs2(n, val) /\ st.one \in Seq(Cards(n, val))
  BY DEF Found2
<1>2. \A p \in st.pairs : Says(p, val)
  BY <1>1 DEF Pairs2
<1>3. ino \in Cliques(n, val)
  BY <1>2, CliqueIs
<1>4. neg \in Cards(n, val)
  <2> HIDE DEF ino
  <2> QED
    BY <1>3, NegatedClique
<1>5. OneMore(st, i, nei) = IF Len(ino) = 1 THEN st
                            ELSE [st EXCEPT !.pairs = @ \ PairsOf(ino), !.one = Append(@, neg)]
  BY DEF OneMore
<1> HIDE DEF ino, neg
<1>6. Append(st.one, neg) \in Seq(Cards(n, val))
  <2> DEFINE X == Cards(n, val)
  <2>1. st.one \in Seq(X) /\ neg \in X
    BY <1>1, <1>4
  <2> HIDE DEF X
  <2>2. Append(st.one, neg) \in Seq(X)
    BY <2>1, AppendProperties
  <2> QED
    BY <2>2 DEF X
<1>7. st.pairs \ PairsOf(ino) \in SUBSET Pairs2(n, val)
  BY <1>1
<1> QED
  BY <1>5, <1>6, <1>7 DEF Found2

(* The partners of a literal are literals. *)
LEMMA PartnersIs ==
  ASSUME NEW n \in Nat, NEW two \in Clauses(n), \A k \in DOMAIN two : Len(two[k]) = 2, NEW l, NEW done
  PROVE  Partners(two, l, done) \in Seq(Literals(n))
<1> DEFINE S == {k \in DOMAIN two : l \in ToSet(two[k])}
           mine == Pick(two, S)
           e(k) == IF mine[k][1] = l THEN mine[k][2] ELSE mine[k][1]
           others == [k \in 1 .. Len(mine) |-> e(k)]
<1>1. mine \in Clauses(n) /\ \A x : x \in ToSet(mine) <=> \E k \in DOMAIN two : k \in S /\ two[k] = x
  <2> HIDE DEF S
  <2> QED
    BY PickIs DEF Clauses
<1>2. Kept(two, LAMBDA c : l \in ToSet(c)) = mine
  BY DEF Kept
<1> HIDE DEF mine, S
<1>3. Len(mine) \in Nat /\ DOMAIN mine = 1 .. Len(mine) /\ \A k \in DOMAIN mine : mine[k] \in ToSet(mine)
  BY <1>1, InSeq DEF Clauses
<1>4. \A k \in 1 .. Len(mine) : e(k) \in Literals(n)
  <2> TAKE k \in 1 .. Len(mine)
  <2>1. PICK j \in DOMAIN two : two[j] = mine[k]
    BY <1>1, <1>3
  <2>2. DOMAIN two[j] = 1 .. 2 /\ \A p \in DOMAIN two[j] : two[j][p] \in Literals(n)
    <3>1. Len(two[j]) = 2
      OBVIOUS
    <3> QED
      BY <3>1, InClauses
  <2>3. mine[k][1] \in Literals(n) /\ mine[k][2] \in Literals(n)
    BY <2>1, <2>2
  <2> QED
    BY <2>3
<1>5. Mapped(LAMBDA c : IF c[1] = l THEN c[2] ELSE c[1], mine) = others
  BY <1>3 DEF Mapped
<1> DEFINE X == Literals(n)
           W == {k \in DOMAIN others : others[k] \notin done}
<1>6. Partners(two, l, done) = Pick(others, W)
  BY <1>2, <1>5 DEF Partners, Kept
<1>7. others \in Seq(X)
  <2> HIDE DEF e, X
  <2>1. \A k \in 1 .. Len(mine) : e(k) \in X
    BY <1>4 DEF X
  <2> QED
    BY <1>3, <2>1, IsASeq
<1> HIDE DEF others, W
<1>8. Pick(others, W) \in Seq(X)
  <2> HIDE DEF X
  <2> QED
    BY <1>7, PickIs
<1> QED
  BY <1>6, <1>8

(* The k-th literal in the order of the scan is a literal. *)
LEMMA LiteralIs ==
  ASSUME NEW n \in Nat, NEW k \in 1 .. 2 * n
  PROVE  Literal(k) \in Literals(n)
<1>1. k \in Int /\ k % 2 \in 0 .. 1 /\ k = 2 * (k \div 2) + (k % 2) /\ k \div 2 \in Int
  OBVIOUS
<1>2. CASE k % 2 = 1
  <2>1. (k + 1) \div 2 = k \div 2 + 1
    BY <1>1, <1>2
  <2>2. (k + 1) \div 2 \in 1 .. n
    BY <1>1, <1>2, <2>1
  <2> QED
    BY <1>2, <2>2 DEF Literal, Literals
<1>3. CASE k % 2 = 0
  <2>1. k \div 2 \in 1 .. n
    BY <1>1, <1>3
  <2> QED
    BY <1>3, <2>1 DEF Literal, Literals
<1> QED
  BY <1>1, <1>2, <1>3

(* The cliques with literal i. *)
CliquesTurns(a, n, val, st, i, nei) ==
  /\ Looped(LAMBDA t, turn : OneMore(t, i, nei), st, Len(nei)) = a[Len(nei)] /\ a[0] = st
  /\ \A k \in 0 .. Len(nei) : a[k] \in Found2(n, val)
  /\ \A k \in 1 .. Len(nei) : a[k] = OneMore(a[k - 1], i, nei)

LEMMA CliquesLoop ==
  ASSUME NEW n \in Nat, NEW val \in Total(n), NEW st \in Found2(n, val), NEW i \in Literals(n), NEW nei \in Seq(Literals(n))
  PROVE  \E a : CliquesTurns(a, n, val, st, i, nei)
<1> DEFINE M == Len(nei)
           V == Found2(n, val)
           v == st
           Turn(x, k) == OneMore(x, i, nei)
           Loop(g) == [k \in 0 .. M |-> IF k = 0 THEN v ELSE Turn(g[k - 1], k)]
           a == CHOOSE g : g = Loop(g)
<1>1. Looped(LAMBDA t, turn : OneMore(t, i, nei), st, Len(nei)) = a[M]
  BY DEF Looped
<1>2. M \in Nat
  BY InSeq
<1>3. v \in V /\ \A x \in V : \A k \in 1 .. M : Turn(x, k) \in V
  BY OneMoreIs
<1>4. a[0] = v /\ (\A k \in 0 .. M : a[k] \in V) /\ (\A k \in 1 .. M : a[k] = Turn(a[k - 1], k))
  <2> DEFINE step == [kx \in (1 .. M) \X V |-> Turn(kx[2], kx[1])]
  <2>1. \A kx \in (1 .. M) \X V : Turn(kx[2], kx[1]) \in V
    <3> HIDE DEF Turn, M, V
    <3> QED
      BY <1>3
  <2>2. IsStep(M, V, step) /\ \A k \in 1 .. M : \A x \in V : step[<<k, x>>] = Turn(x, k)
    <3> HIDE DEF Turn, M, V
    <3> QED
      BY <2>1 DEF IsStep
  <2> HIDE DEF step, M, V, v, Turn
  <2>3. PICK f \in [0 .. M -> V] : f[0] = v /\ \A k \in 1 .. M : f[k] = step[<<k, f[k - 1]>>]
    <3>1. IsDefined(M, V, v, step)
      BY <1>2, <1>3, <2>2, Recursion
    <3> QED
      BY <3>1 DEF IsDefined
  <2>4. \A k \in 1 .. M : f[k] = Turn(f[k - 1], k)
    <3>1. \A k \in 1 .. M : k - 1 \in 0 .. M
      BY <1>2
    <3> QED
      BY <2>2, <2>3, <3>1
  <2>5. f = Loop(f)
    BY <1>2, <2>3, <2>4
  <2>6. a = Loop(a)
    BY <2>5
  <2> HIDE DEF a
  <2>7. a[0] = v /\ \A k \in 1 .. M : a[k] = Turn(a[k - 1], k)
    BY <1>2, <2>6
  <2> DEFINE P == {k \in 0 .. M : a[k] \in V}
  <2>8. 0 \in P
    BY <1>2, <1>3, <2>7
  <2>9. ASSUME NEW j \in 0 .. M, j < M, j \in P
        PROVE  j + 1 \in P
    <3>1. j + 1 \in 1 .. M /\ j + 1 \in 0 .. M /\ (j + 1) - 1 = j /\ a[j] \in V
      BY <1>2, <2>9
    <3> QED
      BY <1>3, <2>7, <3>1
  <2> HIDE DEF P
  <2>10. \A j \in 0 .. M : j \in P
    BY <1>2, <2>8, <2>9, Counting
  <2> QED
    BY <2>7, <2>10 DEF P
<1>5. CliquesTurns(a, n, val, st, i, nei)
  <2> HIDE DEF a
  <2> QED
    BY <1>1, <1>4 DEF CliquesTurns
<1> QED
  BY <1>5

TwoOf(cs) == Kept(cs, LAMBDA c : Len(c) = 2)
Before(k) == {Literal(j) : j \in 1 .. k - 1}
Taken(two, st, k) == Looped(LAMBDA t, turn : OneMore(t, Literal(k), Partners(two, Literal(k), Before(k))), st,
                            Len(Partners(two, Literal(k), Before(k))))

(* A literal's turn keeps what has been found true. *)
LEMMA TakenIs ==
  ASSUME NEW n \in Nat, NEW val \in Total(n), NEW two \in Clauses(n), \A k \in DOMAIN two : Len(two[k]) = 2,
         NEW st \in Found2(n, val), NEW k \in 1 .. 2 * n
  PROVE  Taken(two, st, k) \in Found2(n, val)
<1> DEFINE i == Literal(k)
           nei == Partners(two, i, Before(k))
<1>1. i \in Literals(n) /\ nei \in Seq(Literals(n))
  BY LiteralIs, PartnersIs
<1>2. Taken(two, st, k) = Looped(LAMBDA t, turn : OneMore(t, i, nei), st, Len(nei))
  BY DEF Taken
<1> HIDE DEF i, nei
<1>3. PICK a : CliquesTurns(a, n, val, st, i, nei)
  BY <1>1, CliquesLoop
<1>4. Len(nei) \in 0 .. Len(nei)
  BY <1>1, InSeq
<1> QED
  BY <1>2, <1>3, <1>4 DEF CliquesTurns

(* search_almost_one, literal by literal. *)
AlmostOneTurns(a, cs, n, val) ==
  /\ AlmostOne(cs, n) = a[2 * n] /\ a[0] = [pairs |-> {ToSet(c) : c \in ToSet(TwoOf(cs))}, one |-> <<>>]
  /\ \A k \in 0 .. 2 * n : a[k] \in Found2(n, val)
  /\ \A k \in 1 .. 2 * n : a[k] = Taken(TwoOf(cs), a[k - 1], k)

LEMMA AlmostOneLoop ==
  ASSUME NEW n \in Nat, NEW val \in Total(n),
         NEW cs, TwoOf(cs) \in Clauses(n), \A k \in DOMAIN TwoOf(cs) : Len(TwoOf(cs)[k]) = 2,
         {ToSet(c) : c \in ToSet(TwoOf(cs))} \in SUBSET Pairs2(n, val)
  PROVE  \E a : AlmostOneTurns(a, cs, n, val)
<1> DEFINE M == 2 * n
           V == Found2(n, val)
           v == [pairs |-> {ToSet(c) : c \in ToSet(TwoOf(cs))}, one |-> <<>>]
           Turn(x, k) == Taken(TwoOf(cs), x, k)
           Loop(g) == [k \in 0 .. M |-> IF k = 0 THEN v ELSE Turn(g[k - 1], k)]
           a == CHOOSE g : g = Loop(g)
<1>1. AlmostOne(cs, n) = a[M]
  BY DEF AlmostOne, Taken, TwoOf, Before, Looped
<1>2. M \in Nat
  OBVIOUS
<1>3. v \in V /\ \A x \in V : \A k \in 1 .. M : Turn(x, k) \in V
  <2>1. v \in V
    <3> DEFINE X == Cards(n, val)
    <3>1. <<>> \in Seq(X)
      OBVIOUS
    <3> QED
      BY <3>1 DEF Found2
  <2>2. ASSUME NEW x \in Found2(n, val), NEW k \in 1 .. 2 * n
        PROVE  Taken(TwoOf(cs), x, k) \in Found2(n, val)
    BY <2>2, TakenIs
  <2> QED
    BY <2>1, <2>2
<1>4. a[0] = v /\ (\A k \in 0 .. M : a[k] \in V) /\ (\A k \in 1 .. M : a[k] = Turn(a[k - 1], k))
  <2> DEFINE step == [kx \in (1 .. M) \X V |-> Turn(kx[2], kx[1])]
  <2>1. \A kx \in (1 .. M) \X V : Turn(kx[2], kx[1]) \in V
    <3> HIDE DEF Turn, M, V
    <3> QED
      BY <1>3
  <2>2. IsStep(M, V, step) /\ \A k \in 1 .. M : \A x \in V : step[<<k, x>>] = Turn(x, k)
    <3> HIDE DEF Turn, M, V
    <3> QED
      BY <2>1 DEF IsStep
  <2> HIDE DEF step, M, V, v, Turn
  <2>3. PICK f \in [0 .. M -> V] : f[0] = v /\ \A k \in 1 .. M : f[k] = step[<<k, f[k - 1]>>]
    <3>1. IsDefined(M, V, v, step)
      BY <1>2, <1>3, <2>2, Recursion
    <3> QED
      BY <3>1 DEF IsDefined
  <2>4. \A k \in 1 .. M : f[k] = Turn(f[k - 1], k)
    <3>1. \A k \in 1 .. M : k - 1 \in 0 .. M
      BY <1>2
    <3> QED
      BY <2>2, <2>3, <3>1
  <2>5. f = Loop(f)
    BY <1>2, <2>3, <2>4
  <2>6. a = Loop(a)
    BY <2>5
  <2> HIDE DEF a
  <2>7. a[0] = v /\ \A k \in 1 .. M : a[k] = Turn(a[k - 1], k)
    BY <1>2, <2>6
  <2> DEFINE P == {k \in 0 .. M : a[k] \in V}
  <2>8. 0 \in P
    BY <1>2, <1>3, <2>7
  <2>9. ASSUME NEW j \in 0 .. M, j < M, j \in P
        PROVE  j + 1 \in P
    <3>1. j + 1 \in 1 .. M /\ j + 1 \in 0 .. M /\ (j + 1) - 1 = j /\ a[j] \in V
      BY <1>2, <2>9
    <3> QED
      BY <1>3, <2>7, <3>1
  <2> HIDE DEF P
  <2>10. \A j \in 0 .. M : j \in P
    BY <1>2, <2>8, <2>9, Counting
  <2> QED
    BY <2>7, <2>10 DEF P
<1>5. AlmostOneTurns(a, cs, n, val)
  <2> HIDE DEF a
  <2> QED
    BY <1>1, <1>4 DEF AlmostOneTurns
<1> QED
  BY <1>5

\* Every constraint that is found holds in every model.
LEMMA AlmostOneIs ==
  ASSUME NEW n \in Nat, NEW val \in Total(n), NEW cs \in Clauses(n), All(val, cs)
  PROVE  AlmostOne(cs, n) \in Found2(n, val)
<1> DEFINE S == {i \in DOMAIN cs : Len(cs[i]) = 2}
           two == TwoOf(cs)
<1>1. two = Pick(cs, S)
  BY DEF TwoOf, Kept
<1>2. Pick(cs, S) \in Clauses(n) /\ \A x : x \in ToSet(Pick(cs, S)) <=> \E i \in DOMAIN cs : i \in S /\ cs[i] = x
  <2> HIDE DEF S
  <2> QED
    BY PickIs DEF Clauses
<1> HIDE DEF two
<1>3. two \in Clauses(n) /\ \A x \in ToSet(two) : \E i \in DOMAIN cs : cs[i] = x /\ Len(x) = 2
  BY <1>1, <1>2
<1>4. \A k \in DOMAIN two : Len(two[k]) = 2
  <2>1. \A k \in DOMAIN two : two[k] \in ToSet(two)
    BY <1>3, InSeq DEF Clauses
  <2> QED
    BY <1>3, <2>1
<1>5. ASSUME NEW c \in ToSet(two)
      PROVE  ToSet(c) \in Pairs2(n, val)
  <2>1. PICK i \in DOMAIN cs : cs[i] = c
    BY <1>3
  <2>2. Satisfies(val, c) /\ ToSet(c) \subseteq Literals(n)
    BY <2>1, InClauses DEF All
  <2> QED
    BY <2>2 DEF Pairs2, Says, Satisfies
<1>6. {ToSet(c) : c \in ToSet(two)} \in SUBSET Pairs2(n, val)
  BY <1>5
<1>7. PICK a : AlmostOneTurns(a, cs, n, val)
  BY <1>3, <1>4, <1>6, AlmostOneLoop DEF two
<1>8. 2 * n \in 0 .. 2 * n
  OBVIOUS
<1> QED
  BY <1>7, <1>8 DEF AlmostOneTurns

\* The clauses that are left over are clauses of the formula.
LEMMA UnusedIs ==
  ASSUME NEW n \in Nat, NEW val, NEW cs \in Clauses(n), All(val, cs), NEW pairs
  PROVE  Unused(cs, pairs) \in Clauses(n) /\ All(val, Unused(cs, pairs))
<1> DEFINE S == {i \in DOMAIN cs : Len(cs[i]) = 2 /\ ToSet(cs[i]) \notin pairs =>
                                      \E k \in DOMAIN cs : k > i /\ ToSet(cs[k]) = ToSet(cs[i])}
           r == Pick(cs, S)
<1>1. Unused(cs, pairs) = r
  BY DEF Unused
<1> HIDE DEF S
<1>2. r \in Clauses(n) /\ \A x : x \in ToSet(r) <=> \E i \in DOMAIN cs : i \in S /\ cs[i] = x
  BY PickIs DEF Clauses
<1> HIDE DEF r
<1>3. \A i \in DOMAIN r : r[i] \in ToSet(r)
  BY <1>2, InSeq DEF Clauses
<1>4. All(val, r)
  BY <1>2, <1>3 DEF All
<1> QED
  BY <1>1, <1>2, <1>4

(* scc_almost_one: what two constraints on x and -x give together. *)
Merging(n, val) == [one : Seq(Cards(n, val)), live : SUBSET Nat, cdel : SUBSET Nat, again : BOOLEAN, full : BOOLEAN]
Having(st, l) == {k \in DOMAIN st.one : l \in ToSet(st.one[k])}
RestOf(c, i) == Pick(c, {j \in DOMAIN c : Abs(c[j]) # i})

LEMMA OccursIs ==
  ASSUME NEW n \in Nat, NEW st, st.one \in Seq(Seq(Literals(n))), NEW l
  PROVE  Occurs(st, l) \in Seq(Having(st, l))
<1> DEFINE D == Having(st, l)
           M == Len(st.one)
           S(k) == {j \in DOMAIN st.one[k] : st.one[k][j] = l}
           r(k) == Pick(st.one[k], S(k))
           e(k) == IF k \in st.live THEN Mapped(LAMBDA x : k, r(k)) ELSE <<>>
           ss == [k \in 1 .. M |-> e(k)]
<1>1. M \in Nat /\ DOMAIN st.one = 1 .. M /\ \A k \in DOMAIN st.one : st.one[k] \in Seq(Literals(n))
  BY InSeq
<1>2. Occurs(st, l) = Flat(ss)
  BY <1>1 DEF Occurs, Kept
<1>3. \A k \in 1 .. M : e(k) \in Seq(D)
  <2> TAKE k \in 1 .. M
  <2> DEFINE m == Len(r(k))
             same(j) == k
             list == [j \in 1 .. m |-> same(j)]
  <2>1. r(k) \in Seq(Literals(n)) /\ \A x : x \in ToSet(r(k)) <=> \E j \in DOMAIN st.one[k] : j \in S(k) /\ st.one[k][j] = x
    <3> HIDE DEF S
    <3> QED
      BY <1>1, PickIs
  <2>2. st.one[k] \in Seq(Literals(n)) /\ \A x : x \in ToSet(st.one[k]) <=> \E j \in DOMAIN st.one[k] : st.one[k][j] = x
    BY <1>1, InSeq
  <2> HIDE DEF r
  <2>3. m \in Nat /\ DOMAIN r(k) = 1 .. m /\ \A j \in 1 .. m : r(k)[j] \in ToSet(r(k))
    BY <2>1, InSeq
  <2>4. \A j \in 1 .. m : k \in D
    <3> TAKE j \in 1 .. m
    <3>1. PICK p \in DOMAIN st.one[k] : p \in S(k)
      BY <2>1, <2>3
    <3>2. l \in ToSet(st.one[k])
      BY <2>2, <3>1
    <3> QED
      BY <1>1, <3>2 DEF Having
  <2>5. Mapped(LAMBDA x : k, r(k)) = list
    BY <2>3 DEF Mapped
  <2>6. list \in Seq(D)
    <3>1. \A j \in 1 .. m : same(j) \in D
      BY <2>4
    <3> HIDE DEF same, D, m
    <3> QED
      BY <2>3, <3>1, IsASeq
  <2> HIDE DEF list, D
  <2> QED
    BY <2>5, <2>6
<1>4. ss \in Seq(Seq(D))
  <2> DEFINE X == Seq(D)
  <2> HIDE DEF e, X, M
  <2>1. \A k \in 1 .. M : e(k) \in X
    BY <1>3 DEF X
  <2>2. ss \in Seq(X)
    BY <1>1, <2>1, IsASeq
  <2> QED
    BY <2>2 DEF X
<1> HIDE DEF ss, D
<1> QED
  BY <1>2, <1>4, FlatIs DEF D

\* If the literal that goes is true, every other one of the constraint is false.
LEMMA RestIs ==
  ASSUME NEW n \in Nat, NEW val \in Total(n), NEW c \in Cards(n, val), NEW l \in ToSet(c)
  PROVE  /\ RestOf(c, Abs(l)) \in Cards(n, val)
         /\ Value(val, l) = 1 => \A j \in DOMAIN RestOf(c, Abs(l)) : Value(val, RestOf(c, Abs(l))[j]) # 1
<1> DEFINE S == {j \in DOMAIN c : Abs(c[j]) # Abs(l)}
           r == Pick(c, S)
<1>1. RestOf(c, Abs(l)) = r
  BY DEF RestOf
<1>2. c \in Seq(Literals(n)) /\ AtMost(val, c)
  BY DEF Cards
<1>3. r \in Cards(n, val) /\ Places(r, c, S)
  <2> HIDE DEF S
  <2> QED
    BY <1>2, PickCard, PickPlaces
<1> HIDE DEF r
<1>4. PICK p \in DOMAIN c : c[p] = l
  BY <1>2, InSeq
<1>5. ASSUME Value(val, l) = 1, NEW j \in DOMAIN r
      PROVE  Value(val, r[j]) # 1
  <2>1. PICK q \in DOMAIN c : q \in S /\ r[j] = c[q]
    BY <1>3 DEF Places
  <2>2. q # p
    BY <1>4, <2>1
  <2> QED
    BY <1>2, <1>4, <1>5, <2>1, <2>2 DEF AtMost
<1> QED
  BY <1>1, <1>3, <1>5

(* Two constraints on opposite literals of a variable join to a constraint. *)
LEMMA JoinedCard ==
  ASSUME NEW n \in Nat, NEW val \in Total(n), NEW c \in Cards(n, val), NEW d \in Cards(n, val), NEW i \in 1 .. n,
         i \in ToSet(c), -i \in ToSet(d)
  PROVE  RestOf(c, i) \o RestOf(d, i) \in Cards(n, val)
<1> DEFINE r == RestOf(c, i)
           s == RestOf(d, i)
           t == r \o s
<1>1. i \in Literals(n) /\ Abs(i) = i /\ Abs(-i) = i
  BY SignedFacts
<1>2. /\ r \in Cards(n, val) /\ (Value(val, i) = 1 => \A j \in DOMAIN r : Value(val, r[j]) # 1)
      /\ s \in Cards(n, val) /\ (Value(val, -i) = 1 => \A j \in DOMAIN s : Value(val, s[j]) # 1)
  <2>1. /\ RestOf(c, Abs(i)) \in Cards(n, val)
        /\ Value(val, i) = 1 => \A j \in DOMAIN RestOf(c, Abs(i)) : Value(val, RestOf(c, Abs(i))[j]) # 1
    BY RestIs
  <2>2. /\ RestOf(d, Abs(-i)) \in Cards(n, val)
        /\ Value(val, -i) = 1 => \A j \in DOMAIN RestOf(d, Abs(-i)) : Value(val, RestOf(d, Abs(-i))[j]) # 1
    BY RestIs
  <2> QED
    BY <1>1, <2>1, <2>2
<1>3. Value(val, i) = 1 \/ Value(val, -i) = 1
  BY <1>1, TotalValue
<1> HIDE DEF r, s
<1>4. r \in Seq(Literals(n)) /\ s \in Seq(Literals(n)) /\ AtMost(val, r) /\ AtMost(val, s)
  BY <1>2 DEF Cards
<1>5. /\ t \in Seq(Literals(n)) /\ DOMAIN t = 1 .. Len(r) + Len(s)
      /\ DOMAIN r = 1 .. Len(r) /\ DOMAIN s = 1 .. Len(s) /\ Len(r) \in Nat /\ Len(s) \in Nat
      /\ \A k \in 1 .. Len(r) : t[k] = r[k]
      /\ \A k \in 1 .. Len(s) : t[Len(r) + k] = s[k]
      /\ \A k \in 1 .. Len(r) + Len(s) : k \in 1 .. Len(r) \/ \E j \in 1 .. Len(s) : k = Len(r) + j
  BY <1>4, ConcatIs, InSeq
<1> HIDE DEF t
<1>6. AtMost(val, t)
  <2> SUFFICES ASSUME NEW k \in DOMAIN t, NEW m \in DOMAIN t, k # m, Value(val, t[k]) = 1, Value(val, t[m]) = 1
               PROVE  FALSE
    BY DEF AtMost
  <2>1. \A x \in DOMAIN t : x \in 1 .. Len(r) \/ \E j \in 1 .. Len(s) : x = Len(r) + j
    BY <1>5
  <2>2. CASE Value(val, i) = 1
    <3>1. \A x \in DOMAIN t : Value(val, t[x]) = 1 => \E j \in DOMAIN s : x = Len(r) + j /\ t[x] = s[j]
      BY <1>2, <1>5, <2>1, <2>2, ZenonT(60)
    <3>2. PICK j1, j2 \in DOMAIN s : k = Len(r) + j1 /\ t[k] = s[j1] /\ m = Len(r) + j2 /\ t[m] = s[j2]
      BY <3>1
    <3> QED
      BY <1>4, <3>2 DEF AtMost
  <2>3. CASE Value(val, -i) = 1
    <3>1. \A x \in DOMAIN t : Value(val, t[x]) = 1 => x \in DOMAIN r /\ t[x] = r[x]
      BY <1>2, <1>5, <2>1, <2>3, ZenonT(60)
    <3> QED
      BY <1>4, <3>1 DEF AtMost
  <2> QED
    BY <1>3, <2>2, <2>3
<1> QED
  BY <1>5, <1>6 DEF Cards, t, r, s

\* The constraints made on variable i.
MadeOn(st, i) == LET op == Occurs(st, i)   on == Occurs(st, -i)
                 IN  Flat([a \in DOMAIN op |-> [c \in DOMAIN on |->
                             RestOf(st.one[op[a]], i) \o RestOf(st.one[on[c]], i)]])

(* The constraints merged on a variable hold. *)
LEMMA MadeOnIs ==
  ASSUME NEW n \in Nat, NEW val \in Total(n), NEW st \in Merging(n, val), NEW i \in 1 .. n
  PROVE  MadeOn(st, i) \in Seq(Cards(n, val))
<1> DEFINE X == Cards(n, val)
           op == Occurs(st, i)
           on == Occurs(st, -i)
           e(a, c) == RestOf(st.one[op[a]], i) \o RestOf(st.one[on[c]], i)
           f(a) == [c \in 1 .. Len(on) |-> e(a, c)]
           ss == [a \in 1 .. Len(op) |-> f(a)]
<1>1. st.one \in Seq(X) /\ st.one \in Seq(Seq(Literals(n))) /\ \A k \in DOMAIN st.one : st.one[k] \in X
  <2>1. st.one \in Seq(X)
    BY DEF Merging
  <2>2. \A k \in DOMAIN st.one : st.one[k] \in X /\ st.one[k] \in Seq(Literals(n))
    <3> HIDE DEF X
    <3>1. \A k \in DOMAIN st.one : st.one[k] \in X
      BY <2>1, InSeq
    <3> QED
      BY <3>1 DEF X, Cards
  <2>3. st.one \in Seq(Seq(Literals(n)))
    <3>1. X \subseteq Seq(Literals(n))
      BY DEF Cards
    <3> HIDE DEF X
    <3> QED
      BY <2>1, <3>1
  <2> QED
    BY <2>1, <2>2, <2>3
<1>2. op \in Seq(Having(st, i)) /\ on \in Seq(Having(st, -i))
  BY <1>1, OccursIs
<1>3. MadeOn(st, i) = Flat(ss)
  <2>1. DOMAIN op = 1 .. Len(op) /\ DOMAIN on = 1 .. Len(on)
    BY <1>2, InSeq
  <2> QED
    BY <2>1 DEF MadeOn
<1> HIDE DEF op, on
<1>4. /\ Len(op) \in Nat /\ Len(on) \in Nat
      /\ \A a \in 1 .. Len(op) : op[a] \in Having(st, i)
      /\ \A c \in 1 .. Len(on) : on[c] \in Having(st, -i)
  BY <1>2, InSeq
<1>5. \A a \in 1 .. Len(op), c \in 1 .. Len(on) : e(a, c) \in X
  BY <1>1, <1>4, JoinedCard DEF Having
<1> HIDE DEF e, X
<1>6. \A a \in 1 .. Len(op) : f(a) \in Seq(X)
  BY <1>4, <1>5, IsASeq
<1> DEFINE Y == Seq(X)
<1> HIDE DEF f, Y
<1>7. \A a \in 1 .. Len(op) : f(a) \in Y
  BY <1>6 DEF Y
<1>8. ss \in Seq(Y)
  BY <1>4, <1>7, IsASeq
<1> HIDE DEF ss
<1>9. Flat(ss) \in Seq(X)
  BY <1>8, FlatIs DEF Y
<1> QED
  BY <1>3, <1>9 DEF X

(* Merging on one variable keeps the constraints true. *)
LEMMA MergeOnIs ==
  ASSUME NEW n \in Nat, NEW val \in Total(n), NEW st \in Merging(n, val), NEW i \in 1 .. n
  PROVE  MergeOn(st, i) \in Merging(n, val)
<1> DEFINE X == Cards(n, val)
           op == Occurs(st, i)
           on == Occurs(st, -i)
           new == MadeOn(st, i)
           now == [st EXCEPT !.one  = @ \o new,
                             !.live = (@ \cup Len(st.one) + 1 .. Len(st.one) + Len(new)) \ Struck(op),
                             !.cdel = @ \cup ToSet(op) \cup ToSet(on), !.again = TRUE]
<1>1. MergeOn(st, i) = [now EXCEPT !.live = @ \ Struck(Occurs(now, -i))]
  BY DEF MergeOn, MadeOn, RestOf, Kept
<1>2. st.one \in Seq(X) /\ new \in Seq(X) /\ st.live \in SUBSET Nat /\ st.cdel \in SUBSET Nat
  BY MadeOnIs DEF Merging
<1>3. ToSet(op) \subseteq Nat /\ ToSet(on) \subseteq Nat /\ Len(st.one) \in Nat /\ Len(new) \in Nat
  <2> HIDE DEF new, X
  <2>1. Len(st.one) \in Nat /\ Len(new) \in Nat /\ DOMAIN st.one = 1 .. Len(st.one)
    BY <1>2, InSeq
  <2>2. st.one \in Seq(Seq(Literals(n)))
    <3>1. X \subseteq Seq(Literals(n))
      BY DEF X, Cards
    <3> QED
      BY <1>2, <3>1
  <2>3. op \in Seq(Having(st, i)) /\ on \in Seq(Having(st, -i))
    BY <2>2, OccursIs
  <2> HIDE DEF op, on
  <2>4. ToSet(op) \subseteq Having(st, i) /\ ToSet(on) \subseteq Having(st, -i)
    BY <2>3, InSeq
  <2> QED
    BY <2>1, <2>4 DEF Having
<1> HIDE DEF new, op, on
<1>4. st.one \o new \in Seq(X)
  <2> HIDE DEF X
  <2> QED
    BY <1>2, ConcatIs
<1>5. /\ (st.live \cup Len(st.one) + 1 .. Len(st.one) + Len(new)) \ Struck(op) \in SUBSET Nat
      /\ st.cdel \cup ToSet(op) \cup ToSet(on) \in SUBSET Nat
  BY <1>2, <1>3
<1>6. now \in Merging(n, val)
  BY <1>4, <1>5 DEF Merging
<1> HIDE DEF now
<1> QED
  BY <1>1, <1>6 DEF Merging

(* Visiting one variable keeps the constraints true. *)
LEMMA VisitIs ==
  ASSUME NEW n \in Nat, NEW val \in Total(n), NEW st \in Merging(n, val), NEW i \in 1 .. n
  PROVE  Visit(st, i, n) \in Merging(n, val)
<1>1. MergeOn(st, i) \in Merging(n, val)
  BY MergeOnIs
<1>2. [st EXCEPT !.full = TRUE] \in Merging(n, val)
  BY DEF Merging
<1>3. Visit(st, i, n) \in {st, [st EXCEPT !.full = TRUE], MergeOn(st, i)}
  BY DEF Visit
<1> QED
  BY <1>1, <1>2, <1>3

(* A round over the variables. *)
VisitsTurns(a, n, val, st) ==
  /\ Looped(LAMBDA t, i : Visit(t, i, n), st, n) = a[n] /\ a[0] = st
  /\ \A k \in 0 .. n : a[k] \in Merging(n, val)
  /\ \A k \in 1 .. n : a[k] = Visit(a[k - 1], k, n)

LEMMA VisitsLoop ==
  ASSUME NEW n \in Nat, NEW val \in Total(n), NEW st \in Merging(n, val)
  PROVE  \E a : VisitsTurns(a, n, val, st)
<1> DEFINE M == n
           V == Merging(n, val)
           v == st
           Turn(x, k) == Visit(x, k, n)
           Loop(g) == [k \in 0 .. M |-> IF k = 0 THEN v ELSE Turn(g[k - 1], k)]
           a == CHOOSE g : g = Loop(g)
<1>1. Looped(LAMBDA t, i : Visit(t, i, n), st, n) = a[M]
  BY DEF Looped
<1>2. M \in Nat
  OBVIOUS
<1>3. v \in V /\ \A x \in V : \A k \in 1 .. M : Turn(x, k) \in V
  BY VisitIs
<1>4. a[0] = v /\ (\A k \in 0 .. M : a[k] \in V) /\ (\A k \in 1 .. M : a[k] = Turn(a[k - 1], k))
  <2> DEFINE step == [kx \in (1 .. M) \X V |-> Turn(kx[2], kx[1])]
  <2>1. \A kx \in (1 .. M) \X V : Turn(kx[2], kx[1]) \in V
    <3> HIDE DEF Turn, M, V
    <3> QED
      BY <1>3
  <2>2. IsStep(M, V, step) /\ \A k \in 1 .. M : \A x \in V : step[<<k, x>>] = Turn(x, k)
    <3> HIDE DEF Turn, M, V
    <3> QED
      BY <2>1 DEF IsStep
  <2> HIDE DEF step, M, V, v, Turn
  <2>3. PICK f \in [0 .. M -> V] : f[0] = v /\ \A k \in 1 .. M : f[k] = step[<<k, f[k - 1]>>]
    <3>1. IsDefined(M, V, v, step)
      BY <1>2, <1>3, <2>2, Recursion
    <3> QED
      BY <3>1 DEF IsDefined
  <2>4. \A k \in 1 .. M : f[k] = Turn(f[k - 1], k)
    <3>1. \A k \in 1 .. M : k - 1 \in 0 .. M
      BY <1>2
    <3> QED
      BY <2>2, <2>3, <3>1
  <2>5. f = Loop(f)
    BY <1>2, <2>3, <2>4
  <2>6. a = Loop(a)
    BY <2>5
  <2> HIDE DEF a
  <2>7. a[0] = v /\ \A k \in 1 .. M : a[k] = Turn(a[k - 1], k)
    BY <1>2, <2>6
  <2> DEFINE P == {k \in 0 .. M : a[k] \in V}
  <2>8. 0 \in P
    BY <1>2, <1>3, <2>7
  <2>9. ASSUME NEW j \in 0 .. M, j < M, j \in P
        PROVE  j + 1 \in P
    <3>1. j + 1 \in 1 .. M /\ j + 1 \in 0 .. M /\ (j + 1) - 1 = j /\ a[j] \in V
      BY <1>2, <2>9
    <3> QED
      BY <1>3, <2>7, <3>1
  <2> HIDE DEF P
  <2>10. \A j \in 0 .. M : j \in P
    BY <1>2, <2>8, <2>9, Counting
  <2> QED
    BY <2>7, <2>10 DEF P
<1>5. VisitsTurns(a, n, val, st)
  <2> HIDE DEF a
  <2> QED
    BY <1>1, <1>4 DEF VisitsTurns
<1> QED
  BY <1>5

Visited(st, n) == IF ~st.again \/ st.full THEN st
                  ELSE Looped(LAMBDA t, i : Visit(t, i, n), [st EXCEPT !.again = FALSE], n)

(* A round over the variables keeps the constraints true. *)
LEMMA VisitedIs ==
  ASSUME NEW n \in Nat, NEW val \in Total(n), NEW st \in Merging(n, val)
  PROVE  Visited(st, n) \in Merging(n, val)
<1> DEFINE s == [st EXCEPT !.again = FALSE]
<1>1. s \in Merging(n, val)
  BY DEF Merging
<1>2. Visited(st, n) \in {st, Looped(LAMBDA t, i : Visit(t, i, n), s, n)}
  BY DEF Visited
<1> HIDE DEF s
<1>3. PICK a : VisitsTurns(a, n, val, s)
  BY <1>1, VisitsLoop
<1>4. n \in 0 .. n
  OBVIOUS
<1> QED
  BY <1>2, <1>3, <1>4 DEF VisitsTurns

(* The rounds, until one changes nothing. *)
MergedAfterTurns(a, n, val, st, r) ==
  /\ MergedAfter(st, n, r) = a[r] /\ a[0] = [st EXCEPT !.again = TRUE]
  /\ \A k \in 0 .. r : a[k] \in Merging(n, val)
  /\ \A k \in 1 .. r : a[k] = Visited(a[k - 1], n)

LEMMA MergedAfterLoop ==
  ASSUME NEW n \in Nat, NEW val \in Total(n), NEW st \in Merging(n, val), NEW r \in Nat
  PROVE  \E a : MergedAfterTurns(a, n, val, st, r)
<1> DEFINE M == r
           V == Merging(n, val)
           v == [st EXCEPT !.again = TRUE]
           Turn(x, k) == Visited(x, n)
           Loop(g) == [k \in 0 .. M |-> IF k = 0 THEN v ELSE Turn(g[k - 1], k)]
           a == CHOOSE g : g = Loop(g)
<1>1. MergedAfter(st, n, r) = a[M]
  BY DEF MergedAfter, Visited, Looped
<1>2. M \in Nat
  OBVIOUS
<1>3. v \in V /\ \A x \in V : \A k \in 1 .. M : Turn(x, k) \in V
  <2>1. v \in V
    BY DEF Merging
  <2> QED
    BY <2>1, VisitedIs
<1>4. a[0] = v /\ (\A k \in 0 .. M : a[k] \in V) /\ (\A k \in 1 .. M : a[k] = Turn(a[k - 1], k))
  <2> DEFINE step == [kx \in (1 .. M) \X V |-> Turn(kx[2], kx[1])]
  <2>1. \A kx \in (1 .. M) \X V : Turn(kx[2], kx[1]) \in V
    <3> HIDE DEF Turn, M, V
    <3> QED
      BY <1>3
  <2>2. IsStep(M, V, step) /\ \A k \in 1 .. M : \A x \in V : step[<<k, x>>] = Turn(x, k)
    <3> HIDE DEF Turn, M, V
    <3> QED
      BY <2>1 DEF IsStep
  <2> HIDE DEF step, M, V, v, Turn
  <2>3. PICK f \in [0 .. M -> V] : f[0] = v /\ \A k \in 1 .. M : f[k] = step[<<k, f[k - 1]>>]
    <3>1. IsDefined(M, V, v, step)
      BY <1>2, <1>3, <2>2, Recursion
    <3> QED
      BY <3>1 DEF IsDefined
  <2>4. \A k \in 1 .. M : f[k] = Turn(f[k - 1], k)
    <3>1. \A k \in 1 .. M : k - 1 \in 0 .. M
      BY <1>2
    <3> QED
      BY <2>2, <2>3, <3>1
  <2>5. f = Loop(f)
    BY <1>2, <2>3, <2>4
  <2>6. a = Loop(a)
    BY <2>5
  <2> HIDE DEF a
  <2>7. a[0] = v /\ \A k \in 1 .. M : a[k] = Turn(a[k - 1], k)
    BY <1>2, <2>6
  <2> DEFINE P == {k \in 0 .. M : a[k] \in V}
  <2>8. 0 \in P
    BY <1>2, <1>3, <2>7
  <2>9. ASSUME NEW j \in 0 .. M, j < M, j \in P
        PROVE  j + 1 \in P
    <3>1. j + 1 \in 1 .. M /\ j + 1 \in 0 .. M /\ (j + 1) - 1 = j /\ a[j] \in V
      BY <1>2, <2>9
    <3> QED
      BY <1>3, <2>7, <3>1
  <2> HIDE DEF P
  <2>10. \A j \in 0 .. M : j \in P
    BY <1>2, <2>8, <2>9, Counting
  <2> QED
    BY <2>7, <2>10 DEF P
<1>5. MergedAfterTurns(a, n, val, st, r)
  <2> HIDE DEF a
  <2> QED
    BY <1>1, <1>4 DEF MergedAfterTurns
<1> QED
  BY <1>5

\* The constraints that are made hold in every model, as those they are made of.
LEMMA SurvivorsAre ==
  ASSUME NEW n \in Nat, NEW val \in Total(n), NEW one \in Seq(Cards(n, val))
  PROVE  Survivors(scc_almost_one(one, n)) \in Seq(Cards(n, val))
<1> DEFINE X == Cards(n, val)
           st == [one |-> one, live |-> DOMAIN one, cdel |-> {}, again |-> FALSE, full |-> FALSE]
<1>1. DOMAIN one \in SUBSET Nat
  <2> HIDE DEF X
  <2>1. one \in Seq(X)
    BY DEF X
  <2>2. DOMAIN one = 1 .. Len(one) /\ Len(one) \in Nat
    BY <2>1, InSeq
  <2> QED
    BY <2>2
<1>2. st \in Merging(n, val)
  BY <1>1 DEF Merging
<1>3. scc_almost_one(one, n) = Merged(st, n)
  BY DEF scc_almost_one
<1> HIDE DEF st
<1>4. PICK r \in Nat : Merged(st, n) = MergedAfter(st, n, r)
  <2> DEFINE Enough(r) == r = Cells + 1 \/ LET s == MergedAfter(st, n, r) IN ~s.again \/ s.full
  <2>1. Merged(st, n) = MergedAfter(st, n, CHOOSE r \in 0 .. Cells + 1 : Enough(r))
    BY DEF Merged
  <2>2. Cells + 1 \in 0 .. Cells + 1 /\ Enough(Cells + 1)
    BY CardAssumption
  <2> HIDE DEF Enough
  <2>3. (CHOOSE r \in 0 .. Cells + 1 : Enough(r)) \in 0 .. Cells + 1
    BY <2>2
  <2>4. (CHOOSE r \in 0 .. Cells + 1 : Enough(r)) \in Nat
    <3>1. Cells + 1 \in Nat /\ \A r \in 0 .. Cells + 1 : r \in Nat
      BY CardAssumption
    <3> QED
      BY <2>3, <3>1
  <2> QED
    BY <2>1, <2>4
<1>5. PICK a : MergedAfterTurns(a, n, val, st, r)
  BY <1>2, MergedAfterLoop
<1>6. Merged(st, n) \in Merging(n, val)
  <2>1. r \in 0 .. r
    BY <1>4
  <2> QED
    BY <1>4, <1>5, <2>1 DEF MergedAfterTurns
<1> DEFINE s == Merged(st, n)
           S == DOMAIN s.one \ s.cdel
<1>7. s.one \in Seq(X)
  BY <1>6 DEF Merging
<1>8. Survivors(s) = Pick(s.one, S)
  BY DEF Survivors
<1> HIDE DEF s, S, X
<1>9. Pick(s.one, S) \in Seq(X)
  BY <1>7, PickIs
<1> QED
  BY <1>3, <1>8, <1>9 DEF X, s

-------------------------------------------------------------------------------
(* The rows: a variable counts 1 if it is true, and r[v] of them for the    *)
(* row r.                                                                   *)
Row(n) == [0 .. n -> Int]
Weighed(r, val, n) == Looped(LAMBDA sum, v : IF val[v] = 1 THEN sum + r[v] ELSE sum, 0, n)
RowHolds(r, val, n) == Weighed(r, val, n) <= r[0]
Holding(n, val) == {r \in Row(n) : RowHolds(r, val, n)}

(* The sum of a row. *)
WeighedTurns(a, n, val, r) ==
  /\ Weighed(r, val, n) = a[n] /\ a[0] = 0
  /\ \A k \in 0 .. n : a[k] \in Int
  /\ \A k \in 1 .. n : a[k] = IF val[k] = 1 THEN a[k - 1] + r[k] ELSE a[k - 1]

LEMMA WeighedLoop ==
  ASSUME NEW n \in Nat, NEW val, NEW r \in Row(n)
  PROVE  \E a : WeighedTurns(a, n, val, r)
<1> DEFINE M == n
           V == Int
           v == 0
           Turn(x, k) == IF val[k] = 1 THEN x + r[k] ELSE x
           Loop(g) == [k \in 0 .. M |-> IF k = 0 THEN v ELSE Turn(g[k - 1], k)]
           a == CHOOSE g : g = Loop(g)
<1>1. Weighed(r, val, n) = a[M]
  BY DEF Weighed, Looped
<1>2. M \in Nat
  OBVIOUS
<1>3. v \in V /\ \A x \in V : \A k \in 1 .. M : Turn(x, k) \in V
  <2>1. \A k \in 1 .. n : r[k] \in Int
    BY DEF Row
  <2> QED
    BY <2>1
<1>4. a[0] = v /\ (\A k \in 0 .. M : a[k] \in V) /\ (\A k \in 1 .. M : a[k] = Turn(a[k - 1], k))
  <2> DEFINE step == [kx \in (1 .. M) \X V |-> Turn(kx[2], kx[1])]
  <2>1. \A kx \in (1 .. M) \X V : Turn(kx[2], kx[1]) \in V
    <3> HIDE DEF Turn, M, V
    <3> QED
      BY <1>3
  <2>2. IsStep(M, V, step) /\ \A k \in 1 .. M : \A x \in V : step[<<k, x>>] = Turn(x, k)
    <3> HIDE DEF Turn, M, V
    <3> QED
      BY <2>1 DEF IsStep
  <2> HIDE DEF step, M, V, v, Turn
  <2>3. PICK f \in [0 .. M -> V] : f[0] = v /\ \A k \in 1 .. M : f[k] = step[<<k, f[k - 1]>>]
    <3>1. IsDefined(M, V, v, step)
      BY <1>2, <1>3, <2>2, Recursion
    <3> QED
      BY <3>1 DEF IsDefined
  <2>4. \A k \in 1 .. M : f[k] = Turn(f[k - 1], k)
    <3>1. \A k \in 1 .. M : k - 1 \in 0 .. M
      BY <1>2
    <3> QED
      BY <2>2, <2>3, <3>1
  <2>5. f = Loop(f)
    BY <1>2, <2>3, <2>4
  <2>6. a = Loop(a)
    BY <2>5
  <2> HIDE DEF a
  <2>7. a[0] = v /\ \A k \in 1 .. M : a[k] = Turn(a[k - 1], k)
    BY <1>2, <2>6
  <2> DEFINE P == {k \in 0 .. M : a[k] \in V}
  <2>8. 0 \in P
    BY <1>2, <1>3, <2>7
  <2>9. ASSUME NEW j \in 0 .. M, j < M, j \in P
        PROVE  j + 1 \in P
    <3>1. j + 1 \in 1 .. M /\ j + 1 \in 0 .. M /\ (j + 1) - 1 = j /\ a[j] \in V
      BY <1>2, <2>9
    <3> QED
      BY <1>3, <2>7, <3>1
  <2> HIDE DEF P
  <2>10. \A j \in 0 .. M : j \in P
    BY <1>2, <2>8, <2>9, Counting
  <2> QED
    BY <2>7, <2>10 DEF P
<1>5. WeighedTurns(a, n, val, r)
  <2> HIDE DEF a
  <2> QED
    BY <1>1, <1>4 DEF WeighedTurns
<1> QED
  BY <1>5

(* A row has one column per variable besides its bound. *)
LEMMA RowSize ==
  ASSUME NEW n \in Nat, NEW r \in Row(n)
  PROVE  Cardinality(DOMAIN r) - 1 = n
<1>1. DOMAIN r = 0 .. n
  BY DEF Row
<1>2. Cardinality(0 .. n) = n + 1
  BY FS_Interval
<1> QED
  BY <1>1, <1>2

(* The least sum a row can have. *)
LowTurns(a, n, r) ==
  /\ Low(r) = a[(Cardinality(DOMAIN r) - 1)] /\ a[0] = 0
  /\ \A k \in 0 .. (Cardinality(DOMAIN r) - 1) : a[k] \in Int
  /\ \A k \in 1 .. (Cardinality(DOMAIN r) - 1) : a[k] = IF r[k] < 0 THEN a[k - 1] + r[k] ELSE a[k - 1]

LEMMA LowLoop ==
  ASSUME NEW n \in Nat, NEW r \in Row(n)
  PROVE  \E a : LowTurns(a, n, r)
<1> DEFINE M == (Cardinality(DOMAIN r) - 1)
           V == Int
           v == 0
           Turn(x, k) == IF r[k] < 0 THEN x + r[k] ELSE x
           Loop(g) == [k \in 0 .. M |-> IF k = 0 THEN v ELSE Turn(g[k - 1], k)]
           a == CHOOSE g : g = Loop(g)
<1>1. Low(r) = a[M]
  BY DEF Low, Looped
<1>2. M \in Nat
  BY RowSize
<1>3. v \in V /\ \A x \in V : \A k \in 1 .. M : Turn(x, k) \in V
  <2>1. \A k \in 1 .. n : r[k] \in Int
    BY DEF Row
  <2>2. M = n
    BY RowSize
  <2> QED
    BY <2>1, <2>2
<1>4. a[0] = v /\ (\A k \in 0 .. M : a[k] \in V) /\ (\A k \in 1 .. M : a[k] = Turn(a[k - 1], k))
  <2> DEFINE step == [kx \in (1 .. M) \X V |-> Turn(kx[2], kx[1])]
  <2>1. \A kx \in (1 .. M) \X V : Turn(kx[2], kx[1]) \in V
    <3> HIDE DEF Turn, M, V
    <3> QED
      BY <1>3
  <2>2. IsStep(M, V, step) /\ \A k \in 1 .. M : \A x \in V : step[<<k, x>>] = Turn(x, k)
    <3> HIDE DEF Turn, M, V
    <3> QED
      BY <2>1 DEF IsStep
  <2> HIDE DEF step, M, V, v, Turn
  <2>3. PICK f \in [0 .. M -> V] : f[0] = v /\ \A k \in 1 .. M : f[k] = step[<<k, f[k - 1]>>]
    <3>1. IsDefined(M, V, v, step)
      BY <1>2, <1>3, <2>2, Recursion
    <3> QED
      BY <3>1 DEF IsDefined
  <2>4. \A k \in 1 .. M : f[k] = Turn(f[k - 1], k)
    <3>1. \A k \in 1 .. M : k - 1 \in 0 .. M
      BY <1>2
    <3> QED
      BY <2>2, <2>3, <3>1
  <2>5. f = Loop(f)
    BY <1>2, <2>3, <2>4
  <2>6. a = Loop(a)
    BY <2>5
  <2> HIDE DEF a
  <2>7. a[0] = v /\ \A k \in 1 .. M : a[k] = Turn(a[k - 1], k)
    BY <1>2, <2>6
  <2> DEFINE P == {k \in 0 .. M : a[k] \in V}
  <2>8. 0 \in P
    BY <1>2, <1>3, <2>7
  <2>9. ASSUME NEW j \in 0 .. M, j < M, j \in P
        PROVE  j + 1 \in P
    <3>1. j + 1 \in 1 .. M /\ j + 1 \in 0 .. M /\ (j + 1) - 1 = j /\ a[j] \in V
      BY <1>2, <2>9
    <3> QED
      BY <1>3, <2>7, <3>1
  <2> HIDE DEF P
  <2>10. \A j \in 0 .. M : j \in P
    BY <1>2, <2>8, <2>9, Counting
  <2> QED
    BY <2>7, <2>10 DEF P
<1>5. LowTurns(a, n, r)
  <2> HIDE DEF a
  <2> QED
    BY <1>1, <1>4 DEF LowTurns
<1> QED
  BY <1>5

\* A row that holds is not found wrong.
LEMMA LowIs ==
  ASSUME NEW n \in Nat, NEW val, NEW r \in Row(n)
  PROVE  Low(r) <= Weighed(r, val, n) /\ Low(r) \in Int /\ Weighed(r, val, n) \in Int
<1>1. PICK a : LowTurns(a, n, r)
  BY LowLoop
<1>2. PICK w : WeighedTurns(w, n, val, r)
  BY WeighedLoop
<1>3. /\ Low(r) = a[n] /\ a[0] = 0 /\ (\A k \in 0 .. n : a[k] \in Int)
      /\ \A k \in 1 .. n : a[k] = IF r[k] < 0 THEN a[k - 1] + r[k] ELSE a[k - 1]
  <2>1. Cardinality(DOMAIN r) - 1 = n
    BY RowSize
  <2> DEFINE M == Cardinality(DOMAIN r) - 1
  <2>2. /\ Low(r) = a[M] /\ a[0] = 0 /\ (\A k \in 0 .. M : a[k] \in Int)
        /\ \A k \in 1 .. M : a[k] = IF r[k] < 0 THEN a[k - 1] + r[k] ELSE a[k - 1]
    BY <1>1 DEF LowTurns
  <2>3. M = n
    BY <2>1
  <2> HIDE DEF M
  <2> QED
    BY <2>2, <2>3
<1>4. /\ Weighed(r, val, n) = w[n] /\ w[0] = 0 /\ (\A k \in 0 .. n : w[k] \in Int)
      /\ \A k \in 1 .. n : w[k] = IF val[k] = 1 THEN w[k - 1] + r[k] ELSE w[k - 1]
  BY <1>2 DEF WeighedTurns
<1>5. \A k \in 1 .. n : r[k] \in Int
  BY DEF Row
<1> DEFINE P == {k \in 0 .. n : a[k] <= w[k]}
<1>6. 0 \in P
  BY <1>3, <1>4
<1>7. ASSUME NEW k \in 0 .. n, k < n, k \in P
      PROVE  k + 1 \in P
  <2>1. k + 1 \in 1 .. n /\ k + 1 \in 0 .. n /\ (k + 1) - 1 = k
    BY <1>7
  <2>2. a[k + 1] = (IF r[k + 1] < 0 THEN a[k] + r[k + 1] ELSE a[k]) /\ a[k] \in Int
    BY <1>3, <2>1
  <2>3. w[k + 1] = (IF val[k + 1] = 1 THEN w[k] + r[k + 1] ELSE w[k]) /\ w[k] \in Int
    BY <1>4, <2>1
  <2>4. r[k + 1] \in Int /\ a[k] <= w[k]
    BY <1>5, <1>7, <2>1
  <2>5. a[k + 1] <= w[k + 1]
    BY <2>2, <2>3, <2>4
  <2> QED
    BY <2>1, <2>5
<1>8. n \in P
  <2> HIDE DEF P
  <2>1. \A k \in 0 .. n : k \in P
    BY <1>6, <1>7, Counting
  <2> QED
    BY <2>1
<1>9. n \in 0 .. n
  OBVIOUS
<1> QED
  BY <1>3, <1>4, <1>8, <1>9

(* A row some assignment fulfils is not reported wrong. *)
LEMMA NotWrong ==
  ASSUME NEW n \in Nat, NEW val, NEW r \in Holding(n, val)
  PROVE  ~Wrong(r)
<1>1. r \in Row(n) /\ Weighed(r, val, n) <= r[0]
  BY DEF Holding, RowHolds
<1>2. r[0] \in Int
  BY <1>1 DEF Row
<1>3. Low(r) <= Weighed(r, val, n) /\ Low(r) \in Int /\ Weighed(r, val, n) \in Int
  BY <1>1, LowIs
<1> QED
  BY <1>1, <1>2, <1>3 DEF Wrong

\* The sum of one row and a multiple of another, and of a row's opposite.
LEMMA WeighedSum ==
  ASSUME NEW n \in Nat, NEW val, NEW u \in Row(n), NEW l \in Row(n), NEW p \in Int, NEW q \in Int,
         NEW c, c = [j \in DOMAIN u |-> u[j] * p + l[j] * q]
  PROVE  c \in Row(n) /\ Weighed(c, val, n) = Weighed(u, val, n) * p + Weighed(l, val, n) * q
<1>1. DOMAIN u = 0 .. n /\ \A j \in 0 .. n : u[j] \in Int /\ l[j] \in Int
  BY DEF Row
<1>2. \A x, y \in Int : x * p + y * q \in Int
  OBVIOUS
<1>3. c \in Row(n) /\ \A j \in 0 .. n : c[j] = u[j] * p + l[j] * q
  BY <1>1, <1>2 DEF Row
<1>4. PICK a : WeighedTurns(a, n, val, u)
  BY WeighedLoop
<1>5. PICK d : WeighedTurns(d, n, val, l)
  BY WeighedLoop
<1>6. PICK w : WeighedTurns(w, n, val, c)
  BY <1>3, WeighedLoop
<1> DEFINE P == {k \in 0 .. n : w[k] = a[k] * p + d[k] * q}
<1>7. 0 \in P
  <2>1. a[0] = 0 /\ d[0] = 0 /\ w[0] = 0
    BY <1>4, <1>5, <1>6 DEF WeighedTurns
  <2>2. 0 = 0 * p + 0 * q
    OBVIOUS
  <2> QED
    BY <2>1, <2>2
<1>8. ASSUME NEW k \in 0 .. n, k < n, k \in P
      PROVE  k + 1 \in P
  <2>1. k + 1 \in 1 .. n /\ k + 1 \in 0 .. n /\ (k + 1) - 1 = k
    BY <1>8
  <2>2. /\ a[k + 1] = (IF val[k + 1] = 1 THEN a[k] + u[k + 1] ELSE a[k]) /\ a[k] \in Int
        /\ d[k + 1] = (IF val[k + 1] = 1 THEN d[k] + l[k + 1] ELSE d[k]) /\ d[k] \in Int
        /\ w[k + 1] = (IF val[k + 1] = 1 THEN w[k] + c[k + 1] ELSE w[k])
    BY <1>4, <1>5, <1>6, <2>1 DEF WeighedTurns
  <2>3. /\ u[k + 1] \in Int /\ l[k + 1] \in Int /\ c[k + 1] = u[k + 1] * p + l[k + 1] * q
        /\ w[k] = a[k] * p + d[k] * q
    BY <1>1, <1>3, <1>8, <2>1
  <2>4. \A x, y, s, t \in Int : (s * p + t * q) + (x * p + y * q) = (s + x) * p + (t + y) * q
    OBVIOUS
  <2>5. CASE val[k + 1] = 1
    <3>1. w[k + 1] = (a[k] * p + d[k] * q) + (u[k + 1] * p + l[k + 1] * q)
      BY <2>2, <2>3, <2>5
    <3>2. w[k + 1] = (a[k] + u[k + 1]) * p + (d[k] + l[k + 1]) * q
      BY <2>2, <2>3, <2>4, <3>1
    <3> QED
      BY <2>1, <2>2, <2>5, <3>2
  <2>6. CASE val[k + 1] # 1
    BY <2>1, <2>2, <2>3, <2>6
  <2> QED
    BY <2>5, <2>6
<1>9. n \in P
  <2> HIDE DEF P
  <2>1. \A k \in 0 .. n : k \in P
    BY <1>7, <1>8, Counting
  <2> QED
    BY <2>1
<1>10. Weighed(u, val, n) = a[n] /\ Weighed(l, val, n) = d[n] /\ Weighed(c, val, n) = w[n]
  BY <1>4, <1>5, <1>6 DEF WeighedTurns
<1> QED
  BY <1>3, <1>9, <1>10

(* Multiplying an inequality by a positive number keeps it. *)
LEMMA Scaled ==
  ASSUME NEW x \in Int, NEW y \in Int, x <= y, NEW p \in Int, p > 0
  PROVE  x * p <= y * p
OBVIOUS

\* Fourier-Motzkin: what is combined from two rows that hold holds.
LEMMA CombinedHolds ==
  ASSUME NEW n \in Nat, NEW val, NEW u \in Holding(n, val), NEW l \in Holding(n, val),
         NEW v \in 1 .. n, u[v] > 0, l[v] < 0
  PROVE  Combined(u, l, v) \in Holding(n, val)
<1> DEFINE p == -l[v]
           q == u[v]
           c == Combined(u, l, v)
           W(r) == Weighed(r, val, n)
<1>1. u \in Row(n) /\ l \in Row(n) /\ W(u) <= u[0] /\ W(l) <= l[0]
  BY DEF Holding, RowHolds
<1>2. u[v] \in Int /\ l[v] \in Int /\ u[0] \in Int /\ l[0] \in Int /\ W(u) \in Int /\ W(l) \in Int /\ DOMAIN u = 0 .. n
  <2>1. W(u) \in Int /\ W(l) \in Int
    BY <1>1, LowIs
  <2> QED
    BY <1>1, <2>1 DEF Row
<1>3. p \in Int /\ p > 0 /\ q \in Int /\ q > 0
  BY <1>2
<1>4. c = [j \in DOMAIN u |-> u[j] * p + l[j] * q]
  BY DEF Combined
<1> HIDE DEF p, q, c
<1>5. c \in Row(n) /\ W(c) = W(u) * p + W(l) * q
  BY <1>1, <1>3, <1>4, WeighedSum
<1>6. c[0] = u[0] * p + l[0] * q
  <2>1. 0 \in DOMAIN u
    BY <1>2
  <2> QED
    BY <1>4, <2>1
<1> HIDE DEF W
<1>7. W(u) * p <= u[0] * p /\ W(l) * q <= l[0] * q
  BY <1>1, <1>2, <1>3, Scaled
<1>8. W(c) <= c[0]
  <2> DEFINE a1 == W(u) * p
             a2 == u[0] * p
             b1 == W(l) * q
             b2 == l[0] * q
  <2>1. a1 \in Int /\ a2 \in Int /\ b1 \in Int /\ b2 \in Int
    BY <1>2, <1>3
  <2>2. a1 <= a2 /\ b1 <= b2 /\ W(c) = a1 + b1 /\ c[0] = a2 + b2
    BY <1>5, <1>6, <1>7
  <2> HIDE DEF a1, a2, b1, b2
  <2> QED
    BY <2>1, <2>2
<1> QED
  BY <1>5, <1>8 DEF Holding, RowHolds, W, c

(* A list of literals as a row: what it counts is how many of them are true. *)
Trues(c, val) == {j \in DOMAIN c : Value(val, c[j]) = 1}
Negs(c) == {j \in DOMAIN c : c[j] < 0}
PlacesOf(c, x) == {j \in DOMAIN c : c[j] = x}
\* The places of the true variables up to k, without and with a sign.
PlusUpTo(c, val, k)  == {j \in DOMAIN c : c[j] > 0 /\ c[j] <= k /\ val[c[j]] = 1}
MinusUpTo(c, val, k) == {j \in DOMAIN c : c[j] < 0 /\ -c[j] <= k /\ val[-c[j]] = 1}

LEMMA PlaceSets ==
  ASSUME NEW X, NEW c \in Seq(X), NEW S \in SUBSET DOMAIN c
  PROVE  IsFiniteSet(S) /\ Cardinality(S) \in Nat
<1>1. DOMAIN c = 1 .. Len(c) /\ Len(c) \in Nat
  BY InSeq
<1>2. IsFiniteSet(1 .. Len(c))
  BY <1>1, FS_Interval
<1>3. IsFiniteSet(S)
  BY <1>1, <1>2, FS_Subset
<1> QED
  BY <1>3, FS_CardinalityType

(* The size of the union of two disjoint sets. *)
LEMMA ApartCount ==
  ASSUME NEW S, NEW T, IsFiniteSet(S), IsFiniteSet(T), S \cap T = {}
  PROVE  IsFiniteSet(S \cup T) /\ Cardinality(S \cup T) = Cardinality(S) + Cardinality(T)
<1>1. Cardinality(S) \in Nat /\ Cardinality(T) \in Nat /\ Cardinality(S \cap T) = 0
  BY FS_CardinalityType, FS_EmptySet
<1>2. /\ IsFiniteSet(S \cup T)
      /\ Cardinality(S \cup T) = Cardinality(S) + Cardinality(T) - Cardinality(S \cap T)
  BY FS_Union
<1> QED
  BY <1>1, <1>2

(* The entries of the row of an at-most-one constraint. *)
LEMMA RowTyped ==
  ASSUME NEW n \in Nat, NEW c \in Seq(Literals(n))
  PROVE  /\ AtMostOne(c, n) \in Row(n) /\ AtMostOne(c, n)[0] = 1 - Cardinality(Negs(c))
         /\ \A v \in 1 .. n : AtMostOne(c, n)[v] = Cardinality(PlacesOf(c, v)) - Cardinality(PlacesOf(c, -v))
<1> DEFINE r == AtMostOne(c, n)
<1>1. r = [v \in 0 .. n |-> IF v = 0 THEN 1 - Cardinality(Negs(c))
                            ELSE Cardinality(PlacesOf(c, v)) - Cardinality(PlacesOf(c, -v))]
  BY DEF AtMostOne, Negs, Count, PlacesOf
<1>2. Cardinality(Negs(c)) \in Nat /\ \A x : Cardinality(PlacesOf(c, x)) \in Nat
  <2>1. Negs(c) \in SUBSET DOMAIN c /\ \A x : PlacesOf(c, x) \in SUBSET DOMAIN c
    BY DEF Negs, PlacesOf
  <2> QED
    BY <2>1, PlaceSets
<1> HIDE DEF r
<1>3. \A v \in 1 .. n : v \in 0 .. n /\ v # 0
  OBVIOUS
<1>4. r \in Row(n)
  BY <1>1, <1>2 DEF Row
<1> QED
  BY <1>1, <1>3, <1>4 DEF r

(* Its left side counts the true literals. *)
LEMMA RowCounts ==
  ASSUME NEW n \in Nat, NEW val \in Total(n), NEW c \in Seq(Literals(n))
  PROVE  Weighed(AtMostOne(c, n), val, n) = Cardinality(Trues(c, val)) - Cardinality(Negs(c))
<1> DEFINE r == AtMostOne(c, n)
           plus(k) == PlusUpTo(c, val, k)
           minus(k) == MinusUpTo(c, val, k)
<1>1. r \in Row(n) /\ \A v \in 1 .. n : r[v] = Cardinality(PlacesOf(c, v)) - Cardinality(PlacesOf(c, -v))
  BY RowTyped
<1> HIDE DEF r
<1>2. PICK w : WeighedTurns(w, n, val, r)
  BY <1>1, WeighedLoop
<1>3. \A j \in DOMAIN c : c[j] \in Literals(n) /\ c[j] \in Int /\ c[j] # 0 /\ -c[j] <= n /\ c[j] <= n
  <2>1. \A j \in DOMAIN c : c[j] \in Literals(n)
    BY InSeq
  <2> QED
    BY <2>1 DEF Literals
<1>4. ASSUME NEW k
      PROVE  /\ IsFiniteSet(plus(k)) /\ Cardinality(plus(k)) \in Nat /\ IsFiniteSet(minus(k)) /\ Cardinality(minus(k)) \in Nat
             /\ IsFiniteSet(PlacesOf(c, k)) /\ Cardinality(PlacesOf(c, k)) \in Nat
  <2>1. plus(k) \in SUBSET DOMAIN c /\ minus(k) \in SUBSET DOMAIN c /\ PlacesOf(c, k) \in SUBSET DOMAIN c
    BY DEF PlusUpTo, MinusUpTo, PlacesOf
  <2> HIDE DEF plus, minus
  <2> QED
    BY <2>1, PlaceSets
<1> DEFINE P == {k \in 0 .. n : w[k] = Cardinality(plus(k)) - Cardinality(minus(k))}
<1>5. 0 \in P
  <2>1. plus(0) = {} /\ minus(0) = {}
    BY <1>3 DEF PlusUpTo, MinusUpTo
  <2>2. w[0] = 0
    BY <1>2 DEF WeighedTurns
  <2> HIDE DEF plus, minus
  <2>3. Cardinality(plus(0)) = 0 /\ Cardinality(minus(0)) = 0
    BY <2>1, FS_EmptySet
  <2>4. w[0] = Cardinality(plus(0)) - Cardinality(minus(0))
    BY <2>2, <2>3
  <2> QED
    BY <2>4
<1>6. ASSUME NEW k \in 0 .. n, k < n, k \in P
      PROVE  k + 1 \in P
  <2> DEFINE v == k + 1
  <2>1. v \in 1 .. n /\ v \in 0 .. n /\ v - 1 = k
    BY <1>6
  <2>2. w[v] = (IF val[v] = 1 THEN w[k] + r[v] ELSE w[k]) /\ r[v] = Cardinality(PlacesOf(c, v)) - Cardinality(PlacesOf(c, -v))
    BY <1>1, <1>2, <2>1 DEF WeighedTurns
  <2>3. w[k] = Cardinality(plus(k)) - Cardinality(minus(k))
    BY <1>6
  <2>4. CASE val[v] = 1
    <3>1. plus(v) = plus(k) \cup PlacesOf(c, v) /\ plus(k) \cap PlacesOf(c, v) = {}
      BY <1>3, <2>1, <2>4 DEF PlusUpTo, PlacesOf
    <3>2. minus(v) = minus(k) \cup PlacesOf(c, -v) /\ minus(k) \cap PlacesOf(c, -v) = {}
      BY <1>3, <2>1, <2>4 DEF MinusUpTo, PlacesOf
    <3> HIDE DEF plus, minus, v
    <3>3. /\ Cardinality(plus(v)) = Cardinality(plus(k)) + Cardinality(PlacesOf(c, v))
          /\ Cardinality(minus(v)) = Cardinality(minus(k)) + Cardinality(PlacesOf(c, -v))
      BY <1>4, <3>1, <3>2, ApartCount
    <3>4. w[v] = Cardinality(plus(v)) - Cardinality(minus(v))
      BY <1>4, <2>2, <2>3, <2>4, <3>3
    <3> QED
      BY <2>1, <3>4 DEF v
  <2>5. CASE val[v] # 1
    <3>1. plus(v) = plus(k)
      BY <1>3, <2>1, <2>5 DEF PlusUpTo
    <3>2. minus(v) = minus(k)
      BY <1>3, <2>1, <2>5 DEF MinusUpTo
    <3> HIDE DEF plus, minus, v
    <3>3. w[v] = Cardinality(plus(v)) - Cardinality(minus(v))
      BY <2>2, <2>3, <2>5, <3>1, <3>2
    <3> QED
      BY <2>1, <3>3 DEF v
  <2> QED
    BY <2>4, <2>5
<1>7. n \in P
  <2> HIDE DEF P
  <2>1. \A k \in 0 .. n : k \in P
    BY <1>5, <1>6, Counting
  <2> QED
    BY <2>1
<1>8. Weighed(r, val, n) = Cardinality(plus(n)) - Cardinality(minus(n))
  BY <1>2, <1>7 DEF WeighedTurns
<1> DEFINE open == Negs(c) \ minus(n)
<1>9. Trues(c, val) = plus(n) \cup open /\ plus(n) \cap open = {} /\ Negs(c) = minus(n) \cup open /\ minus(n) \cap open = {}
  <2>1. ASSUME NEW j \in DOMAIN c
        PROVE  /\ c[j] > 0 => (Value(val, c[j]) = 1 <=> val[c[j]] = 1)
               /\ c[j] < 0 => (Value(val, c[j]) = 1 <=> val[-c[j]] # 1)
    <3>1. c[j] \in Literals(n) /\ c[j] \in Int /\ c[j] # 0
      BY <1>3
    <3>2. Value(val, c[j]) \in {-1, 1} /\ val[Abs(c[j])] \in {-1, 1}
      BY <3>1, TotalValue
    <3> QED
      BY <3>1, <3>2 DEF Value, Abs, pnsign
  <2> QED
    BY <1>3, <2>1 DEF Trues, Negs, PlusUpTo, MinusUpTo
<1>10. IsFiniteSet(open) /\ Cardinality(open) \in Nat
  <2>1. open \in SUBSET DOMAIN c
    BY DEF Negs
  <2> HIDE DEF open
  <2> QED
    BY <2>1, PlaceSets
<1> HIDE DEF open, plus, minus
<1>11. /\ Cardinality(Trues(c, val)) = Cardinality(plus(n)) + Cardinality(open)
       /\ Cardinality(Negs(c)) = Cardinality(minus(n)) + Cardinality(open)
  BY <1>4, <1>9, <1>10, ApartCount
<1>12. /\ Cardinality(plus(n)) \in Nat /\ Cardinality(minus(n)) \in Nat
  BY <1>4
<1> QED
  BY <1>8, <1>10, <1>11, <1>12 DEF r

(* How many literals of a constraint or of a clause are true. *)
LEMMA TrueCount ==
  ASSUME NEW n \in Nat, NEW val, NEW c \in Seq(Literals(n))
  PROVE  /\ Cardinality(Trues(c, val)) \in Nat /\ Cardinality(Negs(c)) \in Nat
         /\ AtMost(val, c) => Cardinality(Trues(c, val)) <= 1
         /\ Satisfies(val, c) => Cardinality(Trues(c, val)) >= 1
<1> DEFINE T == Trues(c, val)
<1>1. T \in SUBSET DOMAIN c /\ Negs(c) \in SUBSET DOMAIN c
  BY DEF Trues, Negs
<1>2. AtMost(val, c) => T = {} \/ \E x : T = {x}
  <2> SUFFICES ASSUME AtMost(val, c), T # {}
               PROVE  \E x : T = {x}
    OBVIOUS
  <2>1. PICK x : x \in T
    OBVIOUS
  <2>2. T = {x}
    BY <2>1 DEF AtMost, Trues
  <2> QED
    BY <2>2
<1>3. Satisfies(val, c) => T # {}
  <2>1. \A l \in ToSet(c) : \E j \in DOMAIN c : c[j] = l
    BY InSeq
  <2> QED
    BY <2>1 DEF Satisfies, Trues
<1> HIDE DEF T
<1>4. IsFiniteSet(T) /\ Cardinality(T) \in Nat /\ Cardinality(Negs(c)) \in Nat
  BY <1>1, PlaceSets
<1>5. AtMost(val, c) => Cardinality(T) <= 1
  <2>1. T = {} => Cardinality(T) = 0
    BY FS_EmptySet
  <2>2. (\E x : T = {x}) => Cardinality(T) = 1
    BY FS_Singleton
  <2>3. AtMost(val, c) => Cardinality(T) = 0 \/ Cardinality(T) = 1
    BY <1>2, <2>1, <2>2
  <2> HIDE DEF AtMost
  <2> QED
    BY <2>3
<1>6. Satisfies(val, c) => Cardinality(T) >= 1
  BY <1>3, <1>4, FS_EmptySet
<1> QED
  BY <1>4, <1>5, <1>6 DEF T

(* A constraint that holds gives a row that is fulfilled. *)
LEMMA AtMostHolds ==
  ASSUME NEW n \in Nat, NEW val \in Total(n), NEW c \in Cards(n, val)
  PROVE  AtMostOne(c, n) \in Holding(n, val)
<1>1. c \in Seq(Literals(n)) /\ AtMost(val, c)
  BY DEF Cards
<1>2. AtMostOne(c, n) \in Row(n) /\ AtMostOne(c, n)[0] = 1 - Cardinality(Negs(c))
  BY <1>1, RowTyped
<1>3. Weighed(AtMostOne(c, n), val, n) = Cardinality(Trues(c, val)) - Cardinality(Negs(c))
  BY <1>1, RowCounts
<1>4. Cardinality(Trues(c, val)) \in Nat /\ Cardinality(Negs(c)) \in Nat /\ Cardinality(Trues(c, val)) <= 1
  BY <1>1, TrueCount
<1> QED
  BY <1>2, <1>3, <1>4 DEF Holding, RowHolds

(* A clause that holds gives a row that is fulfilled. *)
LEMMA AtLeastHolds ==
  ASSUME NEW n \in Nat, NEW val \in Total(n), NEW c \in Seq(Literals(n)), Satisfies(val, c)
  PROVE  AtLeastOne(c, n) \in Holding(n, val)
<1> DEFINE r == AtMostOne(c, n)
           s == AtLeastOne(c, n)
<1>1. r \in Row(n) /\ r[0] = 1 - Cardinality(Negs(c))
  BY RowTyped
<1>2. Weighed(r, val, n) = Cardinality(Trues(c, val)) - Cardinality(Negs(c))
  BY RowCounts
<1>3. Cardinality(Trues(c, val)) \in Nat /\ Cardinality(Negs(c)) \in Nat /\ Cardinality(Trues(c, val)) >= 1
  BY TrueCount
<1>4. s = [v \in DOMAIN r |-> -r[v]]
  BY DEF AtLeastOne
<1> HIDE DEF r, s
<1>5. DOMAIN r = 0 .. n /\ \A v \in 0 .. n : r[v] \in Int
  BY <1>1 DEF Row
<1>6. PICK p, q \in Int : p = -1 /\ q = 0
  OBVIOUS
<1>7. s = [j \in DOMAIN r |-> r[j] * p + r[j] * q]
  <2>1. \A v \in DOMAIN r : -r[v] = r[v] * p + r[v] * q
    BY <1>5, <1>6
  <2> QED
    BY <1>4, <2>1
<1>8. s \in Row(n) /\ Weighed(s, val, n) = Weighed(r, val, n) * p + Weighed(r, val, n) * q
  BY <1>1, <1>7, WeighedSum
<1>9. s[0] = -r[0]
  BY <1>4, <1>5
<1>10. Weighed(s, val, n) = -Weighed(r, val, n)
  <2>1. Weighed(r, val, n) \in Int
    BY <1>2, <1>3
  <2> QED
    BY <1>6, <1>8, <2>1
<1>11. Weighed(s, val, n) <= s[0]
  BY <1>1, <1>2, <1>3, <1>9, <1>10
<1> QED
  BY <1>8, <1>11 DEF Holding, RowHolds, s

-------------------------------------------------------------------------------
(* The order of elimination is one of all the variables. *)
\* A strict order of 1 .. n: every place is taken.
Strict(n, B) == /\ \A v \in 1 .. n : <<v, v>> \notin B
                /\ \A u, v, w \in 1 .. n : <<u, v>> \in B /\ <<v, w>> \in B => <<u, w>> \in B
                /\ \A v, w \in 1 .. n : v # w => <<v, w>> \in B \/ <<w, v>> \in B
Below(n, B, v) == {w \in 1 .. n : <<w, v>> \in B}

LEMMA EveryPlace ==
  ASSUME NEW n \in Nat, NEW B, Strict(n, B), NEW k \in 0 .. n - 1
  PROVE  \E v \in 1 .. n : Cardinality(Below(n, B, v)) = k
<1> DEFINE below(v) == Below(n, B, v)
           place == [v \in 1 .. n |-> Cardinality(below(v))]
           V == 1 .. n
<1>1. IsFiniteSet(V) /\ Cardinality(V) = n
  BY FS_Interval
<1>2. ASSUME NEW v \in V
      PROVE  IsFiniteSet(below(v)) /\ Cardinality(below(v)) \in 0 .. n - 1
  <2> DEFINE U == V \ {v}
  <2>1. IsFiniteSet(U) /\ Cardinality(U) = n - 1
    <3> HIDE DEF V
    <3> QED
      BY <1>1, <1>2, FS_RemoveElement
  <2>2. below(v) \in SUBSET U
    BY DEF Below, Strict
  <2> HIDE DEF U, below
  <2>3. IsFiniteSet(below(v)) /\ Cardinality(below(v)) <= n - 1
    BY <2>1, <2>2, FS_Subset
  <2>4. Cardinality(below(v)) \in Nat
    BY <2>3, FS_CardinalityType
  <2> QED
    BY <2>3, <2>4
<1>3. ASSUME NEW v \in V, NEW w \in V, <<v, w>> \in B
      PROVE  Cardinality(below(v)) # Cardinality(below(w))
  <2>1. below(v) \in SUBSET below(w)
    BY <1>3 DEF Below, Strict
  <2>2. v \in below(w) /\ v \notin below(v)
    BY <1>3 DEF Below, Strict
  <2> HIDE DEF below
  <2>3. Cardinality(below(w)) = Cardinality(below(v)) => below(w) = below(v)
    BY <1>2, <2>1, FS_Subset
  <2> QED
    BY <2>2, <2>3
<1> DEFINE T == 0 .. n - 1
<1>4. IsFiniteSet(T) /\ Cardinality(T) = n
  BY FS_Interval
<1>5. place \in [V -> T]
  <2> HIDE DEF below, T, V
  <2>1. \A v \in V : Cardinality(below(v)) \in T
    BY <1>2 DEF T
  <2> QED
    BY <2>1 DEF V
<1>6. \A v, w \in V : place[v] = place[w] => v = w
  <2> SUFFICES ASSUME NEW v \in V, NEW w \in V, place[v] = place[w], v # w
               PROVE  FALSE
    OBVIOUS
  <2>1. place[v] = Cardinality(below(v)) /\ place[w] = Cardinality(below(w))
    OBVIOUS
  <2>2. <<v, w>> \in B \/ <<w, v>> \in B
    BY DEF Strict
  <2> HIDE DEF place, below
  <2> QED
    BY <1>3, <2>1, <2>2
<1>7. \A v \in V : place[v] = Cardinality(below(v))
  OBVIOUS
<1> HIDE DEF place, below, V, T
<1>8. place \in Injection(V, T)
  BY <1>5, <1>6 DEF Injection, IsInjective
<1>9. place \in Surjection(V, T)
  BY <1>1, <1>4, <1>8, FS_Injection
<1>10. PICK v \in V : place[v] = k
  BY <1>9 DEF Surjection, T
<1> QED
  BY <1>7, <1>10 DEF V, below

(* The sum of the rows' sizes is a number. *)
LEMMA TotalSize ==
  ASSUME NEW S, IsFiniteSet(S), NEW size, \A k \in S : size[k] \in Nat
  PROVE  Cardinality(UNION {{k} \X (1 .. size[k]) : k \in S}) \in Nat
<1> DEFINE f == [k \in S |-> {k} \X (1 .. size[k])]
           T == {{k} \X (1 .. size[k]) : k \in S}
<1>1. f \in Surjection(S, T)
  BY DEF Surjection
<1>2. \A k \in S : IsFiniteSet({k} \X (1 .. size[k]))
  <2> TAKE k \in S
  <2>1. IsFiniteSet({k})
    BY FS_Singleton
  <2>2. size[k] \in Int /\ 1 \in Int
    OBVIOUS
  <2>3. IsFiniteSet(1 .. size[k])
    BY <2>2, FS_Interval
  <2> QED
    BY <2>1, <2>3, FS_Product
<1>3. \A t \in T : IsFiniteSet(t)
  BY <1>2
<1> HIDE DEF f, T
<1>4. IsFiniteSet(T)
  BY <1>1, FS_Surjection
<1>5. IsFiniteSet(UNION T)
  BY <1>3, <1>4, FS_UNION
<1>6. Cardinality(UNION T) \in Nat
  BY <1>5, FS_CardinalityType
<1> QED
  BY <1>6 DEF T

(* The order of elimination lists variables. *)
LEMMA OrderedIs ==
  ASSUME NEW n \in Nat, NEW mat \in Seq(Row(n)), NEW size, \A k \in DOMAIN mat : size[k] \in Nat
  PROVE  Ordered(mat, size, n) \in Seq(1 .. n)
<1> DEFINE upp(v) == {k \in DOMAIN mat : mat[k][v] > 0}
           low(v) == {k \in DOMAIN mat : mat[k][v] < 0}
           total(S) == Cardinality(UNION {{k} \X (1 .. size[k]) : k \in S})
           score1 == [v \in 1 .. n |-> Cardinality(upp(v)) * Cardinality(low(v))]
           score2 == [v \in 1 .. n |-> total(upp(v)) * total(low(v))]
           before(v, w) == \/ score1[v] < score1[w]
                           \/ score1[v] = score1[w] /\ score2[v] < score2[w]
                           \/ score1[v] = score1[w] /\ score2[v] = score2[w] /\ v < w
           place(v) == Cardinality({w \in 1 .. n : before(w, v)})
           e(k) == CHOOSE v \in 1 .. n : place(v) = k - 1
           B == {p \in (1 .. n) \X (1 .. n) : before(p[1], p[2])}
<1>1. Ordered(mat, size, n) = [k \in 1 .. n |-> e(k)]
  BY DEF Ordered
<1>2. \A v : /\ IsFiniteSet(upp(v)) /\ Cardinality(upp(v)) \in Nat
             /\ IsFiniteSet(low(v)) /\ Cardinality(low(v)) \in Nat
  <2> TAKE v
  <2>1. upp(v) \in SUBSET DOMAIN mat /\ low(v) \in SUBSET DOMAIN mat
    OBVIOUS
  <2> HIDE DEF upp, low
  <2> QED
    BY <2>1, PlaceSets
<1>3. \A v : total(upp(v)) \in Nat /\ total(low(v)) \in Nat
  <2> TAKE v
  <2>1. (\A k \in upp(v) : size[k] \in Nat) /\ (\A k \in low(v) : size[k] \in Nat)
    OBVIOUS
  <2> HIDE DEF upp, low
  <2> QED
    BY <1>2, <2>1, TotalSize, SMTT(30)
<1> HIDE DEF upp, low, total
<1>4. \A v \in 1 .. n : score1[v] \in Int /\ score2[v] \in Int
  BY <1>2, <1>3
<1> HIDE DEF score1, score2
<1>5. \A v, w \in 1 .. n : <<v, w>> \in B <=> before(v, w)
  OBVIOUS
<1> HIDE DEF B
<1>6. Strict(n, B)
  <2>1. \A v \in 1 .. n : ~before(v, v)
    BY <1>4
  <2>2. \A u, v, w \in 1 .. n : before(u, v) /\ before(v, w) => before(u, w)
    BY <1>4
  <2>3. \A v, w \in 1 .. n : v # w => before(v, w) \/ before(w, v)
    BY <1>4
  <2> HIDE DEF before
  <2> QED
    BY <1>5, <2>1, <2>2, <2>3 DEF Strict
<1>7. \A v \in 1 .. n : place(v) = Cardinality(Below(n, B, v))
  <2> HIDE DEF before
  <2> TAKE v \in 1 .. n
  <2>1. {w \in 1 .. n : before(w, v)} = Below(n, B, v)
    BY <1>5 DEF Below
  <2> QED
    BY <2>1
<1> HIDE DEF place
<1>8. \A k \in 1 .. n : e(k) \in 1 .. n
  <2> TAKE k \in 1 .. n
  <2>1. k - 1 \in 0 .. n - 1
    OBVIOUS
  <2>2. \E v \in 1 .. n : place(v) = k - 1
    BY <1>6, <1>7, <2>1, EveryPlace
  <2> QED
    BY <2>2
<1> DEFINE X == 1 .. n
<1>9. \A k \in 1 .. n : e(k) \in X
  BY <1>8
<1> HIDE DEF e, X
<1>10. [k \in 1 .. n |-> e(k)] \in Seq(X)
  BY <1>9, IsASeq
<1> QED
  BY <1>1, <1>10 DEF X

-------------------------------------------------------------------------------
(* card_elimination: every row made holds, so no contradiction is found. *)
Eliminating(n, val) == [mat : Seq(Holding(n, val)), made : Nat, res : {"open", "full"}]

LEMMA EliminateIs ==
  ASSUME NEW n \in Nat, NEW val, NEW st \in Eliminating(n, val), NEW v \in 1 .. n
  PROVE  Eliminate(st, v, n) \in Eliminating(n, val)
<1> DEFINE X == Holding(n, val)
           U == {k \in DOMAIN st.mat : st.mat[k][v] > 0}
           L == {k \in DOMAIN st.mat : st.mat[k][v] < 0}
           Z == {k \in DOMAIN st.mat : st.mat[k][v] = 0}
           upp == Pick(st.mat, U)
           low == Pick(st.mat, L)
           e(u, l) == Combined(upp[u], low[l], v)
           f(u) == [l \in 1 .. Len(low) |-> e(u, l)]
           ss == [u \in 1 .. Len(upp) |-> f(u)]
           new == Flat(ss)
           K == {k \in DOMAIN new : ~Useless(new[k])}
           kept == Pick(new, K)
<1>1. st.mat \in Seq(X) /\ st.made \in Nat /\ st.res \in {"open", "full"}
  BY DEF Eliminating
<1>2. /\ upp \in Seq(X) /\ \A x : x \in ToSet(upp) <=> \E k \in DOMAIN st.mat : k \in U /\ st.mat[k] = x
      /\ low \in Seq(X) /\ \A x : x \in ToSet(low) <=> \E k \in DOMAIN st.mat : k \in L /\ st.mat[k] = x
  <2> HIDE DEF U, L, X
  <2> QED
    BY <1>1, PickIs
<1> HIDE DEF upp, low
<1>3. /\ Len(upp) \in Nat /\ DOMAIN upp = 1 .. Len(upp) /\ Len(low) \in Nat /\ DOMAIN low = 1 .. Len(low)
      /\ \A u \in 1 .. Len(upp) : upp[u] \in X /\ upp[u] \in ToSet(upp)
      /\ \A l \in 1 .. Len(low) : low[l] \in X /\ low[l] \in ToSet(low)
  <2> HIDE DEF X
  <2> QED
    BY <1>2, InSeq
<1>4. \A u \in 1 .. Len(upp), l \in 1 .. Len(low) : e(u, l) \in X
  <2> TAKE u \in 1 .. Len(upp), l \in 1 .. Len(low)
  <2>1. upp[u][v] > 0
    BY <1>2, <1>3
  <2>2. low[l][v] < 0
    BY <1>2, <1>3
  <2> QED
    BY <1>3, <2>1, <2>2, CombinedHolds
<1>5. Eliminate(st, v, n) =
        IF st.res # "open" THEN st
        ELSE IF TooLarge(st.made + Len(upp) * Len(low), n) \/ st.made > Rows THEN [st EXCEPT !.res = "full"]
        ELSE IF \E k \in DOMAIN new : Wrong(new[k]) THEN [st EXCEPT !.res = "wrong"]
        ELSE [st EXCEPT !.mat = Pick(@, Z) \o kept, !.made = @ + Len(kept)]
  BY <1>3 DEF Eliminate, Kept, upp, low
<1> HIDE DEF e, X, U, L
<1>6. \A u \in 1 .. Len(upp) : f(u) \in Seq(X)
  BY <1>3, <1>4, IsASeq
<1> DEFINE Y == Seq(X)
<1> HIDE DEF f, Y
<1>7. \A u \in 1 .. Len(upp) : f(u) \in Y
  BY <1>6 DEF Y
<1>8. ss \in Seq(Y)
  BY <1>3, <1>7, IsASeq
<1> HIDE DEF ss
<1>9. new \in Seq(X)
  BY <1>8, FlatIs DEF Y
<1> HIDE DEF new, Z, K
<1>10. kept \in Seq(X) /\ Pick(st.mat, Z) \in Seq(X)
  BY <1>1, <1>9, PickIs
<1> HIDE DEF kept
<1>11. Len(kept) \in Nat /\ Pick(st.mat, Z) \o kept \in Seq(X)
  BY <1>10, InSeq, ConcatIs
<1>12. \A k \in DOMAIN new : ~Wrong(new[k])
  <2>1. \A k \in DOMAIN new : new[k] \in X
    BY <1>9, InSeq
  <2> QED
    BY <2>1, NotWrong DEF X
<1>13. [st EXCEPT !.res = "full"] \in Eliminating(n, val)
  BY <1>1 DEF Eliminating
<1>14. [st EXCEPT !.mat = Pick(@, Z) \o kept, !.made = @ + Len(kept)] \in Eliminating(n, val)
  <2>1. Eliminating(n, val) = [mat : Seq(X), made : Nat, res : {"open", "full"}]
    BY DEF Eliminating, X
  <2>2. st \in [mat : Seq(X), made : Nat, res : {"open", "full"}]
    BY <2>1
  <2>3. st.made + Len(kept) \in Nat
    BY <1>1, <1>11
  <2> QED
    BY <1>11, <2>1, <2>2, <2>3
<1> QED
  BY <1>5, <1>12, <1>13, <1>14

(* The elimination, variable by variable. *)
EliminationTurns(a, n, val, mat, order) ==
  /\ AfterElimination(mat, order, n) = a[Len(order)] /\ a[0] = [mat |-> mat, made |-> Len(mat), res |-> "open"]
  /\ \A k \in 0 .. Len(order) : a[k] \in Eliminating(n, val)
  /\ \A k \in 1 .. Len(order) : a[k] = Eliminate(a[k - 1], order[k], n)

LEMMA EliminationLoop ==
  ASSUME NEW n \in Nat, NEW val, NEW mat \in Seq(Holding(n, val)), NEW order \in Seq(1 .. n)
  PROVE  \E a : EliminationTurns(a, n, val, mat, order)
<1> DEFINE M == Len(order)
           V == Eliminating(n, val)
           v == [mat |-> mat, made |-> Len(mat), res |-> "open"]
           Turn(x, k) == Eliminate(x, order[k], n)
           Loop(g) == [k \in 0 .. M |-> IF k = 0 THEN v ELSE Turn(g[k - 1], k)]
           a == CHOOSE g : g = Loop(g)
<1>1. AfterElimination(mat, order, n) = a[M]
  BY DEF AfterElimination, Looped
<1>2. M \in Nat
  BY InSeq
<1>3. v \in V /\ \A x \in V : \A k \in 1 .. M : Turn(x, k) \in V
  <2>1. v \in V
    <3> DEFINE X == Holding(n, val)
    <3>1. mat \in Seq(X)
      OBVIOUS
    <3> HIDE DEF X
    <3>2. Len(mat) \in Nat
      BY <3>1, InSeq
    <3> QED
      BY <3>1, <3>2 DEF Eliminating, X
  <2>2. \A k \in 1 .. Len(order) : order[k] \in 1 .. n
    BY InSeq
  <2> QED
    BY <2>1, <2>2, EliminateIs
<1>4. a[0] = v /\ (\A k \in 0 .. M : a[k] \in V) /\ (\A k \in 1 .. M : a[k] = Turn(a[k - 1], k))
  <2> DEFINE step == [kx \in (1 .. M) \X V |-> Turn(kx[2], kx[1])]
  <2>1. \A kx \in (1 .. M) \X V : Turn(kx[2], kx[1]) \in V
    <3> HIDE DEF Turn, M, V
    <3> QED
      BY <1>3
  <2>2. IsStep(M, V, step) /\ \A k \in 1 .. M : \A x \in V : step[<<k, x>>] = Turn(x, k)
    <3> HIDE DEF Turn, M, V
    <3> QED
      BY <2>1 DEF IsStep
  <2> HIDE DEF step, M, V, v, Turn
  <2>3. PICK f \in [0 .. M -> V] : f[0] = v /\ \A k \in 1 .. M : f[k] = step[<<k, f[k - 1]>>]
    <3>1. IsDefined(M, V, v, step)
      BY <1>2, <1>3, <2>2, Recursion
    <3> QED
      BY <3>1 DEF IsDefined
  <2>4. \A k \in 1 .. M : f[k] = Turn(f[k - 1], k)
    <3>1. \A k \in 1 .. M : k - 1 \in 0 .. M
      BY <1>2
    <3> QED
      BY <2>2, <2>3, <3>1
  <2>5. f = Loop(f)
    BY <1>2, <2>3, <2>4
  <2>6. a = Loop(a)
    BY <2>5
  <2> HIDE DEF a
  <2>7. a[0] = v /\ \A k \in 1 .. M : a[k] = Turn(a[k - 1], k)
    BY <1>2, <2>6
  <2> DEFINE P == {k \in 0 .. M : a[k] \in V}
  <2>8. 0 \in P
    BY <1>2, <1>3, <2>7
  <2>9. ASSUME NEW j \in 0 .. M, j < M, j \in P
        PROVE  j + 1 \in P
    <3>1. j + 1 \in 1 .. M /\ j + 1 \in 0 .. M /\ (j + 1) - 1 = j /\ a[j] \in V
      BY <1>2, <2>9
    <3> QED
      BY <1>3, <2>7, <3>1
  <2> HIDE DEF P
  <2>10. \A j \in 0 .. M : j \in P
    BY <1>2, <2>8, <2>9, Counting
  <2> QED
    BY <2>7, <2>10 DEF P
<1>5. EliminationTurns(a, n, val, mat, order)
  <2> HIDE DEF a
  <2> QED
    BY <1>1, <1>4 DEF EliminationTurns
<1> QED
  BY <1>5

(* A formula with a model is not refuted by the elimination. *)
LEMMA EliminationIs ==
  ASSUME NEW n \in Nat, NEW val \in Total(n), NEW one \in Seq(Cards(n, val)), NEW cs \in Clauses(n), All(val, cs)
  PROVE  card_elimination(one, cs, n)
<1> DEFINE X == Holding(n, val)
           a(k) == AtMostOne(one[k], n)
           d(k) == AtLeastOne(cs[k], n)
           rows == [k \in 1 .. Len(one) |-> a(k)]
           more == [k \in 1 .. Len(cs) |-> d(k)]
           mat == rows \o more
           size == Mapped(Len, one \o cs)
           order == Ordered(mat, size, n)
<1>1. /\ Len(one) \in Nat /\ DOMAIN one = 1 .. Len(one)
      /\ \A k \in 1 .. Len(one) : one[k] \in Cards(n, val) /\ one[k] \in Seq(Literals(n))
  <2> DEFINE C == Cards(n, val)
  <2>1. \A c \in C : c \in Seq(Literals(n))
    BY DEF Cards
  <2> HIDE DEF C
  <2>2. Len(one) \in Nat /\ DOMAIN one = 1 .. Len(one) /\ \A k \in DOMAIN one : one[k] \in C
    BY InSeq DEF C
  <2> QED
    BY <2>1, <2>2 DEF C
<1>2. /\ Len(cs) \in Nat /\ DOMAIN cs = 1 .. Len(cs)
      /\ \A k \in 1 .. Len(cs) : cs[k] \in Seq(Literals(n)) /\ Satisfies(val, cs[k])
  BY InClauses DEF All
<1>3. /\ \A k \in 1 .. Len(one) : a(k) \in X
      /\ \A k \in 1 .. Len(cs) : d(k) \in X
  BY <1>1, <1>2, AtMostHolds, AtLeastHolds
<1>4. Mapped(LAMBDA c : AtMostOne(c, n), one) = rows /\ Mapped(LAMBDA c : AtLeastOne(c, n), cs) = more
  BY <1>1, <1>2 DEF Mapped
<1>5. card_elimination(one, cs, n) <=> AfterElimination(mat, order, n).res # "wrong"
  BY <1>4 DEF card_elimination
<1> HIDE DEF X, a, d
<1>6. rows \in Seq(X) /\ more \in Seq(X) /\ Len(rows) = Len(one) /\ Len(more) = Len(cs)
  BY <1>1, <1>2, <1>3, IsASeq
<1> HIDE DEF rows, more
<1>7. mat \in Seq(X) /\ DOMAIN mat = 1 .. Len(one) + Len(cs)
  <2>1. rows \o more \in Seq(X) /\ Len(rows \o more) = Len(rows) + Len(more)
    BY <1>6, ConcatSet
  <2>2. mat \in Seq(X) /\ Len(mat) = Len(one) + Len(cs)
    BY <1>6, <2>1
  <2> HIDE DEF mat
  <2> QED
    BY <2>2, InSeq
<1>8. mat \in Seq(Row(n))
  <2>1. X \subseteq Row(n)
    BY DEF X, Holding
  <2> HIDE DEF mat
  <2> QED
    BY <1>7, <2>1
<1>9. \A k \in DOMAIN mat : size[k] \in Nat
  <2> DEFINE S == Seq(Literals(n))
             both == one \o cs
  <2>1. one \in Seq(S) /\ cs \in Seq(S)
    <3>1. \A k \in 1 .. Len(one) : one[k] \in S
      BY <1>1
    <3>2. Cards(n, val) \subseteq S
      BY DEF Cards
    <3>3. cs \in Seq(S)
      BY DEF Clauses
    <3> HIDE DEF S
    <3> QED
      BY <3>2, <3>3
  <2>2. \A c \in S : Len(c) \in Nat
    OBVIOUS
  <2> HIDE DEF S
  <2>3. both \in Seq(S) /\ DOMAIN both = 1 .. Len(one) + Len(cs)
    BY <2>1, ConcatIs
  <2> HIDE DEF both
  <2>4. \A k \in DOMAIN both : both[k] \in S
    BY <2>3, InSeq
  <2>5. \A k \in DOMAIN both : size[k] = Len(both[k])
    BY DEF Mapped, both
  <2> HIDE DEF size, mat
  <2> QED
    BY <1>7, <2>2, <2>3, <2>4, <2>5
<1> HIDE DEF mat, size
<1>10. order \in Seq(1 .. n)
  BY <1>8, <1>9, OrderedIs
<1> HIDE DEF order
<1>11. PICK e : EliminationTurns(e, n, val, mat, order)
  BY <1>7, <1>10, EliminationLoop DEF X
<1>12. Len(order) \in 0 .. Len(order)
  BY <1>10, InSeq
<1>13. AfterElimination(mat, order, n) \in Eliminating(n, val)
  BY <1>11, <1>12 DEF EliminationTurns
<1> QED
  BY <1>5, <1>13 DEF Eliminating

(* preprocess_card refutes no formula that has a model. *)
LEMMA CardSound ==
  ASSUME NEW n \in Nat, NEW cs \in Clauses(n), NEW val \in Total(n), All(val, cs)
  PROVE  ~CardRefutes(cs, n)
<1> DEFINE found == AlmostOne(cs, n)
           rest == Unused(cs, found.pairs)
           scc == scc_almost_one(found.one, n)
<1>1. found.one \in Seq(Cards(n, val))
  <2>1. found \in Found2(n, val)
    BY AlmostOneIs
  <2> HIDE DEF found
  <2> QED
    BY <2>1 DEF Found2
<1> HIDE DEF found
<1>2. rest \in Clauses(n) /\ All(val, rest)
  BY UnusedIs
<1>3. Survivors(scc) \in Seq(Cards(n, val))
  BY <1>1, SurvivorsAre
<1> HIDE DEF rest, scc
<1>4. card_elimination(Survivors(scc), rest, n)
  BY <1>2, <1>3, EliminationIs
<1>5. ~RefutedBy(scc, rest, n)
  BY <1>4 DEF RefutedBy, Refuted
<1> QED
  BY <1>5 DEF CardRefutes, Tried, found, rest, scc
==============================================================================
