-------------------------- MODULE PreprocessProofs ---------------------------
(***************************************************************************)
(* The preprocessor for any set of inputs: what is true between the passes, *)
(* what the current formula means for the input, that preprocess_binary     *)
(* comes to an end, and that the answers of PRS-distributed are right.      *)
(***************************************************************************)
EXTENDS Preprocess, CardProofs

(***************************************************************************)
(* preprocess_up                                                           *)
(***************************************************************************)
LEMMA SatisfiedBySet ==
  ASSUME NEW c, NEW d, ToSet(c) = ToSet(d), NEW val
  PROVE  Satisfies(val, c) <=> Satisfies(val, d)
BY DEF Satisfies

(* A tautology is satisfied by every assignment. *)
LEMMA TautologyHolds ==
  ASSUME NEW n \in Nat, NEW c \in Seq(Literals(n)), Tautology(c), NEW val \in Total(n)
  PROVE  Satisfies(val, c)
<1>1. PICK l \in ToSet(c) : -l \in ToSet(c)
  BY DEF Tautology
<1>2. l \in Literals(n)
  BY <1>1, InSeq
<1>3. Abs(l) \in 1 .. n /\ Abs(-l) = Abs(l) /\ pnsign(l) \in {-1, 1} /\ pnsign(-l) = -pnsign(l)
  BY <1>2, LiteralFacts
<1>4. val[Abs(l)] \in {-1, 1}
  BY <1>3 DEF Total
<1>5. Value(val, l) = 1 \/ Value(val, -l) = 1
  BY <1>3, <1>4 DEF Value
<1> QED
  BY <1>1, <1>5 DEF Satisfies

(* The clauses as they are read: no literal twice, no tautology, the same models. *)
LEMMA EnteredIs ==
  ASSUME NEW n \in Nat, NEW cs \in Clauses(n)
  PROVE  /\ Entered(cs) \in Clauses(n)
         /\ \A i \in DOMAIN Entered(cs) : IsInjective(Entered(cs)[i]) /\ ~Tautology(Entered(cs)[i])
         /\ \A val \in Total(n) : All(val, cs) <=> All(val, Entered(cs))
<1> DEFINE m == Mapped(Distinct, cs)
           S == {i \in DOMAIN m : ~Tautology(m[i])}
           r == Entered(cs)
<1>1. r = Pick(m, S)
  BY DEF Entered, Kept
<1>2. Len(cs) \in Nat /\ DOMAIN cs = 1 .. Len(cs) /\ \A i \in DOMAIN cs : cs[i] \in Seq(Literals(n))
  BY InClauses
<1>3. m = [i \in 1 .. Len(cs) |-> Distinct(cs[i])]
  BY <1>2 DEF Mapped
<1>4. \A i \in 1 .. Len(cs) : /\ Distinct(cs[i]) \in Seq(Literals(n)) /\ IsInjective(Distinct(cs[i]))
                              /\ ToSet(Distinct(cs[i])) = ToSet(cs[i])
  BY <1>2, DistinctIs
<1>5. m \in Seq(Seq(Literals(n))) /\ DOMAIN m = 1 .. Len(cs) /\ \A i \in 1 .. Len(cs) : m[i] = Distinct(cs[i])
  BY <1>2, <1>3, <1>4, IsASeq
<1> HIDE DEF m, r
<1>6. /\ r \in Seq(Seq(Literals(n)))
      /\ \A x : x \in ToSet(r) <=> \E i \in DOMAIN m : i \in S /\ m[i] = x
  <2> HIDE DEF S
  <2> QED
    BY <1>1, <1>5, PickIs, ZenonT(60)
<1>7. \A x : x \in ToSet(r) <=> \E i \in DOMAIN r : r[i] = x
  BY <1>6, InSeq
<1>8. ASSUME NEW i \in DOMAIN r
      PROVE  \E j \in 1 .. Len(cs) : r[i] = Distinct(cs[j]) /\ ~Tautology(Distinct(cs[j]))
  <2>1. PICK j \in DOMAIN m : j \in S /\ m[j] = r[i]
    BY <1>6, <1>7
  <2> QED
    BY <1>5, <2>1
<1>9. ASSUME NEW j \in 1 .. Len(cs), ~Tautology(Distinct(cs[j]))
      PROVE  \E i \in DOMAIN r : r[i] = Distinct(cs[j])
  <2>1. j \in DOMAIN m /\ j \in S /\ m[j] = Distinct(cs[j])
    BY <1>5, <1>9
  <2>2. m[j] \in ToSet(r)
    BY <1>6, <2>1
  <2> QED
    BY <1>7, <2>1, <2>2
<1>10. ASSUME NEW val \in Total(n)
       PROVE  All(val, cs) <=> All(val, r)
  <2>1. \A j \in 1 .. Len(cs) : Satisfies(val, cs[j]) <=> Satisfies(val, Distinct(cs[j]))
    BY <1>4, SatisfiedBySet
  <2>2. \A j \in 1 .. Len(cs) : Tautology(Distinct(cs[j])) => Satisfies(val, Distinct(cs[j]))
    BY <1>4, TautologyHolds
  <2>3. All(val, cs) => All(val, r)
    BY <1>2, <1>8, <2>1 DEF All
  <2>4. All(val, r) => All(val, cs)
    BY <1>2, <1>9, <2>1, <2>2 DEF All
  <2> QED
    BY <2>3, <2>4
<1> QED
  BY <1>4, <1>6, <1>8, <1>10 DEF r, Clauses

(* A clause without its false literals. *)
LEMMA ReducedIs ==
  ASSUME NEW n \in Nat, NEW c \in Seq(Literals(n)), NEW T
  PROVE  LET r == Reduced(c, T)
         IN  /\ r \in Seq(Literals(n)) /\ Len(r) <= Len(c)
             /\ \A l : l \in ToSet(r) <=> l \in ToSet(c) /\ -l \notin T
             /\ IsInjective(c) => IsInjective(r)
             /\ ~Tautology(c) => ~Tautology(r)
<1> DEFINE S == {i \in DOMAIN c : -c[i] \notin T}
           r == Reduced(c, T)
<1>1. r = Pick(c, S)
  BY DEF Reduced, Kept
<1> HIDE DEF r
<1>2. DOMAIN c = 1 .. Len(c) /\ \A l : l \in ToSet(c) <=> \E i \in DOMAIN c : c[i] = l
  BY InSeq
<1>3. /\ r \in Seq(Literals(n)) /\ Len(r) <= Len(c)
      /\ \A x : x \in ToSet(r) <=> \E i \in DOMAIN c : i \in S /\ c[i] = x
      /\ (\A i, j \in DOMAIN c : i \in S /\ j \in S /\ c[i] = c[j] => i = j) => IsInjective(r)
  <2> HIDE DEF S
  <2> QED
    BY <1>1, PickIs
<1>4. \A l : l \in ToSet(r) <=> l \in ToSet(c) /\ -l \notin T
  BY <1>2, <1>3
<1>5. IsInjective(c) => IsInjective(r)
  BY <1>3 DEF IsInjective
<1>6. ~Tautology(c) => ~Tautology(r)
  BY <1>4 DEF Tautology
<1> QED
  BY <1>3, <1>4, <1>5, <1>6 DEF r

FixedBy(val, T) == \A l \in T : Value(val, l) = 1

(* A literal left alone by what is set holds in every model. *)
LEMMA UnitsHold ==
  ASSUME NEW n \in Nat, NEW R \in Clauses(n), NEW T \in SUBSET Literals(n)
  PROVE  /\ Units(R, T) \subseteq Literals(n)
         /\ \A val \in Total(n) : All(val, R) /\ FixedBy(val, T) => FixedBy(val, Units(R, T))
<1>1. ASSUME NEW l \in Units(R, T)
      PROVE  \E i \in DOMAIN R : l \in Literals(n) /\ ToSet(Reduced(R[i], T)) = {l}
  <2>1. PICK i \in DOMAIN R : Len(Reduced(R[i], T)) = 1 /\ l = Reduced(R[i], T)[1]
    BY DEF Units
  <2> DEFINE r == Reduced(R[i], T)
  <2>2. r \in Seq(Literals(n))
    BY InClauses, ReducedIs
  <2> HIDE DEF r
  <2>3. Len(r) = 1 /\ l = r[1]
    BY <2>1 DEF r
  <2>4. DOMAIN r = 1 .. 1 /\ (\A i_1 \in DOMAIN r : r[i_1] \in Literals(n)) /\ \A x : x \in ToSet(r) <=> \E k \in 1 .. 1 : r[k] = x
    BY <2>2, <2>3, InSeq
  <2>5. l \in Literals(n)
    BY <2>3, <2>4
  <2>6. \A x : x \in ToSet(r) <=> x = l
    BY <2>3, <2>4
  <2>7. ToSet(r) = {l}
    BY <2>6
  <2> QED
    BY <2>5, <2>7 DEF r
<1>2. ASSUME NEW val \in Total(n), All(val, R), FixedBy(val, T), NEW l \in Units(R, T)
      PROVE  Value(val, l) = 1
  <2>1. PICK i \in DOMAIN R : l \in Literals(n) /\ ToSet(Reduced(R[i], T)) = {l}
    BY <1>1
  <2>2. PICK m \in ToSet(R[i]) : Value(val, m) = 1
    BY <1>2 DEF All, Satisfies
  <2>3. m \in Literals(n) /\ R[i] \in Seq(Literals(n))
    BY InClauses, <2>2
  <2>4. -m \notin T
    BY <1>2, <2>2, <2>3, TotalValue DEF FixedBy
  <2>5. m \in ToSet(Reduced(R[i], T))
    BY <2>2, <2>3, <2>4, ReducedIs
  <2> QED
    BY <2>1, <2>2, <2>5
<1>3. Units(R, T) \subseteq Literals(n)
  BY <1>1
<1> QED
  BY <1>2, <1>3 DEF FixedBy

(* There are 2n literals: a set that has as many is the set of all. *)
LEMMA LiteralCount ==
  ASSUME NEW n \in Nat
  PROVE  /\ IsFiniteSet(Literals(n)) /\ Cardinality(Literals(n)) = 2 * n
         /\ \A T \in SUBSET Literals(n) : /\ IsFiniteSet(T) /\ Cardinality(T) \in Nat
                                          /\ Cardinality(T) >= 2 * n => T = Literals(n)
<1> DEFINE S == -n .. n
<1>1. IsFiniteSet(S) /\ Cardinality(S) = 2 * n + 1
  BY FS_Interval
<1>2. Literals(n) = S \ {0} /\ 0 \in S
  BY DEF Literals
<1>3. IsFiniteSet(Literals(n)) /\ Cardinality(Literals(n)) = 2 * n
  <2> HIDE DEF S
  <2>1. IsFiniteSet(S \ {0}) /\ Cardinality(S \ {0}) = Cardinality(S) - 1
    BY <1>1, <1>2, FS_RemoveElement
  <2> QED
    BY <1>1, <1>2, <2>1
<1>4. ASSUME NEW T \in SUBSET Literals(n)
      PROVE  /\ IsFiniteSet(T) /\ Cardinality(T) \in Nat
             /\ Cardinality(T) >= 2 * n => T = Literals(n)
  <2>1. IsFiniteSet(T) /\ Cardinality(T) \in Nat /\ (Cardinality(T) = Cardinality(Literals(n)) => T = Literals(n))
        /\ Cardinality(T) <= Cardinality(Literals(n))
    BY <1>3, FS_Subset, FS_CardinalityType
  <2> QED
    BY <1>3, <2>1
<1> QED
  BY <1>3, <1>4

(* The turns of the propagation. *)
PropagatedTurns(a, n, R) ==
  /\ Propagated(R, n) = a[2 * n] /\ a[0] = {}
  /\ \A k \in 0 .. 2 * n : a[k] \in SUBSET Literals(n)
  /\ \A k \in 1 .. 2 * n : a[k] = a[k - 1] \cup Units(R, a[k - 1])

LEMMA PropagatedLoop ==
  ASSUME NEW n \in Nat, NEW R \in Clauses(n)
  PROVE  \E a : PropagatedTurns(a, n, R)
<1> DEFINE M == 2 * n
           V == SUBSET Literals(n)
           v == {}
           Turn(x, k) == x \cup Units(R, x)
           Loop(g) == [k \in 0 .. M |-> IF k = 0 THEN v ELSE Turn(g[k - 1], k)]
           a == CHOOSE g : g = Loop(g)
<1>1. Propagated(R, n) = a[M]
  BY DEF Propagated, Looped
<1>2. M \in Nat
  OBVIOUS
<1>3. v \in V /\ \A x \in V : \A k \in 1 .. M : Turn(x, k) \in V
  BY UnitsHold
<1>4. a[0] = v /\ (\A k \in 0 .. M : a[k] \in V) /\ (\A k \in 1 .. M : a[k] = Turn(a[k - 1], k))
  <2> DEFINE step == [kx \in (1 .. M) \X V |-> Turn(kx[2], kx[1])]
  <2>1. \A kx \in (1 .. M) \X V : Turn(kx[2], kx[1]) \in V
    <3> HIDE DEF Turn, M, V
    <3> QED
      BY <1>3
  <2>2. IsStep(M, V, step) /\ \A k \in 1 .. M : \A x \in V : step[<<k, x>>] = Turn(x, k)
    <3> HIDE DEF Turn, M, V
    <3> QED
      BY <2>1 DEF IsStep
  <2> HIDE DEF step, M, V, v, Turn
  <2>3. PICK f \in [0 .. M -> V] : f[0] = v /\ \A k \in 1 .. M : f[k] = step[<<k, f[k - 1]>>]
    <3>1. IsDefined(M, V, v, step)
      BY <1>2, <1>3, <2>2, Recursion
    <3> QED
      BY <3>1 DEF IsDefined
  <2>4. \A k \in 1 .. M : f[k] = Turn(f[k - 1], k)
    <3>1. \A k \in 1 .. M : k - 1 \in 0 .. M
      BY <1>2
    <3> QED
      BY <2>2, <2>3, <3>1
  <2>5. f = Loop(f)
    BY <1>2, <2>3, <2>4
  <2>6. a = Loop(a)
    BY <2>5
  <2> HIDE DEF a
  <2>7. a[0] = v /\ \A k \in 1 .. M : a[k] = Turn(a[k - 1], k)
    BY <1>2, <2>6
  <2> DEFINE P == {k \in 0 .. M : a[k] \in V}
  <2>8. 0 \in P
    BY <1>2, <1>3, <2>7
  <2>9. ASSUME NEW j \in 0 .. M, j < M, j \in P
        PROVE  j + 1 \in P
    <3>1. j + 1 \in 1 .. M /\ j + 1 \in 0 .. M /\ (j + 1) - 1 = j /\ a[j] \in V
      BY <1>2, <2>9
    <3> QED
      BY <1>3, <2>7, <3>1
  <2> HIDE DEF P
  <2>10. \A j \in 0 .. M : j \in P
    BY <1>2, <2>8, <2>9, Counting
  <2> QED
    BY <2>7, <2>10 DEF P
<1>5. PropagatedTurns(a, n, R)
  <2> HIDE DEF a
  <2> QED
    BY <1>1, <1>4 DEF PropagatedTurns
<1> QED
  BY <1>5

(* What is propagated holds in every model, and there is nothing more to propagate. *)
LEMMA PropagatedIs ==
  ASSUME NEW n \in Nat, NEW R \in Clauses(n)
  PROVE  /\ Propagated(R, n) \subseteq Literals(n)
         /\ Units(R, Propagated(R, n)) \subseteq Propagated(R, n)
         /\ \A val \in Total(n) : All(val, R) => FixedBy(val, Propagated(R, n))
<1>1. PICK a : PropagatedTurns(a, n, R)
  BY PropagatedLoop
<1>2. /\ Propagated(R, n) = a[2 * n] /\ a[0] = {}
      /\ \A k \in 0 .. 2 * n : a[k] \subseteq Literals(n)
      /\ \A k \in 1 .. 2 * n : a[k] = a[k - 1] \cup Units(R, a[k - 1])
  BY <1>1 DEF PropagatedTurns
<1> DEFINE P == {k \in 0 .. 2 * n : \A val \in Total(n) : All(val, R) => FixedBy(val, a[k])}
           Q == {k \in 0 .. 2 * n : Units(R, a[k]) \subseteq a[k] \/ Cardinality(a[k]) >= k}
<1>3. 0 \in P
  BY <1>2 DEF FixedBy
<1>4. ASSUME NEW k \in 0 .. 2 * n, k < 2 * n, k \in P
      PROVE  k + 1 \in P
  <2>1. k + 1 \in 1 .. 2 * n /\ k + 1 - 1 = k /\ k + 1 \in 0 .. 2 * n
    BY <1>4
  <2>2. a[k + 1] = a[k] \cup Units(R, a[k]) /\ a[k] \in SUBSET Literals(n)
    BY <1>2, <2>1
  <2>3. ASSUME NEW val \in Total(n), All(val, R)
        PROVE  FixedBy(val, a[k + 1])
    <3>1. FixedBy(val, a[k]) /\ FixedBy(val, Units(R, a[k]))
      BY <1>4, <2>2, <2>3, UnitsHold
    <3> QED
      BY <2>2, <3>1 DEF FixedBy
  <2> QED
    BY <2>1, <2>3
<1>5. 0 \in Q
  BY <1>2, FS_EmptySet
<1>6. ASSUME NEW k \in 0 .. 2 * n, k < 2 * n, k \in Q
      PROVE  k + 1 \in Q
  <2>1. k + 1 \in 1 .. 2 * n /\ k + 1 - 1 = k /\ k + 1 \in 0 .. 2 * n
    BY <1>6
  <2>2. a[k + 1] = a[k] \cup Units(R, a[k]) /\ a[k] \in SUBSET Literals(n) /\ a[k + 1] \in SUBSET Literals(n)
    BY <1>2, <2>1
  <2>3. CASE Units(R, a[k]) \subseteq a[k]
    <3>1. a[k + 1] = a[k]
      BY <2>2, <2>3
    <3> QED
      BY <2>1, <2>3, <3>1
  <2>4. CASE ~(Units(R, a[k]) \subseteq a[k])
    <3>1. PICK l \in Units(R, a[k]) : l \notin a[k]
      BY <2>4
    <3>2. IsFiniteSet(a[k]) /\ IsFiniteSet(a[k + 1]) /\ Cardinality(a[k]) \in Nat /\ Cardinality(a[k + 1]) \in Nat
      BY <2>2, LiteralCount
    <3>3. IsFiniteSet(a[k] \cup {l}) /\ Cardinality(a[k] \cup {l}) = Cardinality(a[k]) + 1
      BY <3>1, <3>2, FS_AddElement
    <3>4. Cardinality(a[k] \cup {l}) <= Cardinality(a[k + 1])
      BY <2>2, <3>1, <3>2, FS_Subset
    <3>5. Cardinality(a[k]) >= k
      BY <1>6, <2>4
    <3> QED
      BY <2>1, <3>2, <3>3, <3>4, <3>5
  <2> QED
    BY <2>3, <2>4
<1> HIDE DEF P, Q
<1>7. 2 * n \in P /\ 2 * n \in Q
  <2>1. 2 * n \in Nat /\ 2 * n \in 0 .. 2 * n
    OBVIOUS
  <2>2. \A k \in 0 .. 2 * n : k \in P
    BY <2>1, <1>3, <1>4, Counting
  <2>3. \A k \in 0 .. 2 * n : k \in Q
    BY <2>1, <1>5, <1>6, Counting
  <2> QED
    BY <2>1, <2>2, <2>3
<1>8. a[2 * n] \in SUBSET Literals(n)
  BY <1>2
<1>9. Units(R, a[2 * n]) \subseteq a[2 * n]
  <2>1. Units(R, a[2 * n]) \subseteq Literals(n)
    BY <1>8, UnitsHold
  <2>2. Cardinality(a[2 * n]) >= 2 * n => a[2 * n] = Literals(n)
    BY <1>8, LiteralCount
  <2> QED
    BY <1>7, <2>1, <2>2 DEF Q
<1> QED
  BY <1>2, <1>7, <1>8, <1>9 DEF P

(* What the propagation leaves: the clauses not yet true, without their false literals. *)
LEMMA RemainingIs ==
  ASSUME NEW n \in Nat, NEW R \in Clauses(n), NEW T \in SUBSET Literals(n)
  PROVE  /\ Remaining(R, T) \in Clauses(n)
         /\ \A i \in DOMAIN Remaining(R, T) : \E j \in DOMAIN R : ToSet(R[j]) \cap T = {} /\ Remaining(R, T)[i] = Reduced(R[j], T)
         /\ \A j \in DOMAIN R : ToSet(R[j]) \cap T # {} \/ \E i \in DOMAIN Remaining(R, T) : Remaining(R, T)[i] = Reduced(R[j], T)
<1> DEFINE S == {i \in DOMAIN R : ToSet(R[i]) \cap T = {}}
           p == Pick(R, S)
           m == Remaining(R, T)
<1>1. m = [i \in DOMAIN p |-> Reduced(p[i], T)]
  BY DEF Remaining, Mapped, Kept
<1>2. p \in Clauses(n) /\ \A x : x \in ToSet(p) <=> \E i \in DOMAIN R : i \in S /\ R[i] = x
  <2> HIDE DEF S
  <2> QED
    BY PickIs DEF Clauses
<1> HIDE DEF p, m
<1>3. /\ DOMAIN p = 1 .. Len(p) /\ Len(p) \in Nat
      /\ \A i \in DOMAIN p : p[i] \in Seq(Literals(n))
      /\ \A x : x \in ToSet(p) <=> \E i \in DOMAIN p : p[i] = x
  BY <1>2, InSeq DEF Clauses
<1>4. \A i \in DOMAIN p : Reduced(p[i], T) \in Seq(Literals(n))
  BY <1>3, ReducedIs
<1>5. m \in Clauses(n) /\ DOMAIN m = DOMAIN p /\ \A i \in DOMAIN p : m[i] = Reduced(p[i], T)
  BY <1>1, <1>3, <1>4, IsASeq DEF Clauses
<1>6. ASSUME NEW i \in DOMAIN m
      PROVE  \E j \in DOMAIN R : ToSet(R[j]) \cap T = {} /\ m[i] = Reduced(R[j], T)
  <2>1. PICK j \in DOMAIN R : j \in S /\ R[j] = p[i]
    BY <1>2, <1>3, <1>5
  <2> QED
    BY <1>5, <2>1
<1>7. ASSUME NEW j \in DOMAIN R, ToSet(R[j]) \cap T = {}
      PROVE  \E i \in DOMAIN m : m[i] = Reduced(R[j], T)
  <2>1. R[j] \in ToSet(p)
    BY <1>2, <1>7
  <2> QED
    BY <1>3, <1>5, <2>1
<1> QED
  BY <1>5, <1>6, <1>7 DEF m

Clean(cs) == \A i \in DOMAIN cs : Len(cs[i]) >= 2 /\ IsInjective(cs[i]) /\ ~Tautology(cs[i])

UpSound(n, cs, T, L) ==
  \A val \in Total(n) : All(val, cs) => FixedBy(val, T) /\ All(val, L)
UpRefutes(n, cs, R, T) == Contradicts(R, T) => \A val \in Total(n) : ~All(val, cs)
UpOpen(n, cs, T, L) ==
  /\ \A l \in T : -l \notin T
  /\ Clean(L)
  /\ \A i \in DOMAIN L : \A v \in VarsOf(L[i]) : v \notin T /\ -v \notin T
  /\ \A val \in Total(n) : FixedBy(val, T) /\ All(val, L) => All(val, cs)

(* What preprocess_up finds is implied, its contradiction is one, and what  *)
(* is left has no unit and says with the values found what was read.        *)
LEMMA UpIs ==
  ASSUME NEW n \in Nat, NEW cs \in Clauses(n), NEW R, NEW T, NEW L,
         R = Entered(cs), T = Propagated(R, n), L = Remaining(R, T)
  PROVE  /\ T \subseteq Literals(n) /\ L \in Clauses(n)
         /\ UpSound(n, cs, T, L) /\ UpRefutes(n, cs, R, T)
         /\ ~Contradicts(R, T) => UpOpen(n, cs, T, L)
<1>1. /\ R \in Clauses(n) /\ \A i \in DOMAIN R : IsInjective(R[i]) /\ ~Tautology(R[i])
      /\ \A val \in Total(n) : All(val, cs) <=> All(val, R)
  BY EnteredIs
<1>2. /\ T \in SUBSET Literals(n) /\ Units(R, T) \subseteq T
      /\ \A val \in Total(n) : All(val, R) => FixedBy(val, T)
  BY <1>1, PropagatedIs
<1>3. /\ L \in Clauses(n)
      /\ \A i \in DOMAIN L : \E j \in DOMAIN R : ToSet(R[j]) \cap T = {} /\ L[i] = Reduced(R[j], T)
      /\ \A j \in DOMAIN R : ToSet(R[j]) \cap T # {} \/ \E i \in DOMAIN L : L[i] = Reduced(R[j], T)
  BY <1>1, <1>2, RemainingIs
<1>4. \A j \in DOMAIN R :
        LET r == Reduced(R[j], T)
        IN  /\ R[j] \in Seq(Literals(n)) /\ ToSet(R[j]) \subseteq Literals(n)
            /\ r \in Seq(Literals(n)) /\ Len(r) \in Nat
            /\ \A l : l \in ToSet(r) <=> l \in ToSet(R[j]) /\ -l \notin T
            /\ IsInjective(r) /\ ~Tautology(r)
  BY <1>1, <1>2, InClauses, ReducedIs
<1>5. ASSUME NEW val \in Total(n), FixedBy(val, T), NEW j \in DOMAIN R
      PROVE  Satisfies(val, R[j]) <=> ToSet(R[j]) \cap T # {} \/ Satisfies(val, Reduced(R[j], T))
  <2>1. \A l \in ToSet(R[j]) : l \in Literals(n) /\ (Value(val, l) = 1 => -l \notin T)
    BY <1>2, <1>4, <1>5, TotalValue DEF FixedBy
  <2>2. ASSUME Satisfies(val, R[j])
        PROVE  Satisfies(val, Reduced(R[j], T))
    <3>1. PICK l \in ToSet(R[j]) : Value(val, l) = 1
      BY <2>2 DEF Satisfies
    <3> QED
      BY <1>4, <2>1, <3>1 DEF Satisfies
  <2>3. ASSUME ToSet(R[j]) \cap T # {}
        PROVE  Satisfies(val, R[j])
    BY <1>5, <2>3 DEF FixedBy, Satisfies
  <2>4. ASSUME Satisfies(val, Reduced(R[j], T))
        PROVE  Satisfies(val, R[j])
    <3>1. PICK l \in ToSet(Reduced(R[j], T)) : Value(val, l) = 1
      BY <2>4 DEF Satisfies
    <3> QED
      BY <1>4, <3>1 DEF Satisfies
  <2> QED
    BY <2>2, <2>3, <2>4
<1>6. UpSound(n, cs, T, L)
  <2>1. ASSUME NEW val \in Total(n), All(val, cs), NEW i \in DOMAIN L
        PROVE  Satisfies(val, L[i])
    <3>1. PICK j \in DOMAIN R : ToSet(R[j]) \cap T = {} /\ L[i] = Reduced(R[j], T)
      BY <1>3
    <3>2. FixedBy(val, T) /\ Satisfies(val, R[j])
      BY <1>1, <1>2, <2>1 DEF All
    <3> QED
      BY <1>5, <3>1, <3>2
  <2> QED
    BY <1>1, <1>2, <2>1 DEF UpSound, All
<1>7. UpRefutes(n, cs, R, T)
  <2>1. ASSUME Contradicts(R, T), NEW val \in Total(n), All(val, cs)
        PROVE  FALSE
    <3>1. FixedBy(val, T) /\ All(val, R)
      BY <1>1, <1>2, <2>1
    <3>2. CASE \E l \in T : -l \in T
      <4>1. PICK l \in T : -l \in T
        BY <3>2
      <4> QED
        BY <1>2, <3>1, <4>1, TotalValue DEF FixedBy
    <3>3. CASE \E i \in DOMAIN R : Reduced(R[i], T) = <<>>
      <4>1. PICK i \in DOMAIN R : Reduced(R[i], T) = <<>>
        BY <3>3
      <4>2. ToSet(Reduced(R[i], T)) = {}
        BY <4>1 DEF ToSet
      <4>3. ToSet(R[i]) \cap T # {} \/ Satisfies(val, Reduced(R[i], T))
        BY <1>5, <3>1 DEF All
      <4>4. PICK l \in ToSet(R[i]) : Value(val, l) = 1
        BY <3>1 DEF All, Satisfies
      <4>5. -l \in T
        BY <1>4, <4>2, <4>4
      <4> QED
        BY <1>2, <1>4, <3>1, <4>4, <4>5, TotalValue DEF FixedBy
    <3> QED
      BY <2>1, <3>2, <3>3 DEF Contradicts
  <2> QED
    BY <2>1 DEF UpRefutes
<1>8. ASSUME ~Contradicts(R, T)
      PROVE  UpOpen(n, cs, T, L)
  <2>1. \A l \in T : -l \notin T
    BY <1>8 DEF Contradicts
  <2>2. Clean(L)
    <3>1. ASSUME NEW i \in DOMAIN L
          PROVE  Len(L[i]) >= 2 /\ IsInjective(L[i]) /\ ~Tautology(L[i])
      <4>1. PICK j \in DOMAIN R : ToSet(R[j]) \cap T = {} /\ L[i] = Reduced(R[j], T)
        BY <1>3
      <4> DEFINE r == Reduced(R[j], T)
      <4>2. r # <<>>
        BY <1>8 DEF Contradicts
      <4>3. r \in Seq(Literals(n)) /\ Len(r) \in Nat
        BY <1>4
      <4>4. Len(r) # 0
        BY <4>2, <4>3
      <4>5. Len(r) # 1
        <5>1. SUFFICES ASSUME Len(r) = 1
                       PROVE  FALSE
          OBVIOUS
        <5>2. r[1] \in Units(R, T)
          BY <5>1 DEF Units
        <5>3. r[1] \in ToSet(r)
          <6> HIDE DEF r
          <6> QED
            BY <4>3, <5>1, InSeq
        <5>4. r[1] \in ToSet(R[j])
          BY <1>4, <5>3
        <5> QED
          BY <1>2, <4>1, <5>2, <5>4
      <4>6. IsInjective(r) /\ ~Tautology(r)
        BY <1>4
      <4>7. \A k \in Nat : k # 0 /\ k # 1 => k >= 2
        OBVIOUS
      <4>8. Len(r) >= 2
        BY <4>3, <4>4, <4>5, <4>7, Zenon
      <4> QED
        BY <4>1, <4>6, <4>8, Zenon
    <3> QED
      BY <3>1 DEF Clean
  <2>3. ASSUME NEW i \in DOMAIN L, NEW v \in VarsOf(L[i])
        PROVE  v \notin T /\ -v \notin T
    <3>1. PICK j \in DOMAIN R : ToSet(R[j]) \cap T = {} /\ L[i] = Reduced(R[j], T)
      BY <1>3
    <3>2. PICK l \in ToSet(L[i]) : v = Abs(l)
      BY DEF VarsOf
    <3>3. l \in ToSet(R[j]) /\ -l \notin T /\ l \notin T /\ l \in Literals(n)
      BY <1>4, <3>1, <3>2
    <3>4. (v = l \/ v = -l) /\ -(-l) = l
      BY <3>2, <3>3, LiteralFacts
    <3> QED
      BY <3>3, <3>4
  <2>4. ASSUME NEW val \in Total(n), FixedBy(val, T), All(val, L), NEW j \in DOMAIN R
        PROVE  Satisfies(val, R[j])
    <3>1. ToSet(R[j]) \cap T # {} \/ \E i \in DOMAIN L : L[i] = Reduced(R[j], T)
      BY <1>3
    <3>2. ToSet(R[j]) \cap T # {} \/ Satisfies(val, Reduced(R[j], T))
      BY <2>4, <3>1 DEF All
    <3> QED
      BY <1>5, <2>4, <3>2
  <2>5. \A val \in Total(n) : FixedBy(val, T) /\ All(val, L) => All(val, cs)
    BY <1>1, <2>4 DEF All
  <2> QED
    BY <2>1, <2>2, <2>3, <2>5 DEF UpOpen
<1> QED
  BY <1>2, <1>3, <1>6, <1>7, <1>8

-------------------------------------------------------------------------------
(* preprocess_resolution *)
LEMMA ConcatInjective ==
  ASSUME NEW X, NEW s \in Seq(X), NEW t \in Seq(X), IsInjective(s), IsInjective(t),
         \A x \in ToSet(t) : x \notin ToSet(s)
  PROVE  IsInjective(s \o t)
<1>1. \A i \in 1 .. Len(s) : s[i] \in ToSet(s)
  BY InSeq
<1>2. \A j \in 1 .. Len(t) : t[j] \in ToSet(t)
  BY InSeq
<1>3. DOMAIN s = 1 .. Len(s) /\ DOMAIN t = 1 .. Len(t) /\ Len(s) \in Nat /\ Len(t) \in Nat
  BY InSeq
<1>4. /\ DOMAIN (s \o t) = 1 .. Len(s) + Len(t)
      /\ \A i \in 1 .. Len(s) : (s \o t)[i] = s[i]
      /\ \A i \in 1 .. Len(t) : (s \o t)[Len(s) + i] = t[i]
      /\ \A i \in 1 .. Len(s) + Len(t) : i \in 1 .. Len(s) \/ \E j \in 1 .. Len(t) : i = Len(s) + j
  BY ConcatIs
<1> DEFINE u == s \o t
<1> HIDE DEF u
<1>5. ASSUME NEW i \in DOMAIN u, NEW k \in DOMAIN u, u[i] = u[k]
      PROVE  i = k
  <2>1. CASE i \in 1 .. Len(s) /\ k \in 1 .. Len(s)
    BY <1>3, <1>4, <1>5, <2>1 DEF IsInjective, u
  <2>2. CASE i \notin 1 .. Len(s) /\ k \notin 1 .. Len(s)
    <3>1. PICK j \in 1 .. Len(t) : i = Len(s) + j
      BY <1>4, <2>2 DEF u
    <3>2. PICK m \in 1 .. Len(t) : k = Len(s) + m
      BY <1>4, <2>2 DEF u
    <3>3. t[j] = t[m]
      BY <1>4, <1>5, <3>1, <3>2 DEF u
    <3> QED
      BY <1>3, <3>1, <3>2, <3>3 DEF IsInjective
  <2>3. CASE i \in 1 .. Len(s) /\ k \notin 1 .. Len(s)
    <3>1. PICK m \in 1 .. Len(t) : k = Len(s) + m
      BY <1>4, <2>3 DEF u
    <3>2. t[m] = s[i]
      BY <1>4, <1>5, <2>3, <3>1 DEF u
    <3> QED
      BY <1>1, <1>2, <2>3, <3>2
  <2>4. CASE i \notin 1 .. Len(s) /\ k \in 1 .. Len(s)
    <3>1. PICK m \in 1 .. Len(t) : i = Len(s) + m
      BY <1>4, <2>4 DEF u
    <3>2. t[m] = s[k]
      BY <1>4, <1>5, <2>4, <3>1 DEF u
    <3> QED
      BY <1>1, <1>2, <2>4, <3>2
  <2> QED
    BY <2>1, <2>2, <2>3, <2>4
<1> QED
  BY <1>5 DEF IsInjective, u

(* Picking the members in a set from a list without repetition. *)
LEMMA KeptIs ==
  ASSUME NEW X, NEW s \in Seq(X), NEW W, IsInjective(s)
  PROVE  LET r == Pick(s, {i \in DOMAIN s : s[i] \in W})
         IN  /\ r \in Seq(X) /\ IsInjective(r)
             /\ \A x : x \in ToSet(r) <=> x \in ToSet(s) /\ x \in W
<1> DEFINE S == {i \in DOMAIN s : s[i] \in W}
           r == Pick(s, S)
<1>1. /\ r \in Seq(X)
      /\ \A x : x \in ToSet(r) <=> \E i \in DOMAIN s : i \in S /\ s[i] = x
      /\ (\A i, j \in DOMAIN s : i \in S /\ j \in S /\ s[i] = s[j] => i = j) => IsInjective(r)
  <2> HIDE DEF S
  <2> QED
    BY PickIs
<1>2. \A x : x \in ToSet(s) <=> \E i \in DOMAIN s : s[i] = x
  BY InSeq
<1> HIDE DEF r
<1>3. IsInjective(r)
  BY <1>1 DEF IsInjective
<1>4. \A x : x \in ToSet(r) <=> x \in ToSet(s) /\ x \in W
  BY <1>1, <1>2
<1> QED
  BY <1>1, <1>3, <1>4 DEF r

(* A variable occurs in a clause as one of its two literals. *)
LEMMA InOcc ==
  ASSUME vars \in Nat, clause \in Clauses(vars), NEW x \in 1 .. vars, NEW i \in DOMAIN clause
  PROVE  x \in VarsOf(clause[i]) <=> x \in ToSet(clause[i]) \/ -x \in ToSet(clause[i])
<1>1. ToSet(clause[i]) \subseteq Literals(vars)
  BY InClauses
<1>2. ASSUME NEW l \in ToSet(clause[i]), Abs(l) = x
      PROVE  x \in ToSet(clause[i]) \/ -x \in ToSet(clause[i])
  <2>1. l = x \/ l = -x
    BY <1>1, <1>2, LiteralFacts
  <2> QED
    BY <2>1
<1>3. Abs(x) = x /\ Abs(-x) = x
  BY SignedFacts
<1> QED
  BY <1>2, <1>3 DEF VarsOf

(* The variables that share a clause with a variable of the round. *)
LEMMA TouchedIs ==
  ASSUME vars \in Nat, clause \in Clauses(vars), NEW round \in Seq(1 .. vars)
  PROVE  /\ Touched(round) \in Seq(1 .. vars) /\ IsInjective(Touched(round))
         /\ \A v : v \in ToSet(Touched(round)) <=>
              \E i \in DOMAIN clause : v \in VarsOf(clause[i]) /\ \E x \in ToSet(round) : x \in VarsOf(clause[i])
<1> DEFINE D == DOMAIN clause
           around(x) == Pick(clause, Occ(D, x)) \o Pick(clause, Occ(D, -x))
           m == [k \in DOMAIN round |-> around(round[k])]
           f == Flat(m)
<1>1. Touched(round) = Order(f)
  BY DEF Touched, Mapped
<1>2. \A x \in 1 .. vars :
        /\ around(x) \in Clauses(vars)
        /\ \A c : c \in ToSet(around(x)) <=> \E i \in D : x \in VarsOf(clause[i]) /\ clause[i] = c
  <2>1. ASSUME NEW x \in 1 .. vars
        PROVE  /\ around(x) \in Clauses(vars)
               /\ \A c : c \in ToSet(around(x)) <=> \E i \in D : x \in VarsOf(clause[i]) /\ clause[i] = c
    <3> DEFINE p == Pick(clause, Occ(D, x))
               q == Pick(clause, Occ(D, -x))
    <3>1. p \in Clauses(vars) /\ \A c : c \in ToSet(p) <=> \E i \in D : i \in Occ(D, x) /\ clause[i] = c
      BY PickIs DEF Clauses
    <3>2. q \in Clauses(vars) /\ \A c : c \in ToSet(q) <=> \E i \in D : i \in Occ(D, -x) /\ clause[i] = c
      BY PickIs DEF Clauses
    <3> HIDE DEF p, q
    <3>3. p \o q \in Clauses(vars) /\ \A c : c \in ToSet(p \o q) <=> c \in ToSet(p) \/ c \in ToSet(q)
      BY <3>1, <3>2, ConcatSet DEF Clauses
    <3>4. \A i \in D : i \in Occ(D, x) \/ i \in Occ(D, -x) <=> x \in VarsOf(clause[i])
      BY InOcc DEF Occ
    <3>5. \A c : c \in ToSet(p \o q) <=> \E i \in D : x \in VarsOf(clause[i]) /\ clause[i] = c
      BY <3>1, <3>2, <3>3, <3>4
    <3> QED
      BY <3>3, <3>5 DEF p, q
  <2> QED
    BY <2>1
<1> HIDE DEF around
<1>3. Len(round) \in Nat /\ DOMAIN round = 1 .. Len(round) /\ (\A k \in DOMAIN round : round[k] \in 1 .. vars)
      /\ \A x : x \in ToSet(round) <=> \E k \in DOMAIN round : round[k] = x
  BY InSeq
<1>4. m \in Seq(Clauses(vars)) /\ DOMAIN m = DOMAIN round /\ \A k \in DOMAIN round : m[k] = around(round[k])
  BY <1>2, <1>3, IsASeq
<1> HIDE DEF m
<1>5. f \in Clauses(vars) /\ \A c : c \in ToSet(f) <=> \E k \in DOMAIN m : c \in ToSet(m[k])
  BY <1>4, FlatIs DEF Clauses
<1> HIDE DEF f
<1>6. /\ Order(f) \in Seq(1 .. vars) /\ IsInjective(Order(f))
      /\ \A v : v \in ToSet(Order(f)) <=> \E i \in DOMAIN f : v \in VarsOf(f[i])
  BY <1>5, OrderIs DEF Clauses
<1>7. \A c : c \in ToSet(f) <=> \E i \in DOMAIN f : f[i] = c
  BY <1>5, InSeq DEF Clauses
<1>8. ASSUME NEW v, NEW i \in DOMAIN f, v \in VarsOf(f[i])
      PROVE  \E j \in DOMAIN clause : v \in VarsOf(clause[j]) /\ \E x \in ToSet(round) : x \in VarsOf(clause[j])
  <2>1. PICK k \in DOMAIN round : f[i] \in ToSet(around(round[k]))
    BY <1>4, <1>5, <1>7, <1>8
  <2>2. PICK j \in D : round[k] \in VarsOf(clause[j]) /\ clause[j] = f[i]
    BY <1>2, <1>3, <2>1
  <2>3. round[k] \in ToSet(round)
    BY <1>3
  <2> QED
    BY <1>8, <2>2, <2>3
<1>9. ASSUME NEW v, NEW j \in DOMAIN clause, v \in VarsOf(clause[j]), NEW x \in ToSet(round), x \in VarsOf(clause[j])
      PROVE  \E i \in DOMAIN f : v \in VarsOf(f[i])
  <2>1. PICK k \in DOMAIN round : round[k] = x
    BY <1>3
  <2>2. clause[j] \in ToSet(around(x))
    BY <1>2, <1>3, <1>9, <2>1
  <2>3. clause[j] \in ToSet(f)
    BY <1>4, <1>5, <2>1, <2>2
  <2> QED
    BY <1>7, <1>9, <2>3
<1> QED
  BY <1>1, <1>6, <1>8, <1>9

Stage == [q : Seq(1 .. vars), round : Seq(1 .. vars)]
FirstRound == [q |-> <<>>, round |-> Ascending({v \in 1 .. vars : Removable(DOMAIN clause, v)}, vars)]

(* The first round holds the variables removable at the start. *)
LEMMA FirstRoundIs ==
  ASSUME vars \in Nat, clause \in Clauses(vars)
  PROVE  /\ FirstRound \in Stage /\ FirstRound.q = <<>> /\ IsInjective(FirstRound.round)
         /\ \A v \in ToSet(FirstRound.round) : v \in 1 .. vars /\ Removable(DOMAIN clause, v)
<1> DEFINE W == {v \in 1 .. vars : Removable(DOMAIN clause, v)}
           s == [i \in 1 .. vars |-> i]
           r == Pick(s, W)
<1>1. FirstRound = [q |-> <<>>, round |-> r]
  BY DEF FirstRound, Ascending
<1>2. s \in Seq(1 .. vars) /\ DOMAIN s = 1 .. vars /\ \A i \in DOMAIN s : s[i] = i
  BY IsASeq
<1> HIDE DEF s
<1>3. /\ r \in Seq(1 .. vars)
      /\ \A x : x \in ToSet(r) <=> \E i \in DOMAIN s : i \in W /\ s[i] = x
      /\ (\A i, j \in DOMAIN s : i \in W /\ j \in W /\ s[i] = s[j] => i = j) => IsInjective(r)
  <2> HIDE DEF W
  <2> QED
    BY <1>2, PickIs
<1> HIDE DEF r
<1>4. IsInjective(r)
  BY <1>2, <1>3
<1>5. \A v \in ToSet(r) : v \in W
  BY <1>2, <1>3
<1>6. <<>> \in Seq(1 .. vars)
  OBVIOUS
<1> QED
  BY <1>1, <1>3, <1>4, <1>5, <1>6 DEF Stage

(* A variable that no clause of S mentions can be taken away. *)
LEMMA NothingLeft ==
  ASSUME vars \in Nat, clause \in Clauses(vars), NEW S \in SUBSET DOMAIN clause, NEW x \in 1 .. vars,
         \A i \in S : x \notin VarsOf(clause[i])
  PROVE  Removable(S, x)
<1>1. Occ(S, x) = {} /\ Occ(S, -x) = {}
  BY InOcc DEF Occ
<1>2. Cardinality(Occ(S, x)) = 0 /\ Cardinality(Occ(S, -x)) = 0
  BY <1>1, FS_EmptySet
<1>3. res_is_empty(S, x)
  BY <1>1 DEF res_is_empty
<1> HIDE DEF Occ
<1> QED
  BY <1>2, <1>3 DEF Removable

(* The next round holds the touched variables that have become removable. *)
LEMMA RoundIs ==
  ASSUME vars \in Nat, clause \in Clauses(vars), NEW st \in Stage
  PROVE  LET all == st.q \o st.round
         IN  /\ Round(st) \in Stage /\ Round(st).q = all /\ IsInjective(Round(st).round)
             /\ \A v : v \in ToSet(Round(st).round) <=>
                  v \in ToSet(Touched(st.round)) /\ v \notin ToSet(all) /\ Removable(Without(all), v)
<1> DEFINE all == st.q \o st.round
           W == {v \in 1 .. vars : v \notin ToSet(all) /\ Removable(Without(all), v)}
           t == Touched(st.round)
<1>1. st.q \in Seq(1 .. vars) /\ st.round \in Seq(1 .. vars)
  BY DEF Stage
<1>2. t \in Seq(1 .. vars) /\ IsInjective(t)
  BY <1>1, TouchedIs
<1> HIDE DEF t
<1>3. DOMAIN t = 1 .. Len(t) /\ (\A i \in DOMAIN t : t[i] \in 1 .. vars) /\ ToSet(t) \subseteq 1 .. vars
  BY <1>2, InSeq
<1>4. Round(st) = [q |-> all, round |-> Pick(t, {i \in DOMAIN t : t[i] \notin ToSet(all) /\ Removable(Without(all), t[i])})]
  BY DEF Round, Kept, t
<1> HIDE DEF all
<1>5. {i \in DOMAIN t : t[i] \notin ToSet(all) /\ Removable(Without(all), t[i])} = {i \in DOMAIN t : t[i] \in W}
  BY <1>3
<1>6. LET r == Pick(t, {i \in DOMAIN t : t[i] \in W})
      IN  /\ r \in Seq(1 .. vars) /\ IsInjective(r)
          /\ \A x : x \in ToSet(r) <=> x \in ToSet(t) /\ x \in W
  <2> HIDE DEF W
  <2> QED
    BY <1>2, KeptIs, SMTT(30)
<1>7. all \in Seq(1 .. vars)
  BY <1>1, ConcatSet DEF all
<1>8. Round(st) = [q |-> all, round |-> Pick(t, {i \in DOMAIN t : t[i] \in W})]
  BY <1>4, <1>5
<1>9. \A v : v \in ToSet(Round(st).round) <=> v \in ToSet(t) /\ v \notin ToSet(all) /\ Removable(Without(all), v)
  BY <1>3, <1>6, <1>8
<1> QED
  BY <1>6, <1>7, <1>8, <1>9 DEF Stage, all, t

(* The rounds of preprocess_resolution. *)
QueueTurns(a, n, cs) ==
  /\ Queue = a[n + 1].q /\ a[0] = FirstRound
  /\ \A k \in 0 .. n + 1 : a[k] \in Stage
  /\ \A k \in 1 .. n + 1 : a[k] = Round(a[k - 1])

LEMMA QueueLoop ==
  ASSUME NEW n, NEW cs, n = vars, cs = clause, vars \in Nat, clause \in Clauses(vars)
  PROVE  \E a : QueueTurns(a, n, cs)
<1> DEFINE M == n + 1
           V == Stage
           v == FirstRound
           Turn(x, k) == Round(x)
           Loop(g) == [k \in 0 .. M |-> IF k = 0 THEN v ELSE Turn(g[k - 1], k)]
           a == CHOOSE g : g = Loop(g)
<1>1. Queue = a[M].q
  BY DEF Queue, Looped, FirstRound
<1>2. M \in Nat
  OBVIOUS
<1>3. v \in V /\ \A x \in V : \A k \in 1 .. M : Turn(x, k) \in V
  BY FirstRoundIs, RoundIs
<1>4. a[0] = v /\ (\A k \in 0 .. M : a[k] \in V) /\ (\A k \in 1 .. M : a[k] = Turn(a[k - 1], k))
  <2> DEFINE step == [kx \in (1 .. M) \X V |-> Turn(kx[2], kx[1])]
  <2>1. \A kx \in (1 .. M) \X V : Turn(kx[2], kx[1]) \in V
    <3> HIDE DEF Turn, M, V
    <3> QED
      BY <1>3
  <2>2. IsStep(M, V, step) /\ \A k \in 1 .. M : \A x \in V : step[<<k, x>>] = Turn(x, k)
    <3> HIDE DEF Turn, M, V
    <3> QED
      BY <2>1 DEF IsStep
  <2> HIDE DEF step, M, V, v, Turn
  <2>3. PICK f \in [0 .. M -> V] : f[0] = v /\ \A k \in 1 .. M : f[k] = step[<<k, f[k - 1]>>]
    <3>1. IsDefined(M, V, v, step)
      BY <1>2, <1>3, <2>2, Recursion
    <3> QED
      BY <3>1 DEF IsDefined
  <2>4. \A k \in 1 .. M : f[k] = Turn(f[k - 1], k)
    <3>1. \A k \in 1 .. M : k - 1 \in 0 .. M
      BY <1>2
    <3> QED
      BY <2>2, <2>3, <3>1
  <2>5. f = Loop(f)
    BY <1>2, <2>3, <2>4
  <2>6. a = Loop(a)
    BY <2>5
  <2> HIDE DEF a
  <2>7. a[0] = v /\ \A k \in 1 .. M : a[k] = Turn(a[k - 1], k)
    BY <1>2, <2>6
  <2> DEFINE P == {k \in 0 .. M : a[k] \in V}
  <2>8. 0 \in P
    BY <1>2, <1>3, <2>7
  <2>9. ASSUME NEW j \in 0 .. M, j < M, j \in P
        PROVE  j + 1 \in P
    <3>1. j + 1 \in 1 .. M /\ j + 1 \in 0 .. M /\ (j + 1) - 1 = j /\ a[j] \in V
      BY <1>2, <2>9
    <3> QED
      BY <1>3, <2>7, <3>1
  <2> HIDE DEF P
  <2>10. \A j \in 0 .. M : j \in P
    BY <1>2, <2>8, <2>9, Counting
  <2> QED
    BY <2>7, <2>10 DEF P
<1>5. QueueTurns(a, n, cs)
  <2> HIDE DEF a
  <2> QED
    BY <1>1, <1>4 DEF QueueTurns
<1> QED
  BY <1>5

(* The clauses in which nothing of list[1 .. k - 1] occurs. *)
Untouched(list, k) == {i \in DOMAIN clause : \A j \in 1 .. k - 1 : list[j] \notin VarsOf(clause[i])}
InOrder(list) == \A k \in DOMAIN list : res_is_empty(Untouched(list, k), list[k])
Held(v, list) == \E i \in Without(list) : v \in VarsOf(clause[i])

(* What holds between the rounds. *)
RoundsOK(st) ==
  /\ IsInjective(st.q \o st.round)
  /\ \A v \in 1 .. vars : v \in ToSet(st.q \o st.round) \/ Held(v, st.q)
  /\ InOrder(st.q \o st.round)

LEMMA Subsumed ==
  ASSUME NEW S, NEW U, S \subseteq U, NEW x, res_is_empty(U, x)
  PROVE  res_is_empty(S, x)
BY DEF res_is_empty, Occ

(* The clauses without the variables of two lists. *)
LEMMA WithoutAll ==
  ASSUME vars \in Nat, clause \in Clauses(vars), NEW q \in Seq(1 .. vars), NEW round \in Seq(1 .. vars)
  PROVE  /\ \A i : i \in Without(q \o round) <=> /\ i \in Without(q)
                                                 /\ \A x \in ToSet(round) : x \notin VarsOf(clause[i])
         /\ Without(q) \subseteq DOMAIN clause
<1>1. \A x : x \in ToSet(q \o round) <=> x \in ToSet(q) \/ x \in ToSet(round)
  BY ConcatSet
<1> QED
  BY <1>1 DEF Without

(* A round keeps the order in which the queue may be taken. *)
LEMMA RoundKeeps ==
  ASSUME vars \in Nat, clause \in Clauses(vars), NEW st \in Stage, RoundsOK(st)
  PROVE  RoundsOK(Round(st))
<1> DEFINE all == st.q \o st.round
           new == Round(st).round
           u == all \o new
<1>1. st.q \in Seq(1 .. vars) /\ st.round \in Seq(1 .. vars)
  BY DEF Stage
<1>2. /\ Round(st) \in Stage /\ Round(st).q = all /\ IsInjective(new)
      /\ \A v : v \in ToSet(new) <=>
           v \in ToSet(Touched(st.round)) /\ v \notin ToSet(all) /\ Removable(Without(all), v)
  BY RoundIs
<1>3. all \in Seq(1 .. vars) /\ new \in Seq(1 .. vars)
  BY <1>1, <1>2, ConcatSet DEF Stage
<1>4. /\ IsInjective(all) /\ InOrder(all)
      /\ \A v \in 1 .. vars : v \in ToSet(all) \/ Held(v, st.q)
  BY DEF RoundsOK
<1>5. \A i : i \in Without(all) <=> i \in Without(st.q) /\ \A x \in ToSet(st.round) : x \notin VarsOf(clause[i])
  BY <1>1, WithoutAll
<1>6. Without(st.q) \subseteq DOMAIN clause /\ Without(all) \subseteq DOMAIN clause
  BY <1>1, <1>3, WithoutAll DEF Without
<1> HIDE DEF all, new
<1>7. IsInjective(u)
  BY <1>2, <1>3, <1>4, ConcatInjective
<1>8. \A x : x \in ToSet(u) <=> x \in ToSet(all) \/ x \in ToSet(new)
  BY <1>3, ConcatSet
<1>9. ASSUME NEW v \in 1 .. vars, v \notin ToSet(u)
      PROVE  Held(v, all)
  <2>1. PICK i \in Without(st.q) : v \in VarsOf(clause[i])
    BY <1>4, <1>8, <1>9 DEF Held
  <2>2. CASE i \in Without(all)
    BY <2>1, <2>2 DEF Held
  <2>3. CASE i \notin Without(all)
    <3>1. PICK x \in ToSet(st.round) : x \in VarsOf(clause[i])
      BY <1>5, <2>1, <2>3
    <3>2. v \in ToSet(Touched(st.round))
      BY <1>1, <1>6, <2>1, <3>1, TouchedIs
    <3>3. ~Removable(Without(all), v)
      BY <1>2, <1>8, <1>9, <3>2
    <3> QED
      BY <1>6, <3>3, NothingLeft DEF Held
  <2> QED
    BY <2>2, <2>3
<1>10. ASSUME NEW k \in DOMAIN u
       PROVE  res_is_empty(Untouched(u, k), u[k])
  <2>1. /\ DOMAIN u = 1 .. Len(all) + Len(new) /\ Len(all) \in Nat /\ Len(new) \in Nat
        /\ \A i \in 1 .. Len(all) : u[i] = all[i]
        /\ \A i \in 1 .. Len(new) : u[Len(all) + i] = new[i]
        /\ \A i \in 1 .. Len(all) + Len(new) : i \in 1 .. Len(all) \/ \E j \in 1 .. Len(new) : i = Len(all) + j
        /\ DOMAIN all = 1 .. Len(all)
    BY <1>3, ConcatIs, InSeq
  <2> HIDE DEF u
  <2>2. CASE k \in 1 .. Len(all)
    <3>1. \A j \in 1 .. k - 1 : u[j] = all[j]
      BY <2>1, <2>2
    <3>2. Untouched(u, k) = Untouched(all, k)
      BY <3>1 DEF Untouched
    <3> QED
      BY <1>4, <2>1, <2>2, <3>2 DEF InOrder
  <2>3. CASE k \notin 1 .. Len(all)
    <3>1. PICK j \in 1 .. Len(new) : k = Len(all) + j
      BY <2>1, <2>3
    <3>2. \A x : x \in ToSet(all) <=> \E i \in 1 .. Len(all) : all[i] = x
      BY <1>3, InSeq
    <3>3. \A i \in 1 .. Len(all) : i \in 1 .. k - 1 /\ u[i] = all[i]
      BY <2>1, <3>1
    <3>4. Untouched(u, k) \subseteq Without(all)
      BY <3>2, <3>3 DEF Untouched, Without
    <3>5. u[k] \in ToSet(new)
      BY <1>3, <2>1, <3>1, InSeq
    <3>6. res_is_empty(Without(all), u[k])
      BY <1>2, <3>5 DEF Removable
    <3> QED
      BY <3>4, <3>6, Subsumed
  <2> QED
    BY <2>2, <2>3
<1>11. Round(st).q \o Round(st).round = u /\ Round(st).q = all
  BY <1>2 DEF new
<1> HIDE DEF u
<1> QED
  BY <1>7, <1>9, <1>10, <1>11 DEF RoundsOK, InOrder

(* So does the first one. *)
LEMMA FirstRoundOK ==
  ASSUME vars \in Nat, clause \in Clauses(vars), \A v \in 1 .. vars : \E i \in DOMAIN clause : v \in VarsOf(clause[i])
  PROVE  RoundsOK(FirstRound)
<1> DEFINE r == FirstRound.round
<1>1. /\ FirstRound \in Stage /\ FirstRound.q = <<>> /\ IsInjective(r)
      /\ \A v \in ToSet(r) : v \in 1 .. vars /\ Removable(DOMAIN clause, v)
  BY FirstRoundIs
<1>2. FirstRound.q \o r = r /\ r \in Seq(1 .. vars)
  BY <1>1 DEF Stage
<1> HIDE DEF r
<1>3. Without(FirstRound.q) = DOMAIN clause
  <2>1. ToSet(<<>>) = {}
    BY DEF ToSet
  <2>2. \A i \in DOMAIN clause : VarsOf(clause[i]) \cap {} = {}
    OBVIOUS
  <2> QED
    BY <1>1, <2>1, <2>2 DEF Without
<1>4. ASSUME NEW k \in DOMAIN r
      PROVE  res_is_empty(Untouched(r, k), r[k])
  <2>1. r[k] \in ToSet(r)
    BY <1>2, InSeq
  <2>2. res_is_empty(DOMAIN clause, r[k]) /\ Untouched(r, k) \subseteq DOMAIN clause
    BY <1>1, <2>1 DEF Removable, Untouched
  <2> QED
    BY <2>2, Subsumed
<1>5. \A v \in 1 .. vars : Held(v, FirstRound.q)
  BY <1>3 DEF Held
<1> QED
  BY <1>1, <1>2, <1>4, <1>5 DEF RoundsOK, InOrder, r

(* The empty list. *)
LEMMA NoEntries ==
  ASSUME NEW X, NEW s \in Seq(X)
  PROVE  /\ s = <<>> <=> Len(s) = 0
         /\ s = <<>> <=> \A x : x \notin ToSet(s)
<1>1. Len(s) \in Nat /\ (s = <<>> <=> Len(s) = 0)
  BY EmptySeq
<1>2. ASSUME Len(s) # 0
      PROVE  s[1] \in ToSet(s)
  <2>1. 1 \in 1 .. Len(s)
    BY <1>1, <1>2
  <2> QED
    BY <2>1, InSeq
<1>3. s = <<>> => \A x : x \notin ToSet(s)
  BY DEF ToSet
<1> QED
  BY <1>1, <1>2, <1>3

(* What is taken away: every other variable is still there, and the clauses *)
(* of a variable taken away have no resolvent but tautologies.              *)
LEMMA QueueIs ==
  ASSUME vars \in Nat, clause \in Clauses(vars), \A v \in 1 .. vars : \E i \in DOMAIN clause : v \in VarsOf(clause[i])
  PROVE  /\ Queue \in Seq(1 .. vars) /\ IsInjective(Queue) /\ InOrder(Queue)
         /\ \A v \in 1 .. vars : v \in ToSet(Queue) \/ Held(v, Queue)
<1>1. PICK a : QueueTurns(a, vars, clause)
  BY QueueLoop
<1> DEFINE N == vars + 1
<1>2. /\ Queue = a[N].q /\ a[0] = FirstRound
      /\ \A k \in 0 .. N : a[k] \in Stage
      /\ \A k \in 1 .. N : a[k] = Round(a[k - 1])
  BY <1>1 DEF QueueTurns
<1> DEFINE P == {k \in 0 .. N : RoundsOK(a[k])}
           Q == {k \in 0 .. N : a[k].round = <<>> \/ Len(a[k].q) >= k}
<1>3. 0 \in P
  BY <1>2, FirstRoundOK
<1>4. ASSUME NEW k \in 0 .. N, k < N
      PROVE  k + 1 \in 1 .. N /\ k + 1 \in 0 .. N /\ a[k + 1] = Round(a[k]) /\ a[k] \in Stage
  <2>1. k + 1 \in 1 .. N /\ k + 1 - 1 = k /\ k + 1 \in 0 .. N
    BY <1>4
  <2> QED
    BY <1>2, <2>1
<1>5. ASSUME NEW k \in 0 .. N, k < N, k \in P
      PROVE  k + 1 \in P
  BY <1>4, <1>5, RoundKeeps
<1>6. 0 \in Q
  <2>1. Len(<<>>) = 0 /\ 0 \in 0 .. N
    OBVIOUS
  <2>2. a[0].q = <<>>
    BY <1>2, FirstRoundIs
  <2> QED
    BY <2>1, <2>2
<1>7. ASSUME NEW k \in 0 .. N, k < N, k \in Q
      PROVE  k + 1 \in Q
  <2> DEFINE st == a[k]
  <2>1. a[k + 1] = Round(st) /\ st \in Stage /\ k + 1 \in 0 .. N
    BY <1>4, <1>7
  <2>2. st.q \in Seq(1 .. vars) /\ st.round \in Seq(1 .. vars)
    BY <2>1 DEF Stage
  <2>3. Round(st).q = st.q \o st.round /\ Round(st).round \in Seq(1 .. vars)
        /\ \A v : v \in ToSet(Round(st).round) => v \in ToSet(Touched(st.round))
    BY <2>1, RoundIs DEF Stage
  <2>4. CASE st.round = <<>>
    <3>1. \A x : x \notin ToSet(st.round)
      BY <2>4 DEF ToSet
    <3>2. \A v : v \notin ToSet(Touched(st.round))
      BY <2>2, <3>1, TouchedIs
    <3>3. \A v : v \notin ToSet(Round(st).round)
      BY <2>3, <3>2
    <3>4. Round(st).round = <<>>
      BY <2>3, <3>3, NoEntries, InSeq
    <3> QED
      BY <2>1, <3>4
  <2>5. CASE st.round # <<>>
    <3>1. Len(st.q) >= k
      BY <1>7, <2>5
    <3>2. Len(st.round) \in Nat /\ Len(st.round) # 0 /\ Len(st.q) \in Nat
      BY <2>2, <2>5, NoEntries, InSeq
    <3>3. Len(st.q \o st.round) = Len(st.q) + Len(st.round)
      BY <2>2, ConcatSet
    <3> HIDE DEF st
    <3>4. Len(st.q \o st.round) >= k + 1
      <4>1. \A x, y \in Nat : x >= k /\ y # 0 => x + y >= k + 1
        OBVIOUS
      <4> QED
        BY <3>1, <3>2, <3>3, <4>1
    <3>5. Len(a[k + 1].q) >= k + 1
      BY <2>1, <2>3, <3>4
    <3> QED
      BY <2>1, <3>5
  <2> QED
    BY <2>4, <2>5
<1> HIDE DEF P, Q
<1>8. N \in P /\ N \in Q
  <2>1. N \in Nat /\ N \in 0 .. N
    OBVIOUS
  <2>2. \A k \in 0 .. N : k \in P
    BY <2>1, <1>3, <1>5, Counting
  <2>3. \A k \in 0 .. N : k \in Q
    BY <2>1, <1>6, <1>7, Counting
  <2> QED
    BY <2>1, <2>2, <2>3
<1> DEFINE st == a[N]
<1>9. RoundsOK(st) /\ (st.round = <<>> \/ Len(st.q) >= N) /\ st \in Stage /\ Queue = st.q
  BY <1>2, <1>8 DEF P, Q
<1> HIDE DEF st
<1>10. st.q \in Seq(1 .. vars) /\ st.round \in Seq(1 .. vars)
  BY <1>9 DEF Stage
<1>11. st.round = <<>>
  <2>1. Len(st.q \o st.round) = Len(st.q) + Len(st.round) /\ st.q \o st.round \in Seq(1 .. vars)
        /\ Len(st.q) \in Nat /\ Len(st.round) \in Nat
    BY <1>10, ConcatSet, InSeq
  <2>2. Len(st.q \o st.round) <= vars
    BY <1>9, <2>1, ShortList DEF RoundsOK
  <2> QED
    <3>1. \A x, y \in Nat : x + y <= vars => ~(x >= N)
      OBVIOUS
    <3>2. Len(st.q) + Len(st.round) <= vars
      BY <2>1, <2>2, Zenon
    <3>3. ~(Len(st.q) >= N)
      BY <2>1, <3>1, <3>2, Zenon
    <3> QED
      BY <1>9, <3>3
<1>12. st.q \o st.round = st.q
  BY <1>10, <1>11
<1> QED
  BY <1>9, <1>10, <1>12 DEF RoundsOK

-------------------------------------------------------------------------------
(* get_complete_model *)
Partial(n) == [1 .. n -> {-1, 0, 1}]
Free(i, k) == \A j \in 1 .. k - 1 : resolution[j] \notin VarsOf(res_clause[i])
Resolvable(i, j, x) == \E l \in ToSet(res_clause[i]) : Abs(l) # x /\ -l \in ToSet(res_clause[j])

(* The clauses and variables preprocess_resolution has put aside. *)
PutAside(n) ==
  /\ res_clause \in Clauses(n) /\ resolution \in Seq(1 .. n) /\ IsInjective(resolution)
  /\ \A i \in DOMAIN res_clause : /\ ~Tautology(res_clause[i])
                                  /\ \E j \in DOMAIN resolution : resolution[j] \in VarsOf(res_clause[i])
  /\ \A k \in DOMAIN resolution : \A i, j \in DOMAIN res_clause :
       /\ Free(i, k) /\ Free(j, k)
       /\ resolution[k] \in ToSet(res_clause[i]) /\ -resolution[k] \in ToSet(res_clause[j])
       => Resolvable(i, j, resolution[k])

\* The variables without a value are the first k of resolution.
Waiting(val, n, k) == \A w \in 1 .. n : val[w] = 0 <=> \E j \in 1 .. k : resolution[j] = w
Fulfilled(val, k) == \A i \in DOMAIN res_clause : Free(i, k) => Satisfies(val, res_clause[i])
Sole(val, i, s) == \A x \in ToSet(res_clause[i]) : val[Abs(x)] = 0 => x = s

LEMMA NeedsIs ==
  ASSUME NEW n \in Nat, PutAside(n), NEW val \in Partial(n), NEW s \in Literals(n), val[Abs(s)] = 0
  PROVE  Needs(val, s) <=> \E i \in DOMAIN res_clause : /\ s \in ToSet(res_clause[i]) /\ ~Satisfies(val, res_clause[i])
                                                       /\ Sole(val, i, s)
<1>1. ASSUME NEW i \in DOMAIN res_clause, s \in ToSet(res_clause[i])
      PROVE  Cardinality({x \in ToSet(res_clause[i]) : val[Abs(x)] = 0}) <= 1 <=> Sole(val, i, s)
  <2> DEFINE S == {x \in ToSet(res_clause[i]) : val[Abs(x)] = 0}
  <2>1. S \subseteq Literals(n)
    BY InClauses DEF PutAside
  <2>2. IsFiniteSet(S) /\ s \in S /\ Cardinality(S) \in Nat
    BY <1>1, <2>1, LiteralCount
  <2>3. ASSUME Cardinality(S) <= 1
        PROVE  Sole(val, i, s)
    <3>1. SUFFICES ASSUME NEW x \in S, x # s
                   PROVE  FALSE
      BY DEF Sole
    <3> HIDE DEF S
    <3>2. IsFiniteSet({s}) /\ Cardinality({s}) = 1
      BY FS_Singleton
    <3>3. IsFiniteSet({s} \cup {x}) /\ Cardinality({s} \cup {x}) = 2
      <4> DEFINE one == {s}
      <4>1. x \notin one
        BY <3>1
      <4> HIDE DEF one
      <4>2. IsFiniteSet(one \cup {x}) /\ Cardinality(one \cup {x}) = Cardinality(one) + 1
        BY <3>2, <4>1, FS_AddElement DEF one
      <4>3. Cardinality(one) = 1
        BY <3>2 DEF one
      <4>4. IsFiniteSet(one \cup {x}) /\ Cardinality(one \cup {x}) = 2
        BY <4>2, <4>3
      <4> QED
        BY <4>4 DEF one
    <3>4. Cardinality({s} \cup {x}) <= Cardinality(S)
      BY <2>2, <3>1, FS_Subset
    <3> QED
      BY <2>2, <2>3, <3>3, <3>4
  <2>4. ASSUME Sole(val, i, s)
        PROVE  Cardinality(S) <= 1
    <3>1. S = {s}
      BY <2>2, <2>4 DEF Sole
    <3>2. Cardinality({s}) = 1
      BY FS_Singleton
    <3> HIDE DEF S
    <3> QED
      BY <3>1, <3>2
  <2> QED
    BY <2>3, <2>4
<1> QED
  BY <1>1 DEF Needs

(* A clause that only the variable about to be given a value can satisfy needs it. *)
LEMMA NeededIfOpen ==
  ASSUME NEW n \in Nat, PutAside(n), NEW k \in DOMAIN resolution, NEW val \in Partial(n), Waiting(val, n, k),
         NEW i \in DOMAIN res_clause, Free(i, k), NEW s \in ToSet(res_clause[i]), Abs(s) = resolution[k],
         ~Satisfies(val, res_clause[i])
  PROVE  Needs(val, s)
<1>1. ToSet(res_clause[i]) \subseteq Literals(n) /\ DOMAIN resolution = 1 .. Len(resolution) /\ Len(resolution) \in Nat
      /\ resolution[k] \in 1 .. n
  BY InClauses, InSeq DEF PutAside
<1>2. val[Abs(s)] = 0
  <2>1. k \in 1 .. k
    BY <1>1
  <2> QED
    BY <1>1, <2>1 DEF Waiting
<1>3. ASSUME NEW x \in ToSet(res_clause[i]), val[Abs(x)] = 0
      PROVE  x = s
  <2>1. Abs(x) \in 1 .. n
    BY <1>1, LiteralFacts
  <2>2. PICK j \in 1 .. k : resolution[j] = Abs(x)
    BY <1>3, <2>1 DEF Waiting
  <2>3. Abs(x) \in VarsOf(res_clause[i])
    BY DEF VarsOf
  <2>4. j \notin 1 .. k - 1
    BY <2>2, <2>3 DEF Free
  <2>5. j = k
    BY <1>1, <2>4
  <2>6. x = s \/ x = -s
    BY <1>1, <2>2, <2>5, SameLiteral
  <2>7. x # -s
    BY DEF PutAside, Tautology
  <2> QED
    BY <2>6, <2>7
<1>4. Sole(val, i, s)
  BY <1>3 DEF Sole
<1> QED
  BY <1>1, <1>2, <1>4, NeedsIs

(* One of a waiting variable's two literals is needed by no clause: all its resolvents were *)
(* tautologies or true. *)
LEMMA OneSideFree ==
  ASSUME NEW n \in Nat, PutAside(n), NEW k \in DOMAIN resolution, NEW val \in Partial(n), Waiting(val, n, k)
  PROVE  ~Needs(val, resolution[k]) \/ ~Needs(val, -resolution[k])
<1> DEFINE v == resolution[k]
<1>1. SUFFICES ASSUME Needs(val, v), Needs(val, -v)
               PROVE  FALSE
  OBVIOUS
<1>2. DOMAIN resolution = 1 .. Len(resolution) /\ Len(resolution) \in Nat /\ v \in 1 .. n
  BY InSeq DEF PutAside
<1>3. v \in Literals(n) /\ -v \in Literals(n) /\ Abs(v) = v /\ Abs(-v) = v
  BY <1>2, SignedFacts
<1>4. val[v] = 0
  <2>1. k \in 1 .. k
    BY <1>2
  <2> QED
    BY <1>2, <2>1 DEF Waiting
<1>5. ASSUME NEW s \in Literals(n), Abs(s) = v, Needs(val, s)
      PROVE  \E i \in DOMAIN res_clause :
                /\ s \in ToSet(res_clause[i]) /\ Free(i, k)
                /\ \A x \in ToSet(res_clause[i]) : x \in Literals(n) /\ (Abs(x) # v => Value(val, x) = -1)
  <2>1. PICK i \in DOMAIN res_clause : s \in ToSet(res_clause[i]) /\ ~Satisfies(val, res_clause[i]) /\ Sole(val, i, s)
    BY <1>4, <1>5, NeedsIs
  <2>2. ToSet(res_clause[i]) \subseteq Literals(n)
    BY InClauses DEF PutAside
  <2>3. ASSUME NEW j \in 1 .. k - 1, resolution[j] \in VarsOf(res_clause[i])
        PROVE  FALSE
    <3>1. PICK x \in ToSet(res_clause[i]) : Abs(x) = resolution[j]
      BY <2>3 DEF VarsOf
    <3>2. j \in 1 .. k /\ j \in DOMAIN resolution /\ j # k
      BY <1>2, <2>3
    <3>3. resolution[j] \in 1 .. n
      BY <2>2, <3>1, LiteralFacts
    <3>4. val[Abs(x)] = 0
      BY <3>1, <3>2, <3>3 DEF Waiting
    <3>5. x = s
      BY <2>1, <3>4 DEF Sole
    <3> QED
      BY <1>5, <3>1, <3>2, <3>5 DEF PutAside, IsInjective
  <2>4. ASSUME NEW x \in ToSet(res_clause[i]), Abs(x) # v
        PROVE  Value(val, x) = -1
    <3>1. x # s
      BY <1>5, <2>4
    <3>2. val[Abs(x)] # 0
      BY <2>1, <3>1 DEF Sole
    <3>3. val[Abs(x)] \in {-1, 0, 1}
      BY <2>2, LiteralFacts DEF Partial
    <3>4. Value(val, x) # 1
      BY <2>1 DEF Satisfies
    <3> QED
      BY <2>2, <3>2, <3>3, <3>4, ValueFacts
  <2> QED
    BY <2>1, <2>2, <2>3, <2>4 DEF Free
<1>6. PICK i \in DOMAIN res_clause :
         /\ v \in ToSet(res_clause[i]) /\ Free(i, k)
         /\ \A x \in ToSet(res_clause[i]) : x \in Literals(n) /\ (Abs(x) # v => Value(val, x) = -1)
  BY <1>1, <1>3, <1>5
<1>7. PICK j \in DOMAIN res_clause :
         /\ -v \in ToSet(res_clause[j]) /\ Free(j, k)
         /\ \A x \in ToSet(res_clause[j]) : x \in Literals(n) /\ (Abs(x) # v => Value(val, x) = -1)
  BY <1>1, <1>3, <1>5
<1>8. PICK l \in ToSet(res_clause[i]) : Abs(l) # v /\ -l \in ToSet(res_clause[j])
  BY <1>6, <1>7 DEF PutAside, Resolvable
<1>9. l \in Literals(n) /\ Abs(-l) = Abs(l)
  BY <1>6, <1>8, LiteralFacts
<1>10. Value(val, l) = -1 /\ Value(val, -l) = -1
  BY <1>6, <1>7, <1>8, <1>9
<1>11. val[Abs(l)] \in {-1, 0, 1}
  BY <1>9, LiteralFacts DEF Partial
<1>12. Value(val, -l) = -Value(val, l)
  BY <1>9, <1>11, ValueFacts
<1> QED
  BY <1>10, <1>12

(* Giving a variable its value fulfils the clauses put aside with it and keeps the later ones. *)
LEMMA AssignIs ==
  ASSUME NEW n \in Nat, PutAside(n), NEW k \in DOMAIN resolution, NEW val \in Partial(n),
         Waiting(val, n, k), Fulfilled(val, k + 1)
  PROVE  LET new == Assign(val, resolution[k])
         IN  /\ new \in Partial(n) /\ Waiting(new, n, k - 1) /\ Fulfilled(new, k)
             /\ \A w \in 1 .. n : w # resolution[k] => new[w] = val[w]
<1> DEFINE v == resolution[k]
           new == Assign(val, v)
<1>1. DOMAIN resolution = 1 .. Len(resolution) /\ Len(resolution) \in Nat /\ v \in 1 .. n
  BY InSeq DEF PutAside
<1>2. v \in Literals(n) /\ -v \in Literals(n) /\ Abs(v) = v /\ Abs(-v) = v /\ pnsign(v) = 1 /\ pnsign(-v) = -1 /\ -(-v) = v
  BY <1>1, SignedFacts, LiteralFacts
<1>3. val[v] = 0
  <2>1. k \in 1 .. k
    BY <1>1
  <2> QED
    BY <1>1, <2>1 DEF Waiting
<1>4. \E s \in {v, -v} : new = [val EXCEPT ![v] = pnsign(s)] /\ ~Needs(val, -s)
  <2>1. CASE ~Needs(val, -v)
    BY <1>2, <2>1 DEF Assign
  <2>2. CASE Needs(val, -v)
    <3>1. ~Needs(val, v)
      BY <2>2, OneSideFree
    <3> QED
      BY <1>2, <2>2, <3>1 DEF Assign
  <2> QED
    BY <2>1, <2>2
<1>5. PICK s \in {v, -v} : new = [val EXCEPT ![v] = pnsign(s)] /\ ~Needs(val, -s)
  BY <1>4
<1>6. s \in Literals(n) /\ Abs(s) = v /\ pnsign(s) \in {-1, 1} /\ -s \in {v, -v} /\ pnsign(s) # 0
  BY <1>2, <1>5
<1> HIDE DEF new
<1>7. /\ new \in Partial(n) /\ new[v] = pnsign(s)
      /\ \A w \in 1 .. n : w # v => new[w] = val[w]
  BY <1>1, <1>5, <1>6 DEF Partial
<1>8. \A x \in Literals(n) : Abs(x) # v => Value(new, x) = Value(val, x)
  BY <1>7, LiteralFacts DEF Value
<1>9. Value(new, s) = 1
  BY <1>6, <1>7 DEF Value
<1>10. Waiting(new, n, k - 1)
  <2>1. ASSUME NEW w \in 1 .. n
        PROVE  new[w] = 0 <=> \E j \in 1 .. k - 1 : resolution[j] = w
    <3>1. CASE w = v
      <4>1. \A j \in 1 .. k - 1 : j \in DOMAIN resolution /\ j # k
        BY <1>1
      <4>2. \A j \in 1 .. k - 1 : resolution[j] # v
        BY <4>1 DEF PutAside, IsInjective
      <4> QED
        BY <1>6, <1>7, <3>1, <4>2
    <3>2. CASE w # v
      <4>1. \A j : j \in 1 .. k - 1 => j \in 1 .. k
        BY <1>1
      <4>2. \A j \in 1 .. k : j = k \/ j \in 1 .. k - 1
        BY <1>1
      <4>3. val[w] = 0 <=> \E j \in 1 .. k : resolution[j] = w
        BY DEF Waiting
      <4> QED
        BY <1>7, <3>2, <4>1, <4>2, <4>3
    <3> QED
      BY <3>1, <3>2
  <2> QED
    BY <2>1 DEF Waiting
<1>11. ASSUME NEW i \in DOMAIN res_clause, Free(i, k)
       PROVE  Satisfies(new, res_clause[i])
  <2>1. ToSet(res_clause[i]) \subseteq Literals(n)
    BY InClauses DEF PutAside
  <2>2. ASSUME Satisfies(val, res_clause[i])
        PROVE  Satisfies(new, res_clause[i])
    <3>1. PICK x \in ToSet(res_clause[i]) : Value(val, x) = 1
      BY <2>2 DEF Satisfies
    <3>2. val[Abs(x)] \in {-1, 0, 1}
      BY <2>1, LiteralFacts DEF Partial
    <3>3. Abs(x) # v
      BY <1>3, <2>1, <3>1, <3>2, ValueFacts
    <3> QED
      BY <1>8, <2>1, <3>1, <3>3 DEF Satisfies
  <2>3. CASE v \notin VarsOf(res_clause[i])
    <3>1. \A j \in 1 .. (k + 1) - 1 : j = k \/ j \in 1 .. k - 1
      BY <1>1
    <3>2. Free(i, k + 1)
      <4>1. ASSUME NEW j \in 1 .. (k + 1) - 1
            PROVE  resolution[j] \notin VarsOf(res_clause[i])
        <5>1. CASE j = k
          BY <2>3, <5>1
        <5>2. CASE j \in 1 .. k - 1
          BY <1>11, <5>2 DEF Free
        <5> QED
          BY <3>1, <5>1, <5>2
      <4> QED
        BY <4>1, Zenon DEF Free
    <3> QED
      BY <2>2, <3>2 DEF Fulfilled
  <2>4. CASE v \in VarsOf(res_clause[i])
    <3>1. PICK x \in ToSet(res_clause[i]) : Abs(x) = v
      BY <2>4 DEF VarsOf
    <3>2. x = s \/ x = -s
      BY <1>6, <2>1, <3>1, SameLiteral
    <3>3. CASE x = s
      BY <1>9, <3>1, <3>3 DEF Satisfies
    <3>4. CASE x = -s
      <4>1. Satisfies(val, res_clause[i])
        BY <1>5, <1>11, <3>1, <3>4, NeededIfOpen
      <4> QED
        BY <2>2, <4>1
    <3> QED
      BY <3>2, <3>3, <3>4
  <2> QED
    BY <2>3, <2>4
<1> QED
  BY <1>7, <1>10, <1>11 DEF Fulfilled, new

(* The turns of get_complete_model. *)
CompletedTurns(a, n, p, list) ==
  /\ Completed(p) = a[Len(list)] /\ a[0] = p
  /\ \A k \in 0 .. Len(list) : a[k] \in Partial(n)
  /\ \A k \in 1 .. Len(list) : a[k] = Assign(a[k - 1], resolution[Len(list) + 1 - k])

LEMMA CompletedLoop ==
  ASSUME NEW n \in Nat, NEW p \in Partial(n), NEW list, list = resolution, resolution \in Seq(1 .. n)
  PROVE  \E a : CompletedTurns(a, n, p, list)
<1> DEFINE M == Len(list)
           V == Partial(n)
           v == p
           Turn(x, k) == Assign(x, resolution[Len(list) + 1 - k])
           Loop(g) == [k \in 0 .. M |-> IF k = 0 THEN v ELSE Turn(g[k - 1], k)]
           a == CHOOSE g : g = Loop(g)
<1>1. Completed(p) = a[M]
  BY DEF Completed, Looped
<1>2. M \in Nat
  BY InSeq
<1>3. v \in V /\ \A x \in V : \A k \in 1 .. M : Turn(x, k) \in V
  <2>1. \A k \in 1 .. M : Len(list) + 1 - k \in 1 .. Len(list)
    BY <1>2
  <2>2. \A k \in 1 .. M : resolution[Len(list) + 1 - k] \in 1 .. n
    BY <2>1, InSeq
  <2>3. \A x \in Partial(n) : \A w \in 1 .. n : Assign(x, w) \in Partial(n)
    BY DEF Partial, Assign
  <2> QED
    BY <2>2, <2>3
<1>4. a[0] = v /\ (\A k \in 0 .. M : a[k] \in V) /\ (\A k \in 1 .. M : a[k] = Turn(a[k - 1], k))
  <2> DEFINE step == [kx \in (1 .. M) \X V |-> Turn(kx[2], kx[1])]
  <2>1. \A kx \in (1 .. M) \X V : Turn(kx[2], kx[1]) \in V
    <3> HIDE DEF Turn, M, V
    <3> QED
      BY <1>3
  <2>2. IsStep(M, V, step) /\ \A k \in 1 .. M : \A x \in V : step[<<k, x>>] = Turn(x, k)
    <3> HIDE DEF Turn, M, V
    <3> QED
      BY <2>1 DEF IsStep
  <2> HIDE DEF step, M, V, v, Turn
  <2>3. PICK f \in [0 .. M -> V] : f[0] = v /\ \A k \in 1 .. M : f[k] = step[<<k, f[k - 1]>>]
    <3>1. IsDefined(M, V, v, step)
      BY <1>2, <1>3, <2>2, Recursion
    <3> QED
      BY <3>1 DEF IsDefined
  <2>4. \A k \in 1 .. M : f[k] = Turn(f[k - 1], k)
    <3>1. \A k \in 1 .. M : k - 1 \in 0 .. M
      BY <1>2
    <3> QED
      BY <2>2, <2>3, <3>1
  <2>5. f = Loop(f)
    BY <1>2, <2>3, <2>4
  <2>6. a = Loop(a)
    BY <2>5
  <2> HIDE DEF a
  <2>7. a[0] = v /\ \A k \in 1 .. M : a[k] = Turn(a[k - 1], k)
    BY <1>2, <2>6
  <2> DEFINE P == {k \in 0 .. M : a[k] \in V}
  <2>8. 0 \in P
    BY <1>2, <1>3, <2>7
  <2>9. ASSUME NEW j \in 0 .. M, j < M, j \in P
        PROVE  j + 1 \in P
    <3>1. j + 1 \in 1 .. M /\ j + 1 \in 0 .. M /\ (j + 1) - 1 = j /\ a[j] \in V
      BY <1>2, <2>9
    <3> QED
      BY <1>3, <2>7, <3>1
  <2> HIDE DEF P
  <2>10. \A j \in 0 .. M : j \in P
    BY <1>2, <2>8, <2>9, Counting
  <2> QED
    BY <2>7, <2>10 DEF P
<1>5. CompletedTurns(a, n, p, list)
  <2> HIDE DEF a
  <2> QED
    BY <1>1, <1>4 DEF CompletedTurns
<1> QED
  BY <1>5

(* get_complete_model gives every variable a value and satisfies every clause put aside. *)
LEMMA CompletedIs ==
  ASSUME NEW n \in Nat, PutAside(n), NEW p \in Partial(n),
         \A v \in 1 .. n : p[v] = 0 <=> v \in ToSet(resolution)
  PROVE  /\ Completed(p) \in Total(n) /\ All(Completed(p), res_clause)
         /\ \A v \in 1 .. n : v \notin ToSet(resolution) => Completed(p)[v] = p[v]
<1> DEFINE N == Len(resolution)
<1>1. resolution \in Seq(1 .. n)
  BY DEF PutAside
<1>2. N \in Nat /\ DOMAIN resolution = 1 .. N /\ \A x : x \in ToSet(resolution) <=> \E j \in 1 .. N : resolution[j] = x
  BY <1>1, InSeq
<1>3. PICK a : CompletedTurns(a, n, p, resolution)
  BY <1>1, CompletedLoop
<1>4. /\ Completed(p) = a[N] /\ a[0] = p
      /\ \A k \in 0 .. N : a[k] \in Partial(n)
      /\ \A k \in 1 .. N : a[k] = Assign(a[k - 1], resolution[N + 1 - k])
  BY <1>3 DEF CompletedTurns
<1> HIDE DEF N
<1> DEFINE Inv(k) == /\ Waiting(a[k], n, N - k) /\ Fulfilled(a[k], N - k + 1)
                     /\ \A v \in 1 .. n : v \notin ToSet(resolution) => a[k][v] = p[v]
           P == {k \in 0 .. N : Inv(k)}
<1>5. 0 \in P
  <2>1. N - 0 = N /\ N + 1 - 1 = N /\ 0 \in 0 .. N
    BY <1>2
  <2>2. Waiting(a[0], n, N)
    BY <1>2, <1>4 DEF Waiting
  <2>3. Fulfilled(a[0], N + 1)
    BY <1>2, <2>1 DEF Fulfilled, Free, PutAside
  <2> QED
    BY <1>4, <2>1, <2>2, <2>3
<1>6. ASSUME NEW k \in 0 .. N, k < N, k \in P
      PROVE  k + 1 \in P
  <2> DEFINE m == N - k
  <2>1. m \in 1 .. N /\ k + 1 \in 1 .. N /\ k + 1 \in 0 .. N /\ k + 1 - 1 = k /\ N + 1 - (k + 1) = m
        /\ N - (k + 1) = m - 1 /\ N - (k + 1) + 1 = m
    BY <1>2, <1>6
  <2>2. Inv(k)
    BY <1>6
  <2>3. a[k + 1] = Assign(a[k], resolution[m]) /\ a[k] \in Partial(n)
    BY <1>4, <2>1
  <2>4. Waiting(a[k], n, m) /\ Fulfilled(a[k], m + 1)
    BY <2>2
  <2> HIDE DEF m, Inv
  <2>5. /\ Waiting(a[k + 1], n, m - 1) /\ Fulfilled(a[k + 1], m)
        /\ \A w \in 1 .. n : w # resolution[m] => a[k + 1][w] = a[k][w]
    BY <1>2, <2>1, <2>3, <2>4, AssignIs
  <2>6. resolution[m] \in ToSet(resolution)
    BY <1>2, <2>1
  <2>7. \A v \in 1 .. n : v \notin ToSet(resolution) => a[k + 1][v] = p[v]
    BY <2>2, <2>5, <2>6 DEF Inv
  <2>8. Inv(k + 1)
    BY <2>1, <2>5, <2>7 DEF Inv
  <2> QED
    BY <2>1, <2>8
<1> HIDE DEF P, Inv
<1>7. N \in P
  <2>1. \A k \in 0 .. N : k \in P
    BY <1>2, <1>5, <1>6, Counting
  <2>2. N \in 0 .. N
    BY <1>2
  <2> QED
    BY <2>1, <2>2
<1>8. Waiting(a[N], n, 0) /\ Fulfilled(a[N], 1) /\ \A v \in 1 .. n : v \notin ToSet(resolution) => a[N][v] = p[v]
  <2>1. N - N = 0 /\ N - N + 1 = 1
    BY <1>2
  <2> QED
    BY <1>7, <2>1 DEF P, Inv
<1>9. a[N] \in Partial(n) /\ \A v \in 1 .. n : a[N][v] # 0
  <2>1. N \in 0 .. N
    BY <1>2
  <2> QED
    BY <1>4, <1>8, <2>1 DEF Waiting
<1>10. a[N] \in Total(n)
  BY <1>9 DEF Partial, Total
<1>11. All(a[N], res_clause)
  BY <1>8 DEF Fulfilled, Free, All
<1> QED
  BY <1>4, <1>8, <1>10, <1>11

-------------------------------------------------------------------------------
(* The names and values preprocess_up leaves behind. *)
Mentioned(cs, m) == \A x \in 1 .. m : \E i \in DOMAIN cs : x \in VarsOf(cs[i])
UpValue(T, color) == [v \in DOMAIN color |-> CASE v \in T        -> 1
                                               [] -v \in T       -> -1
                                               [] color[v] # 0   -> 0
                                               [] OTHER          -> 1]
UpMapped(n, m, color, from, mv) ==
  /\ m \in 0 .. n /\ from \in Seq(1 .. n) /\ Len(from) = m
  /\ color \in [1 .. n -> 0 .. m] /\ mv \in [1 .. n -> {-1, 0, 1}]
  /\ \A v \in 1 .. n : /\ color[v] # 0 => mv[v] = 0 /\ from[color[v]] = v
                       /\ color[v] = 0 => mv[v] \in {-1, 1}
  /\ \A x \in 1 .. m : from[x] \in 1 .. n /\ color[from[x]] = x
Extends(val, sol, n, color, mv) ==
  \A v \in 1 .. n : val[v] = IF color[v] # 0 THEN sol[color[v]] ELSE mv[v]
UpBack(n, m, cs, new, color, mv) ==
  \A sol \in Total(m), val \in Total(n) : All(sol, new) /\ Extends(val, sol, n, color, mv) => All(val, cs)
HasModel(cs, n) == \E val \in Total(n) : All(val, cs)

LEMMA UpMaps ==
  ASSUME NEW n \in Nat, NEW cs, NEW T \in SUBSET Literals(n), NEW L \in Clauses(n), UpOpen(n, cs, T, L),
         NEW color, color = Color(L, 1 .. n), NEW m, m = Len(Order(L)), NEW mv, mv = UpValue(T, color),
         NEW new, new = Relabel(L, color)
  PROVE  /\ UpMapped(n, m, color, Order(L), mv)
         /\ new \in Clauses(m) /\ Clean(new) /\ Mentioned(new, m)
         /\ UpBack(n, m, cs, new, color, mv)
<1>1. /\ m \in 0 .. n
      /\ color \in [1 .. n -> 0 .. m]
      /\ \A v \in 1 .. n : color[v] # 0 <=> v \in ToSet(Order(L))
      /\ \A v \in 1 .. n : color[v] # 0 => color[v] \in 1 .. m /\ Order(L)[color[v]] = v
      /\ \A k \in 1 .. m : Order(L)[k] \in 1 .. n /\ color[Order(L)[k]] = k
  BY ColorIs DEF Clauses
<1>2. Order(L) \in Seq(1 .. n) /\ new = Renumbered(L, n)
  BY OrderIs DEF Clauses, Renumbered
<1>3. /\ new \in Clauses(m) /\ DOMAIN new = DOMAIN L
      /\ \A i \in DOMAIN L : /\ Len(new[i]) = Len(L[i])
                             /\ IsInjective(L[i]) => IsInjective(new[i])
                             /\ ~Tautology(L[i]) => ~Tautology(new[i])
      /\ Mentioned(new, m)
  BY <1>2, RenumberedIs DEF Mentioned
<1>4. Clean(new)
  BY <1>3 DEF UpOpen, Clean
<1>5. \A v \in 1 .. n : color[v] # 0 <=> \E i \in DOMAIN L : v \in VarsOf(L[i])
  BY ColorOfMentioned
<1>6. ASSUME NEW v \in 1 .. n
      PROVE  /\ v \in T => -v \notin T /\ color[v] = 0
             /\ -v \in T => v \notin T /\ color[v] = 0
  <2>1. v \in T => -v \notin T
    BY DEF UpOpen
  <2>2. v \in T \/ -v \in T => color[v] = 0
    BY <1>5 DEF UpOpen
  <2> QED
    BY <2>1, <2>2
<1>7. ASSUME NEW v \in 1 .. n
      PROVE  /\ v \in T => mv[v] = 1
             /\ -v \in T => mv[v] = -1
             /\ color[v] # 0 => mv[v] = 0
             /\ color[v] = 0 => mv[v] \in {-1, 1}
  <2>1. DOMAIN color = 1 .. n
    BY <1>1
  <2>2. mv[v] = CASE v \in T -> 1 [] -v \in T -> -1 [] color[v] # 0 -> 0 [] OTHER -> 1
    BY <2>1 DEF UpValue
  <2> QED
    BY <1>6, <2>2
<1>8. mv \in [1 .. n -> {-1, 0, 1}]
  <2>1. DOMAIN mv = 1 .. n /\ mv = [v \in 1 .. n |-> mv[v]]
    BY <1>1 DEF UpValue
  <2>2. \A v \in 1 .. n : mv[v] \in {-1, 0, 1}
    BY <1>7
  <2> QED
    BY <2>1, <2>2
<1>9. UpMapped(n, m, color, Order(L), mv)
  BY <1>1, <1>2, <1>7, <1>8 DEF UpMapped
<1>10. ASSUME NEW sol \in Total(m), NEW val \in Total(n), All(sol, new), Extends(val, sol, n, color, mv)
       PROVE  All(val, cs)
  <2>1. \A v \in 1 .. n : color[v] # 0 => sol[color[v]] = val[v]
    BY <1>10 DEF Extends
  <2>2. \A i \in DOMAIN L : Satisfies(sol, new[i]) <=> Satisfies(val, L[i])
    <3>1. \A v \in 1 .. n : Color(L, 1 .. n)[v] # 0 => sol[Color(L, 1 .. n)[v]] = val[v]
      BY <2>1
    <3>2. \A i \in DOMAIN L : Satisfies(sol, Renumbered(L, n)[i]) <=> Satisfies(val, L[i])
      BY <3>1, RenumberedSatisfied
    <3> QED
      BY <1>2, <3>2
  <2>3. All(val, L)
    BY <1>3, <1>10, <2>2 DEF All
  <2>4. ASSUME NEW l \in T
        PROVE  Value(val, l) = 1
    <3>1. Abs(l) \in 1 .. n /\ (l = Abs(l) \/ l = -Abs(l))
      BY LiteralFacts
    <3>2. val[Abs(l)] = mv[Abs(l)]
      BY <1>6, <1>10, <3>1 DEF Extends
    <3>3. pnsign(Abs(l)) = 1 /\ pnsign(-Abs(l)) = -1
      BY <3>1, SignedFacts
    <3>4. val[Abs(l)] = pnsign(l)
      BY <1>7, <3>1, <3>2, <3>3
    <3> QED
      BY <3>4, TotalValue
  <2> QED
    BY <1>10, <2>3, <2>4 DEF UpOpen, FixedBy
<1> QED
  BY <1>3, <1>4, <1>9, <1>10 DEF UpBack

-------------------------------------------------------------------------------
(* The clauses and variables preprocess_resolution puts aside. *)
Image(col, l) == pnsign(l) * col[Abs(l)]

LEMMA ImageFacts ==
  ASSUME NEW n \in Nat, NEW m \in Nat, NEW l \in Literals(n), NEW col, col[Abs(l)] \in 1 .. m
  PROVE  /\ Image(col, l) \in Literals(m) /\ Abs(Image(col, l)) = col[Abs(l)]
         /\ pnsign(Image(col, l)) = pnsign(l) /\ Image(col, -l) = -Image(col, l)
<1>1. pnsign(l) \in {-1, 1} /\ Abs(-l) = Abs(l) /\ pnsign(-l) = -pnsign(l)
  BY LiteralFacts
<1> DEFINE k == col[Abs(l)]
<1>2. k \in Literals(m) /\ -k \in Literals(m) /\ Abs(k) = k /\ Abs(-k) = k /\ pnsign(k) = 1 /\ pnsign(-k) = -1 /\ k \in Int
  BY SignedFacts
<1> HIDE DEF k
<1>3. Image(col, l) = pnsign(l) * k /\ Image(col, -l) = pnsign(-l) * k
  BY <1>1 DEF Image, k
<1>4. 1 * k = k /\ (-1) * k = -k /\ -(-k) = k
  BY <1>2
<1>5. CASE pnsign(l) = 1
  BY <1>1, <1>2, <1>3, <1>4, <1>5 DEF k
<1>6. CASE pnsign(l) = -1
  <2>1. pnsign(-l) = 1
    BY <1>1, <1>6
  <2> QED
    BY <1>2, <1>3, <1>4, <1>6, <2>1 DEF k
<1> QED
  BY <1>1, <1>5, <1>6

(* The literals of a relabelled clause. *)
LEMMA RelabelLiterals ==
  ASSUME NEW n \in Nat, NEW m \in Nat, NEW cs \in Clauses(n), NEW col, Named(cs, col, m), NEW i \in DOMAIN cs
  PROVE  \A y : y \in ToSet(Relabel(cs, col)[i]) <=> \E l \in ToSet(cs[i]) : y = Image(col, l)
<1> DEFINE R == Relabel(cs, col)
<1>1. /\ R \in Clauses(m) /\ DOMAIN R = DOMAIN cs
      /\ DOMAIN R[i] = DOMAIN cs[i]
      /\ \A j \in DOMAIN cs[i] : R[i][j] = Image(col, cs[i][j])
  BY RelabelIs DEF Named, Image
<1> HIDE DEF R
<1>2. \A y : y \in ToSet(R[i]) <=> \E j \in DOMAIN R[i] : R[i][j] = y
  BY <1>1, InClauses
<1>3. \A l : l \in ToSet(cs[i]) <=> \E j \in DOMAIN cs[i] : cs[i][j] = l
  BY InClauses
<1> QED
  BY <1>1, <1>2, <1>3 DEF R

(* Renumbering keeps satisfiability. *)
LEMMA RenumberedModel ==
  ASSUME NEW n \in Nat, NEW L \in Clauses(n), HasModel(L, n)
  PROVE  HasModel(Renumbered(L, n), Len(Order(L)))
<1>1. PICK val \in Total(n) : All(val, L)
  BY DEF HasModel
<1> DEFINE sol == [k \in 1 .. Len(Order(L)) |-> val[Order(L)[k]]]
<1>2. /\ sol \in Total(Len(Order(L)))
      /\ \A v \in 1 .. n : Color(L, 1 .. n)[v] # 0 => sol[Color(L, 1 .. n)[v]] = val[v]
  BY RenumberedBack DEF Total
<1> HIDE DEF sol
<1>3. \A i \in DOMAIN L : Satisfies(sol, Renumbered(L, n)[i]) <=> Satisfies(val, L[i])
  BY <1>2, RenumberedSatisfied
<1>4. DOMAIN Renumbered(L, n) = DOMAIN L
  BY RenumberedIs
<1>5. All(sol, Renumbered(L, n))
  BY <1>1, <1>3, <1>4 DEF All
<1> QED
  BY <1>2, <1>5 DEF HasModel

\* The names of the current variables: mapto and mapfrom are inverse.
NamesOK(n) ==
  /\ Len(mapfrom) = vars /\ mapfrom \in Seq(1 .. n)
  /\ \A v \in 1 .. n : mapto[v] \in 0 .. vars /\ (mapto[v] # 0 => mapfrom[mapto[v]] = v)
  /\ \A x \in 1 .. vars : mapto[mapfrom[x]] = x

FreeOf(rc, rs, i, k) == \A j \in 1 .. k - 1 : rs[j] \notin VarsOf(rc[i])
SetAside(n, rc, rs) ==
  /\ rc \in Clauses(n) /\ rs \in Seq(1 .. n) /\ IsInjective(rs)
  /\ \A i \in DOMAIN rc : ~Tautology(rc[i]) /\ \E j \in DOMAIN rs : rs[j] \in VarsOf(rc[i])
  /\ \A k \in DOMAIN rs : \A i, j \in DOMAIN rc :
       FreeOf(rc, rs, i, k) /\ FreeOf(rc, rs, j, k) /\ rs[k] \in ToSet(rc[i]) /\ -rs[k] \in ToSet(rc[j])
       => \E l \in ToSet(rc[i]) : Abs(l) # rs[k] /\ -l \in ToSet(rc[j])

(* mapfrom names each current variable by a number of the input, no two alike. *)
LEMMA NamesAre ==
  ASSUME NEW n \in Nat, vars \in 0 .. n, NamesOK(n)
  PROVE  /\ \A x \in 1 .. vars : mapfrom[x] \in 1 .. n
         /\ \A x, y \in 1 .. vars : mapfrom[x] = mapfrom[y] => x = y
<1>1. DOMAIN mapfrom = 1 .. vars /\ \A x \in DOMAIN mapfrom : mapfrom[x] \in 1 .. n
  BY InSeq DEF NamesOK
<1> QED
  BY <1>1 DEF NamesOK

(* The clauses put aside, under the input's numbers. *)
LEMMA GoneIs ==
  ASSUME NEW n \in Nat, vars \in 0 .. n, clause \in Clauses(vars), NamesOK(n), NEW S
  PROVE  LET g == Pick(clause, S)
             rc == Relabel(g, mapfrom)
         IN  /\ g \in Clauses(vars) /\ Named(g, mapfrom, n) /\ rc \in Clauses(n) /\ DOMAIN rc = DOMAIN g
             /\ \A i \in DOMAIN g : \E p \in DOMAIN clause : p \in S /\ g[i] = clause[p]
             /\ \A p \in DOMAIN clause : p \in S => \E i \in DOMAIN g : g[i] = clause[p]
             /\ \A i \in DOMAIN g : StaysClean(g[i], rc[i], mapfrom)
<1> DEFINE g == Pick(clause, S)
           rc == Relabel(g, mapfrom)
<1>0. vars \in Nat
  OBVIOUS
<1>1. g \in Clauses(vars) /\ \A x : x \in ToSet(g) <=> \E p \in DOMAIN clause : p \in S /\ clause[p] = x
  BY PickIs DEF Clauses
<1> HIDE DEF g
<1>2. \A x : x \in ToSet(g) <=> \E i \in DOMAIN g : g[i] = x
  BY <1>1, InSeq DEF Clauses
<1>3. \A i \in DOMAIN g : VarsOf(g[i]) \subseteq 1 .. vars
  BY <1>0, <1>1, InClauses
<1>4. Named(g, mapfrom, n)
  BY <1>3, NamesAre DEF Named
<1>5. \A i \in DOMAIN g : OneToOne(g[i], mapfrom)
  BY <1>3, NamesAre DEF OneToOne
<1>6. \A i \in DOMAIN g : StaysClean(g[i], rc[i], mapfrom)
  BY <1>0, <1>1, <1>4, <1>5, RelabelClean
<1>7. rc \in Clauses(n) /\ DOMAIN rc = DOMAIN g
  BY <1>0, <1>1, <1>4, RelabelIs DEF Named
<1>8. \A i \in DOMAIN g : \E p \in DOMAIN clause : p \in S /\ g[i] = clause[p]
  <2>1. SUFFICES ASSUME NEW i \in DOMAIN g
                 PROVE  \E p \in DOMAIN clause : p \in S /\ g[i] = clause[p]
    OBVIOUS
  <2>2. g[i] \in ToSet(g)
    BY <1>2
  <2>3. PICK p \in DOMAIN clause : p \in S /\ clause[p] = g[i]
    BY <1>1, <2>2
  <2> QED
    BY <2>3
<1>9. \A p \in DOMAIN clause : p \in S => \E i \in DOMAIN g : g[i] = clause[p]
  BY <1>1, <1>2
<1> QED
  BY <1>1, <1>4, <1>6, <1>7, <1>8, <1>9 DEF g

(* preprocess_resolution puts its variables and clauses aside so that get_complete_model can use *)
(* them. *)
LEMMA SetAsideIs ==
  ASSUME NEW n \in Nat, vars \in 0 .. n, clause \in Clauses(vars), Clean(clause), NamesOK(n),
         NEW q \in Seq(1 .. vars), IsInjective(q), InOrder(q),
         NEW rc, rc = Relabel(Pick(clause, DOMAIN clause \ Without(q)), mapfrom),
         NEW names, names = Mapped(LAMBDA v : mapfrom[v], q)
  PROVE  SetAside(n, rc, names)
<1> DEFINE G == DOMAIN clause \ Without(q)
           g == Pick(clause, G)
<1>0. vars \in Nat
  OBVIOUS
<1>1. /\ g \in Clauses(vars) /\ Named(g, mapfrom, n) /\ rc \in Clauses(n) /\ DOMAIN rc = DOMAIN g
      /\ \A i \in DOMAIN g : \E p \in DOMAIN clause : p \in G /\ g[i] = clause[p]
      /\ \A i \in DOMAIN g : StaysClean(g[i], rc[i], mapfrom)
  BY GoneIs
<1>12. rc = Relabel(g, mapfrom)
  OBVIOUS
<1> HIDE DEF g
<1>2. \A i \in DOMAIN g : \A y : y \in ToSet(rc[i]) <=> \E l \in ToSet(g[i]) : y = Image(mapfrom, l)
  BY <1>0, <1>1, <1>12, RelabelLiterals, SMTT(30)
<1>3. DOMAIN q = 1 .. Len(q) /\ Len(q) \in Nat /\ (\A k \in DOMAIN q : q[k] \in 1 .. vars)
      /\ \A x : x \in ToSet(q) <=> \E k \in DOMAIN q : q[k] = x
  BY InSeq
<1>4. /\ \A x \in 1 .. vars : mapfrom[x] \in 1 .. n
      /\ \A x, y \in 1 .. vars : mapfrom[x] = mapfrom[y] => x = y
  BY NamesAre
<1>5. names = [k \in 1 .. Len(q) |-> mapfrom[q[k]]]
  BY <1>3 DEF Mapped
<1>6. names \in Seq(1 .. n) /\ DOMAIN names = DOMAIN q /\ \A k \in DOMAIN q : names[k] = mapfrom[q[k]]
  <2>1. \A k \in 1 .. Len(q) : mapfrom[q[k]] \in 1 .. n
    BY <1>3, <1>4
  <2>2. names \in Seq(1 .. n)
    <3>1. [k \in 1 .. Len(q) |-> mapfrom[q[k]]] \in Seq(1 .. n)
      BY <1>3, <2>1, IsASeq
    <3> QED
      BY <1>5, <3>1
  <2> QED
    BY <1>3, <1>5, <2>2
<1> HIDE DEF G
<1>7. IsInjective(names)
  <2>1. ASSUME NEW j \in DOMAIN names, NEW k \in DOMAIN names, names[j] = names[k]
        PROVE  j = k
    <3>2. q[j] \in 1 .. vars /\ q[k] \in 1 .. vars /\ mapfrom[q[j]] = mapfrom[q[k]]
      BY <1>3, <1>6, <2>1
    <3>1. q[j] = q[k]
      BY <1>4, <3>2
    <3> QED
      BY <1>6, <3>1 DEF IsInjective
  <2> QED
    BY <2>1 DEF IsInjective
<1>8. \A i \in DOMAIN g : ToSet(g[i]) \subseteq Literals(vars) /\ VarsOf(g[i]) \subseteq 1 .. vars
  BY <1>0, <1>1, InClauses
<1>9. ASSUME NEW i \in DOMAIN rc
      PROVE  ~Tautology(rc[i]) /\ \E j \in DOMAIN names : names[j] \in VarsOf(rc[i])
  <2>1. PICK p \in DOMAIN clause : p \in G /\ g[i] = clause[p]
    BY <1>1, <1>9
  <2>2. ~Tautology(rc[i])
    BY <1>1, <1>9, <2>1 DEF Clean, StaysClean
  <2>3. PICK x \in VarsOf(clause[p]) : x \in ToSet(q)
    BY <2>1 DEF G, Without
  <2>4. PICK j \in DOMAIN q : q[j] = x
    BY <1>3, <2>3
  <2>5. mapfrom[x] \in VarsOf(rc[i])
    BY <1>1, <1>9, <2>1, <2>3 DEF StaysClean
  <2> QED
    BY <1>6, <2>2, <2>4, <2>5
<1>10. ASSUME NEW k \in DOMAIN names, NEW i \in DOMAIN rc, FreeOf(rc, names, i, k), NEW s \in {1, -1},
              s * names[k] \in ToSet(rc[i])
       PROVE  \E p \in DOMAIN clause : p \in Occ(Untouched(q, k), s * q[k]) /\ g[i] = clause[p]
  <2>1. PICK p \in DOMAIN clause : p \in G /\ g[i] = clause[p]
    BY <1>1, <1>10
  <2>2. p \in Untouched(q, k)
    <3>1. SUFFICES ASSUME NEW j \in 1 .. k - 1, q[j] \in VarsOf(clause[p])
                   PROVE  FALSE
      BY DEF Untouched
    <3>2. j \in DOMAIN q
      BY <1>3, <1>6
    <3>3. mapfrom[q[j]] \in VarsOf(rc[i])
      BY <1>1, <1>10, <2>1, <3>1 DEF StaysClean
    <3> QED
      BY <1>6, <1>10, <3>1, <3>2, <3>3 DEF FreeOf
  <2>3. PICK l \in ToSet(g[i]) : s * names[k] = Image(mapfrom, l)
    BY <1>1, <1>2, <1>10
  <2>4. l \in Literals(vars) /\ Abs(l) \in 1 .. vars /\ (l = Abs(l) \/ l = -Abs(l)) /\ pnsign(l) \in {-1, 1}
        /\ pnsign(Abs(l)) = 1 /\ pnsign(-Abs(l)) = -1
    BY <1>0, <1>1, <1>8, <1>10, LiteralFacts, SignedFacts
  <2>5. Abs(s * names[k]) = mapfrom[Abs(l)] /\ pnsign(s * names[k]) = pnsign(l)
    BY <1>0, <1>4, <2>3, <2>4, ImageFacts
  <2>6. names[k] \in 1 .. n /\ names[k] = mapfrom[q[k]] /\ q[k] \in 1 .. vars
    BY <1>3, <1>4, <1>6
  <2>7. Abs(s * names[k]) = names[k] /\ pnsign(s * names[k]) = s
    <3>1. 1 * names[k] = names[k] /\ (-1) * names[k] = -names[k]
      BY <2>6
    <3> QED
      BY <2>6, <3>1, SignedFacts
  <2>8. Abs(l) = q[k]
    BY <1>4, <2>4, <2>5, <2>6, <2>7
  <2>9. l = s * q[k]
    <3>1. 1 * q[k] = q[k] /\ (-1) * q[k] = -q[k]
      BY <2>6
    <3> QED
      BY <2>4, <2>5, <2>7, <2>8, <3>1
  <2> QED
    BY <2>1, <2>2, <2>3, <2>9 DEF Occ
<1>11. ASSUME NEW k \in DOMAIN names, NEW i \in DOMAIN rc, NEW j \in DOMAIN rc, FreeOf(rc, names, i, k), FreeOf(rc, names, j, k),
              names[k] \in ToSet(rc[i]), -names[k] \in ToSet(rc[j])
       PROVE  \E l \in ToSet(rc[i]) : Abs(l) # names[k] /\ -l \in ToSet(rc[j])
  <2>1. q[k] \in 1 .. vars /\ names[k] \in 1 .. n /\ names[k] = mapfrom[q[k]]
    BY <1>3, <1>4, <1>6
  <2>2. 1 * names[k] = names[k] /\ (-1) * names[k] = -names[k] /\ 1 * q[k] = q[k] /\ (-1) * q[k] = -q[k]
    BY <2>1
  <2>3. PICK p \in DOMAIN clause : p \in Occ(Untouched(q, k), q[k]) /\ g[i] = clause[p]
    BY <1>10, <1>11, <2>2
  <2>4. PICK r \in DOMAIN clause : r \in Occ(Untouched(q, k), -q[k]) /\ g[j] = clause[r]
    BY <1>10, <1>11, <2>2
  <2>5. res_is_empty(Untouched(q, k), q[k])
    BY <1>6 DEF InOrder
  <2>6. PICK l \in ToSet(g[i]) : Abs(l) # q[k] /\ -l \in ToSet(g[j])
    BY <2>3, <2>4, <2>5 DEF res_is_empty
  <2>7. l \in Literals(vars) /\ Abs(l) \in 1 .. vars /\ mapfrom[Abs(l)] \in 1 .. n
    BY <1>0, <1>1, <1>4, <1>8, LiteralFacts
  <2>8. Abs(Image(mapfrom, l)) = mapfrom[Abs(l)] /\ Image(mapfrom, -l) = -Image(mapfrom, l)
    BY <1>0, <2>7, ImageFacts
  <2>9. mapfrom[Abs(l)] # names[k]
    BY <1>4, <2>1, <2>6, <2>7
  <2>10. Image(mapfrom, l) \in ToSet(rc[i]) /\ Image(mapfrom, -l) \in ToSet(rc[j])
    BY <1>1, <1>2, <2>6
  <2> QED
    BY <2>8, <2>9, <2>10
<1> QED
  BY <1>1, <1>6, <1>7, <1>9, <1>11 DEF SetAside

\* A variable of the input is open, has its value or waits for get_complete_model.
Accounted(n, m, mt, mv, rs) ==
  /\ \A v \in 1 .. n : \/ mt[v] # 0 /\ mv[v] = 0
                       \/ mt[v] = 0 /\ mv[v] \in {-1, 1}
                       \/ mt[v] = 0 /\ mv[v] = Eliminated
  /\ \A v \in 1 .. n : mv[v] = Eliminated <=> v \in ToSet(rs)
  /\ \A x \in 1 .. m : \E v \in 1 .. n : Abs(mt[v]) = x

\* val is the assignment of the input that sol, of the current variables, stands for.
Follows(val, sol, n, mt, mv) ==
  \A v \in 1 .. n : IF mt[v] # 0 THEN val[v] = Value(sol, mt[v])
                    ELSE mv[v] # Eliminated => val[v] = mv[v]

OpenOrFixed(n) == \A v \in 1 .. n : (mapval[v] = 0 /\ mapto[v] # 0) \/ (mapval[v] \in {-1, 1} /\ mapto[v] = 0)

ResolvedTo(n, color, names) ==
  [v \in 1 .. n |-> IF mapto[v] = 0 \/ v \in ToSet(names) THEN 0 ELSE color[mapto[v]]]
ResolvedVal(n, names) == [v \in 1 .. n |-> IF v \in ToSet(names) THEN Eliminated ELSE mapval[v]]

LeftOf(left, S) == /\ left \in Clauses(vars)
                   /\ \A i \in DOMAIN left : \E p \in DOMAIN clause : p \in S /\ clause[p] = left[i]
                   /\ \A p \in DOMAIN clause : p \in S => \E i \in DOMAIN left : left[i] = clause[p]

(* The clauses left after picking. *)
LEMMA LeftIs ==
  ASSUME NEW S, vars \in Nat, clause \in Clauses(vars)
  PROVE  LeftOf(Pick(clause, S), S)
<1> DEFINE left == Pick(clause, S)
<1>1. left \in Clauses(vars) /\ \A x : x \in ToSet(left) <=> \E p \in DOMAIN clause : p \in S /\ clause[p] = x
  BY PickIs DEF Clauses
<1> HIDE DEF left
<1>2. \A x : x \in ToSet(left) <=> \E i \in DOMAIN left : left[i] = x
  BY <1>1, InSeq DEF Clauses
<1>3. ASSUME NEW i \in DOMAIN left
      PROVE  \E p \in DOMAIN clause : p \in S /\ clause[p] = left[i]
  <2>1. left[i] \in ToSet(left)
    BY <1>2
  <2> QED
    BY <1>1, <2>1
<1>4. \A p \in DOMAIN clause : p \in S => \E i \in DOMAIN left : left[i] = clause[p]
  BY <1>1, <1>2
<1> QED
  BY <1>1, <1>3, <1>4 DEF LeftOf, left

(* The variables that keep a name are those that are not taken away. *)
ColorSplit(m, color, q) ==
  /\ color \in [1 .. vars -> 0 .. m]
  /\ \A x \in 1 .. vars : color[x] # 0 <=> x \notin ToSet(q)
  /\ \A k \in 1 .. m : \E x \in 1 .. vars : color[x] = k

LEMMA ColorSplitIs ==
  ASSUME vars \in Nat, clause \in Clauses(vars), NEW q, \A v \in 1 .. vars : v \in ToSet(q) \/ Held(v, q),
         NEW left, LeftOf(left, Without(q))
  PROVE  ColorSplit(Len(Order(left)), Color(left, 1 .. vars), q)
<1> DEFINE m == Len(Order(left))
           color == Color(left, 1 .. vars)
<1>1. /\ color \in [1 .. vars -> 0 .. m]
      /\ \A x \in 1 .. vars : color[x] # 0 <=> \E i \in DOMAIN left : x \in VarsOf(left[i])
      /\ \A k \in 1 .. m : Order(left)[k] \in 1 .. vars /\ color[Order(left)[k]] = k
  BY ColorIs, ColorOfMentioned, ZenonT(60) DEF Clauses, LeftOf
<1> HIDE DEF m, color
<1>2. ASSUME NEW x \in 1 .. vars, color[x] # 0
      PROVE  x \notin ToSet(q)
  <2>1. PICK i \in DOMAIN left : x \in VarsOf(left[i])
    BY <1>1, <1>2
  <2>2. PICK p \in DOMAIN clause : p \in Without(q) /\ clause[p] = left[i]
    BY DEF LeftOf
  <2> QED
    BY <2>1, <2>2 DEF Without
<1>3. ASSUME NEW x \in 1 .. vars, x \notin ToSet(q)
      PROVE  color[x] # 0
  <2>1. PICK p \in Without(q) : x \in VarsOf(clause[p])
    BY <1>3 DEF Held
  <2>2. p \in DOMAIN clause
    BY DEF Without
  <2>3. PICK i \in DOMAIN left : left[i] = clause[p]
    BY <2>1, <2>2 DEF LeftOf
  <2> QED
    BY <1>1, <2>1, <2>3
<1>4. \A k \in 1 .. m : \E x \in 1 .. vars : color[x] = k
  BY <1>1
<1> QED
  BY <1>1, <1>2, <1>3, <1>4 DEF ColorSplit, m, color

NamesSplit(n, names, q) == \A v \in 1 .. n : v \in ToSet(names) <=> mapto[v] # 0 /\ mapto[v] \in ToSet(q)

(* The names of the queue's variables are those mapfrom gives. *)
LEMMA NamesSplitIs ==
  ASSUME NEW n \in Nat, vars \in 0 .. n, NamesOK(n), NEW q \in Seq(1 .. vars)
  PROVE  NamesSplit(n, Mapped(LAMBDA v : mapfrom[v], q), q)
<1> DEFINE names == Mapped(LAMBDA v : mapfrom[v], q)
<1>1. /\ DOMAIN q = 1 .. Len(q) /\ Len(q) \in Nat /\ (\A k \in DOMAIN q : q[k] \in 1 .. vars)
      /\ \A x : x \in ToSet(q) <=> \E k \in DOMAIN q : q[k] = x
  BY InSeq
<1>2. DOMAIN names = DOMAIN q /\ \A k \in DOMAIN q : names[k] = mapfrom[q[k]]
  BY DEF Mapped
<1> HIDE DEF names
<1>3. \A v : v \in ToSet(names) <=> \E k \in DOMAIN q : mapfrom[q[k]] = v
  <2>1. ToSet(names) = {names[k] : k \in DOMAIN names}
    BY DEF ToSet
  <2> QED
    BY <1>2, <2>1
<1>4. /\ \A x \in 1 .. vars : mapto[mapfrom[x]] = x
      /\ \A v \in 1 .. n : mapto[v] # 0 => mapfrom[mapto[v]] = v
  BY DEF NamesOK
<1>5. ASSUME NEW v \in 1 .. n, v \in ToSet(names)
      PROVE  mapto[v] # 0 /\ mapto[v] \in ToSet(q)
  <2>1. PICK k \in DOMAIN q : mapfrom[q[k]] = v
    BY <1>3, <1>5
  <2>2. q[k] \in 1 .. vars
    BY <1>1
  <2>3. mapto[v] = q[k]
    BY <1>4, <2>1, <2>2
  <2> QED
    BY <1>1, <2>2, <2>3
<1>6. ASSUME NEW v \in 1 .. n, mapto[v] # 0, mapto[v] \in ToSet(q)
      PROVE  v \in ToSet(names)
  <2>1. PICK k \in DOMAIN q : q[k] = mapto[v]
    BY <1>1, <1>6
  <2>2. mapfrom[q[k]] = v
    BY <1>4, <1>6, <2>1
  <2> QED
    BY <1>3, <2>2
<1> QED
  BY <1>5, <1>6 DEF NamesSplit, names

(* mapto and mapval after preprocess_resolution. *)
LEMMA ResolvedIs ==
  ASSUME NEW n \in Nat, NamesOK(n), NEW names, NEW q, NamesSplit(n, names, q),
         NEW m \in Nat, NEW color, ColorSplit(m, color, q), NEW v \in 1 .. n
  PROVE  /\ ResolvedTo(n, color, names)[v] \in 0 .. m
         /\ ResolvedTo(n, color, names)[v] # 0 <=> mapto[v] # 0 /\ v \notin ToSet(names)
         /\ ResolvedTo(n, color, names)[v] # 0 => ResolvedTo(n, color, names)[v] = color[mapto[v]]
         /\ ResolvedVal(n, names)[v] = IF v \in ToSet(names) THEN Eliminated ELSE mapval[v]
<1>1. /\ ResolvedTo(n, color, names)[v] = IF mapto[v] = 0 \/ v \in ToSet(names) THEN 0 ELSE color[mapto[v]]
      /\ ResolvedVal(n, names)[v] = IF v \in ToSet(names) THEN Eliminated ELSE mapval[v]
  BY DEF ResolvedTo, ResolvedVal
<1>2. mapto[v] # 0 => mapto[v] \in 1 .. vars
  BY DEF NamesOK
<1>3. mapto[v] # 0 /\ v \notin ToSet(names) => color[mapto[v]] # 0 /\ color[mapto[v]] \in 0 .. m
  BY <1>2 DEF NamesSplit, ColorSplit
<1> QED
  BY <1>1, <1>3

(* After preprocess_resolution every input variable is open, fixed or put aside. *)
LEMMA ResolvedAccounted ==
  ASSUME NEW n \in Nat, vars \in 0 .. n, NamesOK(n), OpenOrFixed(n), NEW names, NEW q, NamesSplit(n, names, q),
         NEW m \in Nat, NEW color, ColorSplit(m, color, q)
  PROVE  Accounted(n, m, ResolvedTo(n, color, names), ResolvedVal(n, names), names)
<1> DEFINE mt == ResolvedTo(n, color, names)
           mv == ResolvedVal(n, names)
<1>1. \A v \in 1 .. n : /\ mt[v] \in 0 .. m
                        /\ mt[v] # 0 <=> mapto[v] # 0 /\ v \notin ToSet(names)
                        /\ mt[v] # 0 => mt[v] = color[mapto[v]]
                        /\ mv[v] = IF v \in ToSet(names) THEN Eliminated ELSE mapval[v]
  BY ResolvedIs
<1> HIDE DEF mt, mv
<1>2. ASSUME NEW v \in 1 .. n
      PROVE  /\ \/ mt[v] # 0 /\ mv[v] = 0
                \/ mt[v] = 0 /\ mv[v] \in {-1, 1}
                \/ mt[v] = 0 /\ mv[v] = Eliminated
             /\ mv[v] = Eliminated <=> v \in ToSet(names)
  <2>1. (mapval[v] = 0 /\ mapto[v] # 0) \/ (mapval[v] \in {-1, 1} /\ mapto[v] = 0)
    BY DEF OpenOrFixed
  <2>2. mapval[v] # Eliminated
    BY <2>1 DEF Eliminated
  <2>3. v \in ToSet(names) => mt[v] = 0 /\ mv[v] = Eliminated
    BY <1>1
  <2>4. v \notin ToSet(names) => (mt[v] # 0 <=> mapto[v] # 0) /\ mv[v] = mapval[v]
    BY <1>1
  <2> QED
    BY <2>1, <2>2, <2>3, <2>4
<1>3. ASSUME NEW k \in 1 .. m
      PROVE  \E v \in 1 .. n : Abs(mt[v]) = k
  <2>1. PICK x \in 1 .. vars : color[x] = k
    BY DEF ColorSplit
  <2>2. mapfrom[x] \in 1 .. n /\ mapto[mapfrom[x]] = x /\ x # 0 /\ k # 0
    BY NamesAre DEF NamesOK
  <2>3. x \notin ToSet(q)
    BY <2>1, <2>2 DEF ColorSplit
  <2>4. mapfrom[x] \notin ToSet(names)
    BY <2>2, <2>3 DEF NamesSplit
  <2>5. mt[mapfrom[x]] = k
    BY <1>1, <2>1, <2>2, <2>4
  <2>6. Abs(k) = k
    BY DEF Abs
  <2> QED
    BY <2>2, <2>5, <2>6
<1> QED
  BY <1>2, <1>3 DEF Accounted, mt, mv

(* A model of what is left and of what is put aside is one of what was there. *)
LEMMA ResolvedBack ==
  ASSUME NEW n \in Nat, vars \in 0 .. n, clause \in Clauses(vars), NamesOK(n), OpenOrFixed(n),
         NEW names, NEW q, NamesSplit(n, names, q),
         NEW left, LeftOf(left, Without(q)),
         NEW m \in Nat, NEW color, ColorSplit(m, color, q), color = Color(left, 1 .. vars),
         NEW sol \in Total(m), NEW val \in Total(n),
         All(sol, Renumbered(left, vars)),
         Follows(val, sol, n, ResolvedTo(n, color, names), ResolvedVal(n, names)),
         All(val, Relabel(Pick(clause, DOMAIN clause \ Without(q)), mapfrom))
  PROVE  \E old \in Total(vars) : All(old, clause) /\ Follows(val, old, n, mapto, mapval)
<1>0. vars \in Nat
  OBVIOUS
<1> DEFINE old == [x \in 1 .. vars |-> val[mapfrom[x]]]
<1>1. \A x \in 1 .. vars : mapfrom[x] \in 1 .. n /\ mapto[mapfrom[x]] = x /\ x # 0
  BY NamesAre DEF NamesOK
<1>2. old \in Total(vars) /\ \A x \in 1 .. vars : old[x] = val[mapfrom[x]]
  BY <1>1 DEF Total
<1> HIDE DEF old
<1>3. ASSUME NEW x \in 1 .. vars, color[x] # 0
      PROVE  sol[color[x]] = old[x]
  <2> DEFINE v == mapfrom[x]
             mt == ResolvedTo(n, color, names)
  <2>1. v \in 1 .. n /\ mapto[v] = x /\ mapto[v] # 0
    BY <1>1
  <2>2. x \notin ToSet(q) /\ color[x] \in 0 .. m
    BY <1>3 DEF ColorSplit
  <2>3. v \notin ToSet(names)
    BY <2>1, <2>2 DEF NamesSplit
  <2> HIDE DEF v, mt
  <2>4. mt[v] = color[x] /\ mt[v] # 0
    BY <2>1, <2>3, ResolvedIs DEF mt
  <2>5. val[v] = Value(sol, color[x])
    BY <2>1, <2>4 DEF Follows, mt
  <2>6. color[x] \in 1 .. m
    BY <2>2, <1>3
  <2>7. Abs(color[x]) = color[x] /\ pnsign(color[x]) = 1
    BY <2>6, SignedFacts
  <2>8. sol[color[x]] \in {-1, 1}
    BY <2>6 DEF Total
  <2>9. Value(sol, color[x]) = sol[color[x]]
    BY <2>7, <2>8 DEF Value
  <2> QED
    BY <1>2, <2>5, <2>9 DEF v
<1>4. \A i \in DOMAIN left : Satisfies(old, left[i])
  <2>1. \A v \in 1 .. vars : Color(left, 1 .. vars)[v] # 0 => sol[Color(left, 1 .. vars)[v]] = old[v]
    BY <1>3
  <2>2. left \in Clauses(vars)
    BY DEF LeftOf
  <2>3. \A i \in DOMAIN left : Satisfies(sol, Renumbered(left, vars)[i]) <=> Satisfies(old, left[i])
    BY <1>0, <2>1, <2>2, RenumberedSatisfied
  <2>4. DOMAIN Renumbered(left, vars) = DOMAIN left
    BY <1>0, <2>2, RenumberedIs
  <2> QED
    BY <2>3, <2>4 DEF All
<1> DEFINE G == DOMAIN clause \ Without(q)
           g == Pick(clause, G)
           rc == Relabel(g, mapfrom)
<1>5. /\ g \in Clauses(vars) /\ Named(g, mapfrom, n) /\ DOMAIN rc = DOMAIN g
      /\ \A p \in DOMAIN clause : p \in G => \E i \in DOMAIN g : g[i] = clause[p]
  BY GoneIs
<1>6. All(val, rc)
  OBVIOUS
<1> HIDE DEF g
<1>7. ASSUME NEW i \in DOMAIN g
      PROVE  Satisfies(old, g[i])
  <2>1. \A v \in VarsOf(g[i]) : v \in 1 .. vars
    BY <1>0, <1>5, InClauses
  <2>2. \A v \in VarsOf(g[i]) : val[mapfrom[v]] = old[v]
    BY <1>2, <2>1
  <2>3. Satisfies(val, rc[i]) <=> Satisfies(old, g[i])
    BY <1>0, <1>5, <2>2, RelabelSatisfied DEF Named
  <2> QED
    BY <1>5, <1>6, <2>3 DEF All
<1>8. ASSUME NEW p \in DOMAIN clause
      PROVE  Satisfies(old, clause[p])
  <2>1. CASE p \in Without(q)
    <3>1. PICK i \in DOMAIN left : left[i] = clause[p]
      BY <2>1 DEF LeftOf
    <3> QED
      BY <1>4, <3>1
  <2>2. CASE p \notin Without(q)
    <3>1. PICK i \in DOMAIN g : g[i] = clause[p]
      BY <1>5, <2>2
    <3> QED
      BY <1>7, <3>1
  <2> QED
    BY <2>1, <2>2
<1>9. ASSUME NEW v \in 1 .. n
      PROVE  IF mapto[v] # 0 THEN val[v] = Value(old, mapto[v]) ELSE mapval[v] # Eliminated => val[v] = mapval[v]
  <2>1. CASE mapto[v] # 0
    <3>1. mapto[v] \in 1 .. vars /\ mapfrom[mapto[v]] = v
      BY <2>1 DEF NamesOK
    <3>2. Abs(mapto[v]) = mapto[v] /\ pnsign(mapto[v]) = 1
      BY <1>0, <3>1, SignedFacts
    <3>3. old[mapto[v]] = val[v] /\ val[v] \in {-1, 1}
      BY <1>2, <3>1 DEF Total
    <3> QED
      BY <2>1, <3>2, <3>3 DEF Value
  <2>2. CASE mapto[v] = 0
    <3> DEFINE mt == ResolvedTo(n, color, names)
               mv == ResolvedVal(n, names)
    <3>1. v \notin ToSet(names) /\ mapval[v] \in {-1, 1}
      BY <2>2 DEF OpenOrFixed, NamesSplit
    <3>2. mt[v] = 0 /\ mv[v] = mapval[v]
      BY <2>2, <3>1, ResolvedIs
    <3>3. Follows(val, sol, n, mt, mv)
      OBVIOUS
    <3> HIDE DEF mt, mv
    <3>4. mv[v] # Eliminated => val[v] = mv[v]
      BY <3>2, <3>3 DEF Follows
    <3>5. mv[v] # Eliminated
      BY <3>1, <3>2 DEF Eliminated
    <3> QED
      BY <2>2, <3>2, <3>4, <3>5
  <2> QED
    BY <2>1, <2>2
<1>10. All(old, clause) /\ Follows(val, old, n, mapto, mapval)
  BY <1>8, <1>9 DEF All, Follows
<1> QED
  BY <1>2, <1>10

-------------------------------------------------------------------------------
(* preprocess_binary *)
LEMMA SignedLiteral ==
  ASSUME NEW n \in Nat, NEW l \in Literals(n), NEW e \in {-1, 1}
  PROVE  /\ e * l \in Literals(n) /\ Abs(e * l) = Abs(l) /\ pnsign(e * l) = e * pnsign(l)
         /\ \A val \in Partial(n) : Value(val, e * l) = e * Value(val, l)
<1>1. l \in Int /\ Abs(l) \in 1 .. n /\ pnsign(l) \in {-1, 1} /\ -l \in Literals(n) /\ Abs(-l) = Abs(l) /\ pnsign(-l) = -pnsign(l)
  BY LiteralFacts
<1>2. 1 * l = l /\ (-1) * l = -l
  BY <1>1
<1>3. \A val \in Partial(n) : Value(val, l) \in {-1, 0, 1} /\ Value(val, -l) = -Value(val, l)
  <2>1. \A val \in Partial(n) : val[Abs(l)] \in {-1, 0, 1}
    BY <1>1 DEF Partial
  <2> QED
    BY <2>1, ValueFacts
<1>4. CASE e = 1
  BY <1>1, <1>2, <1>3, <1>4
<1>5. CASE e = -1
  BY <1>1, <1>2, <1>3, <1>5
<1> QED
  BY <1>4, <1>5

(* The sign of a product. *)
LEMMA SignProduct ==
  ASSUME NEW n \in Nat, NEW k \in Literals(n), NEW l \in Literals(n)
  PROVE  pnsign(k * l) = pnsign(k) * pnsign(l)
<1>1. k = pnsign(k) * Abs(k) /\ pnsign(k) \in {-1, 1} /\ Abs(k) \in 1 .. n /\ k \in Int
      /\ l \in Int /\ pnsign(l) \in {-1, 1} /\ l # 0 /\ k # 0
  BY LiteralFacts
<1>2. k > 0 /\ l > 0 => k * l > 0
  BY <1>1
<1>3. k < 0 /\ l > 0 => k * l < 0
  BY <1>1
<1>4. k > 0 /\ l < 0 => k * l < 0
  BY <1>1
<1>5. k < 0 /\ l < 0 => k * l > 0
  BY <1>1
<1> QED
  BY <1>1, <1>2, <1>3, <1>4, <1>5 DEF pnsign

BinState == [live : SUBSET DOMAIN clause, root : [1 .. vars -> Literals(vars)], varval : Partial(vars),
             hash : [Keys -> 0 .. Len(clause)], nxtc : Seq(1 .. Len(clause)),
             simplify : BOOLEAN, conflict : BOOLEAN, overwritten : BOOLEAN]
OneLevel(s) == \A v \in 1 .. vars : s.root[Abs(s.root[v])] = Abs(s.root[v])

\* The classes and values of s are those of val.
Agree(s, val) == \A v \in 1 .. vars : val[v] = Value(val, s.root[v]) /\ s.varval[v] \in {0, val[v]}

(* The root of a literal stands for it under every assignment that agrees with the level. *)
LEMMA RootIs ==
  ASSUME vars \in Nat, NEW s \in BinState, OneLevel(s), NEW l \in Literals(vars)
  PROVE  /\ Root(s, l) \in Literals(vars) /\ Abs(Root(s, l)) = Abs(s.root[Abs(l)])
         /\ s.root[Abs(l)] \in Literals(vars)
         /\ pnsign(Root(s, l)) = pnsign(l) * pnsign(s.root[Abs(l)])
         /\ Root(s, -l) = -Root(s, l)
         /\ s.root[Abs(Root(s, l))] = Abs(Root(s, l))
         /\ \A val \in Total(vars) : Agree(s, val) => Value(val, Root(s, l)) = Value(val, l)
<1> DEFINE r == s.root[Abs(l)]
<1>1. Abs(l) \in 1 .. vars /\ pnsign(l) \in {-1, 1} /\ Abs(-l) = Abs(l) /\ pnsign(-l) = -pnsign(l)
  BY LiteralFacts
<1>2. r \in Literals(vars)
  BY <1>1 DEF BinState
<1> HIDE DEF r
<1>3. Root(s, l) = pnsign(l) * r /\ Root(s, -l) = pnsign(-l) * r
  BY <1>1 DEF Root, r
<1>4. /\ pnsign(l) * r \in Literals(vars) /\ Abs(pnsign(l) * r) = Abs(r) /\ pnsign(pnsign(l) * r) = pnsign(l) * pnsign(r)
      /\ \A val \in Partial(vars) : Value(val, pnsign(l) * r) = pnsign(l) * Value(val, r)
  BY <1>1, <1>2, SignedLiteral
<1>5. Root(s, -l) = -Root(s, l)
  <2>1. r \in Int
    BY <1>2, LiteralFacts
  <2>2. \A e \in {-1, 1} : (-e) * r = -(e * r)
    BY <2>1
  <2> QED
    BY <1>1, <1>3, <2>2
<1>6. s.root[Abs(r)] = Abs(r)
  BY <1>1 DEF OneLevel, r
<1>7. ASSUME NEW val \in Total(vars), Agree(s, val)
      PROVE  Value(val, Root(s, l)) = Value(val, l)
  <2>1. val \in Partial(vars)
    BY DEF Total, Partial
  <2>2. val[Abs(l)] = Value(val, r)
    BY <1>1, <1>7 DEF Agree, r
  <2>3. Value(val, Root(s, l)) = pnsign(l) * val[Abs(l)]
    BY <1>3, <1>4, <2>1, <2>2
  <2> QED
    BY <2>3 DEF Value
<1> QED
  BY <1>2, <1>3, <1>4, <1>5, <1>6, <1>7 DEF r

Meets(s, cs, val) == Agree(s, val) /\ \A i \in s.live : Satisfies(val, cs[i])
KeysHold(hash, Ref) == \A key \in Keys : hash[key] # 0 => \A val \in Ref : Says(key, val)
Enough(s, cs, key) == \A val \in Total(vars) : Agree(s, val) /\ Says(key, val) => Satisfies(val, cs[s.hash[key]])
KeysEnough(s, cs) == \A key \in Keys : s.hash[key] \in s.live => Enough(s, cs, key)
Exactly(s, cs, Ref) == \A val \in Total(vars) : val \in Ref <=> Meets(s, cs, val)

(* The clauses that are left, the classes and the values have the models    *)
(* Ref; a key of the table follows from them, and a clause from its key.    *)
Sound(s, cs, Ref) == /\ Exactly(s, cs, Ref) /\ KeysHold(s.hash, Ref) /\ KeysEnough(s, cs)
                     /\ s.conflict => Ref = {}

Same(s, t) == /\ t \in BinState /\ OneLevel(t) /\ t.hash = s.hash /\ t.nxtc = s.nxtc /\ t.live \subseteq s.live
              /\ s.conflict => t.conflict
              /\ ~t.overwritten => ~s.overwritten

(* t is s with conflict set. *)
Conflicting(s, t) ==
  /\ Same(s, t) /\ t.conflict = TRUE /\ t.overwritten = s.overwritten
  /\ \A cs, Ref : Sound(s, cs, Ref) /\ Ref = {} => Sound(t, cs, Ref)

LEMMA ConflictIs ==
  ASSUME NEW s \in BinState, OneLevel(s)
  PROVE  Conflicting(s, [s EXCEPT !.conflict = TRUE])
<1> DEFINE t == [s EXCEPT !.conflict = TRUE]
<1>1. /\ t \in BinState /\ t.conflict = TRUE /\ t.root = s.root /\ t.hash = s.hash /\ t.nxtc = s.nxtc /\ t.live = s.live
      /\ t.varval = s.varval /\ t.overwritten = s.overwritten
  BY DEF BinState
<1> HIDE DEF t
<1>2. \A val : Agree(t, val) <=> Agree(s, val)
  BY <1>1 DEF Agree
<1>3. \A cs, val : Meets(t, cs, val) <=> Meets(s, cs, val)
  BY <1>1, <1>2 DEF Meets
<1>4. \A cs, key : Enough(t, cs, key) <=> Enough(s, cs, key)
  BY <1>1, <1>2 DEF Enough
<1>5. ASSUME NEW cs, NEW Ref, Sound(s, cs, Ref), Ref = {}
      PROVE  Sound(t, cs, Ref)
  BY <1>1, <1>3, <1>4, <1>5 DEF Sound, Exactly, KeysEnough
<1>6. Same(s, t)
  BY <1>1 DEF Same, OneLevel
<1>7. Conflicting(s, t)
  BY <1>1, <1>5, <1>6 DEF Conflicting
<1> QED
  BY <1>7 DEF t

(* The clauses S leave, and what the classes and the values say of an       *)
(* assignment becomes stronger by Cond.                                     *)
Narrowed(s, t, S, Cond) ==
  /\ Same(s, t) /\ t.live = s.live \ S /\ t.conflict = s.conflict
  /\ \A val \in Total(vars) : Agree(t, val) <=> Agree(s, val) /\ val \in Cond
Covered(s, cs, S, Cond) ==
  \A i \in S : i \in s.live => \A val \in Total(vars) : Agree(s, val) /\ val \in Cond => Satisfies(val, cs[i])

LEMMA NarrowedSound ==
  ASSUME NEW s, NEW t, NEW S, NEW Cond, Narrowed(s, t, S, Cond), NEW cs, NEW Ref \in SUBSET Total(vars),
         Sound(s, cs, Ref), Ref \subseteq Cond, Covered(s, cs, S, Cond)
  PROVE  Sound(t, cs, Ref)
<1>1. t.hash = s.hash /\ t.live = s.live \ S /\ t.conflict = s.conflict
  BY DEF Narrowed, Same
<1>2. \A val \in Total(vars) : Agree(t, val) <=> Agree(s, val) /\ val \in Cond
  BY DEF Narrowed
<1>3. ASSUME NEW val \in Total(vars)
      PROVE  val \in Ref <=> Meets(t, cs, val)
  <2>1. val \in Ref <=> Meets(s, cs, val)
    BY DEF Sound, Exactly
  <2>2. Meets(s, cs, val) => Meets(t, cs, val)
    BY <1>1, <1>2, <2>1 DEF Meets
  <2>3. ASSUME Meets(t, cs, val)
        PROVE  Meets(s, cs, val)
    <3>1. Agree(s, val) /\ val \in Cond
      BY <1>2, <2>3 DEF Meets
    <3>2. \A i \in s.live : Satisfies(val, cs[i])
      BY <1>1, <2>3, <3>1 DEF Meets, Covered
    <3> QED
      BY <3>1, <3>2 DEF Meets
  <2> QED
    BY <2>1, <2>2, <2>3
<1>4. KeysEnough(t, cs)
  BY <1>1, <1>2 DEF Sound, KeysEnough, Enough
<1> QED
  BY <1>1, <1>3, <1>4 DEF Sound, Exactly

(* Dropping clauses narrows the level and changes nothing else. *)
LEMMA DropIs ==
  ASSUME NEW s \in BinState, OneLevel(s), NEW S
  PROVE  /\ Narrowed(s, Drop(s, S), S, Total(vars))
         /\ Drop(s, S).simplify = TRUE /\ Drop(s, S).root = s.root /\ Drop(s, S).varval = s.varval
         /\ Drop(s, S).overwritten = s.overwritten
<1> DEFINE t == Drop(s, S)
<1>1. /\ t \in BinState /\ t.conflict = s.conflict /\ t.root = s.root /\ t.hash = s.hash /\ t.nxtc = s.nxtc
      /\ t.live = s.live \ S /\ t.varval = s.varval /\ t.overwritten = s.overwritten /\ t.simplify = TRUE
  BY DEF BinState, Drop
<1> HIDE DEF t
<1>2. Same(s, t)
  BY <1>1 DEF Same, OneLevel
<1>3. Narrowed(s, t, S, Total(vars))
  BY <1>1, <1>2 DEF Narrowed, Agree
<1> QED
  BY <1>1, <1>3 DEF t

(* A literal that holds in every model is given its value, and two of the   *)
(* clauses that gave it are dropped.                                        *)
Given(s, S, l) == [Drop(s, S) EXCEPT !.varval[Abs(l)] = pnsign(l)]
Where(l) == {val \in Total(vars) : Value(val, l) = 1}
GivenTo(s, S, l, t) ==
  /\ Same(s, t) /\ t.overwritten = s.overwritten /\ t.simplify = TRUE
  /\ t.root = s.root /\ t.varval = [s.varval EXCEPT ![Abs(l)] = pnsign(l)]
  /\ Value(s.varval, l) # -1 => Narrowed(s, t, S, Where(l))

LEMMA GivenIs ==
  ASSUME vars \in Nat, NEW s \in BinState, OneLevel(s), NEW S, NEW l \in Literals(vars)
  PROVE  GivenTo(s, S, l, Given(s, S, l))
<1> DEFINE t == Given(s, S, l)
<1>1. Abs(l) \in 1 .. vars /\ pnsign(l) \in {-1, 1}
  BY LiteralFacts
<1>2. /\ t \in BinState /\ t.conflict = s.conflict /\ t.root = s.root /\ t.hash = s.hash /\ t.nxtc = s.nxtc
      /\ t.live = s.live \ S /\ t.varval = [s.varval EXCEPT ![Abs(l)] = pnsign(l)] /\ t.overwritten = s.overwritten
      /\ t.simplify = TRUE
  BY <1>1 DEF Given, Drop, BinState, Partial
<1> HIDE DEF t
<1>3. s.varval \in Partial(vars)
  BY DEF BinState
<1>4. /\ t.varval[Abs(l)] = pnsign(l)
      /\ \A v \in 1 .. vars : v # Abs(l) => t.varval[v] = s.varval[v]
  BY <1>1, <1>2, <1>3 DEF Partial
<1>5. ASSUME Value(s.varval, l) # -1, NEW val \in Total(vars)
      PROVE  Agree(t, val) <=> Agree(s, val) /\ Value(val, l) = 1
  <2>1. s.varval[Abs(l)] \in {0, pnsign(l)}
    <3>1. s.varval[Abs(l)] \in {-1, 0, 1}
      BY <1>1, <1>3 DEF Partial
    <3>2. s.varval[Abs(l)] # -pnsign(l)
      BY <1>5, <3>1, ValueFacts
    <3> QED
      BY <1>1, <3>1, <3>2
  <2>2. Value(val, l) = 1 <=> val[Abs(l)] = pnsign(l)
    BY TotalValue
  <2>3. pnsign(l) # 0
    BY <1>1
  <2> QED
    BY <1>1, <1>2, <1>4, <2>1, <2>2, <2>3 DEF Agree
<1>6. Same(s, t)
  BY <1>2 DEF Same, OneLevel
<1>7. Value(s.varval, l) # -1 => Narrowed(s, t, S, Where(l))
  BY <1>2, <1>5, <1>6 DEF Narrowed, Where
<1>8. GivenTo(s, S, l, t)
  BY <1>2, <1>6, <1>7 DEF GivenTo
<1> QED
  BY <1>8 DEF t

Moved(s, t) == Same(s, t) /\ (t.conflict \/ t.simplify)

(* Deriving a unit moves the level forward. *)
LEMMA UnitIs ==
  ASSUME vars \in Nat, NEW s \in BinState, OneLevel(s), NEW i, NEW d, NEW l \in Literals(vars)
  PROVE  Moved(s, Unit(s, i, d, l)) /\ Unit(s, i, d, l).overwritten = s.overwritten
<1>1. CASE Value(s.varval, l) = -1
  <2>1. Unit(s, i, d, l) = [s EXCEPT !.conflict = TRUE]
    BY <1>1 DEF Unit
  <2>2. Conflicting(s, Unit(s, i, d, l))
    BY <2>1, ConflictIs
  <2> QED
    BY <2>2 DEF Conflicting, Moved
<1>2. CASE Value(s.varval, l) # -1
  <2>1. Unit(s, i, d, l) = Given(s, {i, d}, l)
    BY <1>2 DEF Unit, Given
  <2>2. GivenTo(s, {i, d}, l, Unit(s, i, d, l))
    BY <2>1, GivenIs
  <2> QED
    BY <2>2 DEF GivenTo, Moved
<1> QED
  BY <1>1, <1>2

(* A unit from two clauses is a consequence of them. *)
LEMMA UnitSound ==
  ASSUME vars \in Nat, NEW s \in BinState, OneLevel(s), NEW cs, NEW Ref \in SUBSET Total(vars), Sound(s, cs, Ref),
         NEW i, NEW l \in Literals(vars), NEW o \in Literals(vars), l \in ToSet(cs[i]),
         \A val \in Ref : Says({l, o}, val),
         {l, -o} \in Keys, NEW d, d = s.hash[{l, -o}], d # 0
  PROVE  Sound(Unit(s, i, d, l), cs, Ref)
<1>1. ASSUME NEW val \in Ref
      PROVE  Value(val, l) = 1
  <2>1. Says({l, o}, val) /\ Says({l, -o}, val)
    BY DEF Sound, KeysHold
  <2>2. val \in Total(vars)
    OBVIOUS
  <2>3. Value(val, -o) = -Value(val, o)
    BY <2>2, TotalValue
  <2> QED
    BY <2>1, <2>3 DEF Says
<1>2. \A val \in Ref : Agree(s, val)
  BY DEF Sound, Exactly, Meets
<1>3. CASE Value(s.varval, l) = -1
  <2>1. ASSUME NEW val \in Ref
        PROVE  FALSE
    <3>1. Agree(s, val) /\ Value(val, l) = 1 /\ val \in Total(vars)
      BY <1>1, <1>2
    <3>2. Abs(l) \in 1 .. vars /\ pnsign(l) \in {-1, 1}
      BY LiteralFacts
    <3>3. s.varval[Abs(l)] \in {-1, 0, 1}
      BY <3>2 DEF BinState, Partial
    <3>4. s.varval[Abs(l)] = -pnsign(l) /\ val[Abs(l)] = pnsign(l)
      BY <1>3, <3>1, <3>3, ValueFacts, TotalValue
    <3> QED
      BY <3>1, <3>2, <3>4 DEF Agree
  <2>2. Ref = {}
    BY <2>1
  <2>3. Unit(s, i, d, l) = [s EXCEPT !.conflict = TRUE]
    BY <1>3 DEF Unit
  <2>4. Conflicting(s, Unit(s, i, d, l))
    BY <2>3, ConflictIs
  <2> QED
    BY <2>2, <2>4 DEF Conflicting
<1>4. CASE Value(s.varval, l) # -1
  <2>1. Unit(s, i, d, l) = Given(s, {i, d}, l)
    BY <1>4 DEF Unit, Given
  <2>2. GivenTo(s, {i, d}, l, Unit(s, i, d, l))
    BY <2>1, GivenIs
  <2>3. Narrowed(s, Unit(s, i, d, l), {i, d}, Where(l))
    BY <1>4, <2>2 DEF GivenTo
  <2>4. Ref \subseteq Where(l)
    BY <1>1 DEF Where
  <2>5. Covered(s, cs, {i, d}, Where(l))
    <3>1. ASSUME NEW val \in Total(vars), Agree(s, val), Value(val, l) = 1
          PROVE  Satisfies(val, cs[i]) /\ (d \in s.live => Satisfies(val, cs[d]))
      <4>1. Satisfies(val, cs[i])
        BY <3>1 DEF Satisfies
      <4>2. d \in s.live => Enough(s, cs, {l, -o})
        BY DEF Sound, KeysEnough
      <4>3. Says({l, -o}, val)
        BY <3>1 DEF Says
      <4> QED
        BY <3>1, <4>1, <4>2, <4>3 DEF Enough
    <3> QED
      BY <3>1 DEF Covered, Where
  <2> HIDE DEF Unit
  <2> QED
    BY <2>3, <2>4, <2>5, NarrowedSound
<1> QED
  BY <1>3, <1>4

(* Two classes become one. *)
Opposite(lo, hi) == {val \in Total(vars) : Value(val, lo) = -Value(val, hi)}
JoinedTo(s, t, lo, hi) ==
  /\ t \in BinState /\ t.live = s.live /\ t.hash = s.hash /\ t.nxtc = s.nxtc
  /\ t.simplify = s.simplify /\ t.conflict = s.conflict
  /\ \A v \in 1 .. vars : t.root[v] = IF s.root[v] = lo THEN -hi ELSE IF s.root[v] = -lo THEN hi ELSE s.root[v]
  /\ \A v \in 1 .. vars : v # Abs(hi) => t.varval[v] = s.varval[v]
  /\ Value(s.varval, lo) = 0 => t.varval[Abs(hi)] = s.varval[Abs(hi)]
  /\ Value(s.varval, lo) # 0 => Value(t.varval, hi) = -Value(s.varval, lo)
  /\ ~t.overwritten => /\ ~s.overwritten
                       /\ Value(s.varval, lo) # 0 => Value(s.varval, hi) \in {0, -Value(s.varval, lo)}
  /\ t.overwritten => s.overwritten \/ (Value(s.varval, lo) # 0 /\ Value(s.varval, hi) = Value(s.varval, lo))

LEMMA JoinArithmetic ==
  ASSUME NEW lo \in Literals(vars), NEW hi \in Literals(vars), vars \in Nat, NEW a \in {-1, 0, 1}, NEW h \in {-1, 0, 1}
  PROVE  LET given == a * pnsign(-pnsign(lo) * hi)
         IN  /\ given \in {-1, 0, 1} /\ (given = 0 <=> pnsign(lo) * a = 0)
             /\ pnsign(hi) * given = -(pnsign(lo) * a)
             /\ given * h # -1 /\ given # 0 => pnsign(hi) * h \in {0, -(pnsign(lo) * a)}
             /\ given * h = -1 => pnsign(lo) * a # 0 /\ pnsign(hi) * h = pnsign(lo) * a
<1>1. pnsign(lo) \in {-1, 1} /\ pnsign(hi) \in {-1, 1} /\ pnsign(-hi) = -pnsign(hi) /\ hi \in Int /\ lo \in Int
  BY LiteralFacts
<1>2. -(-1) * hi = hi /\ -1 * hi = -hi
  BY <1>1
<1>3. pnsign(-pnsign(lo) * hi) = -(pnsign(lo) * pnsign(hi))
  BY <1>1, <1>2
<1> DEFINE p == pnsign(lo)
           r == pnsign(hi)
<1> HIDE DEF p, r
<1>4. p \in {-1, 1} /\ r \in {-1, 1} /\ pnsign(-pnsign(lo) * hi) = -(p * r)
  BY <1>1, <1>3 DEF p, r
<1>5. LET given == a * (-(p * r))
      IN  /\ given \in {-1, 0, 1} /\ (given = 0 <=> p * a = 0)
          /\ r * given = -(p * a)
          /\ given * h # -1 /\ given # 0 => r * h \in {0, -(p * a)}
          /\ given * h = -1 => p * a # 0 /\ r * h = p * a
  <2>1. CASE p = 1
    BY <1>4, <2>1
  <2>2. CASE p = -1
    BY <1>4, <2>2
  <2> QED
    BY <1>4, <2>1, <2>2
<1> QED
  BY <1>4, <1>5 DEF p, r

(* Joining replaces the roots of one class only. *)
LEMMA RootsInClass ==
  ASSUME vars \in Nat, NEW lo \in Literals(vars), NEW hi \in Literals(vars), NEW r \in Literals(vars)
  PROVE  (IF Abs(r) = Abs(lo) THEN pnsign(r * lo) * (-hi) ELSE r)
           = IF r = lo THEN -hi ELSE IF r = -lo THEN hi ELSE r
<1>1. /\ lo \in Int /\ lo # 0 /\ hi \in Int /\ pnsign(lo) \in {-1, 1} /\ pnsign(-lo) = -pnsign(lo)
      /\ Abs(-lo) = Abs(lo) /\ -lo \in Literals(vars)
  BY LiteralFacts
<1>2. Abs(r) = Abs(lo) => r = lo \/ r = -lo
  BY SameLiteral
<1>3. pnsign(lo * lo) = 1 /\ pnsign(-lo * lo) = -1
  <2>1. pnsign(lo * lo) = pnsign(lo) * pnsign(lo)
    BY SignProduct
  <2>2. pnsign((-lo) * lo) = pnsign(-lo) * pnsign(lo)
    BY <1>1, SignProduct
  <2>3. (-lo) * lo = -lo * lo
    BY <1>1
  <2> QED
    BY <1>1, <2>1, <2>2, <2>3
<1>4. 1 * (-hi) = -hi /\ (-1) * (-hi) = hi
  BY <1>1
<1>5. lo # -lo
  BY <1>1
<1>6. pnsign((-lo) * lo) = -1
  <2>1. (-lo) * lo = -lo * lo
    BY <1>1
  <2> QED
    BY <1>3, <2>1
<1>7. CASE r = lo
  BY <1>1, <1>3, <1>4, <1>7
<1>8. CASE r = -lo
  BY <1>1, <1>4, <1>5, <1>6, <1>8
<1> QED
  BY <1>1, <1>2, <1>7, <1>8

(* What Join writes. *)
LEMMA JoinIs ==
  ASSUME vars \in Nat, NEW s \in BinState, NEW lo \in Literals(vars), NEW hi \in Literals(vars), Abs(lo) # Abs(hi)
  PROVE  JoinedTo(s, Join(s, lo, hi), lo, hi)
<1> DEFINE t == Join(s, lo, hi)
           given == s.varval[Abs(lo)] * pnsign(-pnsign(lo) * hi)
<1>1. /\ t.live = s.live /\ t.hash = s.hash /\ t.nxtc = s.nxtc /\ t.simplify = s.simplify /\ t.conflict = s.conflict
      /\ t.root = [v \in DOMAIN s.root |-> IF Abs(s.root[v]) = Abs(lo) THEN pnsign(s.root[v] * lo) * (-hi) ELSE s.root[v]]
      /\ t.varval = [s.varval EXCEPT ![Abs(hi)] = IF given # 0 THEN given ELSE @]
      /\ t.overwritten = (s.overwritten \/ given * s.varval[Abs(hi)] = -1)
      /\ t = [live |-> t.live, root |-> t.root, varval |-> t.varval, hash |-> t.hash, nxtc |-> t.nxtc,
              simplify |-> t.simplify, conflict |-> t.conflict, overwritten |-> t.overwritten]
  <2> DEFINE R == [v \in DOMAIN s.root |-> IF Abs(s.root[v]) = Abs(lo) THEN pnsign(s.root[v] * lo) * (-hi) ELSE s.root[v]]
             W == [s.varval EXCEPT ![Abs(hi)] = IF given # 0 THEN given ELSE @]
             O == s.overwritten \/ given * s.varval[Abs(hi)] = -1
  <2>1. t = [s EXCEPT !.root = R, !.varval = W, !.overwritten = O]
    <3> HIDE DEF given
    <3>1. t = [s EXCEPT !.root = R, !.varval[Abs(hi)] = IF given # 0 THEN given ELSE @, !.overwritten = O]
      BY DEF Join, given
    <3>2. "varval" \in DOMAIN s
      BY DEF BinState
    <3> HIDE DEF R, O
    <3> QED
      BY <3>1, <3>2
  <2> HIDE DEF R, W, O, t, given
  <2>2. t.live = s.live /\ t.hash = s.hash /\ t.nxtc = s.nxtc /\ t.simplify = s.simplify /\ t.conflict = s.conflict
        /\ t.root = R /\ t.varval = W /\ t.overwritten = O
    BY <2>1 DEF BinState
  <2>3. t = [live |-> t.live, root |-> t.root, varval |-> t.varval, hash |-> t.hash, nxtc |-> t.nxtc,
             simplify |-> t.simplify, conflict |-> t.conflict, overwritten |-> t.overwritten]
    BY <2>1 DEF BinState
  <2> QED
    BY <2>2, <2>3 DEF R, W, O
<1>2. /\ s.root \in [1 .. vars -> Literals(vars)] /\ s.varval \in Partial(vars) /\ s.live \in SUBSET DOMAIN clause
      /\ s.hash \in [Keys -> 0 .. Len(clause)] /\ s.nxtc \in Seq(1 .. Len(clause))
      /\ s.simplify \in BOOLEAN /\ s.conflict \in BOOLEAN /\ s.overwritten \in BOOLEAN
  BY DEF BinState
<1>3. /\ Abs(lo) \in 1 .. vars /\ Abs(hi) \in 1 .. vars /\ -hi \in Literals(vars)
  BY LiteralFacts
<1>4. s.varval[Abs(lo)] \in {-1, 0, 1} /\ s.varval[Abs(hi)] \in {-1, 0, 1}
  BY <1>2, <1>3 DEF Partial
<1>5. /\ given \in {-1, 0, 1} /\ (given = 0 <=> Value(s.varval, lo) = 0)
      /\ pnsign(hi) * given = -Value(s.varval, lo)
      /\ given * s.varval[Abs(hi)] # -1 /\ given # 0 => Value(s.varval, hi) \in {0, -Value(s.varval, lo)}
      /\ given * s.varval[Abs(hi)] = -1 => Value(s.varval, lo) # 0 /\ Value(s.varval, hi) = Value(s.varval, lo)
  BY <1>4, JoinArithmetic DEF Value
<1> HIDE DEF t, given
<1>6. \A v \in 1 .. vars : t.root[v] = IF s.root[v] = lo THEN -hi ELSE IF s.root[v] = -lo THEN hi ELSE s.root[v]
  <2> TAKE v \in 1 .. vars
  <2>1. s.root[v] \in Literals(vars)
    BY <1>2
  <2>2. t.root[v] = IF Abs(s.root[v]) = Abs(lo) THEN pnsign(s.root[v] * lo) * (-hi) ELSE s.root[v]
    BY <1>1, <1>2
  <2> QED
    BY <2>1, <2>2, RootsInClass
<1>7. t.root \in [1 .. vars -> Literals(vars)]
  <2>1. DOMAIN t.root = 1 .. vars
    BY <1>1, <1>2
  <2>2. t.root = [v \in 1 .. vars |-> t.root[v]]
    BY <1>1, <2>1
  <2>3. \A v \in 1 .. vars : t.root[v] \in Literals(vars)
    BY <1>2, <1>3, <1>6
  <2> QED
    BY <2>2, <2>3
<1>8. t.varval \in Partial(vars)
  BY <1>1, <1>2, <1>3, <1>5 DEF Partial
<1>9. t.varval[Abs(hi)] = IF given # 0 THEN given ELSE s.varval[Abs(hi)]
  BY <1>1, <1>2, <1>3 DEF Partial
<1>10. \A v \in 1 .. vars : v # Abs(hi) => t.varval[v] = s.varval[v]
  BY <1>1, <1>2 DEF Partial
<1>11. t.overwritten \in BOOLEAN
  BY <1>1
<1>12. t \in BinState
  BY <1>1, <1>2, <1>7, <1>8, <1>11 DEF BinState
<1>13. Value(s.varval, lo) # 0 => Value(t.varval, hi) = -Value(s.varval, lo)
  BY <1>5, <1>9 DEF Value
<1>14. ~t.overwritten => /\ ~s.overwritten
                         /\ Value(s.varval, lo) # 0 => Value(s.varval, hi) \in {0, -Value(s.varval, lo)}
  BY <1>1, <1>5
<1>15. Value(s.varval, lo) = 0 => t.varval[Abs(hi)] = s.varval[Abs(hi)]
  BY <1>5, <1>9
<1>16. t.overwritten => s.overwritten \/ (Value(s.varval, lo) # 0 /\ Value(s.varval, hi) = Value(s.varval, lo))
  BY <1>1, <1>5
<1>17. JoinedTo(s, t, lo, hi)
  BY <1>1, <1>6, <1>10, <1>12, <1>13, <1>14, <1>15, <1>16 DEF JoinedTo
<1> QED
  BY <1>17 DEF t

(* Joining two roots leaves a level of depth one. *)
LEMMA JoinSame ==
  ASSUME vars \in Nat, NEW s \in BinState, OneLevel(s), NEW lo \in Literals(vars), NEW hi \in Literals(vars),
         Abs(lo) # Abs(hi), s.root[Abs(hi)] = Abs(hi), NEW t, JoinedTo(s, t, lo, hi)
  PROVE  Same(s, t)
<1>1. OneLevel(t)
  <2> SUFFICES ASSUME NEW v \in 1 .. vars
               PROVE  t.root[Abs(t.root[v])] = Abs(t.root[v])
    BY DEF OneLevel
  <2>1. Abs(hi) \in 1 .. vars /\ Abs(-hi) = Abs(hi) /\ Abs(-lo) = Abs(lo) /\ Abs(hi) # lo /\ Abs(hi) # -lo
        /\ -lo \in Literals(vars) /\ lo \in Int /\ hi \in Int
    <3>1. Abs(hi) \in 1 .. vars /\ Abs(-hi) = Abs(hi) /\ Abs(-lo) = Abs(lo) /\ -lo \in Literals(vars) /\ lo \in Int /\ hi \in Int
      BY LiteralFacts
    <3>2. Abs(Abs(hi)) = Abs(hi)
      BY <3>1, SignedFacts
    <3> QED
      BY <3>1, <3>2
  <2>2. t.root[Abs(hi)] = Abs(hi)
    BY <2>1 DEF JoinedTo
  <2>3. CASE s.root[v] = lo \/ s.root[v] = -lo
    BY <2>1, <2>2, <2>3 DEF JoinedTo
  <2>4. CASE s.root[v] # lo /\ s.root[v] # -lo
    <3>1. t.root[v] = s.root[v] /\ s.root[v] \in Literals(vars)
      BY <2>4 DEF JoinedTo, BinState
    <3> DEFINE r == s.root[v]
    <3>2. s.root[Abs(r)] = Abs(r)
      BY DEF OneLevel
    <3> HIDE DEF r
    <3>3. r \in Literals(vars)
      BY <3>1 DEF r
    <3>4. Abs(r) # Abs(lo) /\ Abs(r) \in 1 .. vars
      <4>1. r # lo /\ r # -lo
        BY <2>4 DEF r
      <4> QED
        BY <3>3, <4>1, SameLiteral, LiteralFacts
    <3>5. Abs(r) # lo /\ Abs(r) # -lo
      <4>1. Abs(Abs(r)) = Abs(r)
        BY <3>4, SignedFacts
      <4> QED
        BY <2>1, <3>4, <4>1
    <3>6. t.root[Abs(r)] = Abs(r)
      BY <3>2, <3>4, <3>5 DEF JoinedTo
    <3> QED
      BY <3>1, <3>6 DEF r
  <2> QED
    BY <2>3, <2>4
<1>2. t \in BinState /\ t.live \subseteq s.live /\ t.hash = s.hash /\ t.nxtc = s.nxtc /\ t.conflict = s.conflict
      /\ (~t.overwritten => ~s.overwritten)
  BY DEF JoinedTo
<1> QED
  BY <1>1, <1>2 DEF Same

(* Joining states exactly that the two literals are opposite, unless a value is overwritten. *)
LEMMA JoinAgrees ==
  ASSUME vars \in Nat, NEW s \in BinState, OneLevel(s), NEW lo \in Literals(vars), NEW hi \in Literals(vars),
         Abs(lo) # Abs(hi), s.root[Abs(lo)] = Abs(lo), NEW t, JoinedTo(s, t, lo, hi), ~t.overwritten,
         NEW val \in Total(vars)
  PROVE  Agree(t, val) <=> Agree(s, val) /\ Value(val, lo) = -Value(val, hi)
<1>1. /\ Value(val, lo) \in {-1, 1} /\ Value(val, hi) \in {-1, 1} /\ Value(val, -lo) = -Value(val, lo)
      /\ Value(val, -hi) = -Value(val, hi)
  BY TotalValue
<1>2. Abs(lo) \in 1 .. vars /\ Abs(hi) \in 1 .. vars /\ pnsign(lo) \in {-1, 1} /\ pnsign(hi) \in {-1, 1}
      /\ -lo \in Literals(vars) /\ -hi \in Literals(vars)
      /\ (Abs(lo) = lo \/ Abs(lo) = -lo)
  <2>1. Abs(lo) \in Int
    BY LiteralFacts
  <2> QED
    BY <2>1, LiteralFacts
<1>3. ASSUME Value(val, lo) = -Value(val, hi), NEW v \in 1 .. vars
      PROVE  Value(val, t.root[v]) = Value(val, s.root[v])
  BY <1>1, <1>3 DEF JoinedTo
<1>4. val[Abs(lo)] = Value(val, Abs(lo))
  <2>1. pnsign(Abs(lo)) = 1 /\ Abs(Abs(lo)) = Abs(lo) /\ val[Abs(lo)] \in {-1, 1}
    BY <1>2, SignedFacts DEF Total
  <2> QED
    BY <2>1 DEF Value
<1>5. Agree(t, val) => Value(val, lo) = -Value(val, hi)
  <2>1. t.root[Abs(lo)] = IF Abs(lo) = lo THEN -hi ELSE hi
    BY <1>2 DEF JoinedTo
  <2>2. Agree(t, val) => val[Abs(lo)] = Value(val, t.root[Abs(lo)])
    BY <1>2 DEF Agree
  <2>3. Value(val, Abs(lo)) = IF Abs(lo) = lo THEN Value(val, lo) ELSE -Value(val, lo)
    BY <1>1, <1>2
  <2> QED
    BY <1>1, <1>4, <2>1, <2>2, <2>3
<1>6. /\ s.varval[Abs(lo)] \in {-1, 0, 1} /\ s.varval[Abs(hi)] \in {-1, 0, 1} /\ t.varval[Abs(hi)] \in {-1, 0, 1}
  BY <1>2 DEF BinState, JoinedTo, Partial
<1>7. /\ Value(s.varval, lo) \in {-1, 0, 1} /\ Value(s.varval, hi) \in {-1, 0, 1} /\ Value(t.varval, hi) \in {-1, 0, 1}
      /\ s.varval[Abs(lo)] \in {0, val[Abs(lo)]} <=> Value(s.varval, lo) \in {0, Value(val, lo)}
      /\ s.varval[Abs(hi)] \in {0, val[Abs(hi)]} <=> Value(s.varval, hi) \in {0, Value(val, hi)}
      /\ t.varval[Abs(hi)] \in {0, val[Abs(hi)]} <=> Value(t.varval, hi) \in {0, Value(val, hi)}
  <2>1. \A e \in {-1, 1}, x \in {-1, 0, 1}, y \in {-1, 0, 1} : e * x \in {-1, 0, 1} /\ (x \in {0, y} <=> e * x \in {0, e * y})
    OBVIOUS
  <2>2. val[Abs(lo)] \in {-1, 0, 1} /\ val[Abs(hi)] \in {-1, 0, 1}
    BY <1>2 DEF Total
  <2> QED
    BY <1>2, <1>6, <2>1, <2>2 DEF Value
<1>8. ASSUME Value(val, lo) = -Value(val, hi), s.varval[Abs(lo)] \in {0, val[Abs(lo)]}
      PROVE  t.varval[Abs(hi)] \in {0, val[Abs(hi)]} <=> s.varval[Abs(hi)] \in {0, val[Abs(hi)]}
  <2>1. CASE Value(s.varval, lo) = 0
    BY <2>1 DEF JoinedTo
  <2>2. CASE Value(s.varval, lo) # 0
    <3>1. Value(s.varval, lo) = Value(val, lo)
      BY <1>7, <1>8, <2>2
    <3>2. Value(t.varval, hi) = Value(val, hi)
      BY <1>1, <1>8, <2>2, <3>1 DEF JoinedTo
    <3>3. Value(s.varval, hi) \in {0, Value(val, hi)}
      BY <1>1, <1>8, <2>2, <3>1 DEF JoinedTo
    <3> QED
      BY <1>7, <3>2, <3>3
  <2> QED
    BY <2>1, <2>2
<1>9. \A v \in 1 .. vars : v # Abs(hi) => t.varval[v] = s.varval[v]
  BY DEF JoinedTo
<1>10. ASSUME Value(val, lo) = -Value(val, hi)
       PROVE  Agree(t, val) <=> Agree(s, val)
  <2>1. Agree(t, val) => s.varval[Abs(lo)] \in {0, val[Abs(lo)]}
    BY <1>2, <1>9 DEF Agree
  <2>2. Agree(s, val) => s.varval[Abs(lo)] \in {0, val[Abs(lo)]}
    BY <1>2 DEF Agree
  <2>3. s.varval[Abs(lo)] \in {0, val[Abs(lo)]} => \A v \in 1 .. vars : t.varval[v] \in {0, val[v]} <=> s.varval[v] \in {0, val[v]}
    BY <1>8, <1>9, <1>10
  <2>4. \A v \in 1 .. vars : Value(val, t.root[v]) = Value(val, s.root[v])
    BY <1>3, <1>10
  <2> QED
    BY <2>1, <2>2, <2>3, <2>4 DEF Agree
<1> QED
  BY <1>5, <1>10

(* Merger the classes of a clause's two literals. *)
Merger(s, t, S, lo, hi) ==
  /\ Same(s, t) /\ t.simplify = TRUE
  /\ ~t.overwritten => Narrowed(s, t, S, Opposite(lo, hi))
  /\ t.overwritten => s.overwritten \/ \A val \in Opposite(lo, hi) : ~Agree(s, val)

LEMMA DropJoinIs ==
  ASSUME vars \in Nat, NEW s \in BinState, OneLevel(s), NEW S, NEW lo \in Literals(vars), NEW hi \in Literals(vars),
         Abs(lo) # Abs(hi), s.root[Abs(lo)] = Abs(lo), s.root[Abs(hi)] = Abs(hi)
  PROVE  Merger(s, Join(Drop(s, S), lo, hi), S, lo, hi)
<1> DEFINE d == Drop(s, S)
           t == Join(d, lo, hi)
<1>1. /\ Narrowed(s, d, S, Total(vars)) /\ d.simplify = TRUE /\ d.root = s.root /\ d.varval = s.varval
      /\ d.overwritten = s.overwritten
  BY DropIs
<1> HIDE DEF d
<1>2. Same(s, d) /\ d \in BinState /\ OneLevel(d) /\ d.live = s.live \ S
  BY <1>1 DEF Narrowed, Same
<1>3. JoinedTo(d, t, lo, hi)
  BY <1>2, JoinIs
<1> HIDE DEF t
<1>4. Same(d, t)
  BY <1>1, <1>2, <1>3, JoinSame
<1>5. t.live = s.live \ S /\ t.conflict = s.conflict /\ t.simplify = TRUE
  BY <1>1, <1>2, <1>3 DEF JoinedTo, Narrowed
<1>6. Same(s, t)
  BY <1>2, <1>4 DEF Same
<1>7. ASSUME ~t.overwritten, NEW val \in Total(vars)
      PROVE  Agree(t, val) <=> Agree(s, val) /\ val \in Opposite(lo, hi)
  <2>1. Agree(t, val) <=> Agree(d, val) /\ Value(val, lo) = -Value(val, hi)
    BY <1>1, <1>2, <1>3, <1>7, JoinAgrees
  <2>2. Agree(d, val) <=> Agree(s, val)
    BY <1>1 DEF Narrowed
  <2> QED
    BY <2>1, <2>2 DEF Opposite
<1>8. ASSUME t.overwritten, ~s.overwritten, NEW val \in Opposite(lo, hi), Agree(s, val)
      PROVE  FALSE
  <2>1. Value(s.varval, lo) # 0 /\ Value(s.varval, hi) = Value(s.varval, lo)
    BY <1>1, <1>3, <1>8 DEF JoinedTo
  <2>2. val \in Total(vars) /\ Value(val, lo) = -Value(val, hi) /\ Value(val, lo) \in {-1, 1} /\ Value(val, hi) \in {-1, 1}
    BY TotalValue DEF Opposite
  <2>3. \A l \in Literals(vars) : s.varval[Abs(l)] \in {0, val[Abs(l)]}
    BY <1>8, LiteralFacts DEF Agree
  <2>4. \A l \in Literals(vars) : Value(s.varval, l) \in {0, Value(val, l)}
    <3> TAKE l \in Literals(vars)
    <3>1. pnsign(l) * 0 = 0
      BY LiteralFacts
    <3> QED
      BY <2>3, <3>1 DEF Value
  <2> QED
    BY <2>1, <2>2, <2>4
<1>9. Merger(s, t, S, lo, hi)
  BY <1>5, <1>6, <1>7, <1>8 DEF Merger, Narrowed
<1> QED
  BY <1>9 DEF t, d

(* Merging drops two clauses, finds a conflict or joins two classes. *)
LEMMA MergeCases ==
  ASSUME vars \in Nat, NEW s \in BinState, OneLevel(s), NEW i, NEW r,
         clause[i][1] \in Literals(vars), clause[i][2] \in Literals(vars),
         NEW x, x = Root(s, clause[i][1]), NEW y, y = Root(s, clause[i][2])
  PROVE  /\ x \in Literals(vars) /\ y \in Literals(vars)
         /\ \/ x = -y /\ Merge(s, i, r) = Drop(s, {i, r})
            \/ x = y /\ x # -y /\ Conflicting(s, Merge(s, i, r))
            \/ Merger(s, Merge(s, i, r), {i, r}, x, y)
            \/ Merger(s, Merge(s, i, r), {i, r}, y, x)
<1>1. /\ x \in Literals(vars) /\ y \in Literals(vars) /\ s.root[Abs(x)] = Abs(x) /\ s.root[Abs(y)] = Abs(y)
  BY RootIs
<1>2. Merge(s, i, r) = IF x = -y THEN Drop(s, {i, r})
                       ELSE IF x = y THEN [s EXCEPT !.conflict = TRUE]
                       ELSE IF Abs(x) < Abs(y) THEN Join(Drop(s, {i, r}), x, y)
                       ELSE Join(Drop(s, {i, r}), y, x)
  BY DEF Merge
<1>3. x # -y /\ x # y => Abs(x) # Abs(y)
  BY <1>1, SameLiteral
<1>4. CASE x = -y
  BY <1>1, <1>2, <1>4
<1>5. CASE x # -y /\ x = y
  <2>1. Merge(s, i, r) = [s EXCEPT !.conflict = TRUE]
    BY <1>2, <1>5
  <2>2. Conflicting(s, Merge(s, i, r))
    BY <2>1, ConflictIs
  <2> QED
    BY <1>1, <1>5, <2>2
<1>6. CASE x # -y /\ x # y /\ Abs(x) < Abs(y)
  <2>1. Merge(s, i, r) = Join(Drop(s, {i, r}), x, y)
    BY <1>2, <1>6
  <2>2. Merger(s, Merge(s, i, r), {i, r}, x, y)
    BY <1>1, <1>3, <1>6, <2>1, DropJoinIs
  <2> QED
    BY <1>1, <2>2
<1>7. CASE x # -y /\ x # y /\ ~(Abs(x) < Abs(y))
  <2>1. Merge(s, i, r) = Join(Drop(s, {i, r}), y, x)
    BY <1>2, <1>7
  <2>2. Merger(s, Merge(s, i, r), {i, r}, y, x)
    BY <1>1, <1>3, <1>7, <2>1, DropJoinIs
  <2> QED
    BY <1>1, <2>2
<1> QED
  BY <1>4, <1>5, <1>6, <1>7

(* Merging moves the level forward. *)
LEMMA MergeIs ==
  ASSUME vars \in Nat, NEW s \in BinState, OneLevel(s), NEW i, NEW r,
         clause[i][1] \in Literals(vars), clause[i][2] \in Literals(vars)
  PROVE  Moved(s, Merge(s, i, r))
<1> DEFINE t == Merge(s, i, r)
           x == Root(s, clause[i][1])
           y == Root(s, clause[i][2])
<1>1. \/ x = -y /\ t = Drop(s, {i, r})
      \/ Conflicting(s, t)
      \/ Merger(s, t, {i, r}, x, y)
      \/ Merger(s, t, {i, r}, y, x)
  BY MergeCases
<1> HIDE DEF t, x, y
<1>2. CASE t = Drop(s, {i, r})
  <2>1. Narrowed(s, t, {i, r}, Total(vars)) /\ t.simplify = TRUE
    BY <1>2, DropIs
  <2> QED
    BY <2>1 DEF Narrowed, Moved, t
<1>3. CASE Conflicting(s, t)
  BY <1>3 DEF Conflicting, Moved, t
<1>4. CASE Merger(s, t, {i, r}, x, y) \/ Merger(s, t, {i, r}, y, x)
  BY <1>4 DEF Merger, Moved, t
<1> QED
  BY <1>1, <1>2, <1>3, <1>4

(* Merging on two clauses states what they imply, unless a value is overwritten. *)
LEMMA MergeSound ==
  ASSUME vars \in Nat, NEW s \in BinState, OneLevel(s), NEW Ref \in SUBSET Total(vars), NEW cs, Sound(s, cs, Ref),
         NEW i, NEW k \in Literals(vars), NEW l \in Literals(vars), k = clause[i][1], l = clause[i][2],
         k \in ToSet(cs[i]), l \in ToSet(cs[i]), \A val \in Ref : Says({k, l}, val),
         {-k, -l} \in Keys, NEW r, r = s.hash[{-k, -l}], r # 0
  PROVE  IF Merge(s, i, r).overwritten THEN s.overwritten \/ Ref = {} ELSE Sound(Merge(s, i, r), cs, Ref)
<1> DEFINE t == Merge(s, i, r)
           x == Root(s, k)
           y == Root(s, l)
<1>1. /\ x \in Literals(vars) /\ y \in Literals(vars)
      /\ \A val \in Total(vars) : Agree(s, val) => Value(val, x) = Value(val, k) /\ Value(val, y) = Value(val, l)
  BY RootIs
<1>2. \/ x = -y /\ t = Drop(s, {i, r})
      \/ x = y /\ Conflicting(s, t)
      \/ Merger(s, t, {i, r}, x, y)
      \/ Merger(s, t, {i, r}, y, x)
  BY MergeCases
<1> HIDE DEF t, x, y
<1>3. \A val \in Ref : Agree(s, val) /\ val \in Total(vars)
  BY DEF Sound, Exactly, Meets
<1>4. \A val \in Total(vars) : /\ Value(val, -k) = -Value(val, k) /\ Value(val, -l) = -Value(val, l)
                               /\ Value(val, k) \in {-1, 1} /\ Value(val, l) \in {-1, 1}
                               /\ Value(val, x) \in {-1, 1} /\ Value(val, y) \in {-1, 1} /\ Value(val, -y) = -Value(val, y)
  BY <1>1, TotalValue
<1>5. ASSUME NEW val \in Ref
      PROVE  Value(val, x) = -Value(val, y)
  <2>1. Says({k, l}, val) /\ Says({-k, -l}, val)
    BY DEF Sound, KeysHold
  <2>2. Value(val, k) = -Value(val, l)
    BY <1>3, <1>4, <2>1 DEF Says
  <2> QED
    BY <1>1, <1>3, <2>2
<1>6. ASSUME NEW val \in Total(vars), Agree(s, val), Value(val, x) = -Value(val, y)
      PROVE  Satisfies(val, cs[i]) /\ (r \in s.live => Satisfies(val, cs[r]))
  <2>1. Value(val, k) = -Value(val, l)
    BY <1>1, <1>6
  <2>2. Satisfies(val, cs[i])
    BY <1>4, <2>1 DEF Satisfies
  <2>3. Says({-k, -l}, val)
    BY <1>4, <2>1 DEF Says
  <2>4. r \in s.live => Enough(s, cs, {-k, -l})
    BY DEF Sound, KeysEnough
  <2> QED
    BY <1>6, <2>2, <2>3, <2>4 DEF Enough
<1>7. CASE x = -y /\ t = Drop(s, {i, r})
  <2>1. Narrowed(s, t, {i, r}, Total(vars))
    BY <1>7, DropIs
  <2>2. Covered(s, cs, {i, r}, Total(vars))
    <3>1. \A val \in Total(vars) : Value(val, x) = -Value(val, y)
      BY <1>4, <1>7
    <3> QED
      BY <1>6, <3>1 DEF Covered
  <2>3. Sound(t, cs, Ref)
    BY <2>1, <2>2, NarrowedSound
  <2>4. t.overwritten = s.overwritten
    BY <1>7, DropIs
  <2> QED
    BY <2>3, <2>4 DEF t
<1>8. CASE x = y /\ Conflicting(s, t)
  <2>1. Ref = {}
    BY <1>3, <1>4, <1>5, <1>8
  <2> QED
    BY <1>8, <2>1 DEF Conflicting, t
<1>9. ASSUME NEW lo, NEW hi, <<lo, hi>> \in {<<x, y>>, <<y, x>>}, Merger(s, t, {i, r}, lo, hi)
      PROVE  IF t.overwritten THEN s.overwritten \/ Ref = {} ELSE Sound(t, cs, Ref)
  <2>1. \A val \in Total(vars) : val \in Opposite(lo, hi) <=> Value(val, x) = -Value(val, y)
    BY <1>4, <1>9 DEF Opposite
  <2>2. Ref \subseteq Opposite(lo, hi)
    BY <1>3, <1>5, <2>1
  <2>3. Covered(s, cs, {i, r}, Opposite(lo, hi))
    BY <1>6, <2>1 DEF Covered
  <2>4. ASSUME ~t.overwritten
        PROVE  Sound(t, cs, Ref)
    <3>1. Narrowed(s, t, {i, r}, Opposite(lo, hi))
      BY <1>9, <2>4 DEF Merger
    <3> QED
      BY <2>2, <2>3, <3>1, NarrowedSound
  <2>5. t.overwritten => s.overwritten \/ Ref = {}
    BY <1>3, <1>9, <2>2 DEF Merger
  <2> QED
    BY <2>4, <2>5
<1> QED
  BY <1>2, <1>7, <1>8, <1>9 DEF t

Two(i) == /\ i \in DOMAIN clause /\ clause[i] \in Seq(Literals(vars)) /\ Len(clause[i]) = 2
          /\ ToSet(clause[i]) = {clause[i][1], clause[i][2]}
          /\ clause[i][1] \in Literals(vars) /\ clause[i][2] \in Literals(vars)

(* A clause of two literals. *)
LEMMA TwoIs ==
  ASSUME vars \in Nat, clause \in Clauses(vars), NEW i \in DOMAIN clause, Len(clause[i]) = 2
  PROVE  Two(i)
<1>1. /\ clause[i] \in Seq(Literals(vars)) /\ DOMAIN clause[i] = 1 .. 2
      /\ \A j \in DOMAIN clause[i] : clause[i][j] \in Literals(vars)
      /\ \A l : l \in ToSet(clause[i]) <=> \E j \in DOMAIN clause[i] : clause[i][j] = l
  BY InClauses
<1>2. 1 .. 2 = {1, 2}
  OBVIOUS
<1>3. ToSet(clause[i]) = {clause[i][1], clause[i][2]}
  BY <1>1, <1>2
<1> QED
  BY <1>1, <1>2, <1>3 DEF Two

(* Pairs of literals are keys of the hash table. *)
LEMMA KeyIs ==
  ASSUME vars \in Nat, NEW x \in Literals(vars), NEW y \in Literals(vars)
  PROVE  {x, y} \in Keys /\ {-x, -y} \in Keys /\ {x, -y} \in Keys /\ {-x, y} \in Keys /\ {y, -x} = {-x, y}
<1>1. -x \in Literals(vars) /\ -y \in Literals(vars)
  BY LiteralFacts
<1> QED
  BY <1>1 DEF Keys

(* What the three look-ups of a clause of two literals leave. *)
AfterMerge(s, i) == LET r == s.hash[{-clause[i][1], -clause[i][2]}]
                    IN  IF r = 0 THEN s ELSE Merge(s, i, r)
AfterUnit(s, i, d, l) == IF d = 0 \/ s.conflict THEN s ELSE Unit(s, i, d, l)

LEMMA PairUpParts ==
  ASSUME NEW s, NEW i
  PROVE  LET x == clause[i][1]   y == clause[i][2]
         IN  PairUp(s, i) = IF i \notin s.live \/ s.conflict THEN s
                            ELSE AfterUnit(AfterUnit(AfterMerge(s, i), i, s.hash[{x, -y}], x), i, s.hash[{-x, y}], y)
<1> DEFINE x == clause[i][1]
           y == clause[i][2]
           r == s.hash[{-x, -y}]
           d1 == s.hash[{x, -y}]
           d2 == s.hash[{-x, y}]
           s0 == IF r = 0 THEN s ELSE Merge(s, i, r)
           s1 == IF d1 = 0 \/ s0.conflict THEN s0 ELSE Unit(s0, i, d1, x)
           s2 == IF d2 = 0 \/ s1.conflict THEN s1 ELSE Unit(s1, i, d2, y)
<1>1. PairUp(s, i) = IF i \notin s.live \/ s.conflict THEN s ELSE s2
  BY DEF PairUp
<1>2. s0 = AfterMerge(s, i)
  BY DEF AfterMerge
<1> HIDE DEF s0, s1
<1>3. s1 = AfterUnit(s0, i, d1, x)
  BY DEF AfterUnit, s1
<1>4. s2 = AfterUnit(s1, i, d2, y)
  BY DEF AfterUnit
<1> HIDE DEF s2, d1, d2
<1>5. PairUp(s, i) = IF i \notin s.live \/ s.conflict THEN s
                     ELSE AfterUnit(AfterUnit(AfterMerge(s, i), i, d1, x), i, d2, y)
  BY <1>1, <1>2, <1>3, <1>4
<1> QED
  BY <1>5 DEF d1, d2

(* Going on from a level twice is going on from it. *)
LEMMA SameTransitive ==
  ASSUME NEW s, NEW t, NEW u, Same(s, t), Same(t, u)
  PROVE  Same(s, u)
BY DEF Same

(* The merging step of PairUp goes on from its level. *)
LEMMA AfterMergeIs ==
  ASSUME vars \in Nat, NEW s \in BinState, OneLevel(s), NEW i, Two(i)
  PROVE  Same(s, AfterMerge(s, i))
<1> DEFINE r == s.hash[{-clause[i][1], -clause[i][2]}]
<1>1. AfterMerge(s, i) = IF r = 0 THEN s ELSE Merge(s, i, r)
  BY DEF AfterMerge
<1>2. Moved(s, Merge(s, i, r))
  BY MergeIs DEF Two
<1>3. Same(s, s)
  BY DEF Same
<1> HIDE DEF r
<1> QED
  BY <1>1, <1>2, <1>3 DEF Moved

(* So do its two unit steps. *)
LEMMA AfterUnitIs ==
  ASSUME vars \in Nat, NEW s \in BinState, OneLevel(s), NEW i, NEW d, NEW l \in Literals(vars)
  PROVE  Same(s, AfterUnit(s, i, d, l)) /\ AfterUnit(s, i, d, l).overwritten = s.overwritten
<1>1. Same(s, s)
  BY DEF Same
<1>2. Moved(s, Unit(s, i, d, l)) /\ Unit(s, i, d, l).overwritten = s.overwritten
  BY UnitIs
<1> QED
  BY <1>1, <1>2 DEF AfterUnit, Moved

(* Where a merge has overwritten a value there was no model any more. *)
SoundIf(s, cs, Ref) == IF s.overwritten THEN Ref = {} ELSE Sound(s, cs, Ref)

LEMMA PairUpIs ==
  ASSUME vars \in Nat, NEW s \in BinState, OneLevel(s), NEW i, Two(i)
  PROVE  /\ Same(s, PairUp(s, i))
         /\ \A Ref \in SUBSET Total(vars) : SoundIf(s, clause, Ref) => SoundIf(PairUp(s, i), clause, Ref)
<1> DEFINE x == clause[i][1]
           y == clause[i][2]
           d1 == s.hash[{x, -y}]
           d2 == s.hash[{-x, y}]
           s0 == AfterMerge(s, i)
           s1 == AfterUnit(s0, i, d1, x)
           s2 == AfterUnit(s1, i, d2, y)
<1>1. PairUp(s, i) = IF i \notin s.live \/ s.conflict THEN s ELSE s2
  BY PairUpParts
<1>2. x \in Literals(vars) /\ y \in Literals(vars) /\ ToSet(clause[i]) = {x, y}
  BY DEF Two
<1>3. Same(s, s0)
  BY AfterMergeIs
<1> HIDE DEF s0
<1>4. Same(s0, s1) /\ s1.overwritten = s0.overwritten
  BY <1>2, <1>3, AfterUnitIs DEF Same
<1> HIDE DEF s1
<1>5. Same(s1, s2) /\ s2.overwritten = s1.overwritten
  BY <1>2, <1>4, AfterUnitIs DEF Same
<1>6. Same(s, s)
  BY DEF Same
<1> HIDE DEF s2
<1>7. Same(s, s2)
  BY <1>3, <1>4, <1>5, SameTransitive
<1>8. ASSUME NEW Ref \in SUBSET Total(vars), Sound(s, clause, Ref), ~s.overwritten, i \in s.live, ~s.conflict
      PROVE  SoundIf(s2, clause, Ref)
  <2>1. \A val \in Ref : Says({x, y}, val) /\ Says({y, x}, val)
    <3>1. \A val \in Ref : Satisfies(val, clause[i])
      BY <1>8 DEF Sound, Exactly, Meets
    <3> QED
      BY <1>2, <3>1 DEF Satisfies, Says
  <2>2. {-x, -y} \in Keys /\ {x, -y} \in Keys /\ {-x, y} \in Keys /\ {y, -x} = {-x, y}
    BY <1>2, KeyIs
  <2>3. s0.hash = s.hash /\ s1.hash = s.hash
    BY <1>3, <1>4 DEF Same
  <2>4. SoundIf(s0, clause, Ref)
    <3> DEFINE r == s.hash[{-x, -y}]
    <3>1. s0 = IF r = 0 THEN s ELSE Merge(s, i, r)
      BY DEF AfterMerge, s0
    <3>2. CASE r = 0
      BY <1>8, <3>1, <3>2 DEF SoundIf
    <3>3. CASE r # 0
      <4>1. s0 = Merge(s, i, r)
        BY <3>1, <3>3
      <4> HIDE DEF r
      <4>2. r = s.hash[{-x, -y}]
        BY DEF r
      <4>3. IF Merge(s, i, r).overwritten THEN s.overwritten \/ Ref = {} ELSE Sound(Merge(s, i, r), clause, Ref)
        BY <1>2, <1>8, <2>1, <2>2, <3>3, <4>2, MergeSound
      <4> QED
        BY <1>8, <4>1, <4>3 DEF SoundIf
    <3> QED
      BY <3>2, <3>3
  <2>5. CASE s0.overwritten
    BY <1>4, <1>5, <2>4, <2>5 DEF SoundIf
  <2>6. CASE ~s0.overwritten
    <3>1. Sound(s0, clause, Ref)
      BY <2>4, <2>6 DEF SoundIf
    <3>2. Sound(s1, clause, Ref)
      <4>1. CASE d1 = 0 \/ s0.conflict
        BY <3>1, <4>1 DEF s1, AfterUnit
      <4>2. CASE ~(d1 = 0 \/ s0.conflict)
        <5>1. s1 = Unit(s0, i, d1, x)
          BY <4>2 DEF s1, AfterUnit
        <5>2. d1 = s0.hash[{x, -y}] /\ d1 # 0 /\ s0 \in BinState /\ OneLevel(s0)
          BY <1>3, <2>3, <4>2 DEF Same
        <5> HIDE DEF d1
        <5>3. Sound(Unit(s0, i, d1, x), clause, Ref)
          BY <1>2, <2>1, <2>2, <3>1, <5>2, UnitSound
        <5> QED
          BY <5>1, <5>3
      <4> QED
        BY <4>1, <4>2
    <3>3. Sound(s2, clause, Ref)
      <4>1. CASE d2 = 0 \/ s1.conflict
        BY <3>2, <4>1 DEF s2, AfterUnit
      <4>2. CASE ~(d2 = 0 \/ s1.conflict)
        <5>1. s2 = Unit(s1, i, d2, y)
          BY <4>2 DEF s2, AfterUnit
        <5>2. d2 = s1.hash[{y, -x}] /\ d2 # 0 /\ s1 \in BinState /\ OneLevel(s1) /\ {y, -x} \in Keys
          BY <1>4, <2>2, <2>3, <4>2 DEF Same
        <5> HIDE DEF d2
        <5>3. Sound(Unit(s1, i, d2, y), clause, Ref)
          BY <1>2, <2>1, <3>2, <5>2, UnitSound
        <5> QED
          BY <5>1, <5>3
      <4> QED
        BY <4>1, <4>2
    <3> QED
      BY <1>4, <1>5, <2>6, <3>3 DEF SoundIf
  <2> QED
    BY <2>5, <2>6
<1>9. ASSUME NEW Ref \in SUBSET Total(vars), SoundIf(s, clause, Ref), i \in s.live, ~s.conflict
      PROVE  SoundIf(s2, clause, Ref)
  <2>1. CASE s.overwritten
    BY <1>7, <1>9, <2>1 DEF SoundIf, Same
  <2>2. CASE ~s.overwritten
    BY <1>8, <1>9, <2>2 DEF SoundIf
  <2> QED
    BY <2>1, <2>2
<1> QED
  BY <1>1, <1>6, <1>7, <1>9

(* Spread: a value of one member of a class is a value of all. *)
Said(s, v) == {s.varval[w] * pnsign(s.root[w] * s.root[v]) : w \in {w \in DOMAIN s.root : Abs(s.root[w]) = Abs(s.root[v])}} \ {0}
Heard(s, v) == IF Said(s, v) = {} THEN 0 ELSE CHOOSE x \in Said(s, v) : TRUE
Closed(s) == \A v \in 1 .. vars : s.varval[v] = Value(s.varval, s.root[v])

LEMMA SpreadParts ==
  ASSUME NEW s \in BinState
  PROVE  Spread(s) = IF \E v \in 1 .. vars : {-1, 1} \subseteq Said(s, v) THEN [s EXCEPT !.conflict = TRUE]
                     ELSE [s EXCEPT !.varval = [v \in 1 .. vars |-> Heard(s, v)]]
<1>1. DOMAIN s.root = 1 .. vars /\ DOMAIN s.varval = 1 .. vars
  BY DEF BinState, Partial
<1>2. Spread(s) = IF \E v \in DOMAIN s.root : {-1, 1} \subseteq Said(s, v) THEN [s EXCEPT !.conflict = TRUE]
                  ELSE [s EXCEPT !.varval = [v \in DOMAIN @ |-> Heard(s, v)]]
  BY DEF Spread, Said, Heard
<1>3. [s EXCEPT !.varval = [v \in DOMAIN @ |-> Heard(s, v)]] = [s EXCEPT !.varval = [v \in 1 .. vars |-> Heard(s, v)]]
  BY <1>1
<1> QED
  BY <1>1, <1>2, <1>3

(* Every saying is the value of a member, turned by the two signs. *)
Speaks(s, w, v, x) ==
  /\ w \in 1 .. vars /\ Abs(s.root[w]) = Abs(s.root[v]) /\ s.varval[w] \in {-1, 1}
  /\ x = s.varval[w] * (pnsign(s.root[w]) * pnsign(s.root[v]))

LEMMA SaidIs ==
  ASSUME vars \in Nat, NEW s \in BinState, NEW v \in 1 .. vars, NEW x
  PROVE  x \in Said(s, v) <=> \E w : Speaks(s, w, v, x)
<1>1. DOMAIN s.root = 1 .. vars /\ s.root[v] \in Literals(vars)
  BY DEF BinState
<1>2. ASSUME NEW w \in 1 .. vars
      PROVE  /\ s.varval[w] * pnsign(s.root[w] * s.root[v]) = s.varval[w] * (pnsign(s.root[w]) * pnsign(s.root[v]))
             /\ s.varval[w] \in {-1, 0, 1}
             /\ s.varval[w] * (pnsign(s.root[w]) * pnsign(s.root[v])) # 0 <=> s.varval[w] # 0
  <2>1. s.root[w] \in Literals(vars) /\ s.varval[w] \in {-1, 0, 1}
    BY DEF BinState, Partial
  <2>2. pnsign(s.root[w] * s.root[v]) = pnsign(s.root[w]) * pnsign(s.root[v])
    BY <1>1, <2>1, SignProduct
  <2>3. pnsign(s.root[w]) \in {-1, 1} /\ pnsign(s.root[v]) \in {-1, 1}
    BY <1>1, <2>1, LiteralFacts
  <2>4. \A a \in {-1, 0, 1}, p \in {-1, 1}, r \in {-1, 1} : a * (p * r) # 0 <=> a # 0
    OBVIOUS
  <2> QED
    BY <2>1, <2>2, <2>3, <2>4
<1>3. x \in Said(s, v) <=> \E w \in 1 .. vars : /\ Abs(s.root[w]) = Abs(s.root[v]) /\ x # 0
                                               /\ x = s.varval[w] * pnsign(s.root[w] * s.root[v])
  BY <1>1 DEF Said
<1> QED
  BY <1>2, <1>3 DEF Speaks

(* Roots, values and products of signs. *)
LEMMA Signs ==
  ASSUME vars \in Nat, NEW s \in BinState
  PROVE  /\ \A v \in 1 .. vars : /\ s.root[v] \in Literals(vars) /\ pnsign(s.root[v]) \in {-1, 1}
                                 /\ Abs(s.root[v]) \in 1 .. vars /\ s.varval[v] \in {-1, 0, 1}
         /\ \A a \in {-1, 1}, b1 \in {-1, 1}, b2 \in {-1, 1} :
              /\ a * (b1 * b1) = a /\ (a * (b1 * b2)) * (b2 * b1) = a /\ a * (b1 * b2) \in {-1, 1} /\ b1 * (b1 * a) = a
<1>1. ASSUME NEW v \in 1 .. vars
      PROVE  s.root[v] \in Literals(vars) /\ s.varval[v] \in {-1, 0, 1}
  BY DEF BinState, Partial
<1> QED
  BY <1>1, LiteralFacts

(* What the classes say of a variable is true, and said of the whole class. *)
LEMMA SaidFacts ==
  ASSUME vars \in Nat, NEW s \in BinState, NEW v \in 1 .. vars
  PROVE  /\ Said(s, v) \subseteq {-1, 1}
         /\ \A val \in Total(vars) : Agree(s, val) => \A x \in Said(s, v) : x = val[v]
         /\ s.varval[v] # 0 => s.varval[v] \in Said(s, v)
         /\ \A w \in 1 .. vars, x \in Said(s, v) : Abs(s.root[w]) = Abs(s.root[v])
              => x * (pnsign(s.root[v]) * pnsign(s.root[w])) \in Said(s, w)
<1>1. Said(s, v) \subseteq {-1, 1}
  BY SaidIs, Signs DEF Speaks
<1>2. ASSUME NEW val \in Total(vars), Agree(s, val), NEW x \in Said(s, v)
      PROVE  x = val[v]
  <2>1. PICK w : Speaks(s, w, v, x)
    BY SaidIs
  <2>2. val[w] = pnsign(s.root[w]) * val[Abs(s.root[v])] /\ val[v] = pnsign(s.root[v]) * val[Abs(s.root[v])]
        /\ s.varval[w] = val[w]
    BY <1>2, <2>1 DEF Agree, Speaks, Value
  <2>3. val[Abs(s.root[v])] \in {-1, 1} /\ pnsign(s.root[w]) \in {-1, 1} /\ pnsign(s.root[v]) \in {-1, 1}
    BY <2>1, Signs DEF Total, Speaks
  <2>4. \A a \in {-1, 1}, p \in {-1, 1}, r \in {-1, 1} : (p * a) * (p * r) = r * a
    OBVIOUS
  <2>5. x = val[w] * (pnsign(s.root[w]) * pnsign(s.root[v]))
    BY <2>1, <2>2 DEF Speaks
  <2> QED
    BY <2>2, <2>3, <2>4, <2>5
<1>3. s.varval[v] # 0 => s.varval[v] \in Said(s, v)
  <2>1. s.varval[v] # 0 => Speaks(s, v, v, s.varval[v])
    BY Signs DEF Speaks
  <2> QED
    BY <2>1, SaidIs
<1>4. ASSUME NEW w \in 1 .. vars, NEW x \in Said(s, v), Abs(s.root[w]) = Abs(s.root[v])
      PROVE  x * (pnsign(s.root[v]) * pnsign(s.root[w])) \in Said(s, w)
  <2>1. PICK u : Speaks(s, u, v, x)
    BY SaidIs
  <2>2. \A a \in {-1, 1}, p \in {-1, 1}, q \in {-1, 1}, r \in {-1, 1} : (a * (p * q)) * (q * r) = a * (p * r)
    OBVIOUS
  <2>3. x * (pnsign(s.root[v]) * pnsign(s.root[w])) = s.varval[u] * (pnsign(s.root[u]) * pnsign(s.root[w]))
    BY <2>1, <2>2, Signs DEF Speaks
  <2>4. Speaks(s, u, w, x * (pnsign(s.root[v]) * pnsign(s.root[w])))
    BY <1>4, <2>1, <2>3 DEF Speaks
  <2> QED
    BY <2>4, SaidIs
<1> QED
  BY <1>1, <1>2, <1>3, <1>4

(* Without a contradiction a variable hears what its class says. *)
LEMMA HeardIs ==
  ASSUME vars \in Nat, NEW s \in BinState, NEW v \in 1 .. vars, ~({-1, 1} \subseteq Said(s, v))
  PROVE  /\ Heard(s, v) \in {-1, 0, 1}
         /\ Heard(s, v) # 0 => Heard(s, v) \in Said(s, v)
         /\ \A x \in Said(s, v) : x = Heard(s, v)
<1>1. Said(s, v) \subseteq {-1, 1}
  BY SaidFacts
<1>2. CASE Said(s, v) = {}
  BY <1>2 DEF Heard
<1>3. CASE Said(s, v) # {}
  <2>1. Heard(s, v) \in Said(s, v)
    BY <1>3 DEF Heard
  <2>2. \A x \in Said(s, v) : x = Heard(s, v)
    BY <1>1, <2>1
  <2> QED
    BY <1>1, <2>1, <2>2
<1> QED
  BY <1>2, <1>3

(* What spreading does. *)
SpreadTo(s, t) ==
  /\ t.conflict => Conflicting(s, t)
  /\ ~t.conflict => /\ Narrowed(s, t, {}, Total(vars)) /\ Closed(t)
                    /\ t.root = s.root /\ t.simplify = s.simplify /\ t.overwritten = s.overwritten
  /\ t.conflict /\ ~s.conflict => \A val \in Total(vars) : ~Agree(s, val)
  /\ Closed(s) /\ ~s.conflict => ~t.conflict /\ \A v \in 1 .. vars : t.varval[v] = s.varval[v]

LEMMA ClosedSaid ==
  ASSUME vars \in Nat, NEW s \in BinState, Closed(s), NEW v \in 1 .. vars
  PROVE  \A x \in Said(s, v) : x = s.varval[v]
<1> SUFFICES ASSUME NEW x \in Said(s, v)
             PROVE  x = s.varval[v]
  OBVIOUS
<1>1. PICK w : Speaks(s, w, v, x)
  BY SaidIs
<1> DEFINE a == s.varval[Abs(s.root[v])]
           p == pnsign(s.root[w])
           r == pnsign(s.root[v])
<1>2. s.varval[w] = p * a /\ s.varval[v] = r * a
  BY <1>1 DEF Closed, Speaks, Value
<1>3. a \in {-1, 0, 1} /\ p \in {-1, 1} /\ r \in {-1, 1}
  BY <1>1, Signs DEF Speaks
<1>4. x = s.varval[w] * (p * r)
  BY <1>1 DEF Speaks
<1> HIDE DEF a, p, r
<1> QED
  BY <1>2, <1>3, <1>4

(* Spread gives each class one value. *)
LEMMA SpreadIs ==
  ASSUME vars \in Nat, NEW s \in BinState, OneLevel(s), ~s.conflict
  PROVE  SpreadTo(s, Spread(s))
<1> DEFINE t == Spread(s)
<1>1. CASE \E v \in 1 .. vars : {-1, 1} \subseteq Said(s, v)
  <2>1. PICK v \in 1 .. vars : {-1, 1} \subseteq Said(s, v)
    BY <1>1
  <2>2. t = [s EXCEPT !.conflict = TRUE]
    BY <1>1, SpreadParts
  <2>3. Conflicting(s, t)
    BY <2>2, ConflictIs
  <2>4. \A val \in Total(vars) : ~Agree(s, val)
    BY <2>1, SaidFacts
  <2>5. ~Closed(s)
    BY <2>1, ClosedSaid
  <2> HIDE DEF t
  <2>6. SpreadTo(s, t)
    BY <2>3, <2>4, <2>5 DEF SpreadTo, Conflicting
  <2> QED
    BY <2>6 DEF t
<1>2. CASE ~ \E v \in 1 .. vars : {-1, 1} \subseteq Said(s, v)
  <2> DEFINE W == [v \in 1 .. vars |-> Heard(s, v)]
  <2>1. t = [s EXCEPT !.varval = W]
    BY <1>2, SpreadParts
  <2>2. \A v \in 1 .. vars : /\ Heard(s, v) \in {-1, 0, 1}
                             /\ Heard(s, v) # 0 => Heard(s, v) \in Said(s, v)
                             /\ \A x \in Said(s, v) : x = Heard(s, v)
    BY <1>2, HeardIs
  <2>3. W \in Partial(vars) /\ \A v \in 1 .. vars : W[v] = Heard(s, v)
    BY <2>2 DEF Partial
  <2> HIDE DEF W, t
  <2>4. /\ t \in BinState /\ t.conflict = FALSE /\ t.root = s.root /\ t.hash = s.hash /\ t.nxtc = s.nxtc
        /\ t.live = s.live /\ t.overwritten = s.overwritten /\ t.simplify = s.simplify /\ t.varval = W
    BY <2>1, <2>3 DEF BinState
  <2>5. OneLevel(t)
    BY <2>4 DEF OneLevel
  <2>6. \A v \in 1 .. vars : s.varval[v] # 0 => t.varval[v] = s.varval[v]
    BY <2>2, <2>3, <2>4, SaidFacts
  <2>7. ASSUME NEW val \in Total(vars)
        PROVE  Agree(t, val) <=> Agree(s, val)
    <3>1. Agree(s, val) => \A v \in 1 .. vars : t.varval[v] \in {0, val[v]}
      BY <2>2, <2>3, <2>4, SaidFacts
    <3>2. Agree(t, val) => \A v \in 1 .. vars : s.varval[v] \in {0, val[v]}
      BY <2>6 DEF Agree
    <3> QED
      BY <2>4, <3>1, <3>2 DEF Agree
  <2>8. Narrowed(s, t, {}, Total(vars))
    <3>1. Same(s, t)
      BY <2>4, <2>5 DEF Same
    <3>2. t.conflict = s.conflict
      BY <2>4 DEF BinState
    <3>3. t.live = s.live \ {}
      BY <2>4
    <3> QED
      BY <2>7, <3>1, <3>2, <3>3 DEF Narrowed
  <2>9. ASSUME NEW v \in 1 .. vars
        PROVE  t.varval[v] = pnsign(s.root[v]) * t.varval[Abs(s.root[v])]
    <3> DEFINE r == Abs(s.root[v])
               p == pnsign(s.root[v])
    <3>1. r \in 1 .. vars /\ p \in {-1, 1} /\ s.root[r] = r /\ Abs(r) = r /\ pnsign(r) = 1
      <4>1. r \in 1 .. vars /\ p \in {-1, 1}
        BY Signs
      <4>2. s.root[r] = r
        BY DEF OneLevel
      <4> QED
        BY <4>1, <4>2, SignedFacts
    <3>2. \A x \in Said(s, v) : x * (p * 1) \in Said(s, r)
      BY <3>1, SaidFacts
    <3>3. \A x \in Said(s, r) : x * (1 * p) \in Said(s, v)
      <4>1. \A x \in Said(s, r) : Abs(s.root[v]) = Abs(s.root[r]) => x * (pnsign(s.root[r]) * pnsign(s.root[v])) \in Said(s, v)
        BY <3>1, SaidFacts
      <4>2. Abs(s.root[v]) = Abs(s.root[r]) /\ pnsign(s.root[r]) = 1
        BY <3>1
      <4> HIDE DEF r
      <4> QED
        BY <4>1, <4>2
    <3>4. t.varval[v] = Heard(s, v) /\ t.varval[r] = Heard(s, r)
      BY <2>3, <2>4, <3>1
    <3> HIDE DEF r, p
    <3>5. /\ \A x \in {-1, 1} : p * (x * (p * 1)) = x /\ p * x # 0
          /\ p * 0 = 0
      BY <3>1
    <3>6. ASSUME Heard(s, v) # 0
          PROVE  t.varval[v] = p * t.varval[r]
      <4>1. Heard(s, v) * (p * 1) = Heard(s, r) /\ Heard(s, v) \in {-1, 1}
        BY <2>2, <3>1, <3>2, <3>6
      <4>2. Heard(s, v) = p * Heard(s, r)
        BY <3>5, <4>1
      <4> QED
        BY <3>4, <4>2
    <3>7. ASSUME Heard(s, v) = 0
          PROVE  t.varval[v] = p * t.varval[r]
      <4>1. Heard(s, r) = 0
        <5>1. ASSUME Heard(s, r) # 0
              PROVE  FALSE
          <6>1. Heard(s, r) * (1 * p) = Heard(s, v) /\ Heard(s, r) \in {-1, 1}
            BY <2>2, <3>1, <3>3, <5>1
          <6> QED
            BY <3>1, <3>7, <6>1
        <5> QED
          BY <5>1
      <4> QED
        BY <3>4, <3>5, <3>7, <4>1
    <3>8. t.varval[v] = p * t.varval[r]
      BY <3>6, <3>7
    <3> QED
      BY <3>8 DEF r, p
  <2>10. Closed(t)
    BY <2>4, <2>9 DEF Closed, Value
  <2>11. Closed(s) => \A v \in 1 .. vars : t.varval[v] = s.varval[v]
    <3>1. ASSUME Closed(s), NEW v \in 1 .. vars
          PROVE  t.varval[v] = s.varval[v]
      <4>1. CASE s.varval[v] # 0
        BY <2>6, <4>1
      <4>2. CASE s.varval[v] = 0
        <5>1. \A x \in Said(s, v) : x = 0
          BY <3>1, <4>2, ClosedSaid
        <5> QED
          BY <2>2, <2>3, <2>4, <4>2, <5>1
      <4> QED
        BY <4>1, <4>2
    <3> QED
      BY <3>1
  <2>12. SpreadTo(s, t)
    BY <2>4, <2>8, <2>10, <2>11 DEF SpreadTo
  <2> QED
    BY <2>12 DEF t
<1> QED
  BY <1>1, <1>2

Level == {s \in BinState : OneLevel(s)}
Restarted == [b EXCEPT !.simplify = FALSE]
Paired == Looped(LAMBDA t, k : PairUp(t, b.nxtc[k]), Restarted, Len(b.nxtc))
AllTwo(list) == list \in Seq(1 .. Len(clause)) /\ \A k \in DOMAIN list : Two(list[k])

(* Starting a turn over keeps the level and its meaning. *)
LEMMA RestartedIs ==
  ASSUME b \in Level
  PROVE  /\ Restarted \in Level /\ Same(b, Restarted) /\ Restarted.conflict = b.conflict
         /\ \A cs, Ref : SoundIf(b, cs, Ref) => SoundIf(Restarted, cs, Ref)
<1> DEFINE t == Restarted
<1>1. /\ t \in BinState /\ t.conflict = b.conflict /\ t.root = b.root /\ t.hash = b.hash /\ t.nxtc = b.nxtc /\ t.live = b.live
      /\ t.varval = b.varval /\ t.overwritten = b.overwritten
  BY DEF BinState, Restarted, Level
<1> HIDE DEF t
<1>2. \A val : Agree(t, val) <=> Agree(b, val)
  BY <1>1 DEF Agree
<1>3. \A cs, val : Meets(t, cs, val) <=> Meets(b, cs, val)
  BY <1>1, <1>2 DEF Meets
<1>4. \A cs, key : Enough(t, cs, key) <=> Enough(b, cs, key)
  BY <1>1, <1>2 DEF Enough
<1>5. \A cs, Ref : Sound(b, cs, Ref) => Sound(t, cs, Ref)
  BY <1>1, <1>3, <1>4 DEF Sound, Exactly, KeysEnough
<1>6. t \in Level /\ Same(b, t)
  BY <1>1 DEF Same, OneLevel, Level
<1> QED
  BY <1>1, <1>5, <1>6 DEF t, SoundIf

(* The states of the loop over the clauses of two literals. *)
PairedTurns(a, list) ==
  /\ Paired = a[Len(list)] /\ a[0] = Restarted
  /\ \A k \in 0 .. Len(list) : a[k] \in Level
  /\ \A k \in 1 .. Len(list) : a[k] = PairUp(a[k - 1], list[k])

LEMMA PairedLoop ==
  ASSUME NEW list, list = b.nxtc, AllTwo(list), vars \in Nat, b \in Level
  PROVE  \E a : PairedTurns(a, list)
<1> DEFINE M == Len(list)
           V == Level
           v == Restarted
           Turn(x, k) == PairUp(x, list[k])
           Loop(g) == [k \in 0 .. M |-> IF k = 0 THEN v ELSE Turn(g[k - 1], k)]
           a == CHOOSE g : g = Loop(g)
<1>1. Paired = a[M]
  BY DEF Looped, Paired
<1>2. M \in Nat
  BY DEF AllTwo
<1>3. v \in V /\ \A x \in V : \A k \in 1 .. M : Turn(x, k) \in V
  <2>1. ASSUME NEW s \in Level, NEW k \in 1 .. Len(list)
        PROVE  PairUp(s, list[k]) \in Level
    <3>1. Two(list[k])
      BY DEF AllTwo
    <3>2. Same(s, PairUp(s, list[k]))
      BY <3>1, PairUpIs DEF Level
    <3> QED
      BY <3>2 DEF Same, Level
  <2> QED
    BY <2>1, RestartedIs
<1>4. a[0] = v /\ (\A k \in 0 .. M : a[k] \in V) /\ (\A k \in 1 .. M : a[k] = Turn(a[k - 1], k))
  <2> DEFINE step == [kx \in (1 .. M) \X V |-> Turn(kx[2], kx[1])]
  <2>1. \A kx \in (1 .. M) \X V : Turn(kx[2], kx[1]) \in V
    <3> HIDE DEF Turn, M, V
    <3> QED
      BY <1>3
  <2>2. IsStep(M, V, step) /\ \A k \in 1 .. M : \A x \in V : step[<<k, x>>] = Turn(x, k)
    <3> HIDE DEF Turn, M, V
    <3> QED
      BY <2>1 DEF IsStep
  <2> HIDE DEF step, M, V, v, Turn
  <2>3. PICK f \in [0 .. M -> V] : f[0] = v /\ \A k \in 1 .. M : f[k] = step[<<k, f[k - 1]>>]
    <3>1. IsDefined(M, V, v, step)
      BY <1>2, <1>3, <2>2, Recursion
    <3> QED
      BY <3>1 DEF IsDefined
  <2>4. \A k \in 1 .. M : f[k] = Turn(f[k - 1], k)
    <3>1. \A k \in 1 .. M : k - 1 \in 0 .. M
      BY <1>2
    <3> QED
      BY <2>2, <2>3, <3>1
  <2>5. f = Loop(f)
    BY <1>2, <2>3, <2>4
  <2>6. a = Loop(a)
    BY <2>5
  <2> HIDE DEF a
  <2>7. a[0] = v /\ \A k \in 1 .. M : a[k] = Turn(a[k - 1], k)
    BY <1>2, <2>6
  <2> DEFINE P == {k \in 0 .. M : a[k] \in V}
  <2>8. 0 \in P
    BY <1>2, <1>3, <2>7
  <2>9. ASSUME NEW j \in 0 .. M, j < M, j \in P
        PROVE  j + 1 \in P
    <3>1. j + 1 \in 1 .. M /\ j + 1 \in 0 .. M /\ (j + 1) - 1 = j /\ a[j] \in V
      BY <1>2, <2>9
    <3> QED
      BY <1>3, <2>7, <3>1
  <2> HIDE DEF P
  <2>10. \A j \in 0 .. M : j \in P
    BY <1>2, <2>8, <2>9, Counting
  <2> QED
    BY <2>7, <2>10 DEF P
<1>5. PairedTurns(a, list)
  <2> HIDE DEF a
  <2> QED
    BY <1>1, <1>4 DEF PairedTurns
<1> QED
  BY <1>5

(* The turn over the binary clauses keeps the level and its meaning. *)
LEMMA PairedIs ==
  ASSUME vars \in Nat, b \in Level, AllTwo(b.nxtc)
  PROVE  /\ Paired \in Level /\ Same(b, Paired)
         /\ \A Ref \in SUBSET Total(vars) : SoundIf(b, clause, Ref) => SoundIf(Paired, clause, Ref)
<1> DEFINE list == b.nxtc
<1>1. \E a : PairedTurns(a, list)
  <2> DEFINE l == b.nxtc
  <2> HIDE DEF l
  <2>1. l = b.nxtc
    BY DEF l
  <2>2. \E a : PairedTurns(a, l)
    BY <2>1, PairedLoop
  <2> QED
    BY <2>1, <2>2
<1>2. PICK a : PairedTurns(a, list)
  BY <1>1
<1> DEFINE M == Len(list)
           Good(s) == /\ Same(b, s)
                      /\ \A Ref \in SUBSET Total(vars) : SoundIf(b, clause, Ref) => SoundIf(s, clause, Ref)
           P == {k \in 0 .. M : Good(a[k])}
<1>3. M \in Nat /\ \A k \in 1 .. M : Two(list[k])
  BY DEF AllTwo
<1>4. /\ Paired = a[M] /\ a[0] = Restarted /\ (\A k \in 0 .. M : a[k] \in Level)
      /\ \A k \in 1 .. M : a[k] = PairUp(a[k - 1], list[k])
  BY <1>2 DEF PairedTurns
<1> HIDE DEF M, list
<1>5. 0 \in P
  BY <1>3, <1>4, RestartedIs
<1>6. ASSUME NEW n \in 0 .. M, n < M, n \in P
      PROVE  n + 1 \in P
  <2>1. n + 1 \in 1 .. M /\ (n + 1) - 1 = n /\ n + 1 \in 0 .. M
    BY <1>3, <1>6
  <2>2. a[n + 1] = PairUp(a[n], list[n + 1]) /\ a[n] \in Level /\ Two(list[n + 1])
    BY <1>3, <1>4, <2>1
  <2>3. /\ Same(a[n], PairUp(a[n], list[n + 1]))
        /\ \A Ref \in SUBSET Total(vars) : SoundIf(a[n], clause, Ref) => SoundIf(PairUp(a[n], list[n + 1]), clause, Ref)
    <3>1. a[n] \in BinState /\ OneLevel(a[n])
      BY <2>2 DEF Level
    <3> QED
      BY <2>2, <3>1, PairUpIs
  <2>4. Good(a[n])
    BY <1>6
  <2>5. Same(b, a[n + 1])
    BY <2>2, <2>3, <2>4, SameTransitive
  <2>6. Good(a[n + 1])
    BY <2>2, <2>3, <2>4, <2>5
  <2> QED
    BY <2>1, <2>6
<1> HIDE DEF P
<1>7. \A n \in 0 .. M : n \in P
  BY <1>3, <1>5, <1>6, Counting
<1>8. Good(a[M]) /\ a[M] \in Level
  BY <1>3, <1>4, <1>7 DEF P
<1> QED
  BY <1>4, <1>8

(* Spreading the values is sound, and a conflict means there is no model. *)
LEMMA SpreadSound ==
  ASSUME vars \in Nat, NEW s \in Level, NEW cs, NEW Ref \in SUBSET Total(vars), SoundIf(s, cs, Ref)
  PROVE  /\ (s.conflict \/ Spread(s).conflict) => Ref = {}
         /\ ~Spread(s).conflict => /\ ~s.conflict /\ SoundIf(Spread(s), cs, Ref)
<1>1. CASE s.conflict
  <2>1. Ref = {}
    BY <1>1 DEF SoundIf, Sound
  <2>2. Spread(s).conflict
    <3>1. s.conflict = TRUE
      BY <1>1 DEF Level, BinState
    <3>2. \/ Spread(s) = [s EXCEPT !.conflict = TRUE]
          \/ Spread(s) = [s EXCEPT !.varval = [v \in 1 .. vars |-> Heard(s, v)]]
      BY SpreadParts DEF Level
    <3>3. \A W : [s EXCEPT !.conflict = TRUE].conflict = TRUE /\ [s EXCEPT !.varval = W].conflict = s.conflict
      BY DEF Level, BinState
    <3> QED
      BY <3>1, <3>2, <3>3
  <2> QED
    BY <1>1, <2>1, <2>2
<1>2. CASE ~s.conflict
  <2>1. SpreadTo(s, Spread(s))
    BY <1>2, SpreadIs DEF Level
  <2> DEFINE t == Spread(s)
  <2> HIDE DEF t
  <2>2. SpreadTo(s, t)
    BY <2>1 DEF t
  <2>3. ASSUME t.conflict
        PROVE  Ref = {}
    <3>1. \A val \in Total(vars) : ~Agree(s, val)
      BY <1>2, <2>2, <2>3 DEF SpreadTo
    <3> QED
      BY <3>1 DEF SoundIf, Sound, Exactly, Meets
  <2>4. ASSUME ~t.conflict
        PROVE  SoundIf(t, cs, Ref)
    <3>1. Narrowed(s, t, {}, Total(vars)) /\ t.overwritten = s.overwritten
      BY <2>2, <2>4 DEF SpreadTo
    <3>2. CASE s.overwritten
      BY <3>1, <3>2 DEF SoundIf
    <3>3. CASE ~s.overwritten
      <4>1. Sound(s, cs, Ref)
        BY <3>3 DEF SoundIf
      <4>2. Covered(s, cs, {}, Total(vars))
        BY DEF Covered
      <4>3. Sound(t, cs, Ref)
        BY <3>1, <4>1, <4>2, NarrowedSound
      <4> QED
        BY <3>1, <3>3, <4>3 DEF SoundIf
    <3> QED
      BY <3>2, <3>3
  <2> QED
    BY <1>2, <2>3, <2>4 DEF t
<1> QED
  BY <1>1, <1>2

(* Spreading keeps clauses, classes and the values already given. *)
LEMMA SpreadKeeps ==
  ASSUME vars \in Nat, NEW s \in Level, ~Spread(s).conflict
  PROVE  /\ ~s.conflict /\ Spread(s) \in Level /\ Closed(Spread(s)) /\ Same(s, Spread(s))
         /\ Spread(s).live = s.live /\ Spread(s).root = s.root
         /\ Spread(s).simplify = s.simplify /\ Spread(s).overwritten = s.overwritten
         /\ Closed(s) => \A v \in 1 .. vars : Spread(s).varval[v] = s.varval[v]
<1>1. ~s.conflict
  <2>2. \/ Spread(s) = [s EXCEPT !.conflict = TRUE]
        \/ Spread(s) = [s EXCEPT !.varval = [v \in 1 .. vars |-> Heard(s, v)]]
    BY SpreadParts DEF Level
  <2>3. \A W : [s EXCEPT !.conflict = TRUE].conflict = TRUE /\ [s EXCEPT !.varval = W].conflict = s.conflict
    BY DEF Level, BinState
  <2> QED
    BY <2>2, <2>3
<1> DEFINE t == Spread(s)
<1>2. SpreadTo(s, t)
  BY <1>1, SpreadIs DEF Level
<1>3. ~t.conflict
  OBVIOUS
<1> HIDE DEF t
<1>4. Narrowed(s, t, {}, Total(vars)) /\ Closed(t) /\ t.root = s.root /\ t.simplify = s.simplify /\ t.overwritten = s.overwritten
      /\ (Closed(s) => \A v \in 1 .. vars : t.varval[v] = s.varval[v])
  BY <1>1, <1>2, <1>3 DEF SpreadTo
<1>5. t.live = s.live /\ Same(s, t) /\ t \in Level
  BY <1>4 DEF Narrowed, Same, Level
<1> QED
  BY <1>1, <1>4, <1>5 DEF t

(* A clause in terms of the roots. *)
OfRoots(s, i) == Mapped(LAMBDA l : Root(s, l), clause[i])
Rewritten(s, i) == Distinct(Kept(OfRoots(s, i), LAMBDA l : Value(s.varval, l) # -1))
Renders(s, i, c) ==
  /\ c \in Seq(Literals(vars)) /\ IsInjective(c) /\ Len(c) <= Len(clause[i])
  /\ \A l \in ToSet(c) : l \in Literals(vars) /\ s.root[Abs(l)] = Abs(l) /\ Value(s.varval, l) # -1
  /\ \A val \in Total(vars) : Agree(s, val) => (Satisfies(val, c) <=> Satisfies(val, clause[i]))

LEMMA RewrittenIs ==
  ASSUME vars \in Nat, clause \in Clauses(vars), NEW s \in Level, NEW i \in DOMAIN clause
  PROVE  Renders(s, i, Rewritten(s, i))
<1> DEFINE m == OfRoots(s, i)
           S == {j \in DOMAIN m : Value(s.varval, m[j]) # -1}
           kept == Pick(m, S)
           c == Distinct(kept)
<1>1. /\ clause[i] \in Seq(Literals(vars)) /\ DOMAIN clause[i] = 1 .. Len(clause[i]) /\ Len(clause[i]) \in Nat
      /\ \A j \in DOMAIN clause[i] : clause[i][j] \in Literals(vars)
      /\ \A l : l \in ToSet(clause[i]) <=> \E j \in DOMAIN clause[i] : clause[i][j] = l
  BY InClauses
<1>2. \A l \in Literals(vars) : /\ Root(s, l) \in Literals(vars) /\ s.root[Abs(Root(s, l))] = Abs(Root(s, l))
                                /\ \A val \in Total(vars) : Agree(s, val) => Value(val, Root(s, l)) = Value(val, l)
  BY RootIs DEF Level
<1>3. /\ m = [j \in 1 .. Len(clause[i]) |-> Root(s, clause[i][j])] /\ DOMAIN m = DOMAIN clause[i]
      /\ \A j \in DOMAIN clause[i] : m[j] = Root(s, clause[i][j]) /\ m[j] \in Literals(vars)
  BY <1>1, <1>2 DEF OfRoots, Mapped
<1>4. m \in Seq(Literals(vars))
  <2>1. [j \in 1 .. Len(clause[i]) |-> Root(s, clause[i][j])] \in Seq(Literals(vars))
    BY <1>1, <1>2, IsASeq
  <2> HIDE DEF m
  <2> QED
    BY <1>3, <2>1
<1>5. Rewritten(s, i) = c
  BY DEF Rewritten, Kept
<1> HIDE DEF m
<1>6. /\ kept \in Seq(Literals(vars)) /\ Len(kept) <= Len(m)
      /\ \A l : l \in ToSet(kept) <=> \E j \in DOMAIN m : Value(s.varval, m[j]) # -1 /\ m[j] = l
  <2>1. /\ kept \in Seq(Literals(vars)) /\ Len(kept) <= Len(m)
        /\ \A l : l \in ToSet(kept) <=> \E j \in DOMAIN m : j \in S /\ m[j] = l
    <3> HIDE DEF S
    <3> QED
      BY <1>4, PickIs
  <2> QED
    BY <2>1
<1> HIDE DEF kept
<1>7. c \in Seq(Literals(vars)) /\ IsInjective(c) /\ ToSet(c) = ToSet(kept) /\ Len(c) <= Len(kept)
  BY <1>6, DistinctIs
<1> HIDE DEF c
<1>11. Len(c) <= Len(clause[i])
  <2>1. Len(m) = Len(clause[i])
    BY <1>1, <1>3, <1>4, InSeq
  <2>2. Len(c) \in Nat /\ Len(kept) \in Nat /\ Len(m) \in Nat
    BY <1>4, <1>6, <1>7, InSeq
  <2> QED
    BY <1>1, <1>6, <1>7, <2>1, <2>2
<1>8. \A l \in ToSet(c) : l \in Literals(vars) /\ s.root[Abs(l)] = Abs(l) /\ Value(s.varval, l) # -1
  BY <1>1, <1>2, <1>3, <1>6, <1>7
<1>9. ASSUME NEW val \in Total(vars), Agree(s, val)
      PROVE  Satisfies(val, c) <=> Satisfies(val, clause[i])
  <2>1. ASSUME NEW l \in Literals(vars), Value(s.varval, l) = -1
        PROVE  Value(val, l) # 1
    <3>1. Abs(l) \in 1 .. vars /\ pnsign(l) \in {-1, 1}
      BY LiteralFacts
    <3>2. s.varval[Abs(l)] \in {-1, 0, 1}
      BY <3>1 DEF Level, BinState, Partial
    <3>3. s.varval[Abs(l)] = -pnsign(l)
      BY <2>1, <3>2, ValueFacts
    <3>4. val[Abs(l)] = -pnsign(l)
      BY <1>9, <3>1, <3>3 DEF Agree
    <3>5. -pnsign(l) # pnsign(l)
      BY <3>1
    <3> QED
      BY <3>4, <3>5, TotalValue
  <2>2. ASSUME NEW l \in ToSet(c), Value(val, l) = 1
        PROVE  \E k \in ToSet(clause[i]) : Value(val, k) = 1
    BY <1>1, <1>2, <1>3, <1>6, <1>7, <1>9, <2>2
  <2>3. ASSUME NEW k \in ToSet(clause[i]), Value(val, k) = 1
        PROVE  \E l \in ToSet(c) : Value(val, l) = 1
    <3>1. PICK j \in DOMAIN clause[i] : clause[i][j] = k
      BY <1>1
    <3>2. Value(val, m[j]) = 1 /\ m[j] \in Literals(vars)
      BY <1>1, <1>2, <1>3, <1>9, <2>3, <3>1
    <3>3. Value(s.varval, m[j]) # -1
      BY <2>1, <3>2
    <3>4. m[j] \in ToSet(c)
      BY <1>3, <1>6, <1>7, <3>3
    <3> QED
      BY <3>2, <3>4
  <2> QED
    BY <2>2, <2>3 DEF Satisfies
<1>10. Renders(s, i, c)
  BY <1>7, <1>8, <1>9, <1>11 DEF Renders
<1> QED
  BY <1>5, <1>10

Gone(s, c) == Tautology(c) \/ \E l \in ToSet(c) : Value(s.varval, l) = 1
NewTwo(s, i, c) == ~Gone(s, c) /\ Len(c) = 2 /\ ToSet(c) # ToSet(clause[i])
Stated(s, i, c) ==
  [s EXCEPT !.live = IF Gone(s, c) THEN Strike(@, i) ELSE @,
            !.simplify = @ \/ (Gone(s, c) \/ Len(c) < Len(clause[i]) \/ Len(c) = 1),
            !.varval = IF Len(c) = 1 THEN [@ EXCEPT ![Abs(c[1])] = pnsign(c[1])] ELSE @,
            !.nxtc = IF NewTwo(s, i, c) THEN Append(@, i) ELSE @,
            !.hash = IF NewTwo(s, i, c) THEN Insert(@, c, i) ELSE @]

(* The four outcomes of rewriting a clause. *)
LEMMA RewriteParts ==
  ASSUME NEW t, NEW i
  PROVE  RewriteOne(t, i) = IF i \notin t.s.live \/ t.s.conflict THEN t
                            ELSE IF Rewritten(t.s, i) = <<>> THEN [t EXCEPT !.s.conflict = TRUE]
                            ELSE [cs |-> [t.cs EXCEPT ![i] = Rewritten(t.s, i)], s |-> Stated(t.s, i, Rewritten(t.s, i))]
BY DEF RewriteOne, Rewritten, OfRoots, Gone, NewTwo, Stated

(* What the record of the new state holds. *)
StatedAs(s, i, c, t) ==
  /\ t \in BinState /\ t.root = s.root /\ t.conflict = s.conflict /\ t.overwritten = s.overwritten
  /\ t.live = IF Gone(s, c) THEN s.live \ {i} ELSE s.live
  /\ t.simplify = (s.simplify \/ (Gone(s, c) \/ Len(c) < Len(clause[i]) \/ Len(c) = 1))
  /\ t.varval = IF Len(c) = 1 THEN [s.varval EXCEPT ![Abs(c[1])] = pnsign(c[1])] ELSE s.varval
  /\ t.nxtc = IF NewTwo(s, i, c) THEN Append(s.nxtc, i) ELSE s.nxtc
  /\ t.hash = IF NewTwo(s, i, c) THEN [s.hash EXCEPT ![ToSet(c)] = i] ELSE s.hash

LEMMA StatedIs ==
  ASSUME vars \in Nat, clause \in Clauses(vars), NEW s \in Level, NEW i \in DOMAIN clause,
         NEW c \in Seq(Literals(vars))
  PROVE  StatedAs(s, i, c, Stated(s, i, c))
<1> DEFINE L == IF Gone(s, c) THEN s.live \ {i} ELSE s.live
           Z == s.simplify \/ (Gone(s, c) \/ Len(c) < Len(clause[i]) \/ Len(c) = 1)
           W == IF Len(c) = 1 THEN [s.varval EXCEPT ![Abs(c[1])] = pnsign(c[1])] ELSE s.varval
           N == IF NewTwo(s, i, c) THEN Append(s.nxtc, i) ELSE s.nxtc
           H == IF NewTwo(s, i, c) THEN [s.hash EXCEPT ![ToSet(c)] = i] ELSE s.hash
           t == Stated(s, i, c)
<1>1. t = [s EXCEPT !.live = L, !.simplify = Z, !.varval = W, !.nxtc = N, !.hash = H]
  BY DEF Stated, Strike, Insert, Level, BinState
<1>2. Len(clause) \in Nat /\ i \in 1 .. Len(clause)
  BY InClauses
<1>3. L \in SUBSET DOMAIN clause /\ Z \in BOOLEAN /\ N \in Seq(1 .. Len(clause))
  <2>1. s.live \in SUBSET DOMAIN clause /\ s.nxtc \in Seq(1 .. Len(clause))
    BY DEF Level, BinState
  <2>2. Append(s.nxtc, i) \in Seq(1 .. Len(clause))
    BY <1>2, <2>1
  <2> QED
    BY <2>1, <2>2
<1>4. H \in [Keys -> 0 .. Len(clause)]
  <2>1. s.hash \in [Keys -> 0 .. Len(clause)]
    BY DEF Level, BinState
  <2>2. i \in 0 .. Len(clause)
    BY <1>2
  <2> QED
    BY <2>1, <2>2
<1>5. W \in Partial(vars)
  <2>1. s.varval \in Partial(vars)
    BY DEF Level, BinState
  <2>2. ASSUME Len(c) = 1
        PROVE  pnsign(c[1]) \in {-1, 1}
    <3>1. c[1] \in Literals(vars)
      BY <2>2, InSeq
    <3> QED
      BY <3>1, LiteralFacts
  <2> QED
    BY <2>1, <2>2 DEF Partial
<1> HIDE DEF L, Z, W, N, H, t
<1>6. /\ t \in BinState /\ t.root = s.root /\ t.conflict = s.conflict /\ t.overwritten = s.overwritten
      /\ t.live = L /\ t.simplify = Z /\ t.varval = W /\ t.nxtc = N /\ t.hash = H
  BY <1>1, <1>3, <1>4, <1>5 DEF Level, BinState
<1>7. StatedAs(s, i, c, t)
  BY <1>6 DEF StatedAs, L, Z, W, N, H
<1> QED
  BY <1>7 DEF t

(* A rewritten unit or true clause says what the level now says. *)
LEMMA StatedAgrees ==
  ASSUME vars \in Nat, clause \in Clauses(vars), NEW s \in Level, NEW i \in DOMAIN clause, NEW c, Renders(s, i, c),
         NEW t, StatedAs(s, i, c, t), NEW val \in Total(vars)
  PROVE  /\ Agree(t, val) <=> Agree(s, val) /\ (Len(c) = 1 => Satisfies(val, c))
         /\ Gone(s, c) /\ Agree(s, val) => Satisfies(val, c)
<1>1. c \in Seq(Literals(vars)) /\ \A l \in ToSet(c) : l \in Literals(vars) /\ Value(s.varval, l) # -1
  BY DEF Renders
<1>2. t.root = s.root
  BY DEF StatedAs
<1>3. \A l \in Literals(vars) : /\ Abs(l) \in 1 .. vars /\ pnsign(l) \in {-1, 1} /\ s.varval[Abs(l)] \in {-1, 0, 1}
                                /\ Value(s.varval, l) # -1 => s.varval[Abs(l)] \in {0, pnsign(l)}
                                /\ Value(s.varval, l) = 1 => s.varval[Abs(l)] = pnsign(l)
                                /\ Value(val, l) = 1 <=> val[Abs(l)] = pnsign(l)
  <2> TAKE l \in Literals(vars)
  <2>1. Abs(l) \in 1 .. vars /\ pnsign(l) \in {-1, 1}
    BY LiteralFacts
  <2>2. s.varval[Abs(l)] \in {-1, 0, 1}
    BY <2>1 DEF Level, BinState, Partial
  <2>3. /\ Value(s.varval, l) = 1 <=> s.varval[Abs(l)] = pnsign(l)
        /\ Value(s.varval, l) = -1 <=> s.varval[Abs(l)] = -pnsign(l)
    BY <2>2, ValueFacts
  <2>4. Value(val, l) = 1 <=> val[Abs(l)] = pnsign(l)
    BY TotalValue
  <2> QED
    BY <2>1, <2>2, <2>3, <2>4
<1>4. CASE Len(c) = 1
  <2>1. DOMAIN c = {1} /\ c[1] \in ToSet(c) /\ \A l \in ToSet(c) : l = c[1]
    <3>1. DOMAIN c = 1 .. 1 /\ \A l : l \in ToSet(c) <=> \E j \in DOMAIN c : c[j] = l
      BY <1>1, <1>4, InSeq
    <3>2. 1 .. 1 = {1}
      OBVIOUS
    <3> QED
      BY <3>1, <3>2
  <2> DEFINE l == c[1]
  <2>2. l \in Literals(vars) /\ Value(s.varval, l) # -1 /\ (Satisfies(val, c) <=> Value(val, l) = 1)
    BY <1>1, <2>1 DEF Satisfies
  <2>3. t.varval = [s.varval EXCEPT ![Abs(l)] = pnsign(l)]
    BY <1>4 DEF StatedAs
  <2> HIDE DEF l
  <2>4. s.varval \in Partial(vars)
    BY DEF Level, BinState
  <2>5. t.varval[Abs(l)] = pnsign(l) /\ \A v \in 1 .. vars : v # Abs(l) => t.varval[v] = s.varval[v]
    BY <1>3, <2>2, <2>3, <2>4 DEF Partial
  <2>6. Abs(l) \in 1 .. vars /\ s.varval[Abs(l)] \in {0, pnsign(l)} /\ pnsign(l) # 0
    BY <1>3, <2>2
  <2>7. Value(val, l) = 1 <=> val[Abs(l)] = pnsign(l)
    BY <1>3, <2>2
  <2>8. Agree(t, val) <=> Agree(s, val) /\ Value(val, l) = 1
    BY <1>2, <2>5, <2>6, <2>7 DEF Agree
  <2> QED
    <3>1. Gone(s, c) /\ Agree(s, val) => Satisfies(val, c)
      <4>1. ASSUME NEW k \in ToSet(c), Value(s.varval, k) = 1, Agree(s, val)
            PROVE  Satisfies(val, c)
        <5>1. val[Abs(k)] = pnsign(k)
          BY <1>1, <1>3, <4>1 DEF Agree
        <5> QED
          BY <1>1, <1>3, <5>1 DEF Satisfies
      <4>2. Tautology(c) => Satisfies(val, c)
        BY <1>1, TautologyHolds
      <4> QED
        BY <4>1, <4>2 DEF Gone
    <3> QED
      BY <1>4, <2>2, <2>8, <3>1
<1>5. CASE Len(c) # 1
  <2>1. t.varval = s.varval
    BY <1>5 DEF StatedAs
  <2>2. Agree(t, val) <=> Agree(s, val)
    BY <1>2, <2>1 DEF Agree
  <2>3. Gone(s, c) /\ Agree(s, val) => Satisfies(val, c)
    <3>1. ASSUME NEW k \in ToSet(c), Value(s.varval, k) = 1, Agree(s, val)
          PROVE  Satisfies(val, c)
      <4>1. val[Abs(k)] = pnsign(k)
        BY <1>1, <1>3, <3>1 DEF Agree
      <4> QED
        BY <1>1, <1>3, <4>1 DEF Satisfies
    <3>2. Tautology(c) => Satisfies(val, c)
      BY <1>1, TautologyHolds
    <3> QED
      BY <3>1, <3>2 DEF Gone
  <2> QED
    BY <1>5, <2>2, <2>3
<1> QED
  BY <1>1, <1>4, <1>5

(* Rewriting a clause keeps the meaning of level and clauses. *)
LEMMA StatedSound ==
  ASSUME vars \in Nat, clause \in Clauses(vars), NEW s \in Level, NEW i \in DOMAIN clause, i \in s.live,
         NEW c, Renders(s, i, c), NEW t, StatedAs(s, i, c, t), NEW cs, NEW ds,
         cs[i] = clause[i], ds[i] = c, \A j \in s.live : j # i => ds[j] = cs[j],
         NEW Ref \in SUBSET Total(vars), Sound(s, cs, Ref), ~s.conflict
  PROVE  Sound(t, ds, Ref)
<1>1. \A val \in Total(vars) : /\ Agree(t, val) <=> Agree(s, val) /\ (Len(c) = 1 => Satisfies(val, c))
                               /\ Gone(s, c) /\ Agree(s, val) => Satisfies(val, c)
                               /\ Agree(s, val) => (Satisfies(val, c) <=> Satisfies(val, cs[i]))
  BY StatedAgrees DEF Renders
<1>2. /\ t.live = IF Gone(s, c) THEN s.live \ {i} ELSE s.live
      /\ t.conflict = s.conflict /\ t.hash = IF NewTwo(s, i, c) THEN [s.hash EXCEPT ![ToSet(c)] = i] ELSE s.hash
  BY DEF StatedAs
<1>3. ASSUME NEW val \in Total(vars)
      PROVE  Meets(t, ds, val) <=> Meets(s, cs, val)
  <2>1. ASSUME Meets(t, ds, val)
        PROVE  Meets(s, cs, val)
    <3>1. Agree(s, val) /\ \A j \in t.live : Satisfies(val, ds[j])
      BY <1>1, <2>1 DEF Meets
    <3>2. Satisfies(val, c)
      BY <1>1, <1>2, <3>1
    <3>3. \A j \in s.live : Satisfies(val, cs[j])
      BY <1>1, <1>2, <3>1, <3>2
    <3> QED
      BY <3>1, <3>3 DEF Meets
  <2>2. ASSUME Meets(s, cs, val)
        PROVE  Meets(t, ds, val)
    <3>1. Agree(s, val) /\ \A j \in s.live : Satisfies(val, cs[j])
      BY <2>2 DEF Meets
    <3>2. Satisfies(val, c) /\ Agree(t, val)
      BY <1>1, <3>1
    <3>3. \A j \in t.live : Satisfies(val, ds[j])
      BY <1>2, <3>1, <3>2
    <3> QED
      BY <3>2, <3>3 DEF Meets
  <2> QED
    BY <2>1, <2>2
<1>4. Exactly(t, ds, Ref)
  BY <1>3 DEF Sound, Exactly
<1>5. \A val \in Ref : Agree(s, val) /\ Satisfies(val, c)
  BY <1>1 DEF Sound, Exactly, Meets
<1>6. s.hash \in [Keys -> 0 .. Len(clause)]
  BY DEF Level, BinState
<1>7. \A key \in Keys : t.hash[key] = IF NewTwo(s, i, c) /\ key = ToSet(c) THEN i ELSE s.hash[key]
  BY <1>2, <1>6
<1>8. \A val : Says(ToSet(c), val) <=> Satisfies(val, c)
  BY DEF Says, Satisfies
<1>9. KeysHold(t.hash, Ref)
  BY <1>5, <1>7, <1>8 DEF Sound, KeysHold
<1>10. ASSUME NEW key \in Keys, t.hash[key] \in t.live
       PROVE  Enough(t, ds, key)
  <2>1. SUFFICES ASSUME NEW val \in Total(vars), Agree(t, val), Says(key, val)
                 PROVE  Satisfies(val, ds[t.hash[key]])
    BY DEF Enough
  <2>2. Agree(s, val)
    BY <1>1, <2>1
  <2>3. CASE NewTwo(s, i, c) /\ key = ToSet(c)
    BY <1>7, <1>8, <2>1, <2>3
  <2>4. CASE ~(NewTwo(s, i, c) /\ key = ToSet(c))
    <3>1. t.hash[key] = s.hash[key] /\ s.hash[key] \in s.live
      BY <1>2, <1>7, <1>10, <2>4
    <3>2. Satisfies(val, cs[s.hash[key]])
      BY <2>1, <2>2, <3>1 DEF Sound, KeysEnough, Enough
    <3> QED
      BY <1>1, <2>2, <3>1, <3>2
  <2> QED
    BY <2>3, <2>4
<1> QED
  BY <1>2, <1>4, <1>9, <1>10 DEF Sound, KeysEnough

Written == [cs : {cs \in Clauses(vars) : Len(cs) = Len(clause)}, s : Level]
Rewriting == Looped(RewriteOne, [cs |-> clause, s |-> b], Len(clause))

\* No literal can be replaced, taken out or given a value any more.
Settled(s, c) == /\ Len(c) >= 2 /\ IsInjective(c) /\ ~Tautology(c)
                 /\ \A l \in ToSet(c) : l \in Literals(vars) /\ s.root[Abs(l)] = Abs(l) /\ s.varval[Abs(l)] = 0

WroteTo(k, t) ==
  /\ \A j \in DOMAIN clause : j > k => t.cs[j] = clause[j]
  /\ t.s.root = b.root /\ t.s.overwritten = b.overwritten
  /\ \A p \in DOMAIN t.s.nxtc : t.s.nxtc[p] \in 1 .. k /\ Len(t.cs[t.s.nxtc[p]]) = 2
  /\ ~t.s.simplify /\ ~t.s.conflict => /\ t.s.varval = b.varval
                                       /\ \A j \in t.s.live : j <= k => Settled(t.s, t.cs[j])
WroteSound(t) == \A Ref \in SUBSET Total(vars) : SoundIf(b, clause, Ref) => SoundIf(t.s, t.cs, Ref)

(* What rewriting one clause does to the clauses and the level. *)
LEMMA OneIs ==
  ASSUME vars \in Nat, clause \in Clauses(vars), NEW t \in Written, NEW i \in DOMAIN clause
  PROVE  /\ RewriteOne(t, i) \in Written
         /\ LET c == Rewritten(t.s, i)
                u == RewriteOne(t, i)
            IN  /\ Renders(t.s, i, c)
                /\ \/ u = t /\ (i \notin t.s.live \/ t.s.conflict)
                   \/ /\ i \in t.s.live /\ ~t.s.conflict /\ c = <<>>
                      /\ u.cs = t.cs /\ Conflicting(t.s, u.s) /\ u.s.root = t.s.root
                   \/ /\ i \in t.s.live /\ ~t.s.conflict /\ c # <<>>
                      /\ u.cs = [t.cs EXCEPT ![i] = c] /\ StatedAs(t.s, i, c, u.s)
<1> DEFINE c == Rewritten(t.s, i)
           u == RewriteOne(t, i)
<1>1. t.s \in Level /\ t.cs \in Clauses(vars) /\ Len(t.cs) = Len(clause) /\ t = [cs |-> t.cs, s |-> t.s]
  BY DEF Written
<1>2. Renders(t.s, i, c)
  BY <1>1, RewrittenIs
<1>3. u = IF i \notin t.s.live \/ t.s.conflict THEN t
          ELSE IF c = <<>> THEN [t EXCEPT !.s.conflict = TRUE]
          ELSE [cs |-> [t.cs EXCEPT ![i] = c], s |-> Stated(t.s, i, c)]
  BY RewriteParts
<1> HIDE DEF c, u
<1>4. CASE i \notin t.s.live \/ t.s.conflict
  BY <1>2, <1>3, <1>4 DEF c, u
<1>5. CASE i \in t.s.live /\ ~t.s.conflict /\ c = <<>>
  <2> DEFINE d == [t.s EXCEPT !.conflict = TRUE]
  <2>1. u = [cs |-> t.cs, s |-> d]
    <3>1. u = [t EXCEPT !.s.conflict = TRUE]
      BY <1>3, <1>5
    <3>2. [t EXCEPT !.s.conflict = TRUE] = [t EXCEPT !.s = [t.s EXCEPT !.conflict = TRUE]]
      OBVIOUS
    <3>3. [t EXCEPT !.s = d] = [cs |-> t.cs, s |-> d]
      <4> HIDE DEF d
      <4> QED
        BY <1>1
    <3> QED
      BY <3>1, <3>2, <3>3
  <2>2. Conflicting(t.s, d)
    BY <1>1, ConflictIs DEF Level
  <2>3. d.root = t.s.root
    BY <1>1 DEF Level, BinState
  <2> HIDE DEF d
  <2>4. d \in Level
    BY <2>2 DEF Conflicting, Same, Level
  <2>5. u \in Written /\ u.cs = t.cs /\ u.s = d
    BY <1>1, <2>1, <2>4 DEF Written
  <2> QED
    BY <1>2, <1>5, <2>2, <2>3, <2>5 DEF c, u
<1>6. CASE i \in t.s.live /\ ~t.s.conflict /\ c # <<>>
  <2>1. u.cs = [t.cs EXCEPT ![i] = c] /\ u.s = Stated(t.s, i, c) /\ u = [cs |-> u.cs, s |-> u.s]
    BY <1>3, <1>6
  <2>2. c \in Seq(Literals(vars))
    BY <1>2 DEF Renders
  <2>3. StatedAs(t.s, i, c, u.s)
    BY <1>1, <2>1, <2>2, StatedIs
  <2>4. u.s \in Level
    BY <1>1, <2>3 DEF StatedAs, Level, OneLevel
  <2>5. u.cs \in Clauses(vars) /\ Len(u.cs) = Len(clause)
    BY <1>1, <2>1, <2>2 DEF Clauses
  <2>6. u \in Written
    BY <2>1, <2>4, <2>5 DEF Written
  <2> QED
    BY <1>2, <1>6, <2>1, <2>3, <2>6 DEF c, u
<1> QED
  BY <1>4, <1>5, <1>6

(* Rewriting a clause keeps what holds of the clauses up to it. *)
LEMMA RewriteKeeps ==
  ASSUME vars \in Nat, clause \in Clauses(vars), NEW t \in Written, NEW k \in Nat, NEW i \in DOMAIN clause, i = k + 1,
         WroteTo(k, t)
  PROVE  WroteTo(i, RewriteOne(t, i))
<1> DEFINE c == Rewritten(t.s, i)
           u == RewriteOne(t, i)
<1>1. /\ Renders(t.s, i, c)
      /\ \/ u = t /\ (i \notin t.s.live \/ t.s.conflict)
         \/ /\ i \in t.s.live /\ ~t.s.conflict /\ c = <<>>
            /\ u.cs = t.cs /\ Conflicting(t.s, u.s) /\ u.s.root = t.s.root
         \/ /\ i \in t.s.live /\ ~t.s.conflict /\ c # <<>>
            /\ u.cs = [t.cs EXCEPT ![i] = c] /\ StatedAs(t.s, i, c, u.s)
  BY OneIs
<1>2. t.cs \in Clauses(vars) /\ DOMAIN t.cs = DOMAIN clause /\ DOMAIN clause = 1 .. Len(clause) /\ Len(clause) \in Nat
  <2>1. t.cs \in Clauses(vars) /\ Len(t.cs) = Len(clause)
    BY DEF Written
  <2> QED
    BY <2>1, InClauses
<1>3. t.s \in Level /\ t.s.live \subseteq DOMAIN clause
  BY DEF Written, Level, BinState
<1> HIDE DEF c, u
<1>4. CASE u = t /\ (i \notin t.s.live \/ t.s.conflict)
  <2>1. \A j \in t.s.live : j <= i => j <= k \/ j = i
    BY <1>2, <1>3
  <2>2. 1 .. k \subseteq 1 .. i /\ \A j \in DOMAIN clause : j > i => j > k
    BY <1>2
  <2>3. WroteTo(i, u)
    BY <1>4, <2>1, <2>2 DEF WroteTo
  <2> QED
    BY <2>3 DEF u
<1>5. CASE u.cs = t.cs /\ Conflicting(t.s, u.s) /\ u.s.root = t.s.root
  <2>1. u.s.conflict = TRUE /\ u.s.nxtc = t.s.nxtc /\ u.s.overwritten = t.s.overwritten
    BY <1>5 DEF Conflicting, Same
  <2>2. 1 .. k \subseteq 1 .. i /\ \A j \in DOMAIN clause : j > i => j > k
    BY <1>2
  <2>3. WroteTo(i, u)
    BY <1>5, <2>1, <2>2 DEF WroteTo
  <2> QED
    BY <2>3 DEF u
<1>6. CASE i \in t.s.live /\ ~t.s.conflict /\ c # <<>> /\ u.cs = [t.cs EXCEPT ![i] = c] /\ StatedAs(t.s, i, c, u.s)
  <2>1. u.cs[i] = c /\ \A j \in DOMAIN clause : j # i => u.cs[j] = t.cs[j]
    BY <1>2, <1>6
  <2>2. /\ u.s.root = t.s.root /\ u.s.conflict = t.s.conflict /\ u.s.overwritten = t.s.overwritten
        /\ u.s.live = IF Gone(t.s, c) THEN t.s.live \ {i} ELSE t.s.live
        /\ u.s.simplify = (t.s.simplify \/ (Gone(t.s, c) \/ Len(c) < Len(clause[i]) \/ Len(c) = 1))
        /\ u.s.nxtc = IF NewTwo(t.s, i, c) THEN Append(t.s.nxtc, i) ELSE t.s.nxtc
        /\ Len(c) # 1 => u.s.varval = t.s.varval
    BY <1>6 DEF StatedAs
  <2>3. \A j \in DOMAIN clause : j > i => u.cs[j] = clause[j]
    BY <1>2, <2>1 DEF WroteTo
  <2>4. ASSUME NEW p \in DOMAIN u.s.nxtc
        PROVE  u.s.nxtc[p] \in 1 .. i /\ Len(u.cs[u.s.nxtc[p]]) = 2
    <3>1. t.s.nxtc \in Seq(1 .. Len(clause))
      BY <1>3 DEF Level, BinState
    <3>2. \A q \in DOMAIN t.s.nxtc : t.s.nxtc[q] \in 1 .. i /\ Len(u.cs[t.s.nxtc[q]]) = 2
      <4> TAKE q \in DOMAIN t.s.nxtc
      <4>1. t.s.nxtc[q] \in 1 .. k /\ Len(t.cs[t.s.nxtc[q]]) = 2 /\ t.s.nxtc[q] \in 1 .. Len(clause)
        BY <3>1 DEF WroteTo
      <4> QED
        BY <1>2, <2>1, <4>1
    <3>3. CASE NewTwo(t.s, i, c)
      <4>1. u.s.nxtc = Append(t.s.nxtc, i) /\ Len(u.cs[i]) = 2 /\ i \in 1 .. i
        BY <1>2, <2>1, <2>2, <3>3 DEF NewTwo
      <4>2. u.s.nxtc[p] = i \/ (p \in DOMAIN t.s.nxtc /\ u.s.nxtc[p] = t.s.nxtc[p])
        BY <3>1, <4>1, SMTT(30)
      <4> QED
        BY <3>2, <4>1, <4>2
    <3>4. CASE ~NewTwo(t.s, i, c)
      BY <2>2, <3>2, <3>4
    <3> QED
      BY <3>3, <3>4
  <2>5. ASSUME ~u.s.simplify, ~u.s.conflict
        PROVE  /\ u.s.varval = b.varval
               /\ \A j \in u.s.live : j <= i => Settled(u.s, u.cs[j])
    <3>1. ~t.s.simplify /\ ~t.s.conflict /\ ~Gone(t.s, c) /\ Len(c) # 1
      BY <2>2, <2>5
    <3>2. t.s.varval = b.varval /\ u.s.varval = t.s.varval /\ \A j \in t.s.live : j <= k => Settled(t.s, t.cs[j])
      BY <2>2, <3>1 DEF WroteTo
    <3>3. c \in Seq(Literals(vars)) /\ IsInjective(c)
          /\ \A l \in ToSet(c) : l \in Literals(vars) /\ t.s.root[Abs(l)] = Abs(l) /\ Value(t.s.varval, l) # -1
      BY <1>1 DEF Renders
    <3>4. Len(c) >= 2
      <4>1. Len(c) \in Nat /\ Len(c) # 0
        BY <1>6, <3>3, NoEntries, InSeq
      <4>2. \A x \in Nat : x # 0 /\ x # 1 => x >= 2
        OBVIOUS
      <4>3. Len(c) # 1
        BY <3>1
      <4> HIDE DEF c
      <4> QED
        BY <4>1, <4>2, <4>3
    <3>5. ~Tautology(c) /\ \A l \in ToSet(c) : Value(t.s.varval, l) # 1
      BY <3>1 DEF Gone
    <3>6. \A l \in ToSet(c) : t.s.varval[Abs(l)] = 0
      <4> TAKE l \in ToSet(c)
      <4>1. l \in Literals(vars) /\ Value(t.s.varval, l) \notin {-1, 1}
        BY <3>3, <3>5
      <4>2. t.s.varval[Abs(l)] \in {-1, 0, 1}
        BY <1>3, <4>1, LiteralFacts DEF Level, BinState, Partial
      <4> QED
        BY <4>1, <4>2, ValueFacts
    <3>7. Settled(u.s, u.cs[i])
      BY <2>1, <2>2, <3>2, <3>3, <3>4, <3>5, <3>6 DEF Settled
    <3>8. ASSUME NEW j \in u.s.live, j <= i, j # i
          PROVE  Settled(u.s, u.cs[j])
      <4>1. j \in t.s.live /\ j \in DOMAIN clause /\ j <= k
        BY <1>2, <1>3, <2>2, <3>8
      <4>2. Settled(t.s, t.cs[j]) /\ u.cs[j] = t.cs[j]
        BY <2>1, <3>2, <3>8, <4>1
      <4> QED
        BY <2>2, <3>2, <4>2 DEF Settled
    <3> QED
      BY <3>2, <3>7, <3>8
  <2>6. WroteTo(i, u)
    BY <2>2, <2>3, <2>4, <2>5 DEF WroteTo
  <2> QED
    BY <2>6 DEF u
<1> QED
  BY <1>1, <1>4, <1>5, <1>6 DEF u

(* Rewriting a clause keeps the meaning. *)
LEMMA RewriteSound ==
  ASSUME vars \in Nat, clause \in Clauses(vars), NEW t \in Written, NEW k \in Nat, NEW i \in DOMAIN clause, i = k + 1,
         WroteTo(k, t), WroteSound(t)
  PROVE  WroteSound(RewriteOne(t, i))
<1> DEFINE c == Rewritten(t.s, i)
           u == RewriteOne(t, i)
<1>1. /\ Renders(t.s, i, c)
      /\ \/ u = t /\ (i \notin t.s.live \/ t.s.conflict)
         \/ /\ i \in t.s.live /\ ~t.s.conflict /\ c = <<>>
            /\ u.cs = t.cs /\ Conflicting(t.s, u.s) /\ u.s.root = t.s.root
         \/ /\ i \in t.s.live /\ ~t.s.conflict /\ c # <<>>
            /\ u.cs = [t.cs EXCEPT ![i] = c] /\ StatedAs(t.s, i, c, u.s)
  BY OneIs
<1>2. t.cs \in Clauses(vars) /\ DOMAIN t.cs = DOMAIN clause /\ DOMAIN clause = 1 .. Len(clause) /\ Len(clause) \in Nat
  <2>1. t.cs \in Clauses(vars) /\ Len(t.cs) = Len(clause)
    BY DEF Written
  <2> QED
    BY <2>1, InClauses
<1>3. t.s \in Level /\ t.s.live \subseteq DOMAIN clause
  BY DEF Written, Level, BinState
<1>4. t.cs[i] = clause[i]
  <2>1. i > k
    OBVIOUS
  <2> QED
    BY <2>1 DEF WroteTo
<1> HIDE DEF c, u
<1> SUFFICES ASSUME NEW Ref \in SUBSET Total(vars), SoundIf(b, clause, Ref)
             PROVE  SoundIf(u.s, u.cs, Ref)
  BY DEF WroteSound, u
<1>5. SoundIf(t.s, t.cs, Ref)
  BY DEF WroteSound
<1>6. CASE u = t
  BY <1>5, <1>6
<1>7. CASE i \in t.s.live /\ ~t.s.conflict /\ c = <<>> /\ u.cs = t.cs /\ Conflicting(t.s, u.s)
  <2>1. u.s.overwritten = t.s.overwritten
    BY <1>7 DEF Conflicting
  <2>2. CASE t.s.overwritten
    BY <1>5, <2>1, <2>2 DEF SoundIf
  <2>3. CASE ~t.s.overwritten
    <3>1. Sound(t.s, t.cs, Ref)
      BY <1>5, <2>3 DEF SoundIf
    <3>2. \A val : ~Satisfies(val, c)
      BY <1>7, EmptySeq DEF Satisfies, ToSet
    <3>3. ASSUME NEW val \in Ref
          PROVE  FALSE
      <4>1. Agree(t.s, val) /\ Satisfies(val, t.cs[i]) /\ val \in Total(vars)
        BY <1>7, <3>1 DEF Sound, Exactly, Meets
      <4> QED
        BY <1>1, <1>4, <3>2, <4>1 DEF Renders
    <3>4. Ref = {}
      BY <3>3
    <3>5. Sound(u.s, t.cs, Ref)
      BY <1>7, <3>1, <3>4 DEF Conflicting
    <3> QED
      BY <1>7, <2>1, <2>3, <3>5 DEF SoundIf
  <2> QED
    BY <2>2, <2>3
<1>8. CASE i \in t.s.live /\ ~t.s.conflict /\ c # <<>> /\ u.cs = [t.cs EXCEPT ![i] = c] /\ StatedAs(t.s, i, c, u.s)
  <2>1. u.s.overwritten = t.s.overwritten
    BY <1>8 DEF StatedAs
  <2>2. CASE t.s.overwritten
    BY <1>5, <2>1, <2>2 DEF SoundIf
  <2>3. CASE ~t.s.overwritten
    <3>1. Sound(t.s, t.cs, Ref)
      BY <1>5, <2>3 DEF SoundIf
    <3>2. u.cs[i] = c /\ \A j \in t.s.live : j # i => u.cs[j] = t.cs[j]
      BY <1>2, <1>3, <1>8
    <3>3. Sound(u.s, u.cs, Ref)
      <4> DEFINE ds == u.cs
      <4> HIDE DEF ds
      <4>1. ds[i] = c /\ \A j \in t.s.live : j # i => ds[j] = t.cs[j]
        BY <3>2 DEF ds
      <4>2. Sound(u.s, ds, Ref)
        BY <1>1, <1>3, <1>4, <1>8, <3>1, <4>1, StatedSound
      <4> QED
        BY <4>2 DEF ds
    <3> QED
      BY <2>1, <2>3, <3>3 DEF SoundIf
  <2> QED
    BY <2>2, <2>3
<1> QED
  BY <1>1, <1>6, <1>7, <1>8

(* The states of the loop over all clauses. *)
RewritingTurns(a, list) ==
  /\ Rewriting = a[Len(list)] /\ a[0] = [cs |-> list, s |-> b]
  /\ \A k \in 0 .. Len(list) : a[k] \in Written
  /\ \A k \in 1 .. Len(list) : a[k] = RewriteOne(a[k - 1], k)

LEMMA RewritingLoop ==
  ASSUME NEW list, list = clause, vars \in Nat, clause \in Clauses(vars), b \in Level
  PROVE  \E a : RewritingTurns(a, list)
<1> DEFINE M == Len(list)
           V == Written
           v == [cs |-> list, s |-> b]
           Turn(x, k) == RewriteOne(x, k)
           Loop(g) == [k \in 0 .. M |-> IF k = 0 THEN v ELSE Turn(g[k - 1], k)]
           a == CHOOSE g : g = Loop(g)
<1>1. Rewriting = a[M]
  BY DEF Looped, Rewriting
<1>2. M \in Nat
  BY InClauses
<1>3. v \in V /\ \A x \in V : \A k \in 1 .. M : Turn(x, k) \in V
  <2>1. ASSUME NEW t \in Written, NEW k \in 1 .. Len(list)
        PROVE  RewriteOne(t, k) \in Written
    <3>1. k \in DOMAIN clause
      BY InClauses
    <3> QED
      BY <3>1, OneIs
  <2>2. [cs |-> list, s |-> b] \in Written
    BY DEF Written
  <2> QED
    BY <2>1, <2>2
<1>4. a[0] = v /\ (\A k \in 0 .. M : a[k] \in V) /\ (\A k \in 1 .. M : a[k] = Turn(a[k - 1], k))
  <2> DEFINE step == [kx \in (1 .. M) \X V |-> Turn(kx[2], kx[1])]
  <2>1. \A kx \in (1 .. M) \X V : Turn(kx[2], kx[1]) \in V
    <3> HIDE DEF Turn, M, V
    <3> QED
      BY <1>3
  <2>2. IsStep(M, V, step) /\ \A k \in 1 .. M : \A x \in V : step[<<k, x>>] = Turn(x, k)
    <3> HIDE DEF Turn, M, V
    <3> QED
      BY <2>1 DEF IsStep
  <2> HIDE DEF step, M, V, v, Turn
  <2>3. PICK f \in [0 .. M -> V] : f[0] = v /\ \A k \in 1 .. M : f[k] = step[<<k, f[k - 1]>>]
    <3>1. IsDefined(M, V, v, step)
      BY <1>2, <1>3, <2>2, Recursion
    <3> QED
      BY <3>1 DEF IsDefined
  <2>4. \A k \in 1 .. M : f[k] = Turn(f[k - 1], k)
    <3>1. \A k \in 1 .. M : k - 1 \in 0 .. M
      BY <1>2
    <3> QED
      BY <2>2, <2>3, <3>1
  <2>5. f = Loop(f)
    BY <1>2, <2>3, <2>4
  <2>6. a = Loop(a)
    BY <2>5
  <2> HIDE DEF a
  <2>7. a[0] = v /\ \A k \in 1 .. M : a[k] = Turn(a[k - 1], k)
    BY <1>2, <2>6
  <2> DEFINE P == {k \in 0 .. M : a[k] \in V}
  <2>8. 0 \in P
    BY <1>2, <1>3, <2>7
  <2>9. ASSUME NEW j \in 0 .. M, j < M, j \in P
        PROVE  j + 1 \in P
    <3>1. j + 1 \in 1 .. M /\ j + 1 \in 0 .. M /\ (j + 1) - 1 = j /\ a[j] \in V
      BY <1>2, <2>9
    <3> QED
      BY <1>3, <2>7, <3>1
  <2> HIDE DEF P
  <2>10. \A j \in 0 .. M : j \in P
    BY <1>2, <2>8, <2>9, Counting
  <2> QED
    BY <2>7, <2>10 DEF P
<1>5. RewritingTurns(a, list)
  <2> HIDE DEF a
  <2> QED
    BY <1>1, <1>4 DEF RewritingTurns
<1> QED
  BY <1>5

(* The turn over all clauses does both. *)
LEMMA RewritingIs ==
  ASSUME vars \in Nat, clause \in Clauses(vars), b \in Level, b.nxtc = <<>>
  PROVE  /\ Rewriting \in Written /\ WroteTo(Len(clause), Rewriting) /\ WroteSound(Rewriting)
<1>1. \E a : RewritingTurns(a, clause)
  <2> DEFINE l == clause
  <2> HIDE DEF l
  <2>1. l = clause
    BY DEF l
  <2>2. \E a : RewritingTurns(a, l)
    BY <2>1, RewritingLoop
  <2> QED
    BY <2>1, <2>2
<1>2. PICK a : RewritingTurns(a, clause)
  BY <1>1
<1> DEFINE M == Len(clause)
           P == {k \in 0 .. M : WroteTo(k, a[k]) /\ WroteSound(a[k])}
<1>3. M \in Nat /\ DOMAIN clause = 1 .. M
  BY InClauses
<1>4. /\ Rewriting = a[M] /\ a[0] = [cs |-> clause, s |-> b] /\ (\A k \in 0 .. M : a[k] \in Written)
      /\ \A k \in 1 .. M : a[k] = RewriteOne(a[k - 1], k)
  BY <1>2 DEF RewritingTurns
<1> HIDE DEF M
<1>5. 0 \in P
  <2>1. a[0].cs = clause /\ a[0].s = b
    BY <1>4
  <2>2. DOMAIN b.nxtc = {}
    OBVIOUS
  <2>3. \A j \in b.live : ~(j <= 0)
    <3>1. b.live \subseteq 1 .. M
      BY <1>3 DEF Level, BinState
    <3> QED
      BY <1>3, <3>1
  <2>4. WroteTo(0, a[0]) /\ WroteSound(a[0])
    BY <2>1, <2>2, <2>3 DEF WroteTo, WroteSound
  <2> QED
    BY <1>3, <2>4
<1>6. ASSUME NEW n \in 0 .. M, n < M, n \in P
      PROVE  n + 1 \in P
  <2>1. n + 1 \in 1 .. M /\ (n + 1) - 1 = n /\ n + 1 \in 0 .. M /\ n \in Nat
    BY <1>3, <1>6
  <2>2. a[n + 1] = RewriteOne(a[n], n + 1) /\ a[n] \in Written /\ n + 1 \in DOMAIN clause
    BY <1>3, <1>4, <2>1
  <2>3. WroteTo(n, a[n]) /\ WroteSound(a[n])
    BY <1>6
  <2>4. WroteTo(n + 1, a[n + 1])
    BY <2>1, <2>2, <2>3, RewriteKeeps
  <2>5. WroteSound(a[n + 1])
    BY <2>1, <2>2, <2>3, RewriteSound
  <2> QED
    BY <2>1, <2>4, <2>5
<1> HIDE DEF P
<1>7. \A n \in 0 .. M : n \in P
  BY <1>3, <1>5, <1>6, Counting
<1>8. M \in P /\ a[M] \in Written
  BY <1>3, <1>4, <1>7
<1> QED
  BY <1>4, <1>8 DEF P, M

(* BinaryStart: the table of the clauses of two literals. *)
Hashed == Looped(LAMBDA h, k : Insert(h, clause[Twos[k]], Twos[k]), [key \in Keys |-> 0], Len(Twos))
Started == [Idle EXCEPT !.live = DOMAIN clause,
                        !.root = [v \in 1 .. vars |-> v], !.varval = [v \in 1 .. vars |-> 0],
                        !.nxtc = Twos, !.hash = Hashed]
Listed(hash) == \A key \in Keys : hash[key] # 0 => hash[key] \in DOMAIN clause /\ ToSet(clause[hash[key]]) = key

LEMMA TwosIs ==
  ASSUME vars \in Nat, clause \in Clauses(vars)
  PROVE  AllTwo(Twos)
<1> DEFINE n == Len(clause)
           ids == [i \in 1 .. n |-> i]
           S == {i \in DOMAIN clause : Len(clause[i]) = 2}
<1>1. n \in Nat /\ DOMAIN clause = 1 .. n
  BY InClauses
<1>2. ids \in Seq(1 .. n)
  BY <1>1, IsASeq
<1>3. DOMAIN ids = 1 .. n /\ \A i \in 1 .. n : ids[i] = i
  OBVIOUS
<1>4. Twos = Pick(ids, S)
  BY DEF Twos, Ascending
<1> HIDE DEF ids, S
<1>5. Pick(ids, S) \in Seq(1 .. n) /\ \A x : x \in ToSet(Pick(ids, S)) <=> \E i \in DOMAIN ids : i \in S /\ ids[i] = x
  BY <1>2, PickIs
<1>6. \A x \in ToSet(Twos) : x \in DOMAIN clause /\ Len(clause[x]) = 2
  BY <1>1, <1>3, <1>4, <1>5 DEF S
<1>7. \A k \in DOMAIN Twos : Twos[k] \in ToSet(Twos)
  BY <1>4, <1>5, InSeq
<1> QED
  BY <1>4, <1>5, <1>6, <1>7, TwoIs DEF AllTwo

(* The table as it is filled. *)
HashedTurns(a, list, cs) ==
  /\ Hashed = a[Len(list)] /\ a[0] = [key \in Keys |-> 0]
  /\ \A k \in 0 .. Len(list) : a[k] \in [Keys -> 0 .. Len(cs)]
  /\ \A k \in 1 .. Len(list) : a[k] = Insert(a[k - 1], cs[list[k]], list[k])

LEMMA HashedLoop ==
  ASSUME NEW list, list = Twos, AllTwo(list), NEW cs, cs = clause, vars \in Nat, clause \in Clauses(vars)
  PROVE  \E a : HashedTurns(a, list, cs)
<1> DEFINE M == Len(list)
           V == [Keys -> 0 .. Len(cs)]
           v == [key \in Keys |-> 0]
           Turn(x, k) == Insert(x, cs[list[k]], list[k])
           Loop(g) == [k \in 0 .. M |-> IF k = 0 THEN v ELSE Turn(g[k - 1], k)]
           a == CHOOSE g : g = Loop(g)
<1>1. Hashed = a[M]
  BY DEF Looped, Hashed
<1>2. M \in Nat
  BY DEF AllTwo
<1>3. v \in V /\ \A x \in V : \A k \in 1 .. M : Turn(x, k) \in V
  <2>1. Len(cs) \in Nat
    BY InClauses
  <2>2. ASSUME NEW h \in [Keys -> 0 .. Len(cs)], NEW k \in 1 .. Len(list)
        PROVE  Insert(h, cs[list[k]], list[k]) \in [Keys -> 0 .. Len(cs)]
    <3>1. list[k] \in 0 .. Len(cs)
      BY <2>1 DEF AllTwo
    <3> QED
      BY <3>1 DEF Insert
  <2>3. [key \in Keys |-> 0] \in [Keys -> 0 .. Len(cs)]
    BY <2>1
  <2> QED
    BY <2>2, <2>3
<1>4. a[0] = v /\ (\A k \in 0 .. M : a[k] \in V) /\ (\A k \in 1 .. M : a[k] = Turn(a[k - 1], k))
  <2> DEFINE step == [kx \in (1 .. M) \X V |-> Turn(kx[2], kx[1])]
  <2>1. \A kx \in (1 .. M) \X V : Turn(kx[2], kx[1]) \in V
    <3> HIDE DEF Turn, M, V
    <3> QED
      BY <1>3
  <2>2. IsStep(M, V, step) /\ \A k \in 1 .. M : \A x \in V : step[<<k, x>>] = Turn(x, k)
    <3> HIDE DEF Turn, M, V
    <3> QED
      BY <2>1 DEF IsStep
  <2> HIDE DEF step, M, V, v, Turn
  <2>3. PICK f \in [0 .. M -> V] : f[0] = v /\ \A k \in 1 .. M : f[k] = step[<<k, f[k - 1]>>]
    <3>1. IsDefined(M, V, v, step)
      BY <1>2, <1>3, <2>2, Recursion
    <3> QED
      BY <3>1 DEF IsDefined
  <2>4. \A k \in 1 .. M : f[k] = Turn(f[k - 1], k)
    <3>1. \A k \in 1 .. M : k - 1 \in 0 .. M
      BY <1>2
    <3> QED
      BY <2>2, <2>3, <3>1
  <2>5. f = Loop(f)
    BY <1>2, <2>3, <2>4
  <2>6. a = Loop(a)
    BY <2>5
  <2> HIDE DEF a
  <2>7. a[0] = v /\ \A k \in 1 .. M : a[k] = Turn(a[k - 1], k)
    BY <1>2, <2>6
  <2> DEFINE P == {k \in 0 .. M : a[k] \in V}
  <2>8. 0 \in P
    BY <1>2, <1>3, <2>7
  <2>9. ASSUME NEW j \in 0 .. M, j < M, j \in P
        PROVE  j + 1 \in P
    <3>1. j + 1 \in 1 .. M /\ j + 1 \in 0 .. M /\ (j + 1) - 1 = j /\ a[j] \in V
      BY <1>2, <2>9
    <3> QED
      BY <1>3, <2>7, <3>1
  <2> HIDE DEF P
  <2>10. \A j \in 0 .. M : j \in P
    BY <1>2, <2>8, <2>9, Counting
  <2> QED
    BY <2>7, <2>10 DEF P
<1>5. HashedTurns(a, list, cs)
  <2> HIDE DEF a
  <2> QED
    BY <1>1, <1>4 DEF HashedTurns
<1> QED
  BY <1>5

(* The hash table lists binary clauses under their literals. *)
LEMMA HashedIs ==
  ASSUME vars \in Nat, clause \in Clauses(vars)
  PROVE  Hashed \in [Keys -> 0 .. Len(clause)] /\ Listed(Hashed)
<1>1. \E list, cs : list = Twos /\ cs = clause /\ \E a : HashedTurns(a, list, cs)
  <2> DEFINE l == Twos
             c == clause
  <2> HIDE DEF l, c
  <2>1. l = Twos /\ c = clause /\ AllTwo(l)
    BY TwosIs DEF l, c
  <2>2. \E a : HashedTurns(a, l, c)
    BY <2>1, HashedLoop
  <2> QED
    BY <2>1, <2>2
<1>2. PICK list, cs, a : list = Twos /\ cs = clause /\ HashedTurns(a, list, cs)
  BY <1>1
<1> DEFINE M == Len(list)
           P == {k \in 0 .. M : Listed(a[k])}
<1>3. M \in Nat /\ \A k \in 1 .. M : Two(list[k])
  BY <1>2, TwosIs DEF AllTwo
<1>4. /\ Hashed = a[M] /\ a[0] = [key \in Keys |-> 0] /\ (\A k \in 0 .. M : a[k] \in [Keys -> 0 .. Len(clause)])
      /\ \A k \in 1 .. M : a[k] = Insert(a[k - 1], clause[list[k]], list[k])
  BY <1>2 DEF HashedTurns
<1> HIDE DEF M
<1>5. 0 \in P
  BY <1>3, <1>4 DEF Listed
<1>6. ASSUME NEW n \in 0 .. M, n < M, n \in P
      PROVE  n + 1 \in P
  <2>1. n + 1 \in 1 .. M /\ (n + 1) - 1 = n /\ n + 1 \in 0 .. M
    BY <1>3, <1>6
  <2> DEFINE i == list[n + 1]
  <2>2. a[n + 1] = Insert(a[n], clause[i], i) /\ a[n] \in [Keys -> 0 .. Len(clause)] /\ i \in DOMAIN clause
    BY <1>3, <1>4, <2>1 DEF Two
  <2> HIDE DEF i
  <2>3. \A key \in Keys : a[n + 1][key] = IF key = ToSet(clause[i]) THEN i ELSE a[n][key]
    BY <2>2 DEF Insert
  <2>4. Listed(a[n + 1])
    BY <1>6, <2>2, <2>3 DEF Listed
  <2> QED
    BY <2>1, <2>4
<1> HIDE DEF P
<1>7. \A n \in 0 .. M : n \in P
  BY <1>3, <1>5, <1>6, Counting
<1>8. M \in P /\ a[M] \in [Keys -> 0 .. Len(clause)]
  BY <1>3, <1>4, <1>7
<1> QED
  BY <1>4, <1>8 DEF P

AllModels == {val \in Total(vars) : All(val, clause)}

(* The level preprocess_binary starts from means the formula. *)
LEMMA StartedIs ==
  ASSUME vars \in Nat, clause \in Clauses(vars)
  PROVE  /\ Started \in Level /\ AllTwo(Started.nxtc) /\ Started.overwritten = FALSE
         /\ SoundIf(Started, clause, AllModels)
<1> DEFINE t == Started
<1>1. Hashed \in [Keys -> 0 .. Len(clause)] /\ Listed(Hashed) /\ AllTwo(Twos)
  BY HashedIs, TwosIs
<1>2. \A v \in 1 .. vars : v \in Literals(vars) /\ Abs(v) = v /\ pnsign(v) = 1
  BY SignedFacts
<1> HIDE DEF Hashed, Twos
<1>3. /\ t.live = DOMAIN clause /\ t.root = [v \in 1 .. vars |-> v] /\ t.varval = [v \in 1 .. vars |-> 0]
      /\ t.nxtc = Twos /\ t.hash = Hashed /\ t.simplify = FALSE /\ t.conflict = FALSE /\ t.overwritten = FALSE
      /\ t = [live |-> t.live, root |-> t.root, varval |-> t.varval, hash |-> t.hash, nxtc |-> t.nxtc,
              simplify |-> t.simplify, conflict |-> t.conflict, overwritten |-> t.overwritten]
  <2> DEFINE R == [v \in 1 .. vars |-> v]
             W == [v \in 1 .. vars |-> 0]
             D == DOMAIN clause
             N == Twos
             H == Hashed
  <2>1. t = [Idle EXCEPT !.live = D, !.root = R, !.varval = W, !.nxtc = N, !.hash = H]
    BY DEF Started
  <2> HIDE DEF R, W, D, N, H, t
  <2>2. /\ t.live = D /\ t.root = R /\ t.varval = W /\ t.nxtc = N /\ t.hash = H
        /\ t.simplify = FALSE /\ t.conflict = FALSE /\ t.overwritten = FALSE
    BY <2>1 DEF Idle
  <2>3. t = [live |-> t.live, root |-> t.root, varval |-> t.varval, hash |-> t.hash, nxtc |-> t.nxtc,
             simplify |-> t.simplify, conflict |-> t.conflict, overwritten |-> t.overwritten]
    BY <2>1 DEF Idle
  <2> QED
    BY <2>2, <2>3 DEF R, W, D, N, H
<1> HIDE DEF t
<1>4. t \in BinState
  <2>1. t.root \in [1 .. vars -> Literals(vars)] /\ t.varval \in Partial(vars)
    BY <1>2, <1>3 DEF Partial
  <2>2. t.nxtc \in Seq(1 .. Len(clause))
    BY <1>1, <1>3 DEF AllTwo
  <2> QED
    BY <1>1, <1>3, <2>1, <2>2 DEF BinState
<1>5. OneLevel(t)
  BY <1>2, <1>3 DEF OneLevel
<1>6. \A val \in Total(vars) : Agree(t, val)
  <2> TAKE val \in Total(vars)
  <2>1. \A v \in 1 .. vars : val[v] = Value(val, v) /\ t.root[v] = v /\ t.varval[v] = 0
    <3>1. \A v \in 1 .. vars : 1 * val[v] = val[v]
      BY DEF Total
    <3> QED
      BY <1>2, <1>3, <3>1 DEF Value
  <2> QED
    BY <2>1 DEF Agree
<1>7. Exactly(t, clause, AllModels)
  BY <1>3, <1>6 DEF Exactly, Meets, AllModels, All
<1>8. \A key \in Keys : t.hash[key] # 0 => t.hash[key] \in DOMAIN clause /\ ToSet(clause[t.hash[key]]) = key
  BY <1>1, <1>3 DEF Listed
<1>9. KeysHold(t.hash, AllModels) /\ KeysEnough(t, clause)
  <2>1. 0 \notin DOMAIN clause
    BY InClauses
  <2> QED
    BY <1>3, <1>8, <2>1 DEF KeysHold, KeysEnough, Enough, AllModels, All, Says, Satisfies
<1>10. SoundIf(t, clause, AllModels)
  BY <1>3, <1>7, <1>9 DEF SoundIf, Sound
<1> QED
  BY <1>1, <1>3, <1>4, <1>5, <1>10 DEF Level, t

(* BinaryEnd: values, then the numbers of the classes that are left. *)
EndVal(n, color) ==
  [v \in 1 .. n |-> IF mapval[v] # 0 THEN mapval[v]
                    ELSE IF b.varval[mapto[v]] # 0 THEN b.varval[mapto[v]]
                    ELSE IF color[Abs(b.root[mapto[v]])] # 0 THEN 0 ELSE pnsign(b.root[mapto[v]])]
EndTo(n, color) ==
  [v \in 1 .. n |-> IF mapval[v] = 0
                    THEN IF b.varval[mapto[v]] # 0 THEN 0
                         ELSE color[Abs(b.root[mapto[v]])] * pnsign(b.root[mapto[v]])
                    ELSE mapto[v]]
Standing(n) == /\ vars \in 0 .. n /\ clause \in Clauses(vars) /\ b \in Level
               /\ \A v \in 1 .. n : mapto[v] \in 0 .. vars
               /\ Accounted(n, vars, mapto, mapval, resolution)
AllSettled == Closed(b) /\ \A j \in b.live : Settled(b, clause[j])
Ended(left, color, m) ==
  /\ LeftOf(left, b.live) /\ m \in 0 .. vars /\ color \in [1 .. vars -> 0 .. m]
  /\ \A w \in 1 .. vars : color[w] # 0 => b.root[w] = w /\ b.varval[w] = 0
  /\ \A x \in 1 .. m : \E w \in 1 .. vars : color[w] = x

LEMMA EndedIs ==
  ASSUME NEW n \in Nat, Standing(n), AllSettled, NEW left, left = Pick(clause, b.live)
  PROVE  Ended(left, Color(left, 1 .. vars), Len(Order(left)))
<1>1. vars \in Nat /\ clause \in Clauses(vars) /\ vars \in 0 .. n
  BY DEF Standing
<1>2. LeftOf(left, b.live) /\ left \in Clauses(vars)
  BY <1>1, LeftIs DEF LeftOf
<1> DEFINE color == Color(left, 1 .. vars)
           m == Len(Order(left))
<1>3. m \in 0 .. vars /\ color \in [1 .. vars -> 0 .. m] /\ \A k \in 1 .. m : Order(left)[k] \in 1 .. vars /\ color[Order(left)[k]] = k
  BY <1>1, <1>2, ColorIs DEF Clauses
<1>4. \A v \in 1 .. vars : color[v] # 0 <=> \E i \in DOMAIN left : v \in VarsOf(left[i])
  BY <1>1, <1>2, ColorOfMentioned
<1> HIDE DEF color, m
<1>5. ASSUME NEW w \in 1 .. vars, color[w] # 0
      PROVE  b.root[w] = w /\ b.varval[w] = 0
  <2>1. PICK i \in DOMAIN left : w \in VarsOf(left[i])
    BY <1>4, <1>5
  <2>2. PICK p \in DOMAIN clause : p \in b.live /\ clause[p] = left[i]
    BY <1>2 DEF LeftOf
  <2>3. Settled(b, clause[p])
    BY <2>2 DEF AllSettled
  <2>4. PICK l \in ToSet(clause[p]) : Abs(l) = w
    BY <2>1, <2>2 DEF VarsOf
  <2> QED
    BY <2>3, <2>4 DEF Settled
<1>6. Ended(left, color, m)
  BY <1>2, <1>3, <1>5 DEF Ended
<1> QED
  BY <1>6 DEF color, m

(* What becomes of a variable of the input. *)
EndCase(v, m, color, mt, mv) ==
  \/ mapval[v] # 0 /\ mapto[v] = 0 /\ mt[v] = 0 /\ mv[v] = mapval[v]
  \/ /\ mapval[v] = 0 /\ mapto[v] \in 1 .. vars
     /\ \/ b.varval[mapto[v]] \in {-1, 1} /\ mt[v] = 0 /\ mv[v] = b.varval[mapto[v]]
        \/ /\ b.varval[mapto[v]] = 0 /\ color[Abs(b.root[mapto[v]])] \in 1 .. m
           /\ mv[v] = 0 /\ mt[v] = pnsign(b.root[mapto[v]]) * color[Abs(b.root[mapto[v]])]
        \/ /\ b.varval[mapto[v]] = 0 /\ color[Abs(b.root[mapto[v]])] = 0
           /\ mt[v] = 0 /\ mv[v] = pnsign(b.root[mapto[v]])

LEMMA EndOf ==
  ASSUME NEW n \in Nat, Standing(n), NEW left, NEW m \in Nat, NEW color, Ended(left, color, m), NEW v \in 1 .. n
  PROVE  EndCase(v, m, color, EndTo(n, color), EndVal(n, color))
<1>1. \/ mapto[v] # 0 /\ mapval[v] = 0
      \/ mapto[v] = 0 /\ mapval[v] # 0
  BY DEF Standing, Accounted, Eliminated
<1>2. CASE mapto[v] = 0 /\ mapval[v] # 0
  BY <1>2 DEF EndTo, EndVal, EndCase
<1>3. CASE mapto[v] # 0 /\ mapval[v] = 0
  <2> DEFINE w == mapto[v]
             r == b.root[w]
             c == color[Abs(r)]
  <2>1. w \in 1 .. vars /\ vars \in Nat
    BY <1>3 DEF Standing
  <2>2. b.varval[w] \in {-1, 0, 1} /\ r \in Literals(vars)
    BY <2>1 DEF Standing, Level, BinState, Partial
  <2>3. pnsign(r) \in {-1, 1} /\ Abs(r) \in 1 .. vars
    BY <2>1, <2>2, LiteralFacts
  <2>4. c \in 0 .. m
    BY <2>3 DEF Ended
  <2>5. EndVal(n, color)[v] = IF b.varval[w] # 0 THEN b.varval[w] ELSE IF c # 0 THEN 0 ELSE pnsign(r)
    BY <1>3 DEF EndVal
  <2>6. EndTo(n, color)[v] = IF b.varval[w] # 0 THEN 0 ELSE c * pnsign(r)
    BY <1>3 DEF EndTo
  <2> HIDE DEF c, r, w
  <2>7. c * pnsign(r) = pnsign(r) * c /\ (c = 0 => c * pnsign(r) = 0) /\ (c # 0 => c \in 1 .. m)
    BY <2>3, <2>4
  <2>8. /\ w \in 1 .. vars
        /\ \/ b.varval[w] \in {-1, 1} /\ EndTo(n, color)[v] = 0 /\ EndVal(n, color)[v] = b.varval[w]
           \/ b.varval[w] = 0 /\ c \in 1 .. m /\ EndVal(n, color)[v] = 0 /\ EndTo(n, color)[v] = pnsign(r) * c
           \/ b.varval[w] = 0 /\ c = 0 /\ EndTo(n, color)[v] = 0 /\ EndVal(n, color)[v] = pnsign(r)
    BY <2>1, <2>2, <2>5, <2>6, <2>7
  <2> QED
    BY <1>3, <2>8 DEF c, r, w, EndCase
<1> QED
  BY <1>1, <1>2, <1>3

(* A signed variable number as a literal. *)
LEMMA SignedNumber ==
  ASSUME NEW m \in Nat, NEW c \in 1 .. m, NEW e \in {-1, 1}
  PROVE  /\ e * c \in Literals(m) /\ e * c # 0 /\ Abs(e * c) = c
         /\ \A sol \in Total(m) : Value(sol, e * c) = e * sol[c]
<1>1. c \in Literals(m) /\ Abs(c) = c /\ pnsign(c) = 1
  BY SignedFacts
<1>2. e * c \in Literals(m) /\ Abs(e * c) = Abs(c) /\ pnsign(e * c) = e * pnsign(c)
  BY <1>1, SignedLiteral
<1>3. e * 1 = e
  OBVIOUS
<1>4. e * c # 0
  BY <1>2, LiteralFacts
<1> QED
  BY <1>1, <1>2, <1>3, <1>4 DEF Value

(* After the renumbering every input variable is open, fixed or put aside. *)
LEMMA EndAccounted ==
  ASSUME NEW n \in Nat, Standing(n), NEW left, NEW m \in Nat, NEW color, Ended(left, color, m)
  PROVE  /\ Accounted(n, m, EndTo(n, color), EndVal(n, color), resolution)
         /\ \A v \in 1 .. n : EndTo(n, color)[v] \in Literals(m) \cup {0}
<1> DEFINE mt == EndTo(n, color)
           mv == EndVal(n, color)
<1>1. ASSUME NEW v \in 1 .. n
      PROVE  /\ \/ mt[v] # 0 /\ mv[v] = 0
                \/ mt[v] = 0 /\ mv[v] \in {-1, 1}
                \/ mt[v] = 0 /\ mv[v] = Eliminated
             /\ mt[v] \in Literals(m) \cup {0}
             /\ mv[v] = Eliminated <=> v \in ToSet(resolution)
  <2>1. /\ mapval[v] = Eliminated <=> v \in ToSet(resolution)
        /\ mapto[v] = 0 => mapval[v] \in {-1, 1} \/ mapval[v] = Eliminated
    BY DEF Standing, Accounted
  <2>2. CASE mapval[v] # 0 /\ mapto[v] = 0 /\ mt[v] = 0 /\ mv[v] = mapval[v]
    BY <2>1, <2>2
  <2>3. CASE /\ mapval[v] = 0 /\ mapto[v] \in 1 .. vars
             /\ b.varval[mapto[v]] \in {-1, 1} /\ mt[v] = 0 /\ mv[v] = b.varval[mapto[v]]
    BY <2>1, <2>3 DEF Eliminated
  <2>4. mapto[v] \in 1 .. vars => pnsign(b.root[mapto[v]]) \in {-1, 1}
    <3>1. vars \in Nat /\ b \in BinState
      BY DEF Standing, Level
    <3> QED
      BY <3>1, Signs
  <2>5. CASE /\ mapval[v] = 0 /\ mapto[v] \in 1 .. vars
             /\ b.varval[mapto[v]] = 0 /\ color[Abs(b.root[mapto[v]])] \in 1 .. m /\ mv[v] = 0
             /\ mt[v] = pnsign(b.root[mapto[v]]) * color[Abs(b.root[mapto[v]])]
    <3>1. mt[v] \in Literals(m) /\ mt[v] # 0
      BY <2>4, <2>5, SignedNumber
    <3> QED
      BY <2>1, <2>5, <3>1 DEF Eliminated
  <2>6. CASE /\ mapval[v] = 0 /\ mapto[v] \in 1 .. vars
             /\ b.varval[mapto[v]] = 0 /\ color[Abs(b.root[mapto[v]])] = 0
             /\ mt[v] = 0 /\ mv[v] = pnsign(b.root[mapto[v]])
    BY <2>1, <2>4, <2>6 DEF Eliminated
  <2> HIDE DEF mt, mv
  <2> QED
    <3>1. EndCase(v, m, color, mt, mv)
      BY EndOf DEF mt, mv
    <3> QED
      BY <2>2, <2>3, <2>5, <2>6, <3>1 DEF EndCase
<1>2. ASSUME NEW x \in 1 .. m
      PROVE  \E v \in 1 .. n : Abs(mt[v]) = x
  <2>1. PICK w \in 1 .. vars : color[w] = x
    BY DEF Ended
  <2>2. b.root[w] = w /\ b.varval[w] = 0 /\ x # 0
    BY <2>1 DEF Ended
  <2>3. PICK v \in 1 .. n : Abs(mapto[v]) = w
    BY DEF Standing, Accounted
  <2>4. mapto[v] = w
    <3>1. mapto[v] \in 0 .. vars /\ w \in 1 .. vars
      BY DEF Standing
    <3> QED
      BY <2>3, <3>1 DEF Abs
  <2>5. Abs(w) = w /\ pnsign(w) = 1 /\ vars \in Nat
    BY SignedFacts DEF Standing
  <2>6. mt[v] = 1 * x
    <3>1. mapto[v] # 0
      BY <2>4
    <3>2. color[Abs(b.root[mapto[v]])] = x /\ pnsign(b.root[mapto[v]]) = 1 /\ b.varval[mapto[v]] = 0
      BY <2>1, <2>2, <2>4, <2>5
    <3>3. EndCase(v, m, color, mt, mv)
      BY EndOf
    <3> HIDE DEF mt, mv
    <3> QED
      BY <2>2, <3>1, <3>2, <3>3 DEF EndCase
  <2>7. Abs(1 * x) = x
    BY SignedNumber
  <2> QED
    BY <2>6, <2>7
<1> HIDE DEF mt, mv
<1>3. Accounted(n, m, mt, mv, resolution)
  BY <1>1, <1>2 DEF Accounted
<1> QED
  BY <1>1, <1>3 DEF mt, mv

(* A model of what is left gives one of the classes and clauses before. *)
OldModel(color, sol) ==
  [w \in 1 .. vars |-> IF b.varval[w] # 0 THEN b.varval[w]
                       ELSE IF color[Abs(b.root[w])] # 0 THEN pnsign(b.root[w]) * sol[color[Abs(b.root[w])]]
                       ELSE pnsign(b.root[w])]

LEMMA OldAgrees ==
  ASSUME NEW n \in Nat, Standing(n), AllSettled, NEW left, NEW m \in Nat, NEW color, Ended(left, color, m),
         NEW sol \in Total(m)
  PROVE  OldModel(color, sol) \in Total(vars) /\ Agree(b, OldModel(color, sol))
<1> DEFINE old == OldModel(color, sol)
<1>1. vars \in Nat /\ b \in BinState /\ OneLevel(b) /\ Closed(b)
  BY DEF Standing, Level, AllSettled
<1>2. \A w \in 1 .. vars : /\ b.root[w] \in Literals(vars) /\ pnsign(b.root[w]) \in {-1, 1}
                           /\ Abs(b.root[w]) \in 1 .. vars /\ b.varval[w] \in {-1, 0, 1}
  BY <1>1, Signs
<1>3. \A w \in 1 .. vars : color[Abs(b.root[w])] # 0 => sol[color[Abs(b.root[w])]] \in {-1, 1}
  <2> TAKE w \in 1 .. vars
  <2>1. color[Abs(b.root[w])] \in 0 .. m
    BY <1>2 DEF Ended
  <2> QED
    BY <2>1 DEF Total
<1>4. \A w \in 1 .. vars : old[w] = IF b.varval[w] # 0 THEN b.varval[w]
                                    ELSE IF color[Abs(b.root[w])] # 0 THEN pnsign(b.root[w]) * sol[color[Abs(b.root[w])]]
                                    ELSE pnsign(b.root[w])
  BY DEF OldModel
<1>5. \A x \in {-1, 1}, y \in {-1, 1} : x * y \in {-1, 1}
  OBVIOUS
<1>6. \A w \in 1 .. vars : old[w] \in {-1, 1}
  BY <1>2, <1>3, <1>4, <1>5
<1>7. old \in Total(vars)
  BY <1>6 DEF OldModel, Total
<1> HIDE DEF old
<1>8. ASSUME NEW w \in 1 .. vars
      PROVE  old[w] = Value(old, b.root[w])
  <2> DEFINE r == Abs(b.root[w])
             p == pnsign(b.root[w])
  <2>1. r \in 1 .. vars /\ p \in {-1, 1} /\ b.root[r] = r
    BY <1>1, <1>2 DEF OneLevel
  <2>2. Abs(r) = r /\ pnsign(r) = 1
    BY <1>1, <2>1, SignedFacts
  <2>3. b.varval[w] = p * b.varval[r]
    BY <1>1 DEF Closed, Value
  <2>4. Abs(b.root[r]) = r /\ pnsign(b.root[r]) = 1
    BY <2>1, <2>2
  <2>5. old[r] = IF b.varval[r] # 0 THEN b.varval[r] ELSE IF color[r] # 0 THEN 1 * sol[color[r]] ELSE 1
    BY <1>4, <2>1, <2>4
  <2>6. old[w] = IF b.varval[w] # 0 THEN b.varval[w] ELSE IF color[r] # 0 THEN p * sol[color[r]] ELSE p
    BY <1>4
  <2>7. color[r] # 0 => sol[color[r]] \in {-1, 1}
    BY <1>3
  <2>8. b.varval[r] \in {-1, 0, 1}
    BY <1>2, <2>1
  <2> HIDE DEF r, p
  <2>9. old[w] = p * old[r]
    <3>1. \A q \in {-1, 1}, x \in {-1, 0, 1} : (q * x # 0 <=> x # 0) /\ q * (1 * x) = q * x /\ q * 1 = q
      OBVIOUS
    <3>2. CASE b.varval[r] # 0
      BY <2>1, <2>3, <2>5, <2>6, <2>8, <3>1, <3>2
    <3>3. CASE b.varval[r] = 0 /\ color[r] # 0
      <4>1. b.varval[w] = 0
        BY <2>1, <2>3, <3>1, <3>3
      <4>2. old[w] = p * sol[color[r]] /\ old[r] = 1 * sol[color[r]]
        BY <2>5, <2>6, <3>3, <4>1
      <4> QED
        BY <2>1, <2>7, <3>1, <3>3, <4>2
    <3>4. CASE b.varval[r] = 0 /\ color[r] = 0
      <4>1. b.varval[w] = 0
        BY <2>1, <2>3, <3>1, <3>4
      <4>2. old[w] = p /\ old[r] = 1
        BY <2>5, <2>6, <3>4, <4>1
      <4> QED
        BY <2>1, <4>2
    <3> QED
      BY <3>2, <3>3, <3>4
  <2> QED
    BY <2>9 DEF Value, r, p
<1>9. \A w \in 1 .. vars : b.varval[w] \in {0, old[w]}
  BY <1>4
<1>10. Agree(b, old)
  BY <1>8, <1>9 DEF Agree
<1> QED
  BY <1>7, <1>10 DEF old

(* A model of the renumbered clauses is a model of the level before it, with the same input *)
(* values. *)
LEMMA EndBack ==
  ASSUME NEW n \in Nat, Standing(n), AllSettled, NEW left, NEW m \in Nat, NEW color, Ended(left, color, m),
         color = Color(left, 1 .. vars), NEW sol \in Total(m), NEW val \in Total(n),
         All(sol, Renumbered(left, vars)), Follows(val, sol, n, EndTo(n, color), EndVal(n, color))
  PROVE  \E old \in Total(vars) : Meets(b, clause, old) /\ Follows(val, old, n, mapto, mapval)
<1> DEFINE old == OldModel(color, sol)
<1>1. old \in Total(vars) /\ Agree(b, old)
  BY OldAgrees
<1>2. \A w \in 1 .. vars : old[w] = IF b.varval[w] # 0 THEN b.varval[w]
                                    ELSE IF color[Abs(b.root[w])] # 0 THEN pnsign(b.root[w]) * sol[color[Abs(b.root[w])]]
                                    ELSE pnsign(b.root[w])
  BY DEF OldModel
<1> HIDE DEF old
<1>3. vars \in Nat /\ left \in Clauses(vars) /\ LeftOf(left, b.live)
  BY DEF Standing, Ended, LeftOf
<1>4. ASSUME NEW w \in 1 .. vars, color[w] # 0
      PROVE  sol[color[w]] = old[w]
  <2>1. b.root[w] = w /\ b.varval[w] = 0 /\ Abs(w) = w /\ pnsign(w) = 1
    BY <1>3, <1>4, SignedFacts DEF Ended
  <2>2. old[w] = 1 * sol[color[w]]
    BY <1>2, <1>4, <2>1
  <2>3. color[w] \in 1 .. m
    <3>1. color[w] \in 0 .. m
      BY DEF Ended
    <3> QED
      BY <1>4, <3>1
  <2>4. sol[color[w]] \in {-1, 1}
    BY <2>3 DEF Total
  <2> QED
    BY <2>2, <2>4
<1>5. \A i \in DOMAIN left : Satisfies(sol, Renumbered(left, vars)[i]) <=> Satisfies(old, left[i])
  BY <1>3, <1>4, RenumberedSatisfied
<1>6. DOMAIN Renumbered(left, vars) = DOMAIN left
  BY DEF Renumbered, Relabel
<1>7. \A j \in b.live : Satisfies(old, clause[j])
  <2> TAKE j \in b.live
  <2>1. j \in DOMAIN clause
    BY DEF Standing, Level, BinState
  <2>2. PICK i \in DOMAIN left : left[i] = clause[j]
    BY <1>3, <2>1 DEF LeftOf
  <2> QED
    BY <1>5, <1>6, <2>2 DEF All
<1>8. Meets(b, clause, old)
  BY <1>1, <1>7 DEF Meets
<1>9. ASSUME NEW v \in 1 .. n
      PROVE  IF mapto[v] # 0 THEN val[v] = Value(old, mapto[v]) ELSE mapval[v] # Eliminated => val[v] = mapval[v]
  <2> DEFINE w == mapto[v]
             mt == EndTo(n, color)
             mv == EndVal(n, color)
  <2>1. IF mt[v] # 0 THEN val[v] = Value(sol, mt[v]) ELSE mv[v] # Eliminated => val[v] = mv[v]
    BY DEF Follows
  <2>7. \/ mapval[v] # 0 /\ w = 0 /\ mt[v] = 0 /\ mv[v] = mapval[v]
        \/ w \in 1 .. vars /\ b.varval[w] \in {-1, 1} /\ mt[v] = 0 /\ mv[v] = b.varval[w]
        \/ /\ w \in 1 .. vars /\ b.varval[w] = 0 /\ color[Abs(b.root[w])] \in 1 .. m
           /\ mt[v] = pnsign(b.root[w]) * color[Abs(b.root[w])]
        \/ /\ w \in 1 .. vars /\ b.varval[w] = 0 /\ color[Abs(b.root[w])] = 0
           /\ mt[v] = 0 /\ mv[v] = pnsign(b.root[w])
    <3>1. EndCase(v, m, color, mt, mv)
      BY EndOf
    <3> HIDE DEF mt, mv
    <3> QED
      BY <3>1 DEF EndCase
  <2> DEFINE Result == IF w # 0 THEN val[v] = Value(old, w) ELSE mapval[v] # Eliminated => val[v] = mapval[v]
  <2> HIDE DEF mt, mv, w
  <2>2. ASSUME mapval[v] # 0, w = 0, mt[v] = 0, mv[v] = mapval[v]
        PROVE  Result
    BY <2>1, <2>2
  <2>3. ASSUME w \in 1 .. vars
        PROVE  /\ Value(old, w) = old[w] /\ w # 0 /\ pnsign(b.root[w]) \in {-1, 1}
    <3>1. pnsign(w) = 1 /\ Abs(w) = w /\ old[w] \in {-1, 1} /\ w # 0
      BY <1>1, <1>3, <2>3, SignedFacts DEF Total
    <3>2. b \in BinState
      BY DEF Standing, Level
    <3>3. pnsign(b.root[w]) \in {-1, 1}
      BY <1>3, <2>3, <3>2, Signs
    <3> QED
      BY <3>1, <3>3 DEF Value
  <2>4. ASSUME w \in 1 .. vars, b.varval[w] \in {-1, 1}, mt[v] = 0, mv[v] = b.varval[w]
        PROVE  Result
    <3>1. val[v] = b.varval[w]
      BY <2>1, <2>4 DEF Eliminated
    <3> QED
      BY <1>2, <2>3, <2>4, <3>1
  <2>5. ASSUME w \in 1 .. vars, b.varval[w] = 0, color[Abs(b.root[w])] \in 1 .. m,
               mt[v] = pnsign(b.root[w]) * color[Abs(b.root[w])]
        PROVE  Result
    <3>1. mt[v] # 0 /\ Value(sol, mt[v]) = pnsign(b.root[w]) * sol[color[Abs(b.root[w])]]
      BY <2>3, <2>5, SignedNumber
    <3>2. color[Abs(b.root[w])] # 0
      BY <2>5
    <3>3. old[w] = pnsign(b.root[w]) * sol[color[Abs(b.root[w])]]
      BY <1>2, <2>5, <3>2
    <3> QED
      BY <2>1, <2>3, <2>5, <3>1, <3>3
  <2>6. ASSUME w \in 1 .. vars, b.varval[w] = 0, color[Abs(b.root[w])] = 0,
               mt[v] = 0, mv[v] = pnsign(b.root[w])
        PROVE  Result
    <3>1. val[v] = pnsign(b.root[w])
      BY <2>1, <2>3, <2>6 DEF Eliminated
    <3> QED
      BY <1>2, <2>3, <2>6, <3>1
  <2>8. Result
    BY <2>2, <2>4, <2>5, <2>6, <2>7
  <2> QED
    BY <2>8 DEF w
<1>10. Follows(val, old, n, mapto, mapval)
  BY <1>9 DEF Follows
<1> QED
  BY <1>1, <1>8, <1>10

(* A model of the level gives a model of the renumbered clauses. *)
LEMMA EndForth ==
  ASSUME vars \in Nat, NEW left, LeftOf(left, b.live), NEW old \in Total(vars), Meets(b, clause, old)
  PROVE  HasModel(Renumbered(left, vars), Len(Order(left)))
<1>1. All(old, left) /\ left \in Clauses(vars)
  BY DEF LeftOf, Meets, All
<1>2. HasModel(left, vars)
  BY <1>1 DEF HasModel
<1> QED
  BY <1>1, <1>2, RenumberedModel

-------------------------------------------------------------------------------
(* The state between two passes.  One conjunct for what holds everywhere,   *)
(* one for every stage of the program: these are the inductive invariant.   *)
Stages == {"circuit", "gauss", "up", "card", "resolution", "binary", "pairs", "rewrite", "labels", "solve",
           "complete", "done", "simulated", "aborted"}
Typed ==
  /\ input \in Formulas /\ pc \in Stages /\ answer \in {"none", "SAT", "UNSAT"}
  /\ vars \in 0 .. input.vars /\ clause \in Clauses(vars)
  /\ mapto \in [1 .. input.vars -> Literals(vars) \cup {0}]
  /\ mapval \in [1 .. input.vars -> {-1, 0, 1, Eliminated}]
  /\ mapfrom \in Seq(1 .. input.vars) /\ resolution \in Seq(1 .. input.vars)

\* Before preprocess_up: nothing but clauses may have changed.
AsRead(n) ==
  /\ vars = n /\ mapto = [v \in 1 .. n |-> v] /\ mapval = [v \in 1 .. n |-> 0]
  /\ mapfrom = <<>> /\ res_clause = <<>> /\ resolution = <<>> /\ b = Idle

\* After preprocess_up: the variables of the input are renamed or fixed.
Numbered(n) ==
  /\ Clean(clause) /\ Mentioned(clause, vars) /\ NamesOK(n) /\ OpenOrFixed(n)
  /\ res_clause = <<>> /\ resolution = <<>> /\ b = Idle

\* After preprocess_resolution: renamed, fixed or put aside.
Resolved(n) ==
  /\ Clean(clause) /\ PutAside(n) /\ Accounted(n, vars, mapto, mapval, resolution)
  /\ (\A v \in 1 .. n : mapto[v] \in 0 .. vars) /\ b = Idle

\* Before the solvers, and with the values of their model.
Ready(n) == Clean(clause) /\ PutAside(n) /\ Accounted(n, vars, mapto, mapval, resolution)
Answered(n) == PutAside(n) /\ \A v \in 1 .. n : /\ mapval[v] \in {-1, 1, Eliminated}
                                                /\ mapval[v] = Eliminated <=> v \in ToSet(resolution)

StageInv(n) ==
  /\ pc \in {"circuit", "gauss", "up"} => AsRead(n)
  /\ pc \in {"card", "resolution"} => Numbered(n)
  /\ pc = "binary" => Resolved(n)
  /\ pc \in {"pairs", "rewrite", "labels"} => Standing(n) /\ PutAside(n)
  /\ pc = "pairs" => AllTwo(b.nxtc)
  /\ pc = "rewrite" => Closed(b) /\ b.nxtc = <<>>
  /\ pc = "labels" => AllSettled
  /\ pc = "solve" => Ready(n)
  /\ pc = "complete" => Answered(n)

StateInv == Typed /\ StageInv(input.vars)

\* What the assumption on the inputs says of the formula being worked on.
LEMMA InputIs ==
  ASSUME input \in Formulas
  PROVE  input.vars \in Nat /\ input.clause \in Clauses(input.vars)
BY FormulasAssumption DEF Clauses

(* The initial states satisfy StateInv. *)
LEMMA InitState ==
  ASSUME Init
  PROVE  StateInv
<1>1. input \in Formulas /\ input.vars \in Nat /\ input.clause \in Clauses(input.vars)
  BY InputIs DEF Init
<1> DEFINE n == input.vars
<1>2. vars = n /\ clause = input.clause /\ mapto = [v \in 1 .. n |-> v] /\ mapval = [v \in 1 .. n |-> 0]
      /\ mapfrom = <<>> /\ res_clause = <<>> /\ resolution = <<>> /\ b = Idle
      /\ pc \in {"circuit", "up"} /\ answer = "none"
  BY DEF Init, OriVars
<1>3. Typed
  <2>1. pc \in Stages /\ answer \in {"none", "SAT", "UNSAT"}
    BY <1>2 DEF Stages
  <2>2. vars \in 0 .. n /\ clause \in Clauses(vars) /\ mapfrom \in Seq(1 .. n) /\ resolution \in Seq(1 .. n)
    BY <1>1, <1>2
  <2>3. mapto \in [1 .. n -> Literals(vars) \cup {0}]
    <3>1. \A v \in 1 .. n : v \in Literals(n)
      BY <1>1 DEF Literals
    <3> QED
      BY <1>2, <3>1
  <2>4. mapval \in [1 .. n -> {-1, 0, 1, Eliminated}]
    BY <1>2
  <2> QED
    BY <1>1, <2>1, <2>2, <2>3, <2>4 DEF Typed
<1>4. AsRead(n)
  BY <1>2 DEF AsRead
<1>5. StageInv(n)
  BY <1>2, <1>4 DEF StageInv
<1> QED
  BY <1>3, <1>5 DEF StateInv

-------------------------------------------------------------------------------
(* The passes, one lemma for each. *)
\* A step that only moves on, or ends, keeps the types.
LEMMA TypesStay ==
  ASSUME Typed, UNCHANGED <<input, pre_vars>>, pc' \in Stages, answer' \in {"none", "SAT", "UNSAT"}
  PROVE  Typed'
BY DEF Typed, pre_vars

\* Nothing is said of a run that has ended.
LEMMA EndedStage ==
  ASSUME StateInv, UNCHANGED <<input, pre_vars>>, pc' \in {"done", "aborted"}, answer' \in {"none", "SAT", "UNSAT"}
  PROVE  StateInv'
<1>1. Typed'
  BY TypesStay DEF StateInv, Stages
<1>2. StageInv(input.vars)'
  BY DEF StageInv
<1> QED
  BY <1>1, <1>2 DEF StateInv

(* Finding UNSAT keeps StateInv. *)
LEMMA UnsatKeeps ==
  ASSUME StateInv, Unsat
  PROVE  StateInv'
<1>1. UNCHANGED <<input, pre_vars>> /\ pc' \in {"done", "aborted"} /\ answer' \in {"none", "SAT", "UNSAT"}
  BY DEF Unsat
<1> QED
  BY <1>1, EndedStage

(* A failed assertion keeps StateInv. *)
LEMMA AbortKeeps ==
  ASSUME StateInv, Abort
  PROVE  StateInv'
<1>1. UNCHANGED <<input, pre_vars>> /\ pc' \in {"done", "aborted"} /\ answer' \in {"none", "SAT", "UNSAT"}
  BY DEF Abort, StateInv, Typed
<1> QED
  BY <1>1, EndedStage

\* PutAside(n) is what SetAside says of the lists of the state.
LEMMA PutAsideIs ==
  ASSUME NEW n, SetAside(n, res_clause, resolution)'
  PROVE  PutAside(n)'
BY DEF SetAside, PutAside, FreeOf, Free, Resolvable

(* It stays so while the two lists are left alone. *)
LEMMA PutAsideStays ==
  ASSUME NEW n, PutAside(n), UNCHANGED <<res_clause, resolution>>
  PROVE  PutAside(n)'
BY DEF PutAside, Free, Resolvable

\* The sets of states of preprocess_binary depend on the number of clauses and variables alone.
LEMMA LevelStays ==
  ASSUME vars' = vars, Len(clause') = Len(clause), DOMAIN clause' = DOMAIN clause
  PROVE  Level' = Level
BY DEF Level, BinState, Keys, OneLevel, Partial

(* preprocess_up keeps StateInv. *)
LEMMA UpKeeps ==
  ASSUME StateInv, preprocess_up
  PROVE  StateInv'
<1> DEFINE n == input.vars
           read  == Entered(clause)
           T     == Propagated(read, vars)
           left  == Remaining(read, T)
           color == Color(left, 1 .. n)
<1>1. n \in Nat /\ vars = n /\ clause \in Clauses(n) /\ AsRead(n)
  BY InputIs DEF StateInv, Typed, StageInv, AsRead, preprocess_up
<1>2. CASE Contradicts(read, T)
  BY <1>2, UnsatKeeps DEF preprocess_up
<1>3. CASE ~Contradicts(read, T)
  <2> DEFINE m == Len(Order(left))
             new == Relabel(left, color)
  <2>1. /\ clause' = new /\ vars' = m /\ mapto' = color /\ mapfrom' = Order(left)
        /\ mapval' = [v \in 1 .. n |-> CASE v \in T -> 1 [] -v \in T -> -1 [] color[v] # 0 -> 0 [] OTHER -> 1]
        /\ pc' = "card" /\ UNCHANGED <<input, answer, res_clause, resolution, b>>
    BY <1>3 DEF preprocess_up, OriVars, Goto
  <2>2. T \in SUBSET Literals(n) /\ left \in Clauses(n) /\ UpOpen(n, clause, T, left)
    <3>1. T = Propagated(read, n)
      BY <1>1
    <3> HIDE DEF read, T, left
    <3> QED
      BY <1>1, <1>3, <3>1, UpIs DEF read, T, left
  <2>3. mapval' = UpValue(T, color)
    <3>1. DOMAIN color = 1 .. n
      BY DEF Color
    <3> HIDE DEF T, color, left, read
    <3> QED
      BY <2>1, <3>1 DEF UpValue
  <2>4. /\ UpMapped(n, m, color, Order(left), mapval')
        /\ new \in Clauses(m) /\ Clean(new) /\ Mentioned(new, m)
    <3> DEFINE mv == UpValue(T, color)
    <3>1. color = Color(left, 1 .. n) /\ m = Len(Order(left)) /\ new = Relabel(left, color) /\ mv = UpValue(T, color)
      OBVIOUS
    <3> HIDE DEF T, left, read, color, m, new, n, mv
    <3>2. UpMapped(n, m, color, Order(left), mv) /\ new \in Clauses(m) /\ Clean(new) /\ Mentioned(new, m)
      BY <1>1, <2>2, <3>1, UpMaps
    <3>3. mv = mapval'
      BY <2>3, <3>1
    <3> QED
      BY <3>2, <3>3
  <2> HIDE DEF T, left, read, color, m, new
  <2>5. /\ m \in 0 .. n /\ m \in Nat /\ Order(left) \in Seq(1 .. n) /\ Len(Order(left)) = m
        /\ color \in [1 .. n -> 0 .. m] /\ mapval' \in [1 .. n -> {-1, 0, 1}]
        /\ \A v \in 1 .. n : /\ color[v] # 0 => mapval'[v] = 0 /\ Order(left)[color[v]] = v
                             /\ color[v] = 0 => mapval'[v] \in {-1, 1}
        /\ \A x \in 1 .. m : Order(left)[x] \in 1 .. n /\ color[Order(left)[x]] = x
    BY <1>1, <2>4 DEF UpMapped
  <2>6. NamesOK(n)' /\ OpenOrFixed(n)'
    <3>1. \A v \in 1 .. n : color[v] \in 0 .. m
      BY <2>5
    <3>2. NamesOK(n)'
      BY <2>1, <2>5, <3>1 DEF NamesOK
    <3>3. \A v \in 1 .. n : (mapval'[v] = 0 /\ mapto'[v] # 0) \/ (mapval'[v] \in {-1, 1} /\ mapto'[v] = 0)
      <4> TAKE v \in 1 .. n
      <4>1. mapto'[v] = color[v]
        BY <2>1
      <4> QED
        BY <2>5, <4>1
    <3>4. OpenOrFixed(n)'
      BY <2>1, <3>3 DEF OpenOrFixed
    <3> QED
      BY <3>2, <3>4
  <2>7. Typed'
    <3>1. \A v \in 1 .. n : color[v] \in Literals(m) \cup {0}
      <4>1. \A x \in 0 .. m : x \in Literals(m) \cup {0}
        BY <2>5 DEF Literals
      <4> QED
        BY <2>5, <4>1
    <3>2. mapto' \in [1 .. n -> Literals(m) \cup {0}]
      BY <2>1, <2>5, <3>1
    <3>3. mapval' \in [1 .. n -> {-1, 0, 1, Eliminated}]
      BY <2>5
    <3>4. resolution' \in Seq(1 .. n)
      BY <2>1 DEF StateInv, Typed
    <3> QED
      BY <2>1, <2>4, <2>5, <3>2, <3>3, <3>4 DEF StateInv, Typed, Stages
  <2>8. Numbered(n)'
    BY <1>1, <2>1, <2>4, <2>6 DEF Numbered, AsRead
  <2>9. StageInv(n)'
    BY <2>1, <2>8 DEF StageInv
  <2> QED
    BY <2>1, <2>7, <2>9 DEF StateInv
<1> QED
  BY <1>2, <1>3

(* preprocess_card keeps StateInv. *)
LEMMA CardKeeps ==
  ASSUME StateInv, preprocess_card
  PROVE  StateInv'
<1>1. CASE CardRefutes(clause, vars)
  BY <1>1, UnsatKeeps DEF preprocess_card
<1>2. CASE ~CardRefutes(clause, vars)
  <2>1. pc = "card" /\ pc' = "resolution" /\ UNCHANGED <<input, answer, pre_vars, b>>
    BY <1>2 DEF preprocess_card, Goto
  <2>2. Typed'
    BY <2>1, TypesStay DEF StateInv, Typed, Stages
  <2>3. Numbered(input.vars)'
    BY <2>1 DEF StateInv, StageInv, Numbered, NamesOK, OpenOrFixed, pre_vars
  <2>4. StageInv(input.vars)'
    BY <2>1, <2>3 DEF StageInv
  <2> QED
    BY <2>2, <2>4 DEF StateInv
<1> QED
  BY <1>1, <1>2


(* preprocess_resolution keeps StateInv. *)
LEMMA ResolutionKeeps ==
  ASSUME StateInv, preprocess_resolution
  PROVE  StateInv'
<1> DEFINE n == input.vars
           q     == Queue
           gone  == DOMAIN clause \ Without(q)
           left  == Pick(clause, Without(q))
           color == Color(left, 1 .. vars)
           names == Mapped(LAMBDA v : mapfrom[v], q)
           m     == Len(Order(left))
<1>1. /\ n \in Nat /\ vars \in 0 .. n /\ vars \in Nat /\ clause \in Clauses(vars) /\ Numbered(n)
      /\ NamesOK(n) /\ OpenOrFixed(n) /\ Clean(clause)
  <2>1. n \in Nat /\ vars \in 0 .. n /\ clause \in Clauses(vars) /\ Numbered(n)
    BY InputIs DEF StateInv, Typed, StageInv, preprocess_resolution
  <2> QED
    BY <2>1 DEF Numbered
<1>2. /\ pc = "resolution" /\ pc' = "binary" /\ UNCHANGED <<input, answer, mapfrom, b>>
      /\ res_clause' = Relabel(Pick(clause, gone), mapfrom) /\ resolution' = names
      /\ clause' = Renumbered(left, vars) /\ vars' = m
      /\ mapto' = ResolvedTo(n, color, names) /\ mapval' = ResolvedVal(n, names)
  BY DEF preprocess_resolution, Goto, OriVars, ResolvedTo, ResolvedVal, Renumbered
<1>3. /\ q \in Seq(1 .. vars) /\ IsInjective(q) /\ InOrder(q)
      /\ \A v \in 1 .. vars : v \in ToSet(q) \/ Held(v, q)
  BY <1>1, QueueIs DEF Numbered, Mentioned
<1>4. SetAside(n, Relabel(Pick(clause, gone), mapfrom), names)
  <2>1. names = Mapped(LAMBDA v : mapfrom[v], q)
    OBVIOUS
  <2> HIDE DEF q, names
  <2> QED
    BY <1>1, <1>3, <2>1, SetAsideIs
<1>5. LeftOf(left, Without(q))
  <2> HIDE DEF q
  <2> QED
    BY <1>1, LeftIs
<1>6. NamesSplit(n, names, q)
  <2>1. names = Mapped(LAMBDA v : mapfrom[v], q)
    OBVIOUS
  <2> HIDE DEF q, names
  <2> QED
    BY <1>1, <1>3, <2>1, NamesSplitIs
<1>7. ColorSplit(m, color, q)
  <2> HIDE DEF q, left
  <2> QED
    BY <1>1, <1>3, <1>5, ColorSplitIs
<1>8. /\ m \in Nat /\ m <= vars /\ Renumbered(left, vars) \in Clauses(m) /\ Clean(Renumbered(left, vars))
  <2>1. left \in Clauses(vars)
    BY <1>5 DEF LeftOf
  <2>2. Clean(left)
    <3> HIDE DEF left, q
    <3>1. \A i \in DOMAIN left : \E p \in DOMAIN clause : clause[p] = left[i]
      BY <1>5 DEF LeftOf
    <3> QED
      BY <1>1, <3>1 DEF Clean
  <2> DEFINE R == Renumbered(left, vars)
  <2>3. /\ m \in 0 .. vars /\ R \in Clauses(m) /\ DOMAIN R = DOMAIN left
        /\ \A i \in DOMAIN left : /\ Len(R[i]) = Len(left[i])
                                  /\ IsInjective(left[i]) => IsInjective(R[i])
                                  /\ ~Tautology(left[i]) => ~Tautology(R[i])
    <3> HIDE DEF left
    <3> QED
      BY <1>1, <2>1, RenumberedIs
  <2> HIDE DEF R, m, left
  <2>4. Clean(R)
    BY <2>2, <2>3 DEF Clean
  <2> QED
    BY <1>1, <2>3, <2>4 DEF R
<1> HIDE DEF q, gone, left, names, m
<1>9. Accounted(n, m, ResolvedTo(n, color, names), ResolvedVal(n, names), names)
  <2> HIDE DEF color
  <2> QED
    BY <1>1, <1>6, <1>7, <1>8, ResolvedAccounted
<1>10. \A v \in 1 .. n : ResolvedTo(n, color, names)[v] \in 0 .. m
  <2> HIDE DEF color
  <2> QED
    BY <1>1, <1>6, <1>7, <1>8, ResolvedIs
<1> HIDE DEF color, n
<1>11. input' = input /\ n' = n
  BY <1>2 DEF n
<1>12. /\ m \in 0 .. n
       /\ mapto' \in [1 .. n -> Literals(m) \cup {0}]
       /\ mapval' \in [1 .. n -> {-1, 0, 1, Eliminated}]
  <2>1. m \in 0 .. n
    BY <1>1, <1>8
  <2>2. \A x \in 0 .. m : x \in Literals(m) \cup {0}
    BY <1>8 DEF Literals
  <2>3. \A v \in 1 .. n : ResolvedTo(n, color, names)[v] \in Literals(m) \cup {0}
    BY <1>10, <2>2
  <2>4. ResolvedTo(n, color, names) \in [1 .. n -> Literals(m) \cup {0}]
    BY <2>3 DEF ResolvedTo
  <2>5. \A v \in 1 .. n : ResolvedVal(n, names)[v] \in {-1, 0, 1, Eliminated}
    BY <1>9 DEF Accounted
  <2>6. ResolvedVal(n, names) \in [1 .. n -> {-1, 0, 1, Eliminated}]
    BY <2>5 DEF ResolvedVal
  <2> QED
    BY <1>2, <2>1, <2>4, <2>6
<1>13. Typed'
  <2>1. names \in Seq(1 .. n)
    BY <1>4 DEF SetAside
  <2>2. input' \in Formulas /\ answer' \in {"none", "SAT", "UNSAT"} /\ mapfrom' \in Seq(1 .. n)
    BY <1>2 DEF StateInv, Typed, n
  <2>3. n = input'.vars
    BY <1>11 DEF n
  <2> QED
    BY <1>2, <1>8, <1>12, <2>1, <2>2, <2>3 DEF Typed, Stages
<1>14. Resolved(n)'
  <2>1. PutAside(n)'
    <3>1. SetAside(n, res_clause, resolution)'
      BY <1>2, <1>4, <1>11
    <3>2. SetAside(n', res_clause', resolution')
      BY <3>1
    <3>3. PutAside(n)'
      BY <3>2 DEF SetAside, PutAside, FreeOf, Free, Resolvable
    <3> QED
      BY <3>3
  <2>2. b' = Idle
    BY <1>1, <1>2 DEF Numbered
  <2> QED
    BY <1>2, <1>8, <1>9, <1>10, <1>11, <2>1, <2>2 DEF Resolved
<1>15. StageInv(n)'
  BY <1>2, <1>14 DEF StageInv
<1> QED
  BY <1>13, <1>15 DEF StateInv, n

(* The start of preprocess_binary keeps StateInv. *)
LEMMA StartKeeps ==
  ASSUME StateInv, BinaryStart
  PROVE  StateInv'
<1> DEFINE n == input.vars
<1>1. n \in Nat /\ vars \in 0 .. n /\ vars \in Nat /\ clause \in Clauses(vars) /\ Resolved(n) /\ pc = "binary"
  <2>1. n \in Nat /\ vars \in 0 .. n /\ clause \in Clauses(vars) /\ Resolved(n) /\ pc = "binary"
    BY InputIs DEF StateInv, Typed, StageInv, BinaryStart
  <2> QED
    BY <2>1
<1>2. pc' = "pairs" /\ b' = Started /\ UNCHANGED <<input, answer, pre_vars>>
  BY DEF BinaryStart, Goto, Started, Hashed
<1>3. Started \in Level /\ AllTwo(Started.nxtc)
  BY <1>1, StartedIs
<1>4. Typed'
  BY <1>2, TypesStay DEF StateInv, Typed, Stages
<1>5. Level' = Level
  BY <1>2, LevelStays DEF pre_vars
<1>6. Standing(n)'
  BY <1>1, <1>2, <1>3, <1>5 DEF Standing, Resolved, pre_vars
<1>7. PutAside(n)'
  BY <1>1, <1>2, PutAsideStays DEF Resolved, pre_vars
<1>8. AllTwo(b.nxtc)'
  BY <1>2, <1>3 DEF AllTwo, Two, pre_vars
<1>9. StageInv(n)'
  BY <1>2, <1>6, <1>7, <1>8 DEF StageInv
<1> QED
  BY <1>4, <1>9 DEF StateInv

(* Its turn over the binary clauses keeps StateInv. *)
LEMMA PairsKeeps ==
  ASSUME StateInv, Pairs
  PROVE  StateInv'
<1> DEFINE n == input.vars
           s == Spread(Paired)
<1>1. n \in Nat /\ vars \in 0 .. n /\ vars \in Nat /\ Standing(n) /\ PutAside(n) /\ AllTwo(b.nxtc) /\ b \in Level /\ pc = "pairs"
  <2>1. n \in Nat /\ vars \in 0 .. n /\ Standing(n) /\ PutAside(n) /\ AllTwo(b.nxtc) /\ pc = "pairs"
    BY InputIs DEF StateInv, Typed, StageInv, Pairs
  <2> QED
    BY <2>1 DEF Standing
<1>2. CASE s.conflict
  BY <1>2, UnsatKeeps DEF Pairs, Paired, Restarted
<1>3. CASE ~s.conflict
  <2>1. pc' = "rewrite" /\ b' = [s EXCEPT !.nxtc = <<>>] /\ UNCHANGED <<input, answer, pre_vars>>
    BY <1>3 DEF Pairs, Paired, Restarted, Goto
  <2>2. s \in Level /\ Closed(s)
    BY <1>1, <1>3, PairedIs, SpreadKeeps
  <2> HIDE DEF s
  <2>3. b' \in Level /\ Closed(b') /\ b'.nxtc = <<>>
    <3>1. s \in BinState /\ OneLevel(s)
      BY <2>2 DEF Level
    <3>2. b' \in BinState /\ b'.root = s.root /\ b'.varval = s.varval /\ b'.nxtc = <<>>
      <4>1. <<>> \in Seq(1 .. Len(clause))
        OBVIOUS
      <4> DEFINE u == [s EXCEPT !.nxtc = <<>>]
      <4>2. u \in BinState /\ u.root = s.root /\ u.varval = s.varval /\ u.nxtc = <<>>
        BY <3>1, <4>1 DEF BinState
      <4> HIDE DEF u
      <4>3. b' = u
        BY <2>1 DEF u
      <4> QED
        BY <4>2, <4>3
    <3> QED
      BY <2>2, <3>1, <3>2 DEF Level, OneLevel, Closed
  <2>4. Typed'
    BY <2>1, TypesStay DEF StateInv, Typed, Stages
  <2>5. Level' = Level
    BY <2>1, LevelStays DEF pre_vars
  <2>6. Standing(n)'
    BY <1>1, <2>1, <2>3, <2>5 DEF Standing, pre_vars
  <2>7. PutAside(n)'
    BY <1>1, <2>1, PutAsideStays DEF pre_vars
  <2>8. (Closed(b) /\ b.nxtc = <<>>)'
    BY <2>1, <2>3 DEF Closed, pre_vars
  <2>9. StageInv(n)'
    BY <2>1, <2>6, <2>7, <2>8 DEF StageInv
  <2> QED
    BY <2>4, <2>9 DEF StateInv
<1> QED
  BY <1>2, <1>3

\* What Rewrite leaves for the next step.
LEMMA RewriteLeaves ==
  ASSUME vars \in Nat, clause \in Clauses(vars), b \in Level, Closed(b), b.nxtc = <<>>,
         NEW t, t = Rewriting, ~t.s.conflict, NEW s, s = Spread(t.s), ~s.conflict
  PROVE  /\ t.cs \in Clauses(vars) /\ Len(t.cs) = Len(clause) /\ s \in Level /\ Closed(s)
         /\ \A p \in DOMAIN s.nxtc : s.nxtc[p] \in DOMAIN t.cs /\ Len(t.cs[s.nxtc[p]]) = 2
         /\ ~s.simplify => \A j \in s.live : Settled(s, t.cs[j])
<1>1. t \in Written /\ WroteTo(Len(clause), t)
  BY RewritingIs
<1>2. t.cs \in Clauses(vars) /\ Len(t.cs) = Len(clause) /\ t.s \in Level
  BY <1>1 DEF Written
<1>3. /\ s \in Level /\ Closed(s) /\ s.nxtc = t.s.nxtc /\ s.live = t.s.live /\ s.root = t.s.root /\ s.simplify = t.s.simplify
      /\ Closed(t.s) => \A v \in 1 .. vars : s.varval[v] = t.s.varval[v]
  BY <1>2, SpreadKeeps DEF Same
<1>4. DOMAIN clause = 1 .. Len(clause) /\ DOMAIN t.cs = 1 .. Len(clause)
  BY <1>2, InClauses
<1>5. \A p \in DOMAIN s.nxtc : s.nxtc[p] \in DOMAIN t.cs /\ Len(t.cs[s.nxtc[p]]) = 2
  BY <1>1, <1>3, <1>4 DEF WroteTo
<1>6. ASSUME ~s.simplify, NEW j \in s.live
      PROVE  Settled(s, t.cs[j])
  <2>1. t.s.varval = b.varval /\ t.s.root = b.root
    BY <1>1, <1>3, <1>6 DEF WroteTo
  <2>2. Closed(t.s)
    BY <2>1 DEF Closed
  <2>3. j \in 1 .. Len(clause) /\ j <= Len(clause)
    <3>1. j \in DOMAIN clause
      BY <1>3 DEF Level, BinState
    <3> QED
      BY <1>4, <3>1, InClauses
  <2>4. Settled(t.s, t.cs[j])
    BY <1>1, <1>3, <1>6, <2>3 DEF WroteTo
  <2>5. \A l \in ToSet(t.cs[j]) : l \in Literals(vars) /\ s.root[Abs(l)] = Abs(l) /\ s.varval[Abs(l)] = 0
    <3> TAKE l \in ToSet(t.cs[j])
    <3>1. l \in Literals(vars) /\ t.s.root[Abs(l)] = Abs(l) /\ t.s.varval[Abs(l)] = 0
      BY <2>4 DEF Settled
    <3>2. Abs(l) \in 1 .. vars
      BY <3>1, LiteralFacts
    <3> QED
      BY <1>3, <2>2, <3>1, <3>2
  <2> QED
    BY <2>4, <2>5 DEF Settled
<1> QED
  BY <1>2, <1>3, <1>5, <1>6

(* That turn keeps StateInv. *)
LEMMA RewriteStepKeeps ==
  ASSUME StateInv, Rewrite
  PROVE  StateInv'
<1> DEFINE n == input.vars
           t == Rewriting
           s == Spread(t.s)
<1>1. /\ n \in Nat /\ vars \in 0 .. n /\ vars \in Nat /\ clause \in Clauses(vars) /\ Standing(n) /\ PutAside(n)
      /\ Closed(b) /\ b.nxtc = <<>> /\ b \in Level /\ pc = "rewrite"
  <2>1. /\ n \in Nat /\ vars \in 0 .. n /\ Standing(n) /\ PutAside(n) /\ clause \in Clauses(vars)
        /\ Closed(b) /\ b.nxtc = <<>> /\ pc = "rewrite"
    BY InputIs DEF StateInv, Typed, StageInv, Rewrite
  <2> QED
    BY <2>1 DEF Standing
<1>2. CASE s.conflict \/ t.s.conflict
  BY <1>2, UnsatKeeps DEF Rewrite, Rewriting
<1>3. CASE ~(s.conflict \/ t.s.conflict)
  <2>1. /\ pc' = (IF s.simplify THEN "pairs" ELSE "labels") /\ b' = s /\ clause' = t.cs
        /\ UNCHANGED <<input, answer, vars, mapto, mapval, mapfrom, res_clause, resolution>>
    BY <1>3 DEF Rewrite, Rewriting, Goto
  <2>2. /\ t.cs \in Clauses(vars) /\ Len(t.cs) = Len(clause) /\ s \in Level /\ Closed(s)
        /\ \A p \in DOMAIN s.nxtc : s.nxtc[p] \in DOMAIN t.cs /\ Len(t.cs[s.nxtc[p]]) = 2
        /\ ~s.simplify => \A j \in s.live : Settled(s, t.cs[j])
    <3> HIDE DEF t
    <3> QED
      BY <1>1, <1>3, RewriteLeaves DEF t
  <2> HIDE DEF s, t
  <2>3. DOMAIN clause = 1 .. Len(clause) /\ DOMAIN clause' = 1 .. Len(clause) /\ Len(clause') = Len(clause)
    BY <1>1, <2>1, <2>2, InClauses
  <2>4. Level' = Level
    BY <2>1, <2>3, LevelStays
  <2>5. Typed'
    <3>1. pc' \in Stages
      BY <2>1 DEF Stages
    <3> QED
      BY <2>1, <2>2, <3>1 DEF StateInv, Typed
  <2>6. Standing(n)'
    BY <1>1, <2>1, <2>2, <2>4 DEF Standing
  <2>7. PutAside(n)'
    BY <1>1, <2>1, PutAsideStays
  <2>8. AllTwo(b.nxtc)'
    <3>1. s.nxtc \in Seq(1 .. Len(clause'))
      BY <2>2, <2>3 DEF Level, BinState
    <3>2. ASSUME NEW i, NEW p \in DOMAIN s.nxtc, i = s.nxtc[p]
          PROVE  Two(i)'
      <4> DEFINE c == t.cs[i]
      <4>1. i \in DOMAIN clause' /\ c \in Seq(Literals(vars)) /\ Len(c) = 2 /\ DOMAIN c = 1 .. Len(c)
            /\ (\A j \in DOMAIN c : c[j] \in Literals(vars)) /\ \A l : l \in ToSet(c) <=> \E j \in DOMAIN c : c[j] = l
        BY <1>1, <2>1, <2>2, <3>2, InClauses
      <4>2. DOMAIN c = {1, 2}
        BY <4>1
      <4>3. ToSet(c) = {c[1], c[2]} /\ c[1] \in Literals(vars) /\ c[2] \in Literals(vars)
        BY <4>1, <4>2
      <4> QED
        BY <2>1, <4>1, <4>3 DEF Two
    <3> QED
      BY <2>1, <3>1, <3>2 DEF AllTwo
  <2>9. Closed(b)'
    BY <2>1, <2>2 DEF Closed
  <2>10. ~s.simplify => AllSettled'
    BY <2>1, <2>2, <2>9 DEF AllSettled, Settled
  <2>11. StageInv(n)'
    BY <2>1, <2>6, <2>7, <2>8, <2>10 DEF StageInv
  <2> QED
    BY <2>1, <2>5, <2>11 DEF StateInv
<1> QED
  BY <1>2, <1>3

(* The clauses preprocess_binary hands on are clean. *)
LEMMA EndCleans ==
  ASSUME NEW n \in Nat, Standing(n), AllSettled, NEW left, LeftOf(left, b.live)
  PROVE  /\ Len(Order(left)) \in 0 .. vars /\ Renumbered(left, vars) \in Clauses(Len(Order(left)))
         /\ Clean(Renumbered(left, vars))
<1>1. vars \in Nat /\ left \in Clauses(vars)
  BY DEF Standing, LeftOf
<1>2. \A i \in DOMAIN left : Len(left[i]) >= 2 /\ IsInjective(left[i]) /\ ~Tautology(left[i])
  BY DEF LeftOf, AllSettled, Settled
<1> DEFINE R == Renumbered(left, vars)
<1>3. /\ Len(Order(left)) \in 0 .. vars /\ R \in Clauses(Len(Order(left))) /\ DOMAIN R = DOMAIN left
      /\ \A i \in DOMAIN left : /\ Len(R[i]) = Len(left[i])
                                /\ IsInjective(left[i]) => IsInjective(R[i])
                                /\ ~Tautology(left[i]) => ~Tautology(R[i])
  BY <1>1, RenumberedIs
<1> HIDE DEF R
<1>4. Clean(R)
  BY <1>2, <1>3 DEF Clean
<1> QED
  BY <1>3, <1>4 DEF R

\* The step as EndVal and EndTo write it.
LEMMA EndStep ==
  ASSUME BinaryEnd, NEW left, left = Pick(clause, b.live), NEW color, color = Color(left, 1 .. vars)
  PROVE  /\ pc = "labels" /\ pc' = "solve" /\ clause' = Renumbered(left, vars) /\ vars' = Len(Order(left))
         /\ mapval' = EndVal(input.vars, color) /\ mapto' = EndTo(input.vars, color)
         /\ UNCHANGED <<input, answer, mapfrom, res_clause, resolution, b>>
<1>1. /\ pc = "labels" /\ pc' = "solve" /\ clause' = Renumbered(left, vars) /\ vars' = Len(Order(left))
      /\ UNCHANGED <<input, answer, mapfrom, res_clause, resolution, b>>
  BY DEF BinaryEnd, Goto, Renumbered
<1>2. mapval' = EndVal(input.vars, color)
  <2>1. mapval' = [v \in 1 .. input.vars |->
                     IF v \notin {w \in 1 .. input.vars : mapval[w] = 0} THEN mapval[v]
                     ELSE IF b.varval[mapto[v]] # 0 THEN b.varval[mapto[v]]
                     ELSE IF color[Abs(b.root[mapto[v]])] # 0 THEN 0 ELSE pnsign(b.root[mapto[v]])]
    BY DEF BinaryEnd, OriVars, Leftover, SignOf
  <2> QED
    BY <2>1 DEF EndVal
<1>3. mapto' = EndTo(input.vars, color)
  <2>1. mapto' = [v \in 1 .. input.vars |->
                     IF v \in {w \in 1 .. input.vars : mapval[w] = 0}
                     THEN IF b.varval[mapto[v]] # 0 THEN 0
                          ELSE color[Abs(b.root[mapto[v]])] * pnsign(b.root[mapto[v]])
                     ELSE mapto[v]]
    BY DEF BinaryEnd, OriVars, SignOf
  <2> QED
    BY <2>1 DEF EndTo
<1> QED
  BY <1>1, <1>2, <1>3

(* The end of preprocess_binary keeps StateInv. *)
LEMMA EndKeeps ==
  ASSUME StateInv, BinaryEnd
  PROVE  StateInv'
<1> DEFINE n == input.vars
           left == Pick(clause, b.live)
           color == Color(left, 1 .. vars)
           m == Len(Order(left))
<1>1. /\ pc = "labels" /\ pc' = "solve" /\ clause' = Renumbered(left, vars) /\ vars' = m
      /\ mapval' = EndVal(n, color) /\ mapto' = EndTo(n, color)
      /\ UNCHANGED <<input, answer, mapfrom, res_clause, resolution, b>>
  BY EndStep
<1>2. n \in Nat /\ Standing(n) /\ PutAside(n) /\ AllSettled
  BY <1>1, InputIs DEF StateInv, Typed, StageInv
<1>3. Ended(left, color, m) /\ LeftOf(left, b.live)
  <2>1. Ended(left, color, m)
    BY <1>2, EndedIs
  <2> QED
    BY <2>1 DEF Ended
<1> HIDE DEF left, color
<1>4. m \in 0 .. vars /\ Renumbered(left, vars) \in Clauses(m) /\ Clean(Renumbered(left, vars))
  BY <1>2, <1>3, EndCleans
<1>5. m \in Nat /\ vars \in 0 .. n /\ m \in 0 .. n
  BY <1>2, <1>4 DEF Standing
<1> HIDE DEF m, n
<1>6. /\ Accounted(n, m, EndTo(n, color), EndVal(n, color), resolution)
      /\ \A v \in 1 .. n : EndTo(n, color)[v] \in Literals(m) \cup {0}
  BY <1>2, <1>3, <1>5, EndAccounted
<1>7. n' = n
  BY <1>1 DEF n
<1>8. Typed'
  <2>1. mapto' \in [1 .. n -> Literals(m) \cup {0}]
    BY <1>1, <1>6 DEF EndTo
  <2>2. \A v \in 1 .. n : EndVal(n, color)[v] \in {-1, 0, 1, Eliminated}
    BY <1>6 DEF Accounted
  <2>3. mapval' \in [1 .. n -> {-1, 0, 1, Eliminated}]
    BY <1>1, <2>2 DEF EndVal
  <2>4. input' \in Formulas /\ answer' \in {"none", "SAT", "UNSAT"} /\ mapfrom' \in Seq(1 .. n) /\ resolution' \in Seq(1 .. n)
    BY <1>1 DEF StateInv, Typed, n
  <2>5. n = input'.vars
    BY <1>7 DEF n
  <2> QED
    BY <1>1, <1>4, <1>5, <2>1, <2>3, <2>4, <2>5 DEF Typed, Stages
<1>9. PutAside(n)'
  <2>1. PutAside(n')
    BY <1>2, <1>7
  <2> QED
    BY <1>1, <1>7, <2>1 DEF PutAside, Free, Resolvable
<1>10. Ready(n)'
  BY <1>1, <1>4, <1>6, <1>7, <1>9 DEF Ready
<1>11. StageInv(n)'
  BY <1>1, <1>10 DEF StageInv
<1> QED
  BY <1>8, <1>11 DEF StateInv, n

-------------------------------------------------------------------------------
\* The values of a model of what is left, given to the variables of the input.
Answer(sol) == [v \in 1 .. input.vars |-> IF mapto[v] # 0 THEN Value(sol, mapto[v]) ELSE mapval[v]]

(* The values the solver's answer gives to the input's variables. *)
LEMMA GivenValues ==
  ASSUME Typed, NEW n \in Nat, n = input.vars, Ready(n), NEW sol \in Total(vars)
  PROVE  /\ Answer(sol) \in [1 .. n -> {-1, 1, Eliminated}]
         /\ \A v \in 1 .. n : Answer(sol)[v] = Eliminated <=> v \in ToSet(resolution)
<1>1. vars \in Nat /\ mapto \in [1 .. n -> Literals(vars) \cup {0}]
  BY DEF Typed
<1>2. Accounted(n, vars, mapto, mapval, resolution)
  BY DEF Ready
<1>3. ASSUME NEW v \in 1 .. n
      PROVE  /\ Answer(sol)[v] \in {-1, 1, Eliminated}
             /\ Answer(sol)[v] = Eliminated <=> v \in ToSet(resolution)
  <2>1. Answer(sol)[v] = IF mapto[v] # 0 THEN Value(sol, mapto[v]) ELSE mapval[v]
    BY DEF Answer
  <2>2. CASE mapto[v] # 0
    <3>1. mapto[v] \in Literals(vars) /\ mapval[v] = 0
      BY <1>1, <1>2, <2>2 DEF Accounted
    <3>2. Value(sol, mapto[v]) \in {-1, 1}
      BY <1>1, <3>1, TotalValue
    <3>3. v \notin ToSet(resolution)
      BY <1>2, <3>1 DEF Accounted, Eliminated
    <3> QED
      BY <2>1, <2>2, <3>2, <3>3 DEF Eliminated
  <2>3. CASE mapto[v] = 0
    BY <1>2, <2>1, <2>3 DEF Accounted
  <2> QED
    BY <2>2, <2>3
<1>4. Answer(sol) \in [1 .. n -> {-1, 1, Eliminated}]
  BY <1>3 DEF Answer
<1> QED
  BY <1>3, <1>4

(* The solver's answer keeps StateInv. *)
LEMMA SolveKeeps ==
  ASSUME StateInv, Solve
  PROVE  StateInv'
<1> DEFINE n == input.vars
<1>1. CASE Models(clause, 1 .. vars) = {}
  BY <1>1, UnsatKeeps DEF Solve
<1>2. CASE Models(clause, 1 .. vars) # {}
  <2>1. PICK sol \in Models(clause, 1 .. vars) :
          /\ mapval' = Answer(sol) /\ pc' = "complete"
          /\ UNCHANGED <<input, answer, clause, vars, mapto, mapfrom, res_clause, resolution, b>>
    BY <1>2 DEF Solve, Goto, Answer, OriVars
  <2>2. sol \in Total(vars)
    BY DEF Models, Total
  <2>3. n \in Nat /\ Typed /\ Ready(n)
    BY InputIs DEF StateInv, Typed, StageInv, Solve
  <2>4. /\ mapval' \in [1 .. n -> {-1, 1, Eliminated}]
        /\ \A v \in 1 .. n : mapval'[v] = Eliminated <=> v \in ToSet(resolution)
    BY <2>1, <2>2, <2>3, GivenValues
  <2>5. Typed'
    <3>1. mapval' \in [1 .. n -> {-1, 0, 1, Eliminated}]
      BY <2>4
    <3> QED
      BY <2>1, <2>3, <3>1 DEF Typed, Stages
  <2>6. Answered(n)'
    <3>1. PutAside(n)'
      BY <2>1, <2>3 DEF Ready, PutAside, Free, Resolvable
    <3> QED
      BY <2>1, <2>4, <3>1 DEF Answered
  <2>7. StageInv(n)'
    BY <2>1, <2>6 DEF StageInv
  <2> QED
    BY <2>5, <2>7 DEF StateInv
<1> QED
  BY <1>1, <1>2

\* get_complete_model starts from the values that are known.
LEMMA UncompletedIs ==
  ASSUME NEW n \in Nat, n = input.vars, Answered(n)
  PROVE  /\ Completed(Uncompleted) \in Total(n) /\ All(Completed(Uncompleted), res_clause)
         /\ \A v \in 1 .. n : mapval[v] # Eliminated => Completed(Uncompleted)[v] = mapval[v]
<1>1. ASSUME NEW v \in 1 .. n
      PROVE  /\ Uncompleted[v] \in {-1, 0, 1} /\ (Uncompleted[v] = 0 <=> v \in ToSet(resolution))
             /\ mapval[v] # Eliminated => Uncompleted[v] = mapval[v] /\ v \notin ToSet(resolution)
  <2>1. mapval[v] \in {-1, 1, Eliminated} /\ (mapval[v] = Eliminated <=> v \in ToSet(resolution))
    BY DEF Answered
  <2>2. Uncompleted[v] = IF mapval[v] = Eliminated THEN 0 ELSE mapval[v]
    BY DEF Uncompleted, OriVars
  <2> QED
    BY <2>1, <2>2 DEF Eliminated
<1>2. Uncompleted \in Partial(n)
  <2>1. Uncompleted = [v \in 1 .. n |-> Uncompleted[v]]
    BY DEF Uncompleted, OriVars
  <2> QED
    BY <1>1, <2>1 DEF Partial
<1> DEFINE p == Uncompleted
<1>3. p \in Partial(n) /\ PutAside(n) /\ \A v \in 1 .. n : p[v] = 0 <=> v \in ToSet(resolution)
  BY <1>1, <1>2 DEF Answered
<1> HIDE DEF p
<1>4. /\ Completed(p) \in Total(n) /\ All(Completed(p), res_clause)
      /\ \A v \in 1 .. n : v \notin ToSet(resolution) => Completed(p)[v] = p[v]
  BY <1>3, CompletedIs
<1> QED
  BY <1>1, <1>4 DEF p

(* get_complete_model keeps StateInv. *)
LEMMA CompleteKeeps ==
  ASSUME StateInv, get_complete_model
  PROVE  StateInv'
<1> DEFINE n == input.vars
<1>1. n \in Nat /\ Typed /\ Answered(n)
  BY InputIs DEF StateInv, Typed, StageInv, get_complete_model
<1>2. Completed(Uncompleted) \in Total(n)
  BY <1>1, UncompletedIs
<1>3. /\ pc' = "done" /\ answer' = "SAT" /\ mapval' = Completed(Uncompleted)
      /\ UNCHANGED <<input, clause, vars, mapto, mapfrom, res_clause, resolution, b>>
  BY DEF get_complete_model
<1>4. mapval' \in [1 .. n -> {-1, 0, 1, Eliminated}]
  BY <1>2, <1>3 DEF Total
<1>5. Typed'
  BY <1>1, <1>3, <1>4 DEF Typed, Stages
<1>6. StageInv(n)'
  BY <1>3 DEF StageInv
<1> QED
  BY <1>5, <1>6 DEF StateInv

(* A step that changes nothing keeps StateInv. *)
LEMMA StutterKeeps ==
  ASSUME StateInv, UNCHANGED all_vars
  PROVE  StateInv'
<1>1. UNCHANGED <<pc, input, clause, vars, mapto, mapval, mapfrom, res_clause, resolution, b, answer>>
  BY DEF all_vars, pre_vars
<1>2. Typed'
  BY <1>1 DEF StateInv, Typed
<1>3. Level' = Level
  BY <1>1, LevelStays
<1>4. StageInv(input.vars)'
  <2> DEFINE n == input.vars
  <2>1. StageInv(n)
    BY DEF StateInv
  <2>2. AsRead(n) => AsRead(n)'
    BY <1>1 DEF AsRead
  <2>3. Numbered(n) => Numbered(n)'
    BY <1>1 DEF Numbered, NamesOK, OpenOrFixed
  <2>4. PutAside(n) => PutAside(n)'
    BY <1>1 DEF PutAside, Free, Resolvable
  <2>5. Resolved(n) => Resolved(n)'
    BY <1>1, <2>4 DEF Resolved
  <2>6. Standing(n) => Standing(n)'
    BY <1>1, <1>3 DEF Standing
  <2>7. (AllTwo(b.nxtc) => AllTwo(b.nxtc)') /\ (Closed(b) => Closed(b)')
    BY <1>1 DEF AllTwo, Two, Closed
  <2>8. AllSettled => AllSettled'
    BY <1>1 DEF AllSettled, Settled, Closed
  <2>9. (Ready(n) => Ready(n)') /\ (Answered(n) => Answered(n)')
    BY <1>1, <2>4 DEF Ready, Answered
  <2> HIDE DEF n
  <2>10. n' = n
    BY <1>1 DEF n
  <2>11. StageInv(n)'
    BY <1>1, <2>1, <2>2, <2>3, <2>4, <2>5, <2>6, <2>7, <2>8, <2>9 DEF StageInv
  <2> QED
    BY <2>11 DEF n
<1> QED
  BY <1>2, <1>4 DEF StateInv

-------------------------------------------------------------------------------
(* The passes of PRS-thread alone.  preprocess_gauss: what it adds are      *)
(* clauses over the variables of the input.                                 *)
Xors(n) == [vars : SUBSET (1 .. n), first : 1 .. n, rhs : {0, 1}]
Searches(cs, n) == [used : SUBSET (1 .. Len(cs)), xors : Seq(Xors(n))]
Gate(c, r, enough) == IF enough THEN << [vars |-> VarsOf(c), first |-> Abs(c[1]), rhs |-> r] >> ELSE <<>>

LEMMA GateIs ==
  ASSUME NEW n \in Nat, NEW c \in Seq(Literals(n)), Len(c) > 2, NEW r \in {0, 1}, NEW enough
  PROVE  Gate(c, r, enough) \in Seq(Xors(n))
<1>1. 1 \in DOMAIN c /\ c[1] \in Literals(n) /\ VarsOf(c) \subseteq 1 .. n
  <2>1. Len(c) \in Nat /\ DOMAIN c = 1 .. Len(c) /\ ToSet(c) \subseteq Literals(n) /\ \A i \in DOMAIN c : c[i] \in Literals(n)
    BY InSeq
  <2>2. \A l \in ToSet(c) : Abs(l) \in 1 .. n
    BY <2>1, LiteralFacts
  <2> QED
    BY <2>1, <2>2 DEF VarsOf
<1>2. Abs(c[1]) \in 1 .. n
  BY <1>1, LiteralFacts
<1> DEFINE x == [vars |-> VarsOf(c), first |-> Abs(c[1]), rhs |-> r]
<1>3. x \in Xors(n)
  BY <1>1, <1>2 DEF Xors
<1> HIDE DEF x
<1>4. <<x>> \in Seq(Xors(n)) /\ <<>> \in Seq(Xors(n))
  BY <1>3
<1> QED
  BY <1>4 DEF Gate, x

(* Searching from one clause yields xors. *)
LEMMA SearchFromIs ==
  ASSUME NEW n \in Nat, NEW cs \in Clauses(n), NEW st \in Searches(cs, n), NEW i \in 1 .. Len(cs)
  PROVE  SearchFrom(cs, st, i) \in Searches(cs, n)
<1> DEFINE N == Len(cs)
           c == cs[i]
           alike == {k \in DOMAIN cs \ (st.used \cup {i}) : Len(cs[k]) = Len(c) /\ VarsOf(cs[k]) = VarsOf(c)}
           group == <<i>> \o Ascending(alike, Len(cs))
           fresh == {k \in DOMAIN group : \A m \in 1 .. k - 1 : cal_dup_val(cs[group[m]]) # cal_dup_val(cs[group[k]])}
           enough(r) == Cardinality({k \in fresh : Rhs(cs[group[k]]) = r}) = 2 * Required(Len(c))
           used1 == st.used \cup {group[k] : k \in fresh}
           xors1 == st.xors \o Gate(c, 0, enough(0)) \o Gate(c, 1, enough(1))
<1>1. N \in Nat /\ DOMAIN cs = 1 .. N /\ c \in Seq(Literals(n)) /\ Len(c) \in Nat
  BY InClauses
<1>2. group \in Seq(1 .. N)
  <2> DEFINE ids == [k \in 1 .. N |-> k]
  <2>1. ids \in Seq(1 .. N)
    BY <1>1, IsASeq
  <2> HIDE DEF ids
  <2>2. Pick(ids, alike) \in Seq(1 .. N)
    <3> HIDE DEF alike
    <3> QED
      BY <2>1, PickIs
  <2>3. Ascending(alike, N) = Pick(ids, alike)
    BY DEF Ascending, ids
  <2>4. <<i>> \in Seq(1 .. N)
    OBVIOUS
  <2> HIDE DEF alike, N
  <2> QED
    BY <2>2, <2>3, <2>4, ConcatIs DEF N
<1>3. st.used \in SUBSET (1 .. N) /\ st.xors \in Seq(Xors(n))
  BY DEF Searches
<1>4. used1 \in SUBSET (1 .. N)
  <2>1. \A k \in DOMAIN group : group[k] \in 1 .. N
    <3> HIDE DEF group, N
    <3> QED
      BY <1>2, InSeq
  <2> HIDE DEF group
  <2> QED
    BY <1>3, <2>1
<1>5. Len(c) > 2 => xors1 \in Seq(Xors(n))
  <2> DEFINE g0 == Gate(c, 0, enough(0))
             g1 == Gate(c, 1, enough(1))
             xs == st.xors
  <2>1. ASSUME Len(c) > 2
        PROVE  g0 \in Seq(Xors(n)) /\ g1 \in Seq(Xors(n))
    <3> HIDE DEF c, enough
    <3> QED
      BY <1>1, <2>1, GateIs
  <2>2. xs \in Seq(Xors(n))
    BY <1>3
  <2> HIDE DEF g0, g1, xs
  <2>3. Len(c) > 2 => xs \o g0 \in Seq(Xors(n))
    BY <2>1, <2>2, ConcatIs
  <2>4. Len(c) > 2 => xs \o g0 \o g1 \in Seq(Xors(n))
    BY <2>1, <2>3, ConcatIs
  <2> QED
    BY <2>4 DEF xs, g0, g1
<1>6. \/ SearchFrom(cs, st, i) = st
      \/ SearchFrom(cs, st, i) = [st EXCEPT !.used = @ \cup {i}]
      \/ Len(c) > 2 /\ SearchFrom(cs, st, i) = [used |-> used1, xors |-> xors1]
  <2> DEFINE less == \/ Len(c) <= 2 \/ Len(c) > MAX_XOR
                     \/ \E v \in VarsOf(c) : ~Frequent(cs, v, Required(Len(c)))
                     \/ Len(group) < 2 * Required(Len(c))
  <2>1. SearchFrom(cs, st, i) = IF i \in st.used THEN st
                                ELSE IF less THEN [st EXCEPT !.used = @ \cup {i}]
                                ELSE [used |-> used1, xors |-> xors1]
    BY DEF SearchFrom, Gate
  <2>2. ~less => Len(c) > 2
    BY <1>1
  <2> HIDE DEF less, used1, xors1, c
  <2> QED
    BY <2>1, <2>2
<1>7. [st EXCEPT !.used = @ \cup {i}] \in Searches(cs, n)
  <2>1. st.used \cup {i} \in SUBSET (1 .. N)
    BY <1>3
  <2> QED
    BY <2>1 DEF Searches
<1>8. Len(c) > 2 => [used |-> used1, xors |-> xors1] \in Searches(cs, n)
  <2> HIDE DEF used1, xors1, c
  <2> QED
    BY <1>4, <1>5 DEF Searches
<1> HIDE DEF used1, xors1, c
<1> QED
  BY <1>6, <1>7, <1>8

(* search_xors as a loop. *)
SearchTurns(a, cs, n) ==
  /\ search_xors(cs) = a[Len(cs)].xors /\ a[0] = [used |-> {}, xors |-> <<>>]
  /\ \A k \in 0 .. Len(cs) : a[k] \in Searches(cs, n)
  /\ \A k \in 1 .. Len(cs) : a[k] = SearchFrom(cs, a[k - 1], k)

LEMMA SearchLoop ==
  ASSUME NEW n \in Nat, NEW cs \in Clauses(n)
  PROVE  \E a : SearchTurns(a, cs, n)
<1> DEFINE M == Len(cs)
           V == Searches(cs, n)
           v == [used |-> {}, xors |-> <<>>]
           Turn(x, k) == SearchFrom(cs, x, k)
           Loop(g) == [k \in 0 .. M |-> IF k = 0 THEN v ELSE Turn(g[k - 1], k)]
           a == CHOOSE g : g = Loop(g)
<1>1. search_xors(cs) = a[M].xors
  BY DEF Looped, search_xors
<1>2. M \in Nat
  BY InClauses
<1>3. v \in V /\ \A x \in V : \A k \in 1 .. M : Turn(x, k) \in V
  <2>1. [used |-> {}, xors |-> <<>>] \in Searches(cs, n)
    <3>1. <<>> \in Seq(Xors(n))
      OBVIOUS
    <3> QED
      BY <3>1 DEF Searches
  <2> QED
    BY <2>1, SearchFromIs

<1>4. a[0] = v /\ (\A k \in 0 .. M : a[k] \in V) /\ (\A k \in 1 .. M : a[k] = Turn(a[k - 1], k))
  <2> DEFINE step == [kx \in (1 .. M) \X V |-> Turn(kx[2], kx[1])]
  <2>1. \A kx \in (1 .. M) \X V : Turn(kx[2], kx[1]) \in V
    <3> HIDE DEF Turn, M, V
    <3> QED
      BY <1>3
  <2>2. IsStep(M, V, step) /\ \A k \in 1 .. M : \A x \in V : step[<<k, x>>] = Turn(x, k)
    <3> HIDE DEF Turn, M, V
    <3> QED
      BY <2>1 DEF IsStep
  <2> HIDE DEF step, M, V, v, Turn
  <2>3. PICK f \in [0 .. M -> V] : f[0] = v /\ \A k \in 1 .. M : f[k] = step[<<k, f[k - 1]>>]
    <3>1. IsDefined(M, V, v, step)
      BY <1>2, <1>3, <2>2, Recursion
    <3> QED
      BY <3>1 DEF IsDefined
  <2>4. \A k \in 1 .. M : f[k] = Turn(f[k - 1], k)
    <3>1. \A k \in 1 .. M : k - 1 \in 0 .. M
      BY <1>2
    <3> QED
      BY <2>2, <2>3, <3>1
  <2>5. f = Loop(f)
    BY <1>2, <2>3, <2>4
  <2>6. a = Loop(a)
    BY <2>5
  <2> HIDE DEF a
  <2>7. a[0] = v /\ \A k \in 1 .. M : a[k] = Turn(a[k - 1], k)
    BY <1>2, <2>6
  <2> DEFINE P == {k \in 0 .. M : a[k] \in V}
  <2>8. 0 \in P
    BY <1>2, <1>3, <2>7
  <2>9. ASSUME NEW j \in 0 .. M, j < M, j \in P
        PROVE  j + 1 \in P
    <3>1. j + 1 \in 1 .. M /\ j + 1 \in 0 .. M /\ (j + 1) - 1 = j /\ a[j] \in V
      BY <1>2, <2>9
    <3> QED
      BY <1>3, <2>7, <3>1
  <2> HIDE DEF P
  <2>10. \A j \in 0 .. M : j \in P
    BY <1>2, <2>8, <2>9, Counting
  <2> QED
    BY <2>7, <2>10 DEF P
<1>5. SearchTurns(a, cs, n)
  <2> HIDE DEF a
  <2> QED
    BY <1>1, <1>4 DEF SearchTurns
<1> QED
  BY <1>5

(* search_xors yields xors. *)
LEMMA SearchIs ==
  ASSUME NEW n \in Nat, NEW cs \in Clauses(n)
  PROVE  search_xors(cs) \in Seq(Xors(n))
<1>1. PICK a : SearchTurns(a, cs, n)
  BY SearchLoop
<1>2. Len(cs) \in 0 .. Len(cs)
  BY InClauses
<1> QED
  BY <1>1, <1>2 DEF SearchTurns, Searches

(* Picked members of a list have its type. *)
LEMMA KeptOf ==
  ASSUME NEW X, NEW s \in Seq(X), NEW S
  PROVE  Pick(s, S) \in Seq(X)
BY PickIs

(* The groups are lists of xors. *)
LEMMA GroupsAre ==
  ASSUME NEW n \in Nat, NEW xors \in Seq(Xors(n))
  PROVE  Kept(Groups(xors), LAMBDA g : Len(g) > 1) \in Seq(Seq(Xors(n)))
<1> DEFINE of(x) == Kept(xors, LAMBDA y : y.first \in Reach(xors, x.vars))
           all == [i \in DOMAIN xors |-> of(xors[i])]
<1>1. \A x : of(x) \in Seq(Xors(n))
  BY PickIs DEF Kept
<1> HIDE DEF of
<1>2. Len(xors) \in Nat /\ DOMAIN xors = 1 .. Len(xors)
  BY InSeq
<1>3. all \in Seq(Seq(Xors(n)))
  BY <1>1, <1>2, IsASeq
<1>4. Groups(xors) = Distinct(all)
  BY DEF Groups, Mapped, of
<1> HIDE DEF all
<1>5. Distinct(all) \in Seq(Seq(Xors(n)))
  BY <1>3, DistinctIs
<1> QED
  BY <1>4, <1>5, PickIs DEF Kept

Systems(n) == [rows : Seq(SUBSET (0 .. n)), done : Nat]

(* A pivot step keeps the system's shape. *)
LEMMA PivotIs ==
  ASSUME NEW n \in Nat, NEW st \in Systems(n), NEW v
  PROVE  Pivot(st.rows, st.done, v) \in Systems(n)
<1> DEFINE rows == st.rows
           done == st.done
           at == {k \in DOMAIN rows : k > done /\ v \in rows[k]}
<1>1. rows \in Seq(SUBSET (0 .. n)) /\ done \in Nat
  BY DEF Systems
<1> HIDE DEF rows, done
<1>2. Len(rows) \in Nat /\ DOMAIN rows = 1 .. Len(rows) /\ \A k \in DOMAIN rows : rows[k] \in SUBSET (0 .. n)
  BY <1>1, InSeq
<1>3. CASE at = {}
  <2>1. Pivot(rows, done, v) = [rows |-> rows, done |-> done]
    BY <1>3 DEF Pivot
  <2> QED
    BY <1>1, <2>1 DEF Systems, rows, done
<1>4. CASE at # {}
  <2> DEFINE least == Least(at)
             p == rows[least]
             swapped == [rows EXCEPT ![least] = rows[done + 1], ![done + 1] = p]
             new == [k \in DOMAIN rows |-> IF k # done + 1 /\ v \in swapped[k] THEN Sum2(swapped[k], p) ELSE swapped[k]]
  <2>1. Pivot(rows, done, v) = [rows |-> new, done |-> done + 1]
    BY <1>4 DEF Pivot
  <2>2. least \in DOMAIN rows /\ done + 1 \in DOMAIN rows
    <3>1. at \in SUBSET Nat
      BY <1>2
    <3>2. \E k \in at : \A j \in at : k <= j
      BY <1>4, <3>1, LeastNumber
    <3>3. least \in at
      BY <3>2 DEF Least
    <3>4. PICK k \in 1 .. Len(rows) : k > done
      BY <1>2, <3>3
    <3> QED
      BY <1>1, <1>2, <3>3, <3>4
  <2> HIDE DEF least, at
  <2>3. p \in SUBSET (0 .. n) /\ rows[done + 1] \in SUBSET (0 .. n)
    BY <1>2, <2>2
  <2>4. \A k \in DOMAIN rows : swapped[k] \in SUBSET (0 .. n)
    BY <1>2, <2>2, <2>3
  <2> HIDE DEF p, swapped
  <2>5. \A k \in DOMAIN rows : new[k] \in SUBSET (0 .. n)
    BY <2>3, <2>4 DEF Sum2
  <2>6. new = [k \in 1 .. Len(rows) |-> new[k]]
    BY <1>2
  <2> HIDE DEF new
  <2>7. new \in Seq(SUBSET (0 .. n))
    BY <1>2, <2>5, <2>6, IsASeq
  <2> QED
    BY <1>1, <2>1, <2>7 DEF Systems, rows, done
<1> QED
  BY <1>3, <1>4

\* The columns mzd_echelonize visits: the variables of the rows, then the constant.
Columns(rows, n) == Ascending((UNION ToSet(rows)) \ {0}, n) \o <<0>>

(* mzd_echelonize as a loop. *)
EchelonTurns(a, list, rows, n) ==
  /\ mzd_echelonize(rows, n) = a[Len(list)].rows /\ a[0] = [rows |-> rows, done |-> 0]
  /\ \A k \in 0 .. Len(list) : a[k] \in Systems(n)
  /\ \A k \in 1 .. Len(list) : a[k] = Pivot(a[k - 1].rows, a[k - 1].done, list[k])

LEMMA EchelonLoop ==
  ASSUME NEW n \in Nat, NEW rows \in Seq(SUBSET (0 .. n)), NEW list, list = Columns(rows, n), Len(list) \in Nat
  PROVE  \E a : EchelonTurns(a, list, rows, n)
<1> DEFINE M == Len(list)
           V == Systems(n)
           v == [rows |-> rows, done |-> 0]
           Turn(x, k) == Pivot(x.rows, x.done, list[k])
           Loop(g) == [k \in 0 .. M |-> IF k = 0 THEN v ELSE Turn(g[k - 1], k)]
           a == CHOOSE g : g = Loop(g)
<1>1. mzd_echelonize(rows, n) = a[M].rows
  BY DEF Looped, mzd_echelonize, Columns
<1>2. M \in Nat
  OBVIOUS
<1>3. v \in V /\ \A x \in V : \A k \in 1 .. M : Turn(x, k) \in V
  <2>1. [rows |-> rows, done |-> 0] \in Systems(n)
    BY DEF Systems
  <2> QED
    BY <2>1, PivotIs

<1>4. a[0] = v /\ (\A k \in 0 .. M : a[k] \in V) /\ (\A k \in 1 .. M : a[k] = Turn(a[k - 1], k))
  <2> DEFINE step == [kx \in (1 .. M) \X V |-> Turn(kx[2], kx[1])]
  <2>1. \A kx \in (1 .. M) \X V : Turn(kx[2], kx[1]) \in V
    <3> HIDE DEF Turn, M, V
    <3> QED
      BY <1>3
  <2>2. IsStep(M, V, step) /\ \A k \in 1 .. M : \A x \in V : step[<<k, x>>] = Turn(x, k)
    <3> HIDE DEF Turn, M, V
    <3> QED
      BY <2>1 DEF IsStep
  <2> HIDE DEF step, M, V, v, Turn
  <2>3. PICK f \in [0 .. M -> V] : f[0] = v /\ \A k \in 1 .. M : f[k] = step[<<k, f[k - 1]>>]
    <3>1. IsDefined(M, V, v, step)
      BY <1>2, <1>3, <2>2, Recursion
    <3> QED
      BY <3>1 DEF IsDefined
  <2>4. \A k \in 1 .. M : f[k] = Turn(f[k - 1], k)
    <3>1. \A k \in 1 .. M : k - 1 \in 0 .. M
      BY <1>2
    <3> QED
      BY <2>2, <2>3, <3>1
  <2>5. f = Loop(f)
    BY <1>2, <2>3, <2>4
  <2>6. a = Loop(a)
    BY <2>5
  <2> HIDE DEF a
  <2>7. a[0] = v /\ \A k \in 1 .. M : a[k] = Turn(a[k - 1], k)
    BY <1>2, <2>6
  <2> DEFINE P == {k \in 0 .. M : a[k] \in V}
  <2>8. 0 \in P
    BY <1>2, <1>3, <2>7
  <2>9. ASSUME NEW j \in 0 .. M, j < M, j \in P
        PROVE  j + 1 \in P
    <3>1. j + 1 \in 1 .. M /\ j + 1 \in 0 .. M /\ (j + 1) - 1 = j /\ a[j] \in V
      BY <1>2, <2>9
    <3> QED
      BY <1>3, <2>7, <3>1
  <2> HIDE DEF P
  <2>10. \A j \in 0 .. M : j \in P
    BY <1>2, <2>8, <2>9, Counting
  <2> QED
    BY <2>7, <2>10 DEF P
<1>5. EchelonTurns(a, list, rows, n)
  <2> HIDE DEF a
  <2> QED
    BY <1>1, <1>4 DEF EchelonTurns
<1> QED
  BY <1>5

(* Ascending lists variables. *)
LEMMA AscendingIs ==
  ASSUME NEW n \in Nat, NEW S
  PROVE  Ascending(S, n) \in Seq(1 .. n)
<1> DEFINE ids == [k \in 1 .. n |-> k]
<1>1. ids \in Seq(1 .. n)
  BY IsASeq
<1>2. Ascending(S, n) = Pick(ids, S)
  BY DEF Ascending
<1> HIDE DEF ids
<1> QED
  BY <1>1, <1>2, PickIs

(* mzd_echelonize keeps the rows' shape. *)
LEMMA EchelonIs ==
  ASSUME NEW n \in Nat, NEW rows \in Seq(SUBSET (0 .. n))
  PROVE  mzd_echelonize(rows, n) \in Seq(SUBSET (0 .. n))
<1> DEFINE first == Ascending((UNION ToSet(rows)) \ {0}, n)
           list == first \o <<0>>
<1>1. first \in Seq(1 .. n)
  BY AscendingIs
<1>2. first \in Seq(Int)
  <2> HIDE DEF first
  <2>1. \A k \in 1 .. Len(first) : first[k] \in Int
    BY <1>1
  <2> QED
    BY <1>1, <2>1
<1>3. Len(list) \in Nat
  <2> HIDE DEF first
  <2>1. <<0>> \in Seq(Int)
    OBVIOUS
  <2> QED
    BY <1>2, <2>1, ConcatIs
<1>4. list = Columns(rows, n)
  BY DEF Columns
<1> HIDE DEF list
<1>5. PICK a : EchelonTurns(a, list, rows, n)
  BY <1>3, <1>4, EchelonLoop
<1>6. Len(list) \in 0 .. Len(list)
  BY <1>3
<1> QED
  BY <1>5, <1>6 DEF EchelonTurns, Systems

(* A reduced row of one or two variables gives clauses. *)
LEMMA DerivedIs ==
  ASSUME NEW n \in Nat, NEW r
  PROVE  Derived(r, n) \in Clauses(n)
<1> DEFINE ones == Ones(r, n)
<1>1. ones \in Seq(1 .. n)
  BY AscendingIs DEF Ones
<1> HIDE DEF ones
<1>2. \A k \in 1 .. Len(ones) : ones[k] \in Literals(n) /\ -ones[k] \in Literals(n) /\ -(-ones[k]) = ones[k]
  BY <1>1 DEF Literals
<1>3. CASE Len(ones) = 1
  <2> DEFINE l == IF 0 \in r THEN ones[1] ELSE -ones[1]
  <2>1. Derived(r, n) = << <<l>> >>
    BY <1>3 DEF Derived, ones
  <2>2. l \in Literals(n)
    BY <1>2, <1>3
  <2> HIDE DEF l
  <2> QED
    BY <2>1, <2>2 DEF Clauses
<1>4. CASE Len(ones) = 2
  <2> DEFINE q == IF 0 \in r THEN ones[2] ELSE -ones[2]
             p == ones[1]
  <2>1. Derived(r, n) = << <<p, q>>, <<-p, -q>> >>
    BY <1>4 DEF Derived, ones
  <2>2. p \in Literals(n) /\ q \in Literals(n) /\ -p \in Literals(n) /\ -q \in Literals(n)
    BY <1>2, <1>4
  <2> HIDE DEF q, p
  <2>3. <<p, q>> \in Seq(Literals(n)) /\ <<-p, -q>> \in Seq(Literals(n))
    BY <2>2
  <2> DEFINE c == <<p, q>>
             d == <<-p, -q>>
  <2>4. c \in Seq(Literals(n)) /\ d \in Seq(Literals(n)) /\ Derived(r, n) = <<c, d>>
    BY <2>1, <2>3
  <2> HIDE DEF c, d
  <2> QED
    BY <2>4 DEF Clauses
<1>5. CASE Len(ones) # 1 /\ Len(ones) # 2
  <2>1. Derived(r, n) = <<>>
    BY <1>5 DEF Derived, ones
  <2> QED
    BY <2>1 DEF Clauses
<1> QED
  BY <1>3, <1>4, <1>5

RowOf(x) == x.vars \cup (IF x.rhs = 1 THEN {0} ELSE {})
RowsOf(g, n) == mzd_echelonize(Mapped(RowOf, g), n)
NewClauses(g, n) == Flat(Mapped(LAMBDA r : Derived(r, n), RowsOf(g, n)))

(* A group's matrix gives clauses. *)
LEMMA NewClausesAre ==
  ASSUME NEW n \in Nat, NEW g \in Seq(Xors(n))
  PROVE  NewClauses(g, n) \in Clauses(n)
<1>1. Len(g) \in Nat /\ DOMAIN g = 1 .. Len(g) /\ \A i \in DOMAIN g : g[i] \in Xors(n)
  BY InSeq
<1>2. \A i \in 1 .. Len(g) : RowOf(g[i]) \in SUBSET (0 .. n)
  BY <1>1 DEF RowOf, Xors
<1> DEFINE rows == [i \in 1 .. Len(g) |-> RowOf(g[i])]
<1>3. rows \in Seq(SUBSET (0 .. n))
  <2> DEFINE e(i) == RowOf(g[i])
  <2>1. \A i \in 1 .. Len(g) : e(i) \in SUBSET (0 .. n)
    BY <1>2
  <2>2. [i \in 1 .. Len(g) |-> e(i)] \in Seq(SUBSET (0 .. n))
    <3> HIDE DEF e
    <3> QED
      BY <1>1, <2>1, IsASeq
  <2> QED
    BY <2>2
<1>4. Mapped(RowOf, g) = rows
  BY <1>1 DEF Mapped
<1> HIDE DEF rows
<1> DEFINE done == mzd_echelonize(rows, n)
<1>5. done \in Seq(SUBSET (0 .. n))
  BY <1>3, EchelonIs
<1>6. done = RowsOf(g, n)
  BY <1>4 DEF RowsOf
<1> HIDE DEF done
<1> DEFINE der == [i \in 1 .. Len(done) |-> Derived(done[i], n)]
<1>7. der \in Seq(Clauses(n))
  <2> DEFINE e(i) == Derived(done[i], n)
  <2>1. \A i \in 1 .. Len(done) : e(i) \in Clauses(n)
    BY DerivedIs
  <2>2. Len(done) \in Nat
    BY <1>5
  <2>3. [i \in 1 .. Len(done) |-> e(i)] \in Seq(Clauses(n))
    <3> HIDE DEF e
    <3> QED
      BY <2>1, <2>2, IsASeq
  <2> QED
    BY <2>3
<1>8. NewClauses(g, n) = Flat(der)
  <2>1. DOMAIN done = 1 .. Len(done)
    BY <1>5, InSeq
  <2> QED
    BY <1>6, <2>1 DEF NewClauses, Mapped
<1> HIDE DEF der
<1> QED
  BY <1>7, <1>8, FlatIs DEF Clauses

Found(n) == [clause : Clauses(n), res : {"open", "UNSAT", "abort"}]
GroupSize(g) == Cardinality(UNION {x.vars : x \in ToSet(g)})
Grouped(st, g, n) ==
  IF st.res # "open" THEN st
  ELSE IF GroupSize(g) <= 3 THEN [st EXCEPT !.res = "abort"]
  ELSE IF GroupSize(g) * Len(g) > MostCells THEN st
  ELSE [clause |-> st.clause \o NewClauses(g, n),
        res    |-> IF {0} \in ToSet(RowsOf(g, n)) THEN "UNSAT" ELSE "open"]

(* Working on one group keeps the type of the result. *)
LEMMA GroupedIs ==
  ASSUME NEW n \in Nat, NEW st \in Found(n), NEW g \in Seq(Xors(n))
  PROVE  Grouped(st, g, n) \in Found(n)
<1>1. NewClauses(g, n) \in Clauses(n) /\ st.clause \in Clauses(n)
  BY NewClausesAre DEF Found
<1>2. st.clause \o NewClauses(g, n) \in Clauses(n)
  <2> DEFINE s == st.clause
             t == NewClauses(g, n)
  <2>1. s \in Seq(Seq(Literals(n))) /\ t \in Seq(Seq(Literals(n)))
    BY <1>1 DEF Clauses
  <2> HIDE DEF s, t
  <2>2. s \o t \in Seq(Seq(Literals(n)))
    BY <2>1, ConcatIs
  <2> QED
    BY <2>2 DEF Clauses, s, t
<1> QED
  BY <1>1, <1>2 DEF Grouped, Found

(* preprocess_gauss as a loop over the groups. *)
GaussTurns(a, list, cs, n) ==
  /\ GaussResult(cs, n) = a[Len(list)] /\ a[0] = [clause |-> cs, res |-> "open"]
  /\ \A k \in 0 .. Len(list) : a[k] \in Found(n)
  /\ \A k \in 1 .. Len(list) : a[k] = Grouped(a[k - 1], list[k], n)

LEMMA GaussLoop ==
  ASSUME NEW n \in Nat, NEW cs \in Clauses(n),
         NEW list, list = Kept(Groups(search_xors(cs)), LAMBDA g : Len(g) > 1), list \in Seq(Seq(Xors(n)))
  PROVE  \E a : GaussTurns(a, list, cs, n)
<1> DEFINE M == Len(list)
           V == Found(n)
           v == [clause |-> cs, res |-> "open"]
           Turn(x, k) == Grouped(x, list[k], n)
           Loop(g) == [k \in 0 .. M |-> IF k = 0 THEN v ELSE Turn(g[k - 1], k)]
           a == CHOOSE g : g = Loop(g)
<1>1. GaussResult(cs, n) = a[M]
  <2> DEFINE groups == Kept(Groups(search_xors(cs)), LAMBDA g : Len(g) > 1)
  <2>1. GaussResult(cs, n) = Looped(LAMBDA st, k : Grouped(st, groups[k], n), v, Len(groups))
    BY DEF GaussResult, Grouped, NewClauses, RowsOf, RowOf, GroupSize
  <2>2. list = groups
    OBVIOUS
  <2> HIDE DEF groups
  <2> QED
    BY <2>1, <2>2 DEF Looped
<1>2. M \in Nat
  BY InSeq
<1>3. v \in V /\ \A x \in V : \A k \in 1 .. M : Turn(x, k) \in V
  <2>1. [clause |-> cs, res |-> "open"] \in Found(n)
    BY DEF Found
  <2>2. \A k \in 1 .. Len(list) : list[k] \in Seq(Xors(n))
    BY InSeq
  <2> QED
    BY <2>1, <2>2, GroupedIs

<1>4. a[0] = v /\ (\A k \in 0 .. M : a[k] \in V) /\ (\A k \in 1 .. M : a[k] = Turn(a[k - 1], k))
  <2> DEFINE step == [kx \in (1 .. M) \X V |-> Turn(kx[2], kx[1])]
  <2>1. \A kx \in (1 .. M) \X V : Turn(kx[2], kx[1]) \in V
    <3> HIDE DEF Turn, M, V
    <3> QED
      BY <1>3
  <2>2. IsStep(M, V, step) /\ \A k \in 1 .. M : \A x \in V : step[<<k, x>>] = Turn(x, k)
    <3> HIDE DEF Turn, M, V
    <3> QED
      BY <2>1 DEF IsStep
  <2> HIDE DEF step, M, V, v, Turn
  <2>3. PICK f \in [0 .. M -> V] : f[0] = v /\ \A k \in 1 .. M : f[k] = step[<<k, f[k - 1]>>]
    <3>1. IsDefined(M, V, v, step)
      BY <1>2, <1>3, <2>2, Recursion
    <3> QED
      BY <3>1 DEF IsDefined
  <2>4. \A k \in 1 .. M : f[k] = Turn(f[k - 1], k)
    <3>1. \A k \in 1 .. M : k - 1 \in 0 .. M
      BY <1>2
    <3> QED
      BY <2>2, <2>3, <3>1
  <2>5. f = Loop(f)
    BY <1>2, <2>3, <2>4
  <2>6. a = Loop(a)
    BY <2>5
  <2> HIDE DEF a
  <2>7. a[0] = v /\ \A k \in 1 .. M : a[k] = Turn(a[k - 1], k)
    <3>1. a = [k \in 0 .. M |-> IF k = 0 THEN v ELSE Turn(a[k - 1], k)]
      BY <2>6
    <3>2. 0 \in 0 .. M /\ \A k \in 1 .. M : k \in 0 .. M /\ k # 0
      BY <1>2
    <3> HIDE DEF Loop
    <3>3. a[0] = v
      BY <3>1, <3>2
    <3>4. ASSUME NEW k \in 1 .. M PROVE a[k] = Turn(a[k - 1], k)
      BY <3>1, <3>2
    <3> QED
      BY <3>3, <3>4
  <2> DEFINE P == {k \in 0 .. M : a[k] \in V}
  <2>8. 0 \in P
    BY <1>2, <1>3, <2>7
  <2>9. ASSUME NEW j \in 0 .. M, j < M, j \in P
        PROVE  j + 1 \in P
    <3>1. j + 1 \in 1 .. M /\ j + 1 \in 0 .. M /\ (j + 1) - 1 = j /\ a[j] \in V
      BY <1>2, <2>9
    <3> QED
      BY <1>3, <2>7, <3>1
  <2> HIDE DEF P
  <2>10. \A j \in 0 .. M : j \in P
    BY <1>2, <2>8, <2>9, Counting
  <2> QED
    BY <2>7, <2>10 DEF P
<1>5. GaussTurns(a, list, cs, n)
  <2> HIDE DEF a
  <2> QED
    BY <1>1, <1>4 DEF GaussTurns
<1> QED
  BY <1>5

(* preprocess_gauss returns clauses or a conflict. *)
LEMMA GaussIs ==
  ASSUME NEW n \in Nat, NEW cs \in Clauses(n)
  PROVE  GaussResult(cs, n) \in Found(n)
<1> DEFINE list == Kept(Groups(search_xors(cs)), LAMBDA g : Len(g) > 1)
<1>1. list \in Seq(Seq(Xors(n)))
  <2> DEFINE xors == search_xors(cs)
  <2>1. xors \in Seq(Xors(n))
    BY SearchIs
  <2> HIDE DEF xors
  <2>2. Kept(Groups(xors), LAMBDA g : Len(g) > 1) \in Seq(Seq(Xors(n)))
    BY <2>1, GroupsAre
  <2> QED
    BY <2>2 DEF xors
<1>2. PICK a : GaussTurns(a, list, cs, n)
  <2>1. list = Kept(Groups(search_xors(cs)), LAMBDA g : Len(g) > 1)
    OBVIOUS
  <2> HIDE DEF list
  <2> QED
    BY <1>1, <2>1, GaussLoop
<1>3. Len(list) \in 0 .. Len(list)
  <2> HIDE DEF list
  <2>1. Len(list) \in Nat
    BY <1>1
  <2> QED
    BY <2>1
<1> HIDE DEF list
<1> QED
  BY <1>2, <1>3 DEF GaussTurns

(* preprocess_gauss keeps StateInv. *)
LEMMA GaussKeeps ==
  ASSUME StateInv, preprocess_gauss
  PROVE  StateInv'
<1> DEFINE n == input.vars
           found == GaussResult(clause, vars)
<1>1. n \in Nat /\ Typed /\ AsRead(n) /\ clause \in Clauses(vars) /\ vars \in Nat
  <2>1. n \in Nat /\ Typed /\ AsRead(n)
    BY InputIs DEF StateInv, StageInv, Typed, preprocess_gauss
  <2> QED
    BY <2>1 DEF Typed
<1>2. found \in Found(vars)
  BY <1>1, GaussIs
<1> HIDE DEF found
<1>3. found.res \in {"open", "UNSAT", "abort"} /\ found.clause \in Clauses(vars)
  BY <1>2 DEF Found
<1>4. CASE found.res = "UNSAT"
  <2>1. Unsat
    BY <1>4 DEF preprocess_gauss, found
  <2> QED
    BY <2>1, UnsatKeeps
<1>5. CASE found.res = "abort"
  <2>1. Abort
    BY <1>5 DEF preprocess_gauss, found
  <2> QED
    BY <2>1, AbortKeeps
<1>6. CASE found.res = "open"
  <2>1. /\ clause' = found.clause /\ pc' = "up"
        /\ UNCHANGED <<input, answer, vars, mapto, mapval, mapfrom, res_clause, resolution, b>>
    BY <1>6 DEF preprocess_gauss, Goto, found
  <2>2. Typed'
    BY <1>1, <1>3, <2>1 DEF Typed, Stages
  <2>3. AsRead(n)'
    BY <1>1, <2>1 DEF AsRead
  <2>4. StageInv(n)'
    BY <2>1, <2>3 DEF StageInv
  <2> QED
    BY <2>2, <2>4 DEF StateInv
<1> QED
  BY <1>3, <1>4, <1>5, <1>6

\* A model of the circuit gives every variable a value.
LEMMA CircuitModel ==
  ASSUME NEW cs, NEW n, NEW found \in CircuitAnswers(cs, n)
  PROVE  /\ found.res \in {"open", "SAT", "UNSAT", "abort"}
         /\ found.res = "SAT" => found.model \in [1 .. n -> {-1, 1}]
<1> DEFINE aig == cnf2aig(cs, n)
           order == Schedule(aig)
<1>1. CASE ~aig.ok \/ aig.rins <= FewestInputs \/ aig.rins > MostInputs
  <2>1. found = [res |-> "open", model |-> <<>>]
    BY <1>1 DEF CircuitAnswers, Decided
  <2> QED
    BY <2>1
<1>2. CASE ~(~aig.ok \/ aig.rins <= FewestInputs \/ aig.rins > MostInputs)
  <2>1. found \in Epcec(aig, order, n)
    BY <1>2 DEF CircuitAnswers, Decided
  <2> HIDE DEF aig, order
  <2> DEFINE input0 == {a \in [ToSet(aig.ins) -> BOOLEAN] : \A x \in DOMAIN a : aig.fixed[x] # 0 => a[x] = (aig.fixed[x] = 1)}
             model(s) == [v \in 1 .. n |-> IF aig.f[v] \in DOMAIN s /\ ~s[aig.f[v]] THEN -1 ELSE 1]
             sims == {s \in {Simulated(aig, order, a) : a \in input0} : s[aig.epcec_out]}
  <2>2. \/ found = [res |-> "abort", model |-> <<>>]
        \/ found = [res |-> "UNSAT", model |-> <<>>]
        \/ \E s \in sims : found = [res |-> "SAT", model |-> model(s)]
    BY <2>1 DEF Epcec
  <2>3. \A s : model(s) \in [1 .. n -> {-1, 1}]
    OBVIOUS
  <2> HIDE DEF model, sims
  <2> QED
    BY <2>2, <2>3
<1> QED
  BY <1>1, <1>2

(* preprocess_circuit keeps StateInv. *)
LEMMA CircuitKeeps ==
  ASSUME StateInv, preprocess_circuit
  PROVE  StateInv'
<1> DEFINE n == input.vars
<1>1. n \in Nat /\ Typed /\ AsRead(n)
  BY InputIs DEF StateInv, StageInv, Typed, preprocess_circuit
<1>2. PICK found \in CircuitAnswers(clause, vars) :
        CASE found.res = "open"  -> Goto("gauss") /\ UNCHANGED <<pre_vars, b>>
          [] found.res = "abort" -> Abort
          [] OTHER               -> /\ mapval' = IF found.res = "SAT" THEN found.model ELSE mapval
                                    /\ pc' = "simulated" /\ answer' = found.res
                                    /\ UNCHANGED <<input, clause, vars, mapto, mapfrom, res_clause, resolution, b>>
  BY DEF preprocess_circuit
<1>3. /\ found.res \in {"open", "SAT", "UNSAT", "abort"}
      /\ found.res = "SAT" => found.model \in [1 .. vars -> {-1, 1}]
  BY CircuitModel
<1>4. CASE found.res = "open"
  <2>1. pc' = "gauss" /\ UNCHANGED <<input, answer, pre_vars, b>>
    BY <1>2, <1>4 DEF Goto
  <2>2. Typed'
    BY <2>1, TypesStay DEF StateInv, Typed, Stages
  <2>3. StageInv(n)'
    BY <1>1, <2>1 DEF StageInv, AsRead, pre_vars
  <2> QED
    BY <2>2, <2>3 DEF StateInv
<1>5. CASE found.res = "abort"
  BY <1>2, <1>5, AbortKeeps
<1>6. CASE found.res \in {"SAT", "UNSAT"}
  <2>1. /\ mapval' = IF found.res = "SAT" THEN found.model ELSE mapval
        /\ pc' = "simulated" /\ answer' = found.res
        /\ UNCHANGED <<input, clause, vars, mapto, mapfrom, res_clause, resolution, b>>
    BY <1>2, <1>6
  <2>2. mapval' \in [1 .. n -> {-1, 0, 1, Eliminated}]
    <3>1. found.res = "SAT" => found.model \in [1 .. n -> {-1, 0, 1, Eliminated}]
      BY <1>1, <1>3 DEF AsRead
    <3> QED
      BY <1>1, <2>1, <3>1 DEF Typed
  <2>3. Typed'
    BY <1>1, <1>6, <2>1, <2>2 DEF Typed, Stages
  <2>4. StageInv(n)'
    BY <2>1 DEF StageInv
  <2> QED
    BY <2>3, <2>4 DEF StateInv
<1> QED
  BY <1>3, <1>4, <1>5, <1>6

-------------------------------------------------------------------------------
(* Every step keeps StateInv. *)
LEMMA NextState ==
  ASSUME StateInv, [Next]_all_vars
  PROVE  StateInv'
<1>1. CASE preprocess_circuit
  BY <1>1, CircuitKeeps
<1>2. CASE preprocess_gauss
  BY <1>2, GaussKeeps
<1>3. CASE preprocess_up
  BY <1>3, UpKeeps
<1>4. CASE preprocess_card
  BY <1>4, CardKeeps
<1>5. CASE preprocess_resolution
  BY <1>5, ResolutionKeeps
<1>6. CASE BinaryStart
  BY <1>6, StartKeeps
<1>7. CASE Pairs
  BY <1>7, PairsKeeps
<1>8. CASE Rewrite
  BY <1>8, RewriteStepKeeps
<1>9. CASE BinaryEnd
  BY <1>9, EndKeeps
<1>10. CASE Solve
  BY <1>10, SolveKeeps
<1>11. CASE get_complete_model
  BY <1>11, CompleteKeeps
<1>12. CASE Done
  BY <1>12, StutterKeeps DEF Done
<1>13. CASE UNCHANGED all_vars
  BY <1>13, StutterKeeps
<1> QED
  BY <1>1, <1>2, <1>3, <1>4, <1>5, <1>6, <1>7, <1>8, <1>9, <1>10, <1>11, <1>12, <1>13 DEF Next

(* Clean clauses have no literal twice and no tautology. *)
LEMMA CleanSimplified ==
  ASSUME vars \in Nat, NEW cs \in Clauses(vars), Clean(cs)
  PROVE  Simplified(cs)
<1> SUFFICES ASSUME NEW i \in DOMAIN cs
             PROVE  /\ Len(cs[i]) >= 2 /\ ToSet(cs[i]) \subseteq Literals(vars)
                    /\ Distinct(cs[i]) = cs[i] /\ ~Tautology(cs[i])
  BY DEF Simplified
<1>1. cs[i] \in Seq(Literals(vars)) /\ ToSet(cs[i]) \subseteq Literals(vars)
  BY InClauses
<1>2. Distinct(cs[i]) = cs[i]
  BY <1>1, DistinctIs DEF Clean
<1> QED
  BY <1>1, <1>2 DEF Clean

(* StateInv is stronger than the type invariant. *)
LEMMA StateTypes ==
  ASSUME StateInv
  PROVE  TypeOK
<1> DEFINE n == input.vars
<1>1. /\ pc \in Stages /\ answer \in {"none", "SAT", "UNSAT"} /\ vars \in 0 .. n /\ clause \in Clauses(vars)
      /\ mapto \in [1 .. n -> Literals(vars) \cup {0}] /\ mapval \in [1 .. n -> {-1, 0, 1, Eliminated}]
      /\ mapfrom \in Seq(1 .. n) /\ resolution \in Seq(1 .. n) /\ n \in Nat /\ vars \in Nat
  BY InputIs DEF StateInv, Typed
<1>2. ToSet(mapfrom) \subseteq 1 .. n /\ ToSet(resolution) \subseteq 1 .. n
  BY <1>1, InSeq
<1>3. pc \in {"card", "resolution", "binary", "solve"} => Clean(clause)
  BY DEF StateInv, StageInv, Numbered, Resolved, Ready
<1>4. pc \in {"card", "resolution", "binary", "solve"} => Simplified(clause)
  BY <1>1, <1>3, CleanSimplified
<1> QED
  BY <1>1, <1>2, <1>4 DEF TypeOK, OriVars, Stages

(* StateInv accounts for every variable. *)
LEMMA StateAccounts ==
  ASSUME StateInv
  PROVE  EveryVariableAccounted
BY DEF StateInv, StageInv, Ready, Accounted, EveryVariableAccounted, OriVars

(* What is true between the passes is true at every moment, for PRS-thread  *)
(* and PRS-distributed, for every set of inputs: the types, the shape of    *)
(* the clauses, what resolution has put aside and how the variables of the  *)
(* input are accounted for (StateInv).                                      *)
THEOREM StateInvariant == Spec => []StateInv
<1>1. Init => StateInv
  BY InitState
<1>2. StateInv /\ [Next]_all_vars => StateInv'
  BY NextState
<1> QED
  BY <1>1, <1>2, PTL DEF Spec

(* Between the passes every clause has two different literals or more, over *)
(* variables numbered without gaps, and no clause is a tautology, whatever  *)
(* formula do_preprocess is given.                                          *)
THEOREM Types == Spec => []TypeOK
<1>1. StateInv => TypeOK
  BY StateTypes
<1> QED
  BY <1>1, StateInvariant, PTL

(* Before the solvers start every variable of the input is a literal of a   *)
(* current variable, fixed, or on get_complete_model's list, and no number  *)
(* of the current formula is without a variable.                            *)
THEOREM VariablesAccounted == Spec => []EveryVariableAccounted
<1>1. StateInv => EveryVariableAccounted
  BY StateAccounts
<1> QED
  BY <1>1, StateInvariant, PTL

-------------------------------------------------------------------------------
(* Why preprocess_binary ends.  Part: a step from the clauses cs and s to   *)
(* ds and t adds nothing to what there is to work on; Less: it takes        *)
(* something away.                                                          *)
Part(cs, s, ds, t) ==
  /\ t.live \subseteq s.live
  /\ \A j \in DOMAIN clause : Len(cs[j]) \in Nat /\ Len(ds[j]) \in Nat /\ Len(ds[j]) <= Len(cs[j])
  /\ \A v \in 1 .. vars : s.varval[v] # 0 => t.varval[v] # 0
Less(cs, s, ds, t) ==
  \/ \E j \in s.live : j \notin t.live
  \/ \E j \in s.live : Len(ds[j]) < Len(cs[j])
  \/ \E v \in 1 .. vars : s.varval[v] = 0 /\ t.varval[v] # 0
Shrunk(cs, s, ds, t) == Part(cs, s, ds, t) /\ (t.simplify => s.simplify \/ Less(cs, s, ds, t))

LEMMA ShrunkFollows ==
  ASSUME NEW cs, NEW s, NEW ds, NEW t, NEW es, NEW u, s.live \subseteq DOMAIN clause,
         Shrunk(cs, s, ds, t), Shrunk(ds, t, es, u)
  PROVE  Shrunk(cs, s, es, u)
<1>1. Part(cs, s, ds, t) /\ Part(ds, t, es, u)
  BY DEF Shrunk
<1>2. ASSUME NEW j \in DOMAIN clause
      PROVE  /\ Len(cs[j]) \in Nat /\ Len(es[j]) \in Nat /\ Len(es[j]) <= Len(cs[j])
             /\ Len(ds[j]) < Len(cs[j]) \/ Len(es[j]) < Len(ds[j]) => Len(es[j]) < Len(cs[j])
  <2>1. Len(cs[j]) \in Nat /\ Len(ds[j]) \in Nat /\ Len(es[j]) \in Nat /\ Len(es[j]) <= Len(ds[j]) /\ Len(ds[j]) <= Len(cs[j])
    BY <1>1 DEF Part
  <2> QED
    BY <2>1
<1>3. Part(cs, s, es, u)
  BY <1>1, <1>2 DEF Part
<1>4. ASSUME Less(cs, s, ds, t) \/ Less(ds, t, es, u)
      PROVE  Less(cs, s, es, u)
  BY <1>1, <1>2, <1>4 DEF Part, Less
<1> QED
  BY <1>3, <1>4 DEF Shrunk

(* The loop over the clauses of two literals: a clause goes, or nothing     *)
(* happens.                                                                 *)
Fewer(s, t) ==
  /\ t.live \subseteq s.live
  /\ \A v \in 1 .. vars : s.varval[v] # 0 => t.varval[v] # 0
  /\ t.simplify => s.simplify \/ \E j \in s.live : j \notin t.live

LEMMA FewerFollows ==
  ASSUME NEW s, NEW t, NEW u, Fewer(s, t), Fewer(t, u)
  PROVE  Fewer(s, u)
BY DEF Fewer

(* A conflict loses nothing that is held. *)
LEMMA ConflictFewer ==
  ASSUME NEW s \in BinState
  PROVE  Fewer(s, [s EXCEPT !.conflict = TRUE])
<1> DEFINE t == [s EXCEPT !.conflict = TRUE]
<1>1. t.live = s.live /\ t.varval = s.varval /\ t.simplify = s.simplify
  BY DEF BinState
<1> HIDE DEF t
<1>2. Fewer(s, t)
  BY <1>1 DEF Fewer
<1> QED
  BY <1>2 DEF t

(* Dropping a live clause leaves fewer. *)
LEMMA DropFewer ==
  ASSUME NEW s \in BinState, OneLevel(s), NEW S, NEW i \in S, i \in s.live
  PROVE  Fewer(s, Drop(s, S))
<1> DEFINE t == Drop(s, S)
<1>1. t.live = s.live \ S /\ t.varval = s.varval
  BY DropIs DEF Narrowed
<1> HIDE DEF t
<1>2. Fewer(s, t)
  BY <1>1 DEF Fewer
<1> QED
  BY <1>2 DEF t

(* Joining adds no clause and unsets no value. *)
LEMMA JoinFewer ==
  ASSUME vars \in Nat, NEW s \in BinState, NEW lo \in Literals(vars), NEW hi \in Literals(vars), Abs(lo) # Abs(hi)
  PROVE  Fewer(s, Join(s, lo, hi))
<1> DEFINE t == Join(s, lo, hi)
<1>1. JoinedTo(s, t, lo, hi)
  BY JoinIs
<1> HIDE DEF t
<1>2. t.live = s.live /\ t.simplify = s.simplify /\ \A v \in 1 .. vars : v # Abs(hi) => t.varval[v] = s.varval[v]
  BY <1>1 DEF JoinedTo
<1>3. ASSUME s.varval[Abs(hi)] # 0
      PROVE  t.varval[Abs(hi)] # 0
  <2>1. CASE Value(s.varval, lo) = 0
    BY <1>1, <1>3, <2>1 DEF JoinedTo
  <2>2. CASE Value(s.varval, lo) # 0
    <3>1. Value(t.varval, hi) = -Value(s.varval, lo)
      BY <1>1, <2>2 DEF JoinedTo
    <3>2. s.varval \in Partial(vars) /\ t.varval \in Partial(vars)
      BY <1>1 DEF JoinedTo, BinState
    <3>3. Value(s.varval, lo) \in {-1, 0, 1}
      <4>1. s.varval[Abs(lo)] \in {-1, 0, 1}
        BY <3>2, LiteralFacts DEF Partial
      <4> QED
        BY <4>1, ValueFacts
    <3>4. Value(t.varval, hi) = pnsign(hi) * t.varval[Abs(hi)] /\ pnsign(hi) \in {-1, 1}
      BY LiteralFacts DEF Value
    <3> QED
      BY <2>2, <3>1, <3>3, <3>4
  <2> QED
    BY <2>1, <2>2
<1>4. Fewer(s, t)
  BY <1>2, <1>3 DEF Fewer
<1> QED
  BY <1>4 DEF t

(* Merging on a live clause leaves fewer. *)
LEMMA MergeFewer ==
  ASSUME vars \in Nat, NEW s \in BinState, OneLevel(s), NEW i \in s.live, NEW r, Two(i)
  PROVE  Fewer(s, Merge(s, i, r))
<1> DEFINE x == Root(s, clause[i][1])
           y == Root(s, clause[i][2])
           d == Drop(s, {i, r})
<1>1. x \in Literals(vars) /\ y \in Literals(vars)
  BY RootIs DEF Two
<1>2. Merge(s, i, r) = IF x = -y THEN d
                       ELSE IF x = y THEN [s EXCEPT !.conflict = TRUE]
                       ELSE IF Abs(x) < Abs(y) THEN Join(d, x, y)
                       ELSE Join(d, y, x)
  BY DEF Merge
<1>3. x # -y /\ x # y => Abs(x) # Abs(y)
  BY <1>1, SameLiteral
<1>4. Fewer(s, d) /\ d \in BinState
  <2>1. Narrowed(s, d, {i, r}, Total(vars))
    BY DropIs
  <2> HIDE DEF d
  <2>2. d \in BinState
    BY <2>1 DEF Narrowed, Same
  <2> QED
    BY <2>2, DropFewer DEF d
<1>5. Fewer(s, [s EXCEPT !.conflict = TRUE])
  BY ConflictFewer
<1> HIDE DEF x, y, d
<1>6. x # -y /\ x # y => Fewer(s, Join(d, x, y)) /\ Fewer(s, Join(d, y, x))
  BY <1>1, <1>3, <1>4, JoinFewer, FewerFollows
<1> QED
  BY <1>2, <1>4, <1>5, <1>6

(* A unit leaves fewer open variables or was known. *)
LEMMA UnitFewer ==
  ASSUME vars \in Nat, NEW s \in BinState, OneLevel(s), NEW i, NEW d, NEW l \in Literals(vars),
         i \in s.live \/ s.simplify
  PROVE  Fewer(s, Unit(s, i, d, l))
<1>1. CASE Value(s.varval, l) = -1
  BY <1>1, ConflictFewer DEF Unit
<1>2. CASE Value(s.varval, l) # -1
  <2> DEFINE t == Given(s, {i, d}, l)
  <2>1. Unit(s, i, d, l) = t
    BY <1>2 DEF Unit, Given
  <2>2. GivenTo(s, {i, d}, l, t)
    BY GivenIs
  <2> HIDE DEF t
  <2>3. t.live = s.live \ {i, d} /\ t.varval = [s.varval EXCEPT ![Abs(l)] = pnsign(l)]
    BY <1>2, <2>2 DEF GivenTo, Narrowed
  <2>4. pnsign(l) # 0 /\ DOMAIN s.varval = 1 .. vars
    <3>1. pnsign(l) \in {-1, 1}
      BY LiteralFacts
    <3> QED
      BY <3>1 DEF BinState, Partial
  <2>5. Fewer(s, t)
    BY <2>3, <2>4 DEF Fewer
  <2> QED
    BY <2>1, <2>5
<1> QED
  BY <1>1, <1>2

\* i is still there, or has gone with simplify set, or there is a conflict.
Met(s, i) == i \in s.live \/ s.simplify \/ s.conflict

(* A clause's turn leaves fewer clauses or open variables if it simplified. *)
LEMMA PairUpFewer ==
  ASSUME vars \in Nat, NEW s \in BinState, OneLevel(s), NEW i, Two(i)
  PROVE  Fewer(s, PairUp(s, i))
<1> DEFINE x == clause[i][1]
           y == clause[i][2]
           r == s.hash[{-x, -y}]
           d1 == s.hash[{x, -y}]
           d2 == s.hash[{-x, y}]
           s0 == AfterMerge(s, i)
           s1 == AfterUnit(s0, i, d1, x)
           s2 == AfterUnit(s1, i, d2, y)
<1>1. PairUp(s, i) = IF i \notin s.live \/ s.conflict THEN s ELSE s2
  BY PairUpParts
<1>2. x \in Literals(vars) /\ y \in Literals(vars)
  BY DEF Two
<1>3. \A t : Fewer(t, t)
  BY DEF Fewer
<1>4. ASSUME NEW t \in BinState, OneLevel(t), NEW d, NEW l \in Literals(vars), Met(t, i)
      PROVE  LET u == AfterUnit(t, i, d, l) IN Fewer(t, u) /\ u \in BinState /\ OneLevel(u) /\ Met(u, i)
  <2> DEFINE u == Unit(t, i, d, l)
  <2>1. AfterUnit(t, i, d, l) = IF d = 0 \/ t.conflict THEN t ELSE u
    BY DEF AfterUnit
  <2>2. Moved(t, u)
    BY <1>4, UnitIs
  <2>3. ~t.conflict => Fewer(t, u)
    BY <1>4, UnitFewer DEF Met
  <2> HIDE DEF u
  <2>4. u \in BinState /\ OneLevel(u) /\ Met(u, i)
    BY <2>2 DEF Moved, Same, Met
  <2> QED
    BY <1>3, <1>4, <2>1, <2>3, <2>4
<1>5. CASE i \in s.live /\ ~s.conflict
  <2>1. Fewer(s, s0) /\ s0 \in BinState /\ OneLevel(s0) /\ Met(s0, i)
    <3> DEFINE m == Merge(s, i, r)
    <3>1. s0 = IF r = 0 THEN s ELSE m
      BY DEF AfterMerge
    <3>2. Moved(s, m)
      BY MergeIs DEF Two
    <3>3. Fewer(s, m)
      BY <1>5, MergeFewer
    <3> HIDE DEF m, s0, r
    <3>4. m \in BinState /\ OneLevel(m) /\ Met(m, i)
      BY <3>2 DEF Moved, Same, Met
    <3>5. Met(s, i)
      BY <1>5 DEF Met
    <3> QED
      BY <1>3, <3>1, <3>3, <3>4, <3>5
  <2> HIDE DEF s0
  <2>2. Fewer(s0, s1) /\ s1 \in BinState /\ OneLevel(s1) /\ Met(s1, i)
    BY <1>2, <1>4, <2>1
  <2> HIDE DEF s1
  <2>3. Fewer(s1, s2)
    BY <1>2, <1>4, <2>2
  <2> HIDE DEF s2
  <2>4. Fewer(s, s2)
    BY <2>1, <2>2, <2>3, FewerFollows
  <2> QED
    BY <1>1, <1>5, <2>4
<1> HIDE DEF s2
<1> QED
  BY <1>1, <1>3, <1>5

(* So does the turn over all of them. *)
LEMMA PairedFewer ==
  ASSUME vars \in Nat, b \in Level, AllTwo(b.nxtc)
  PROVE  Fewer(Restarted, Paired)
<1> DEFINE list == b.nxtc
<1>1. \E a : PairedTurns(a, list)
  <2> DEFINE l == b.nxtc
  <2> HIDE DEF l
  <2>1. l = b.nxtc
    BY DEF l
  <2>2. \E a : PairedTurns(a, l)
    BY <2>1, PairedLoop
  <2> QED
    BY <2>1, <2>2
<1>2. PICK a : PairedTurns(a, list)
  BY <1>1
<1> DEFINE M == Len(list)
           P == {k \in 0 .. M : Fewer(Restarted, a[k])}
<1>3. M \in Nat /\ \A k \in 1 .. M : Two(list[k])
  BY DEF AllTwo
<1>4. /\ Paired = a[M] /\ a[0] = Restarted /\ (\A k \in 0 .. M : a[k] \in Level)
      /\ \A k \in 1 .. M : a[k] = PairUp(a[k - 1], list[k])
  BY <1>2 DEF PairedTurns
<1> HIDE DEF M, list
<1>5. 0 \in P
  <2>1. Fewer(Restarted, Restarted)
    BY DEF Fewer
  <2> QED
    BY <1>3, <1>4, <2>1
<1>6. ASSUME NEW n \in 0 .. M, n < M, n \in P
      PROVE  n + 1 \in P
  <2>1. n + 1 \in 1 .. M /\ (n + 1) - 1 = n /\ n + 1 \in 0 .. M
    BY <1>3, <1>6
  <2>2. a[n + 1] = PairUp(a[n], list[n + 1]) /\ a[n] \in Level /\ Two(list[n + 1])
    BY <1>3, <1>4, <2>1
  <2>3. Fewer(a[n], PairUp(a[n], list[n + 1]))
    BY <2>2, PairUpFewer DEF Level
  <2>4. Fewer(Restarted, a[n + 1])
    BY <1>6, <2>2, <2>3, FewerFollows
  <2> QED
    BY <2>1, <2>4
<1> HIDE DEF P
<1>7. \A n \in 0 .. M : n \in P
  BY <1>3, <1>5, <1>6, Counting
<1> QED
  BY <1>3, <1>4, <1>7 DEF P

(* A class speaks with the value of its members: no value is lost. *)
LEMMA SpreadFewer ==
  ASSUME vars \in Nat, NEW s \in Level
  PROVE  Fewer(s, Spread(s)) /\ Spread(s).live = s.live /\ Spread(s).simplify = s.simplify
<1>1. s \in BinState
  BY DEF Level
<1> DEFINE t == [s EXCEPT !.varval = [v \in 1 .. vars |-> Heard(s, v)]]
           u == [s EXCEPT !.conflict = TRUE]
           split == \E v \in 1 .. vars : {-1, 1} \subseteq Said(s, v)
<1>2. Spread(s) = IF split THEN u ELSE t
  BY <1>1, SpreadParts
<1>3. u.live = s.live /\ u.simplify = s.simplify /\ Fewer(s, u)
  BY <1>1, ConflictFewer DEF BinState
<1>4. t.live = s.live /\ t.simplify = s.simplify /\ \A v \in 1 .. vars : t.varval[v] = Heard(s, v)
  BY <1>1 DEF BinState
<1> HIDE DEF t, u
<1>5. ASSUME ~split, NEW v \in 1 .. vars, s.varval[v] # 0
      PROVE  Heard(s, v) # 0
  <2>1. s.varval[v] \in {-1, 1}
    BY <1>1, <1>5 DEF BinState, Partial
  <2>2. pnsign(s.root[v]) \in {-1, 1}
    BY <1>1, Signs
  <2> DEFINE x == s.varval[v] * (pnsign(s.root[v]) * pnsign(s.root[v]))
  <2>3. x # 0
    BY <2>1, <2>2
  <2> HIDE DEF x
  <2>4. Speaks(s, v, v, x)
    BY <2>1 DEF Speaks, x
  <2>5. x \in Said(s, v)
    BY <1>1, <2>4, SaidIs
  <2>6. x = Heard(s, v)
    BY <1>1, <1>5, <2>5, HeardIs
  <2> QED
    BY <2>3, <2>6
<1>6. ~split => Fewer(s, t)
  BY <1>4, <1>5 DEF Fewer
<1> QED
  BY <1>2, <1>3, <1>4, <1>6

(* The loop over all clauses, up to a conflict. *)
LEMMA WrittenSizes ==
  ASSUME vars \in Nat, clause \in Clauses(vars), NEW t \in Written
  PROVE  /\ DOMAIN t.cs = DOMAIN clause /\ \A j \in DOMAIN clause : Len(t.cs[j]) \in Nat
         /\ t.s \in BinState /\ t.s.live \subseteq DOMAIN clause
<1>1. t.cs \in Clauses(vars) /\ Len(t.cs) = Len(clause) /\ t.s \in BinState
  BY DEF Written, Level
<1>2. DOMAIN t.cs = 1 .. Len(t.cs) /\ DOMAIN clause = 1 .. Len(clause)
  BY <1>1, InClauses
<1>3. \A j \in DOMAIN t.cs : Len(t.cs[j]) \in Nat
  BY <1>1, InClauses
<1>4. t.s.live \subseteq DOMAIN clause
  BY <1>1 DEF BinState
<1> QED
  BY <1>1, <1>2, <1>3, <1>4

(* Rewriting a clause shortens it, removes it or leaves all as it was. *)
LEMMA RewriteShrinks ==
  ASSUME vars \in Nat, clause \in Clauses(vars), NEW t \in Written, NEW i \in DOMAIN clause, t.cs[i] = clause[i],
         ~RewriteOne(t, i).s.conflict
  PROVE  ~t.s.conflict /\ Shrunk(t.cs, t.s, RewriteOne(t, i).cs, RewriteOne(t, i).s)
<1> DEFINE c == Rewritten(t.s, i)
           u == RewriteOne(t, i)
<1>1. /\ Renders(t.s, i, c)
      /\ \/ u = t /\ (i \notin t.s.live \/ t.s.conflict)
         \/ i \in t.s.live /\ ~t.s.conflict /\ Conflicting(t.s, u.s)
         \/ /\ i \in t.s.live /\ ~t.s.conflict /\ c # <<>>
            /\ u.cs = [t.cs EXCEPT ![i] = c] /\ StatedAs(t.s, i, c, u.s)
  BY OneIs
<1>2. ~u.s.conflict
  OBVIOUS
<1> HIDE DEF c, u
<1>3. \A j \in DOMAIN clause : Len(t.cs[j]) \in Nat
  BY WrittenSizes
<1>4. CASE u = t
  <2>1. \A j \in DOMAIN clause : Len(t.cs[j]) <= Len(t.cs[j])
    BY <1>3
  <2>2. Shrunk(t.cs, t.s, u.cs, u.s)
    BY <1>3, <1>4, <2>1 DEF Shrunk, Part
  <2> QED
    BY <1>2, <1>4, <2>2 DEF u
<1>5. CASE i \in t.s.live /\ ~t.s.conflict /\ u.cs = [t.cs EXCEPT ![i] = c] /\ StatedAs(t.s, i, c, u.s)
  <2> DEFINE s == t.s
             L == Len(c)
             N == Len(clause[i])
  <2>1. c \in Seq(Literals(vars)) /\ L \in Nat /\ N \in Nat /\ L <= N /\ DOMAIN t.cs = DOMAIN clause
    BY <1>1, <1>3, InSeq, WrittenSizes DEF Renders
  <2>2. L = 1 => c[1] \in Literals(vars) /\ c[1] \in ToSet(c)
    <3>1. \A j \in 1 .. L : c[j] \in Literals(vars) /\ c[j] \in ToSet(c)
      BY <2>1, InSeq
    <3> QED
      BY <2>1, <3>1
  <2>3. /\ u.s.live = IF Gone(s, c) THEN s.live \ {i} ELSE s.live
        /\ u.s.simplify = (s.simplify \/ (Gone(s, c) \/ L < N \/ L = 1))
        /\ u.s.varval = IF L = 1 THEN [s.varval EXCEPT ![Abs(c[1])] = pnsign(c[1])] ELSE s.varval
    BY <1>5 DEF StatedAs
  <2>4. s.varval \in Partial(vars) /\ DOMAIN s.varval = 1 .. vars
    BY WrittenSizes DEF BinState, Partial
  <2>5. L = 1 => /\ Abs(c[1]) \in 1 .. vars /\ u.s.varval[Abs(c[1])] # 0
                 /\ \A v \in 1 .. vars : v # Abs(c[1]) => u.s.varval[v] = s.varval[v]
    <3> SUFFICES ASSUME L = 1
                 PROVE  /\ Abs(c[1]) \in 1 .. vars /\ u.s.varval[Abs(c[1])] # 0
                        /\ \A v \in 1 .. vars : v # Abs(c[1]) => u.s.varval[v] = s.varval[v]
      OBVIOUS
    <3>1. Abs(c[1]) \in 1 .. vars /\ pnsign(c[1]) \in {-1, 1}
      BY <2>2, LiteralFacts
    <3> HIDE DEF L, N
    <3> QED
      BY <2>3, <2>4, <3>1
  <2>6. L = 1 /\ ~Gone(s, c) => s.varval[Abs(c[1])] = 0
    <3> SUFFICES ASSUME L = 1, ~Gone(s, c)
                 PROVE  s.varval[Abs(c[1])] = 0
      OBVIOUS
    <3>1. Value(s.varval, c[1]) # 1
      BY <2>2 DEF Gone
    <3>2. Value(s.varval, c[1]) # -1
      BY <1>1, <2>2 DEF Renders
    <3>3. s.varval[Abs(c[1])] \in {-1, 0, 1}
      BY <2>4, <2>5 DEF Partial
    <3>4. Value(s.varval, c[1]) \in {-1, 0, 1} /\ (Value(s.varval, c[1]) = 0 <=> s.varval[Abs(c[1])] = 0)
      BY <2>2, <3>3, ValueFacts
    <3> QED
      BY <3>1, <3>2, <3>4
  <2>7. u.cs[i] = c /\ \A j \in DOMAIN clause : j # i => u.cs[j] = t.cs[j]
    BY <1>5, <2>1
  <2>8. \A j \in DOMAIN clause : Len(t.cs[j]) \in Nat /\ Len(u.cs[j]) \in Nat /\ Len(u.cs[j]) <= Len(t.cs[j])
    <3> TAKE j \in DOMAIN clause
    <3>1. CASE j = i
      BY <1>3, <2>1, <2>7, <3>1
    <3>2. CASE j # i
      <4>1. \A a \in Nat : a <= a
        OBVIOUS
      <4> QED
        BY <1>3, <2>7, <3>2, <4>1
    <3> QED
      BY <3>1, <3>2
  <2>9. Len(u.cs[i]) = L /\ Len(t.cs[i]) = N
    BY <2>7
  <2> HIDE DEF L, N
  <2>10. Part(t.cs, s, u.cs, u.s)
    <3>1. u.s.live \subseteq s.live
      BY <2>3
    <3>2. \A v \in 1 .. vars : s.varval[v] # 0 => u.s.varval[v] # 0
      BY <2>3, <2>5
    <3> QED
      BY <2>8, <3>1, <3>2 DEF Part
  <2>11. Gone(s, c) \/ L < N \/ L = 1 => Less(t.cs, s, u.cs, u.s)
    <3>1. Gone(s, c) => \E j \in s.live : j \notin u.s.live
      BY <1>5, <2>3
    <3>2. L < N => \E j \in s.live : Len(u.cs[j]) < Len(t.cs[j])
      BY <1>5, <2>9
    <3>3. L = 1 /\ ~Gone(s, c) => \E v \in 1 .. vars : s.varval[v] = 0 /\ u.s.varval[v] # 0
      BY <2>5, <2>6
    <3> QED
      BY <3>1, <3>2, <3>3 DEF Less
  <2>12. Shrunk(t.cs, t.s, u.cs, u.s)
    BY <2>3, <2>10, <2>11 DEF Shrunk
  <2> QED
    BY <1>5, <2>12 DEF u
<1>6. CASE Conflicting(t.s, u.s)
  BY <1>2, <1>6 DEF Conflicting
<1> QED
  BY <1>1, <1>4, <1>5, <1>6

(* So does the turn over all clauses. *)
LEMMA RewritingShrinks ==
  ASSUME vars \in Nat, clause \in Clauses(vars), b \in Level, b.nxtc = <<>>, ~Rewriting.s.conflict
  PROVE  Shrunk(clause, b, Rewriting.cs, Rewriting.s)
<1>1. \E a : RewritingTurns(a, clause)
  <2> DEFINE l == clause
  <2> HIDE DEF l
  <2>1. l = clause
    BY DEF l
  <2>2. \E a : RewritingTurns(a, l)
    BY <2>1, RewritingLoop
  <2> QED
    BY <2>1, <2>2
<1>2. PICK a : RewritingTurns(a, clause)
  BY <1>1
<1> DEFINE M == Len(clause)
           Good(k) == /\ \A j \in DOMAIN clause : j > k => a[k].cs[j] = clause[j]
                      /\ ~a[k].s.conflict => Shrunk(clause, b, a[k].cs, a[k].s)
           P == {k \in 0 .. M : Good(k)}
<1>3. M \in Nat /\ DOMAIN clause = 1 .. M /\ \A j \in DOMAIN clause : Len(clause[j]) \in Nat
  BY InClauses
<1>4. /\ Rewriting = a[M] /\ a[0] = [cs |-> clause, s |-> b] /\ (\A k \in 0 .. M : a[k] \in Written)
      /\ \A k \in 1 .. M : a[k] = RewriteOne(a[k - 1], k)
  BY <1>2 DEF RewritingTurns
<1> HIDE DEF M
<1>5. 0 \in P
  <2>1. a[0].cs = clause /\ a[0].s = b
    BY <1>4
  <2>2. \A n \in Nat : n <= n
    OBVIOUS
  <2>3. Shrunk(clause, b, clause, b)
    BY <1>3, <2>2 DEF Shrunk, Part
  <2> QED
    BY <1>3, <2>1, <2>3
<1>6. ASSUME NEW n \in 0 .. M, n < M, n \in P
      PROVE  n + 1 \in P
  <2>1. n + 1 \in 1 .. M /\ (n + 1) - 1 = n /\ n + 1 \in 0 .. M /\ n \in Nat /\ n + 1 > n
    BY <1>3, <1>6
  <2> DEFINE i == n + 1
             t == a[n]
             u == a[i]
  <2>2. u = RewriteOne(t, i) /\ t \in Written /\ i \in DOMAIN clause
    BY <1>3, <1>4, <2>1
  <2>3. t.cs[i] = clause[i] /\ (~t.s.conflict => Shrunk(clause, b, t.cs, t.s)) /\ \A j \in DOMAIN clause : j > n => t.cs[j] = clause[j]
    BY <1>6, <2>1, <2>2
  <2>4. b.live \subseteq DOMAIN clause
    BY DEF Level, BinState
  <2> HIDE DEF i, t, u
  <2>5. ASSUME ~u.s.conflict
        PROVE  Shrunk(clause, b, u.cs, u.s)
    <3>1. ~t.s.conflict /\ Shrunk(t.cs, t.s, u.cs, u.s)
      BY <2>2, <2>3, <2>5, RewriteShrinks
    <3> QED
      BY <2>3, <2>4, <3>1, ShrunkFollows
  <2>6. \A j \in DOMAIN clause : j > i => u.cs[j] = clause[j]
    <3>1. ASSUME NEW j \in DOMAIN clause, j > i
          PROVE  u.cs[j] = t.cs[j]
      <4>1. j # i
        BY <1>3, <2>1, <3>1 DEF i
      <4>2. t.cs \in Clauses(vars) /\ j \in DOMAIN t.cs
        BY <2>2, WrittenSizes DEF Written
      <4> DEFINE c == Rewritten(t.s, i)
      <4>3. u = t \/ u.cs = t.cs \/ u.cs = [t.cs EXCEPT ![i] = c]
        BY <2>2, OneIs
      <4> QED
        BY <4>1, <4>2, <4>3
    <3>2. \A j \in DOMAIN clause : j > i => j > n
      BY <1>3, <2>1 DEF i
    <3> QED
      BY <2>3, <3>1, <3>2
  <2> QED
    BY <2>1, <2>5, <2>6 DEF i, u
<1> HIDE DEF P
<1>7. \A n \in 0 .. M : n \in P
  BY <1>3, <1>5, <1>6, Counting
<1>8. Good(M)
  BY <1>3, <1>7 DEF P
<1> QED
  BY <1>4, <1>8

(* A place of a clause and an open variable, as Pending has them. *)
HoldsPlace(cs, s, p) == \E i \in s.live : \E k \in 0 .. Len(cs[i]) : p = <<i, k>>
HoldsOpen(s, p) == \E v \in 1 .. vars : s.varval[v] = 0 /\ p = <<0, v>>

LEMMA PartHeld ==
  ASSUME vars \in Nat, clause \in Clauses(vars), NEW cs, NEW s \in BinState, NEW ds, NEW t,
         t.varval \in Partial(vars), t.live \subseteq DOMAIN clause, Part(cs, s, ds, t)
  PROVE  /\ \A p : HoldsPlace(ds, t, p) \/ HoldsOpen(t, p) => HoldsPlace(cs, s, p) \/ HoldsOpen(s, p)
         /\ Less(cs, s, ds, t) => \E p : /\ HoldsPlace(cs, s, p) \/ HoldsOpen(s, p)
                                         /\ ~HoldsPlace(ds, t, p) /\ ~HoldsOpen(t, p)
<1>1. \A j \in s.live : j \in DOMAIN clause /\ j \in Nat /\ j # 0
  BY InClauses DEF BinState
<1>2. /\ t.live \subseteq s.live
      /\ \A j \in DOMAIN clause : Len(cs[j]) \in Nat /\ Len(ds[j]) \in Nat /\ Len(ds[j]) <= Len(cs[j])
      /\ \A v \in 1 .. vars : s.varval[v] # 0 => t.varval[v] # 0
  BY DEF Part
<1>3. ASSUME NEW p, HoldsPlace(ds, t, p)
      PROVE  HoldsPlace(cs, s, p)
  <2>1. PICK j \in t.live : \E k \in 0 .. Len(ds[j]) : p = <<j, k>>
    BY <1>3 DEF HoldsPlace
  <2>2. PICK k \in 0 .. Len(ds[j]) : p = <<j, k>>
    BY <2>1
  <2>3. j \in s.live /\ k \in 0 .. Len(cs[j])
    <3>1. j \in s.live /\ Len(cs[j]) \in Nat /\ Len(ds[j]) \in Nat /\ Len(ds[j]) <= Len(cs[j])
      BY <1>1, <1>2
    <3> QED
      BY <3>1
  <2> QED
    BY <2>2, <2>3 DEF HoldsPlace
<1>4. ASSUME NEW p, HoldsOpen(t, p)
      PROVE  HoldsOpen(s, p)
  BY <1>2, <1>4 DEF HoldsOpen
<1>5. ASSUME NEW j \in s.live, j \notin t.live
      PROVE  \E p : HoldsPlace(cs, s, p) /\ ~HoldsPlace(ds, t, p) /\ ~HoldsOpen(t, p)
  <2>1. 0 \in 0 .. Len(cs[j])
    BY <1>1, <1>2
  <2>2. HoldsPlace(cs, s, <<j, 0>>)
    BY <2>1 DEF HoldsPlace
  <2>3. ~HoldsPlace(ds, t, <<j, 0>>) /\ ~HoldsOpen(t, <<j, 0>>)
    BY <1>1, <1>5 DEF HoldsPlace, HoldsOpen
  <2> QED
    BY <2>2, <2>3
<1>6. ASSUME NEW j \in s.live, Len(ds[j]) < Len(cs[j])
      PROVE  \E p : HoldsPlace(cs, s, p) /\ ~HoldsPlace(ds, t, p) /\ ~HoldsOpen(t, p)
  <2> DEFINE k == Len(cs[j])
  <2>1. k \in 0 .. k /\ k \notin 0 .. Len(ds[j]) /\ j # 0
    BY <1>1, <1>2, <1>6
  <2>2. HoldsPlace(cs, s, <<j, k>>)
    BY <2>1 DEF HoldsPlace
  <2> HIDE DEF k
  <2>3. ~HoldsPlace(ds, t, <<j, k>>) /\ ~HoldsOpen(t, <<j, k>>)
    BY <2>1 DEF HoldsPlace, HoldsOpen
  <2> QED
    BY <2>2, <2>3
<1>7. ASSUME NEW v \in 1 .. vars, s.varval[v] = 0, t.varval[v] # 0
      PROVE  \E p : HoldsOpen(s, p) /\ ~HoldsPlace(ds, t, p) /\ ~HoldsOpen(t, p)
  <2>1. HoldsOpen(s, <<0, v>>)
    BY <1>7 DEF HoldsOpen
  <2>2. ~HoldsOpen(t, <<0, v>>)
    BY <1>7 DEF HoldsOpen
  <2>3. ~HoldsPlace(ds, t, <<0, v>>)
    BY <1>1, <1>2 DEF HoldsPlace
  <2> QED
    BY <2>1, <2>2, <2>3
<1>8. Less(cs, s, ds, t) => \E p : /\ HoldsPlace(cs, s, p) \/ HoldsOpen(s, p)
                                   /\ ~HoldsPlace(ds, t, p) /\ ~HoldsOpen(t, p)
  <2>1. CASE \E j \in s.live : j \notin t.live
    BY <1>5, <2>1
  <2>2. CASE \E j \in s.live : Len(ds[j]) < Len(cs[j])
    BY <1>6, <2>2
  <2>3. CASE \E v \in 1 .. vars : s.varval[v] = 0 /\ t.varval[v] # 0
    BY <1>7, <2>3
  <2> QED
    BY <2>1, <2>2, <2>3 DEF Less
<1> QED
  BY <1>3, <1>4, <1>8

\* From one state to the next, said of the set.
LEMMA PendingShrinks ==
  ASSUME vars \in Nat, clause \in Clauses(vars), b \in Level, b'.live \subseteq DOMAIN clause, b'.varval \in Partial(vars),
         Part(clause, b, clause', b')
  PROVE  Pending' \subseteq Pending /\ (Less(clause, b, clause', b') => Pending' # Pending)
<1> DEFINE Old(p) == HoldsPlace(clause, b, p) \/ HoldsOpen(b, p)
           New(p) == HoldsPlace(clause', b', p) \/ HoldsOpen(b', p)
<1>1. b \in BinState
  BY DEF Level
<1>2. \A p : p \in Pending <=> Old(p)
  <2> TAKE p
  <2> DEFINE P == UNION {{i} \X (0 .. Len(clause[i])) : i \in b.live}
             O == {0} \X {v \in DOMAIN b.varval : b.varval[v] = 0}
  <2>1. DOMAIN b.varval = 1 .. vars
    BY <1>1 DEF BinState, Partial
  <2>2. p \in P <=> HoldsPlace(clause, b, p)
    BY DEF HoldsPlace
  <2>3. p \in O <=> HoldsOpen(b, p)
    BY <2>1 DEF HoldsOpen
  <2>4. Pending = P \cup O
    BY DEF Pending
  <2> HIDE DEF P, O
  <2> QED
    BY <2>2, <2>3, <2>4
<1>3. \A p : p \in Pending' <=> New(p)
  <2> TAKE p
  <2> DEFINE P == UNION {{i} \X (0 .. Len(clause'[i])) : i \in b'.live}
             O == {0} \X {v \in DOMAIN b'.varval : b'.varval[v] = 0}
  <2>1. DOMAIN b'.varval = 1 .. vars
    BY DEF Partial
  <2>2. p \in P <=> HoldsPlace(clause', b', p)
    BY DEF HoldsPlace
  <2>3. p \in O <=> HoldsOpen(b', p)
    BY <2>1 DEF HoldsOpen
  <2>4. Pending' = P \cup O
    BY DEF Pending
  <2> HIDE DEF P, O
  <2> QED
    BY <2>2, <2>3, <2>4
<1>4. /\ \A p : New(p) => Old(p)
      /\ Less(clause, b, clause', b') => \E p : Old(p) /\ ~New(p)
  <2>1. \A ds, t : t.varval \in Partial(vars) /\ t.live \subseteq DOMAIN clause /\ Part(clause, b, ds, t) =>
          /\ \A p : HoldsPlace(ds, t, p) \/ HoldsOpen(t, p) => Old(p)
          /\ Less(clause, b, ds, t) => \E p : Old(p) /\ ~HoldsPlace(ds, t, p) /\ ~HoldsOpen(t, p)
    BY <1>1, PartHeld
  <2> HIDE DEF Old
  <2> QED
    BY <2>1
<1> HIDE DEF Old, New
<1> QED
  BY <1>2, <1>3, <1>4

(* The turn over the binary clauses takes from Pending if it simplified. *)
LEMMA PairsShrink ==
  ASSUME StateInv, Pairs, pc' # "done"
  PROVE  Pending' \subseteq Pending /\ (b'.simplify => Pending' # Pending)
<1> DEFINE n == input.vars
           s == Spread(Paired)
<1>1. vars \in Nat /\ clause \in Clauses(vars) /\ b \in Level /\ AllTwo(b.nxtc)
  <2>1. n \in Nat /\ vars \in 0 .. n /\ Standing(n) /\ AllTwo(b.nxtc)
    BY InputIs DEF StateInv, Typed, StageInv, Pairs
  <2> QED
    BY <2>1 DEF Standing
<1>2. ~s.conflict /\ b' = [s EXCEPT !.nxtc = <<>>] /\ clause' = clause
  BY DEF Pairs, Paired, Restarted, Goto, Unsat, pre_vars
<1>3. Paired \in Level /\ Fewer(Restarted, Paired)
  BY <1>1, PairedIs, PairedFewer
<1>4. Fewer(Paired, s) /\ s \in Level
  BY <1>1, <1>2, <1>3, SpreadFewer, SpreadKeeps
<1>5. Fewer(Restarted, s)
  BY <1>3, <1>4, FewerFollows
<1>6. Restarted.live = b.live /\ Restarted.varval = b.varval /\ Restarted.simplify = FALSE
  BY <1>1 DEF Restarted, Level, BinState
<1> HIDE DEF s
<1>7. b'.live = s.live /\ b'.varval = s.varval /\ b'.simplify = s.simplify
  <2> DEFINE u == [s EXCEPT !.nxtc = <<>>]
  <2>1. u.live = s.live /\ u.varval = s.varval /\ u.simplify = s.simplify
    BY <1>4 DEF Level, BinState
  <2> HIDE DEF u
  <2>2. b' = u
    BY <1>2 DEF u
  <2> QED
    BY <2>1, <2>2
<1>8. \A j \in DOMAIN clause : Len(clause[j]) \in Nat /\ Len(clause'[j]) \in Nat /\ Len(clause'[j]) <= Len(clause[j])
  <2>1. \A j \in DOMAIN clause : Len(clause[j]) \in Nat
    BY <1>1, InClauses
  <2>2. \A a \in Nat : a <= a
    OBVIOUS
  <2> QED
    BY <1>2, <2>1, <2>2
<1>9. Part(clause, b, clause', b')
  BY <1>5, <1>6, <1>7, <1>8 DEF Fewer, Part
<1>10. b'.simplify => Less(clause, b, clause', b')
  BY <1>5, <1>6, <1>7 DEF Fewer, Less
<1>11. b'.live \subseteq DOMAIN clause /\ b'.varval \in Partial(vars)
  BY <1>4, <1>7 DEF Level, BinState
<1> QED
  BY <1>1, <1>9, <1>10, <1>11, PendingShrinks

(* The turn over all clauses takes from Pending if it was the first to simplify. *)
LEMMA RewriteStepShrinks ==
  ASSUME StateInv, Rewrite, pc' # "done"
  PROVE  Pending' \subseteq Pending /\ (b'.simplify /\ ~b.simplify => Pending' # Pending)
<1> DEFINE n == input.vars
           t == Rewriting
           s == Spread(t.s)
<1>1. vars \in Nat /\ clause \in Clauses(vars) /\ b \in Level /\ b.nxtc = <<>>
  <2>1. n \in Nat /\ vars \in 0 .. n /\ Standing(n) /\ b.nxtc = <<>>
    BY InputIs DEF StateInv, Typed, StageInv, Rewrite
  <2> QED
    BY <2>1 DEF Standing
<1>2. ~s.conflict /\ ~t.s.conflict /\ b' = s /\ clause' = t.cs
  BY DEF Rewrite, Rewriting, Goto, Unsat
<1>3. t \in Written /\ Shrunk(clause, b, t.cs, t.s)
  BY <1>1, <1>2, RewritingIs, RewritingShrinks
<1> HIDE DEF t
<1>4. t.s \in Level
  BY <1>3 DEF Written
<1>5. Fewer(t.s, s) /\ s.live = t.s.live /\ s.simplify = t.s.simplify /\ s \in Level
  BY <1>1, <1>2, <1>4, SpreadFewer, SpreadKeeps
<1> HIDE DEF s
<1>6. Shrunk(t.cs, t.s, t.cs, s)
  <2>1. \A j \in DOMAIN clause : Len(t.cs[j]) \in Nat
    BY <1>1, <1>3, WrittenSizes
  <2>2. \A a \in Nat : a <= a
    OBVIOUS
  <2> QED
    BY <1>5, <2>1, <2>2 DEF Shrunk, Part, Fewer
<1>7. Shrunk(clause, b, t.cs, s)
  BY <1>1, <1>3, <1>6, ShrunkFollows DEF Level, BinState
<1>8. Part(clause, b, clause', b') /\ (b'.simplify /\ ~b.simplify => Less(clause, b, clause', b'))
  BY <1>2, <1>7 DEF Shrunk
<1>9. b'.live \subseteq DOMAIN clause /\ b'.varval \in Partial(vars)
  BY <1>2, <1>5 DEF Level, BinState
<1> QED
  BY <1>1, <1>8, <1>9, PendingShrinks

(* TurnsShrink for one step. *)
LEMMA TurnStep ==
  ASSUME StateInv, Next, InTurn
  PROVE  /\ Pending' \subseteq Pending
         /\ b'.simplify /\ (pc = "pairs" \/ ~b.simplify) => Pending' # Pending
<1>1. pc \in {"pairs", "rewrite"} /\ pc' # "done"
  BY DEF InTurn
<1>2. (Pairs /\ pc = "pairs") \/ (Rewrite /\ pc = "rewrite")
  BY <1>1 DEF Next, preprocess_circuit, preprocess_gauss, preprocess_up, preprocess_card, preprocess_resolution,
              BinaryStart, Pairs, Rewrite, BinaryEnd, Solve, get_complete_model, Done
<1> QED
  BY <1>1, <1>2, PairsShrink, RewriteStepShrinks

(* preprocess_binary's loop ends whatever formula it is given: no step adds *)
(* to the finite set of the places of the clauses and of the variables      *)
(* without a value, and a step after which another turn is taken has        *)
(* removed something from it.                                               *)
THEOREM TurnsEnd == Spec => TurnsShrink
<1>1. StateInv /\ [Next]_all_vars =>
        [InTurn => /\ Pending' \subseteq Pending
                   /\ b'.simplify /\ (pc = "pairs" \/ ~b.simplify) => Pending' # Pending]_all_vars
  BY TurnStep
<1> QED
  BY <1>1, StateInvariant, PTL DEF Spec, TurnsShrink

-------------------------------------------------------------------------------
(* What the current formula means for the input.  Ref is the set of the     *)
(* assignments of the current variables that are still possible: every one  *)
(* of them gives models of the input, and there is one if the input has a   *)
(* model.  In preprocess_binary it is what the clauses, classes and values  *)
(* say together (SoundIf), elsewhere the models of the clauses.             *)
Back(n, Ref) == \A m \in Ref, val \in Total(n) :
                  Follows(val, m, n, mapto, mapval) /\ All(val, res_clause) => val \in InputModels
Forth(Ref) == InputModels # {} => Ref # {}
Meaning(n, Ref) == Back(n, Ref) /\ Forth(Ref)
Worked(n) == \E Ref \in SUBSET Total(vars) : SoundIf(b, clause, Ref) /\ Meaning(n, Ref)

\* The values of the solvers, however get_complete_model goes on.
Transferred(n) == \A val \in Total(n) :
                    (\A v \in 1 .. n : mapval[v] # Eliminated => val[v] = mapval[v]) /\ All(val, res_clause)
                    => val \in InputModels

MeaningInv(n) ==
  /\ pc \in Stages \ {"circuit", "gauss", "simulated", "aborted"}
  /\ pc # "done" => answer = "none"
  /\ pc \in {"up", "card", "resolution", "binary"} => Meaning(n, AllModels)
  /\ pc \in {"pairs", "rewrite", "labels"} => Worked(n)
  /\ pc = "solve" => IF b.overwritten THEN InputModels = {} ELSE Meaning(n, AllModels)
  /\ pc = "complete" => IF b.overwritten THEN InputModels = {} ELSE Transferred(n)
  /\ pc = "done" => /\ answer = "UNSAT" => InputModels = {}
                    /\ answer = "SAT" => IF b.overwritten THEN InputModels = {} ELSE mapval \in InputModels

LEMMA SameModels ==
  ASSUME input' = input
  PROVE  InputModels' = InputModels
BY DEF InputModels, OriVars

(* The models of the input. *)
LEMMA ModelsAre ==
  ASSUME NEW n, n = input.vars
  PROVE  \A val : val \in InputModels <=> val \in Total(n) /\ All(val, input.clause)
BY DEF InputModels, Models, OriVars, Total, All

(* An empty list of clauses is satisfied. *)
LEMMA NoClauses ==
  ASSUME NEW val, res_clause = <<>>
  PROVE  All(val, res_clause)
BY DEF All

\* A step that answers UNSAT is right if nothing was possible any more.
LEMMA UnsatMeans ==
  ASSUME Unsat, InputModels = {}, NEW n
  PROVE  MeaningInv(n)'
<1>1. pc' = "done" /\ answer' = "UNSAT" /\ input' = input
  BY DEF Unsat
<1>2. InputModels' = {}
  BY <1>1, SameModels
<1> QED
  BY <1>1, <1>2 DEF MeaningInv, Stages

(* Before the first pass the current formula's variables are the input's. *)
LEMMA AsReadFollows ==
  ASSUME NEW n \in Nat, AsRead(n), NEW m \in Total(n), NEW val \in Total(n)
  PROVE  Follows(val, m, n, mapto, mapval) <=> val = m
<1>1. \A v \in 1 .. n : mapto[v] = v /\ v # 0 /\ Value(m, v) = m[v]
  <2> TAKE v \in 1 .. n
  <2>1. pnsign(v) = 1 /\ Abs(v) = v /\ m[v] \in {-1, 1}
    BY SignedFacts DEF Total
  <2> QED
    BY <2>1 DEF AsRead, Value
<1>2. Follows(val, m, n, mapto, mapval) <=> \A v \in 1 .. n : val[v] = m[v]
  BY <1>1 DEF Follows
<1> QED
  BY <1>2 DEF Total

(* MeaningInv when the formula has been read. *)
LEMMA InitMeans ==
  ASSUME Init, pc = "up"
  PROVE  MeaningInv(input.vars)
<1> DEFINE n == input.vars
<1>1. n \in Nat /\ AsRead(n) /\ clause = input.clause /\ vars = n /\ answer = "none"
  <2>1. input \in Formulas
    BY DEF Init
  <2>2. n \in Nat
    BY <2>1, InputIs
  <2> QED
    BY <2>2 DEF Init, AsRead, OriVars
<1>2. \A val : val \in AllModels <=> val \in InputModels
  BY <1>1, ModelsAre DEF AllModels
<1>3. Back(n, AllModels)
  <2> SUFFICES ASSUME NEW m \in AllModels, NEW val \in Total(n), Follows(val, m, n, mapto, mapval)
               PROVE  val \in InputModels
    BY DEF Back
  <2>1. m \in Total(n)
    BY <1>1 DEF AllModels
  <2> QED
    BY <1>1, <1>2, <2>1, AsReadFollows
<1>4. Forth(AllModels)
  BY <1>2 DEF Forth
<1> QED
  BY <1>1, <1>3, <1>4 DEF MeaningInv, Meaning, Stages

(* preprocess_up keeps MeaningInv. *)
LEMMA UpMeans ==
  ASSUME StateInv, MeaningInv(input.vars), preprocess_up
  PROVE  MeaningInv(input.vars)'
<1> DEFINE n == input.vars
           read  == Entered(clause)
           T     == Propagated(read, vars)
           left  == Remaining(read, T)
           color == Color(left, 1 .. n)
<1>1. n \in Nat /\ vars = n /\ clause \in Clauses(n) /\ AsRead(n) /\ Meaning(n, AllModels) /\ pc = "up"
  BY InputIs DEF StateInv, Typed, StageInv, AsRead, preprocess_up, MeaningInv
<1>2. /\ T \in SUBSET Literals(n) /\ left \in Clauses(n)
      /\ UpSound(n, clause, T, left) /\ UpRefutes(n, clause, read, T)
      /\ ~Contradicts(read, T) => UpOpen(n, clause, T, left)
  <2>1. T = Propagated(read, n)
    BY <1>1
  <2> HIDE DEF read, T, left
  <2> QED
    BY <1>1, <2>1, UpIs DEF read, T, left
<1>3. CASE Contradicts(read, T)
  <2> HIDE DEF left, T, read
  <2>1. AllModels = {}
    BY <1>1, <1>2, <1>3 DEF UpRefutes, AllModels
  <2>2. InputModels = {}
    BY <1>1, <2>1 DEF Meaning, Forth
  <2>3. Unsat
    BY <1>3 DEF preprocess_up, read, T
  <2> QED
    BY <2>2, <2>3, UnsatMeans
<1>4. CASE ~Contradicts(read, T)
  <2> DEFINE m == Len(Order(left))
             new == Relabel(left, color)
             mv == UpValue(T, color)
  <2>1. /\ clause' = new /\ vars' = m /\ mapto' = color
        /\ mapval' = [v \in 1 .. n |-> CASE v \in T -> 1 [] -v \in T -> -1 [] color[v] # 0 -> 0 [] OTHER -> 1]
        /\ pc' = "card" /\ UNCHANGED <<input, answer, res_clause, resolution, b>>
    BY <1>4 DEF preprocess_up, OriVars, Goto
  <2>2. mapval' = mv
    <3>1. DOMAIN color = 1 .. n
      BY DEF Color
    <3> HIDE DEF T, color, left, read
    <3> QED
      BY <2>1, <3>1 DEF UpValue
  <2>3. /\ UpMapped(n, m, color, Order(left), mv) /\ UpBack(n, m, clause, new, color, mv)
    <3>1. color = Color(left, 1 .. n) /\ m = Len(Order(left)) /\ new = Relabel(left, color) /\ mv = UpValue(T, color)
      OBVIOUS
    <3> HIDE DEF T, left, read, color, m, new, mv
    <3> QED
      BY <1>1, <1>2, <1>4, <3>1, UpMaps
  <2>4. HasModel(left, n) => HasModel(new, m)
    <3>1. new = Renumbered(left, n)
      BY DEF Renumbered
    <3> HIDE DEF left, new, color, T, read
    <3> QED
      BY <1>1, <1>2, <3>1, RenumberedModel
  <2> HIDE DEF T, left, read, color, m, new, mv
  <2>5. AllModels' = {sol \in Total(m) : All(sol, new)}
    BY <2>1 DEF AllModels
  <2>6. /\ m \in 0 .. n /\ color \in [1 .. n -> 0 .. m]
        /\ \A v \in 1 .. n : color[v] = 0 => mv[v] \in {-1, 1}
    BY <2>3 DEF UpMapped
  <2>7. ASSUME NEW sol \in Total(m), All(sol, new), NEW val \in Total(n), Follows(val, sol, n, color, mv)
        PROVE  val \in InputModels
    <3>1. \A v \in 1 .. n : val[v] = IF color[v] # 0 THEN sol[color[v]] ELSE mv[v]
      <4> TAKE v \in 1 .. n
      <4>1. IF color[v] # 0 THEN val[v] = Value(sol, color[v]) ELSE mv[v] # Eliminated => val[v] = mv[v]
        BY <2>7 DEF Follows
      <4>2. CASE color[v] # 0
        <5>1. color[v] \in 1 .. m /\ m \in Nat
          BY <1>1, <2>6, <4>2
        <5>2. pnsign(color[v]) = 1 /\ Abs(color[v]) = color[v] /\ sol[color[v]] \in {-1, 1}
          BY <5>1, SignedFacts DEF Total
        <5> QED
          BY <4>1, <4>2, <5>2 DEF Value
      <4>3. CASE color[v] = 0
        BY <2>6, <4>1, <4>3 DEF Eliminated
      <4> QED
        BY <4>2, <4>3
    <3>2. All(val, clause)
      BY <2>3, <2>7, <3>1 DEF UpBack, Extends
    <3>3. val \in AllModels
      BY <1>1, <3>2 DEF AllModels
    <3>4. Follows(val, val, n, mapto, mapval) /\ All(val, res_clause)
      BY <1>1, AsReadFollows, NoClauses DEF AsRead
    <3> QED
      BY <1>1, <3>3, <3>4 DEF Meaning, Back
  <2>8. ASSUME InputModels # {}
        PROVE  \E sol \in Total(m) : All(sol, new)
    <3>1. PICK old \in Total(n) : All(old, clause)
      BY <1>1, <2>8 DEF Meaning, Forth, AllModels
    <3>2. All(old, left)
      BY <1>2, <3>1 DEF UpSound
    <3> QED
      BY <2>4, <3>1, <3>2 DEF HasModel
  <2>9. InputModels' = InputModels
    BY <2>1, SameModels
  <2> HIDE DEF n
  <2>10. n' = n
    BY <2>1 DEF n
  <2>11. Meaning(n, AllModels)'
    <3>1. Back(n, AllModels)'
      BY <2>1, <2>2, <2>5, <2>7, <2>9, <2>10 DEF Back
    <3>2. Forth(AllModels)'
      BY <2>5, <2>8, <2>9 DEF Forth
    <3> QED
      BY <3>1, <3>2 DEF Meaning
  <2>12. answer' = "none"
    BY <1>1, <2>1 DEF MeaningInv
  <2>13. MeaningInv(n)'
    BY <2>1, <2>11, <2>12 DEF MeaningInv, Stages
  <2> QED
    BY <2>13 DEF n
<1> QED
  BY <1>3, <1>4

(* preprocess_resolution keeps MeaningInv. *)
LEMMA ResolutionMeans ==
  ASSUME StateInv, MeaningInv(input.vars), preprocess_resolution
  PROVE  MeaningInv(input.vars)'
<1> DEFINE n == input.vars
           q     == Queue
           gone  == DOMAIN clause \ Without(q)
           left  == Pick(clause, Without(q))
           color == Color(left, 1 .. vars)
           names == Mapped(LAMBDA v : mapfrom[v], q)
           m     == Len(Order(left))
           rc    == Relabel(Pick(clause, gone), mapfrom)
           new   == Renumbered(left, vars)
<1>1. /\ n \in Nat /\ vars \in 0 .. n /\ vars \in Nat /\ clause \in Clauses(vars) /\ Numbered(n)
      /\ NamesOK(n) /\ OpenOrFixed(n) /\ Clean(clause) /\ res_clause = <<>> /\ Meaning(n, AllModels) /\ answer = "none"
  <2>1. n \in Nat /\ vars \in 0 .. n /\ clause \in Clauses(vars) /\ Numbered(n) /\ Meaning(n, AllModels) /\ answer = "none"
    BY InputIs DEF StateInv, Typed, StageInv, preprocess_resolution, MeaningInv
  <2> QED
    BY <2>1 DEF Numbered
<1>2. /\ pc' = "binary" /\ UNCHANGED <<input, answer>>
      /\ res_clause' = rc /\ clause' = new /\ vars' = m
      /\ mapto' = ResolvedTo(n, color, names) /\ mapval' = ResolvedVal(n, names)
  BY DEF preprocess_resolution, Goto, OriVars, ResolvedTo, ResolvedVal, Renumbered
<1>3. /\ q \in Seq(1 .. vars) /\ \A v \in 1 .. vars : v \in ToSet(q) \/ Held(v, q)
  BY <1>1, QueueIs DEF Numbered, Mentioned
<1>4. rc = Relabel(Pick(clause, DOMAIN clause \ Without(q)), mapfrom) /\ new = Renumbered(left, vars)
      /\ m = Len(Order(left)) /\ color = Color(left, 1 .. vars)
  OBVIOUS
<1>5. LeftOf(left, Without(q))
  <2> HIDE DEF q
  <2> QED
    BY <1>1, LeftIs
<1>6. NamesSplit(n, names, q)
  <2>1. names = Mapped(LAMBDA v : mapfrom[v], q)
    OBVIOUS
  <2> HIDE DEF q, names
  <2> QED
    BY <1>1, <1>3, <2>1, NamesSplitIs
<1> HIDE DEF q, gone, left, names, rc, new
<1>7. ColorSplit(m, color, q) /\ m \in Nat
  <2>1. left \in Clauses(vars)
    BY <1>5 DEF LeftOf
  <2>2. m \in 0 .. vars
    BY <1>1, <2>1, RenumberedIs
  <2> QED
    BY <1>1, <1>3, <1>5, <2>2, ColorSplitIs
<1> HIDE DEF color, m
<1>8. AllModels' = {sol \in Total(m) : All(sol, new)}
  BY <1>2 DEF AllModels
<1>9. ASSUME NEW sol \in Total(m), All(sol, new), NEW val \in Total(n), All(val, rc),
             Follows(val, sol, n, ResolvedTo(n, color, names), ResolvedVal(n, names))
      PROVE  val \in InputModels
  <2>1. \E old \in Total(vars) : All(old, clause) /\ Follows(val, old, n, mapto, mapval)
    BY <1>1, <1>4, <1>5, <1>6, <1>7, <1>9, ResolvedBack
  <2>2. All(val, res_clause)
    BY <1>1, NoClauses
  <2> QED
    BY <1>1, <2>1, <2>2 DEF Meaning, Back, AllModels
<1>10. ASSUME InputModels # {}
       PROVE  \E sol \in Total(m) : All(sol, new)
  <2>1. PICK old \in Total(vars) : All(old, clause)
    BY <1>1, <1>10 DEF Meaning, Forth, AllModels
  <2>2. left \in Clauses(vars) /\ All(old, left)
    BY <1>5, <2>1 DEF LeftOf, All
  <2>3. HasModel(left, vars)
    BY <2>1, <2>2 DEF HasModel
  <2>4. HasModel(new, m)
    BY <1>1, <1>4, <2>2, <2>3, RenumberedModel
  <2> QED
    BY <2>4 DEF HasModel
<1>11. InputModels' = InputModels
  BY <1>2, SameModels
<1> HIDE DEF n
<1>12. n' = n
  BY <1>2 DEF n
<1>13. Meaning(n, AllModels)'
  <2>1. Back(n, AllModels)'
    BY <1>2, <1>8, <1>9, <1>11, <1>12 DEF Back
  <2>2. Forth(AllModels)'
    BY <1>8, <1>10, <1>11 DEF Forth
  <2> QED
    BY <2>1, <2>2 DEF Meaning
<1>14. MeaningInv(n)'
  BY <1>1, <1>2, <1>13 DEF MeaningInv, Stages
<1> QED
  BY <1>14 DEF n

\* A step of preprocess_binary that goes on.
LEMMA WorkedOn ==
  ASSUME NEW n, NEW Ref, Ref \in SUBSET Total(vars), SoundIf(b', clause', Ref), Meaning(n, Ref), answer = "none",
         UNCHANGED <<input, answer, vars, mapto, mapval, res_clause>>, pc' \in {"pairs", "rewrite", "labels"}
  PROVE  MeaningInv(n)'
<1>1. SoundIf(b, clause, Ref)'
  BY DEF SoundIf, Sound, Exactly, Meets, Agree, KeysHold, Keys, KeysEnough, Enough
<1>2. InputModels' = InputModels
  BY SameModels
<1>3. Meaning(n, Ref)'
  BY <1>2 DEF Meaning, Back, Forth
<1>4. Worked(n)'
  BY <1>1, <1>3 DEF Worked
<1> QED
  BY <1>4 DEF MeaningInv, Stages

(* The start of preprocess_binary keeps MeaningInv. *)
LEMMA StartMeans ==
  ASSUME StateInv, MeaningInv(input.vars), BinaryStart
  PROVE  MeaningInv(input.vars)'
<1> DEFINE n == input.vars
<1>1. vars \in Nat /\ clause \in Clauses(vars) /\ Meaning(n, AllModels) /\ answer = "none"
  <2>1. n \in Nat /\ vars \in 0 .. n /\ clause \in Clauses(vars) /\ Meaning(n, AllModels) /\ answer = "none"
    BY InputIs DEF StateInv, Typed, BinaryStart, MeaningInv
  <2> QED
    BY <2>1
<1>2. pc' = "pairs" /\ b' = Started /\ UNCHANGED <<input, answer, pre_vars>>
  BY DEF BinaryStart, Goto, Started, Hashed
<1>3. SoundIf(Started, clause, AllModels)
  BY <1>1, StartedIs
<1>4. SoundIf(b', clause', AllModels)
  BY <1>2, <1>3 DEF pre_vars
<1> DEFINE Ref == AllModels
<1>5. Ref \in SUBSET Total(vars) /\ SoundIf(b', clause', Ref) /\ Meaning(n, Ref)
  BY <1>1, <1>4 DEF AllModels
<1> HIDE DEF Ref, n
<1>6. PICK R : R = Ref
  OBVIOUS
<1>7. n' = n
  BY <1>2 DEF n
<1>8. \A k : k = n => MeaningInv(k)'
  BY <1>1, <1>2, <1>5, <1>6, WorkedOn DEF pre_vars
<1>9. MeaningInv(n)'
  BY <1>7, <1>8
<1> QED
  BY <1>9 DEF n

(* Its turn over the binary clauses keeps MeaningInv. *)
LEMMA PairsMeans ==
  ASSUME StateInv, MeaningInv(input.vars), Pairs
  PROVE  MeaningInv(input.vars)'
<1> DEFINE n == input.vars
           s == Spread(Paired)
<1>1. n \in Nat /\ vars \in Nat /\ AllTwo(b.nxtc) /\ b \in Level /\ answer = "none" /\ Worked(n)
  <2>1. n \in Nat /\ vars \in 0 .. n /\ Standing(n) /\ AllTwo(b.nxtc) /\ Worked(n) /\ answer = "none"
    BY InputIs DEF StateInv, Typed, StageInv, Pairs, MeaningInv
  <2> QED
    BY <2>1 DEF Standing
<1>2. PICK Ref \in SUBSET Total(vars) : SoundIf(b, clause, Ref) /\ Meaning(n, Ref)
  BY <1>1 DEF Worked
<1>3. Paired \in Level /\ SoundIf(Paired, clause, Ref)
  BY <1>1, <1>2, PairedIs
<1>4. /\ s.conflict => Ref = {}
      /\ ~s.conflict => SoundIf(s, clause, Ref)
  BY <1>1, <1>3, SpreadSound
<1>5. CASE s.conflict
  <2>1. InputModels = {}
    BY <1>2, <1>4, <1>5 DEF Meaning, Forth
  <2>2. Unsat
    BY <1>5 DEF Pairs, Paired, Restarted
  <2> QED
    BY <2>1, <2>2, UnsatMeans
<1>6. CASE ~s.conflict
  <2>1. pc' = "rewrite" /\ b' = [s EXCEPT !.nxtc = <<>>] /\ UNCHANGED <<input, answer, pre_vars>>
    BY <1>6 DEF Pairs, Paired, Restarted, Goto
  <2>2. s \in Level
    BY <1>1, <1>3, <1>6, SpreadKeeps
  <2> HIDE DEF s
  <2> DEFINE u == [s EXCEPT !.nxtc = <<>>]
  <2>3. /\ u.root = s.root /\ u.varval = s.varval /\ u.live = s.live /\ u.hash = s.hash
        /\ u.overwritten = s.overwritten /\ u.conflict = s.conflict
    BY <2>2 DEF Level, BinState
  <2> HIDE DEF u
  <2>4. SoundIf(u, clause, Ref)
    BY <1>4, <1>6, <2>3 DEF SoundIf, Sound, Exactly, Meets, Agree, KeysHold, KeysEnough, Enough
  <2>5. SoundIf(b', clause', Ref)
    BY <2>1, <2>4 DEF u, pre_vars
  <2> HIDE DEF n
  <2>6. n' = n
    BY <2>1 DEF n
  <2>7. \A k : k = n => MeaningInv(k)'
    BY <1>1, <1>2, <2>1, <2>5, WorkedOn DEF pre_vars
  <2>8. MeaningInv(n)'
    BY <2>6, <2>7
  <2> QED
    BY <2>8 DEF n
<1> QED
  BY <1>5, <1>6

(* Its turn over all clauses keeps MeaningInv. *)
LEMMA RewriteMeans ==
  ASSUME StateInv, MeaningInv(input.vars), Rewrite
  PROVE  MeaningInv(input.vars)'
<1> DEFINE n == input.vars
           t == Rewriting
           s == Spread(t.s)
<1>1. n \in Nat /\ vars \in Nat /\ clause \in Clauses(vars) /\ b \in Level /\ b.nxtc = <<>> /\ answer = "none" /\ Worked(n)
  <2>1. /\ n \in Nat /\ vars \in 0 .. n /\ Standing(n) /\ b.nxtc = <<>> /\ clause \in Clauses(vars)
        /\ Worked(n) /\ answer = "none"
    BY InputIs DEF StateInv, Typed, StageInv, Rewrite, MeaningInv
  <2> QED
    BY <2>1 DEF Standing
<1>2. PICK Ref \in SUBSET Total(vars) : SoundIf(b, clause, Ref) /\ Meaning(n, Ref)
  BY <1>1 DEF Worked
<1>3. t.s \in Level /\ SoundIf(t.s, t.cs, Ref)
  BY <1>1, <1>2, RewritingIs DEF Written, WroteSound
<1>4. /\ (t.s.conflict \/ s.conflict) => Ref = {}
      /\ ~s.conflict => SoundIf(s, t.cs, Ref)
  <2> HIDE DEF t
  <2> QED
    BY <1>1, <1>3, SpreadSound
<1>5. CASE s.conflict \/ t.s.conflict
  <2>1. InputModels = {}
    BY <1>2, <1>4, <1>5 DEF Meaning, Forth
  <2>2. Unsat
    BY <1>5 DEF Rewrite, Rewriting
  <2> QED
    BY <2>1, <2>2, UnsatMeans
<1>6. CASE ~(s.conflict \/ t.s.conflict)
  <2>1. /\ pc' = (IF s.simplify THEN "pairs" ELSE "labels") /\ b' = s /\ clause' = t.cs
        /\ UNCHANGED <<input, answer, vars, mapto, mapval, mapfrom, res_clause, resolution>>
    BY <1>6 DEF Rewrite, Rewriting, Goto
  <2> HIDE DEF s, t
  <2>2. SoundIf(b', clause', Ref) /\ pc' \in {"pairs", "rewrite", "labels"}
    BY <1>4, <1>6, <2>1
  <2> HIDE DEF n
  <2>3. n' = n
    BY <2>1 DEF n
  <2>4. \A k : k = n => MeaningInv(k)'
    BY <1>1, <1>2, <2>1, <2>2, WorkedOn
  <2>5. MeaningInv(n)'
    BY <2>3, <2>4
  <2> QED
    BY <2>5 DEF n
<1> QED
  BY <1>5, <1>6

(* Its end keeps MeaningInv. *)
LEMMA EndMeans ==
  ASSUME StateInv, MeaningInv(input.vars), BinaryEnd
  PROVE  MeaningInv(input.vars)'
<1> DEFINE n == input.vars
           left == Pick(clause, b.live)
           color == Color(left, 1 .. vars)
           m == Len(Order(left))
           new == Renumbered(left, vars)
<1>1. /\ pc = "labels" /\ pc' = "solve" /\ clause' = new /\ vars' = m
      /\ mapval' = EndVal(n, color) /\ mapto' = EndTo(n, color)
      /\ UNCHANGED <<input, answer, mapfrom, res_clause, resolution, b>>
  BY EndStep
<1>2. n \in Nat /\ Standing(n) /\ AllSettled /\ Worked(n) /\ answer = "none"
  BY <1>1, InputIs DEF StateInv, Typed, StageInv, MeaningInv
<1>3. Ended(left, color, m) /\ LeftOf(left, b.live) /\ m \in Nat /\ vars \in Nat
  <2>1. Ended(left, color, m)
    BY <1>2, EndedIs
  <2>2. vars \in 0 .. n
    BY <1>2 DEF Standing
  <2> QED
    BY <1>2, <2>1, <2>2 DEF Ended
<1>4. PICK Ref \in SUBSET Total(vars) : SoundIf(b, clause, Ref) /\ Meaning(n, Ref)
  BY <1>2 DEF Worked
<1>5. InputModels' = InputModels
  BY <1>1, SameModels
<1>6. CASE b.overwritten
  <2>1. InputModels = {}
    BY <1>4, <1>6 DEF SoundIf, Meaning, Forth
  <2> QED
    BY <1>1, <1>2, <1>5, <1>6, <2>1 DEF MeaningInv, Stages
<1>7. CASE ~b.overwritten
  <2>1. \A val \in Total(vars) : val \in Ref <=> Meets(b, clause, val)
    BY <1>4, <1>7 DEF SoundIf, Sound, Exactly
  <2>2. color = Color(left, 1 .. vars) /\ new = Renumbered(left, vars) /\ m = Len(Order(left))
    OBVIOUS
  <2> HIDE DEF left, color, m, new
  <2>3. AllModels' = {sol \in Total(m) : All(sol, new)}
    BY <1>1 DEF AllModels
  <2>4. ASSUME NEW sol \in Total(m), All(sol, new), NEW val \in Total(n), All(val, res_clause),
               Follows(val, sol, n, EndTo(n, color), EndVal(n, color))
        PROVE  val \in InputModels
    <3>1. \E old \in Total(vars) : Meets(b, clause, old) /\ Follows(val, old, n, mapto, mapval)
      BY <1>2, <1>3, <2>2, <2>4, EndBack
    <3> QED
      BY <1>4, <2>1, <2>4, <3>1 DEF Meaning, Back
  <2>5. ASSUME InputModels # {}
        PROVE  \E sol \in Total(m) : All(sol, new)
    <3>1. PICK old \in Total(vars) : Meets(b, clause, old)
      BY <1>4, <2>1, <2>5 DEF Meaning, Forth
    <3>2. HasModel(new, m)
      BY <1>3, <2>2, <3>1, EndForth
    <3> QED
      BY <3>2 DEF HasModel
  <2> HIDE DEF n
  <2>6. n' = n
    BY <1>1 DEF n
  <2>7. Meaning(n, AllModels)'
    <3>1. Back(n, AllModels)'
      BY <1>1, <1>5, <2>3, <2>4, <2>6 DEF Back
    <3>2. Forth(AllModels)'
      BY <1>5, <2>3, <2>5 DEF Forth
    <3> QED
      BY <3>1, <3>2 DEF Meaning
  <2>8. MeaningInv(n)'
    BY <1>1, <1>2, <1>7, <2>7 DEF MeaningInv, Stages
  <2> QED
    BY <2>8 DEF n
<1> QED
  BY <1>6, <1>7

(* The solver's answer keeps MeaningInv. *)
LEMMA SolveMeans ==
  ASSUME StateInv, MeaningInv(input.vars), Solve
  PROVE  MeaningInv(input.vars)'
<1> DEFINE n == input.vars
<1>1. /\ n \in Nat /\ Typed /\ Ready(n) /\ answer = "none" /\ vars \in Nat
      /\ IF b.overwritten THEN InputModels = {} ELSE Meaning(n, AllModels)
  <2>1. /\ n \in Nat /\ Typed /\ Ready(n) /\ answer = "none"
        /\ IF b.overwritten THEN InputModels = {} ELSE Meaning(n, AllModels)
    BY InputIs DEF StateInv, Typed, StageInv, Solve, MeaningInv
  <2> QED
    BY <2>1 DEF Typed
<1>2. \A val : val \in Models(clause, 1 .. vars) <=> val \in AllModels
  BY DEF Models, AllModels, Total, All
<1>3. CASE Models(clause, 1 .. vars) = {}
  <2>1. InputModels = {}
    <3>1. AllModels = {}
      BY <1>2, <1>3
    <3> QED
      BY <1>1, <3>1 DEF Meaning, Forth
  <2>2. Unsat
    BY <1>3 DEF Solve
  <2> QED
    BY <2>1, <2>2, UnsatMeans
<1>4. CASE Models(clause, 1 .. vars) # {}
  <2>1. PICK sol \in Models(clause, 1 .. vars) :
          /\ mapval' = Answer(sol) /\ pc' = "complete"
          /\ UNCHANGED <<input, answer, clause, vars, mapto, mapfrom, res_clause, resolution, b>>
    BY <1>4 DEF Solve, Goto, Answer, OriVars
  <2>2. sol \in AllModels /\ sol \in Total(vars)
    BY <1>2 DEF AllModels
  <2>3. InputModels' = InputModels
    BY <2>1, SameModels
  <2>4. ASSUME ~b.overwritten, NEW val \in Total(n), All(val, res_clause),
               \A v \in 1 .. n : mapval'[v] # Eliminated => val[v] = mapval'[v]
        PROVE  val \in InputModels
    <3>1. Follows(val, sol, n, mapto, mapval)
      <4> SUFFICES ASSUME NEW v \in 1 .. n
                   PROVE  IF mapto[v] # 0 THEN val[v] = Value(sol, mapto[v]) ELSE mapval[v] # Eliminated => val[v] = mapval[v]
        BY DEF Follows
      <4>1. mapval'[v] = IF mapto[v] # 0 THEN Value(sol, mapto[v]) ELSE mapval[v]
        BY <2>1 DEF Answer
      <4>2. CASE mapto[v] # 0
        <5>1. mapto[v] \in Literals(vars)
          BY <1>1, <4>2 DEF Typed
        <5>2. Value(sol, mapto[v]) \in {-1, 1}
          BY <1>1, <2>2, <5>1, TotalValue
        <5> QED
          BY <2>4, <4>1, <4>2, <5>2 DEF Eliminated
      <4>3. CASE mapto[v] = 0
        BY <2>4, <4>1, <4>3
      <4> QED
        BY <4>2, <4>3
    <3> QED
      BY <1>1, <2>2, <2>4, <3>1 DEF Meaning, Back
  <2> HIDE DEF n
  <2>5. n' = n
    BY <2>1 DEF n
  <2>6. ~b.overwritten => Transferred(n)'
    BY <2>1, <2>3, <2>4, <2>5 DEF Transferred
  <2>7. MeaningInv(n)'
    BY <1>1, <2>1, <2>3, <2>6 DEF MeaningInv, Stages
  <2> QED
    BY <2>7 DEF n
<1> QED
  BY <1>3, <1>4

(* get_complete_model keeps MeaningInv. *)
LEMMA CompleteMeans ==
  ASSUME StateInv, MeaningInv(input.vars), get_complete_model
  PROVE  MeaningInv(input.vars)'
<1> DEFINE n == input.vars
<1>1. n \in Nat /\ Answered(n) /\ (IF b.overwritten THEN InputModels = {} ELSE Transferred(n))
  BY InputIs DEF StateInv, Typed, StageInv, get_complete_model, MeaningInv
<1>2. /\ Completed(Uncompleted) \in Total(n) /\ All(Completed(Uncompleted), res_clause)
      /\ \A v \in 1 .. n : mapval[v] # Eliminated => Completed(Uncompleted)[v] = mapval[v]
  BY <1>1, UncompletedIs
<1>3. /\ pc' = "done" /\ answer' = "SAT" /\ mapval' = Completed(Uncompleted)
      /\ UNCHANGED <<input, clause, vars, mapto, mapfrom, res_clause, resolution, b>>
  BY DEF get_complete_model
<1>4. IF b.overwritten THEN InputModels = {} ELSE mapval' \in InputModels
  BY <1>1, <1>2, <1>3 DEF Transferred
<1>5. InputModels' = InputModels
  BY <1>3, SameModels
<1> QED
  BY <1>3, <1>4, <1>5 DEF MeaningInv, Stages

(* A step that changes nothing keeps MeaningInv. *)
LEMMA StutterMeans ==
  ASSUME MeaningInv(input.vars), UNCHANGED all_vars
  PROVE  MeaningInv(input.vars)'
<1> DEFINE n == input.vars
<1>1. UNCHANGED <<pc, input, clause, vars, mapto, mapval, mapfrom, res_clause, resolution, b, answer>>
  BY DEF all_vars, pre_vars
<1>2. InputModels' = InputModels
  BY <1>1, SameModels
<1>3. AllModels' = AllModels
  BY <1>1 DEF AllModels
<1>4. \A Ref : Meaning(n, Ref) => Meaning(n, Ref)'
  BY <1>1, <1>2 DEF Meaning, Back, Forth
<1>5. Meaning(n, AllModels) => Meaning(n, AllModels)'
  BY <1>1, <1>2, <1>3 DEF Meaning, Back, Forth
<1>6. Worked(n) => Worked(n)'
  <2>1. ASSUME NEW Ref \in SUBSET Total(vars), SoundIf(b, clause, Ref), Meaning(n, Ref)
        PROVE  SoundIf(b, clause, Ref)' /\ Meaning(n, Ref)' /\ Ref \in (SUBSET Total(vars))'
    <3>1. SoundIf(b, clause, Ref)'
      BY <1>1, <2>1 DEF SoundIf, Sound, Exactly, Meets, Agree, KeysHold, Keys, KeysEnough, Enough
    <3> QED
      BY <1>1, <1>4, <2>1, <3>1
  <2> QED
    BY <2>1 DEF Worked
<1>7. Transferred(n) => Transferred(n)'
  BY <1>1, <1>2 DEF Transferred
<1> HIDE DEF n
<1>8. n' = n
  BY <1>1 DEF n
<1>9. MeaningInv(n)
  BY DEF n
<1>10. MeaningInv(n)'
  BY <1>1, <1>2, <1>5, <1>6, <1>7, <1>9 DEF MeaningInv
<1> QED
  BY <1>10 DEF n

-------------------------------------------------------------------------------
(* A model of what is left is one of the input: SatisfiabilityKept. *)
\* How a variable of the input stands between two passes.
Open(v) == mapto[v] \in Literals(vars) /\ v \notin ToSet(resolution)
Fixed(v) == mapto[v] = 0 /\ mapval[v] \in {-1, 1} /\ v \notin ToSet(resolution)
PutOff(v) == mapto[v] = 0 /\ mapval[v] = Eliminated /\ v \in ToSet(resolution)

LEMMA Reached ==
  ASSUME NEW n \in Nat, vars \in Nat, PutAside(n), \A v \in 1 .. n : Open(v) \/ Fixed(v) \/ PutOff(v),
         NEW m \in Total(vars)
  PROVE  \E val \in Total(n) : Follows(val, m, n, mapto, mapval) /\ All(val, res_clause)
<1> DEFINE p == [v \in 1 .. n |-> IF mapto[v] # 0 THEN Value(m, mapto[v])
                                  ELSE IF mapval[v] = Eliminated THEN 0 ELSE mapval[v]]
           val == Completed(p)
<1>1. ASSUME NEW v \in 1 .. n
      PROVE  p[v] \in {-1, 0, 1} /\ (p[v] = 0 <=> v \in ToSet(resolution))
  <2>1. p[v] = IF mapto[v] # 0 THEN Value(m, mapto[v]) ELSE IF mapval[v] = Eliminated THEN 0 ELSE mapval[v]
    OBVIOUS
  <2> HIDE DEF p
  <2>2. CASE Open(v)
    <3>1. mapto[v] # 0
      BY <2>2, LiteralFacts DEF Open
    <3>2. Value(m, mapto[v]) \in {-1, 1}
      BY <2>2, TotalValue DEF Open
    <3> QED
      BY <2>1, <2>2, <3>1, <3>2 DEF Open
  <2>3. CASE Fixed(v)
    BY <2>1, <2>3 DEF Fixed, Eliminated
  <2>4. CASE PutOff(v)
    BY <2>1, <2>4 DEF PutOff
  <2> QED
    BY <2>2, <2>3, <2>4
<1>2. p \in Partial(n)
  BY <1>1 DEF Partial
<1> HIDE DEF p
<1>3. /\ val \in Total(n) /\ All(val, res_clause)
      /\ \A v \in 1 .. n : v \notin ToSet(resolution) => val[v] = p[v]
  BY <1>1, <1>2, CompletedIs
<1> HIDE DEF val
<1>4. ASSUME NEW v \in 1 .. n
      PROVE  IF mapto[v] # 0 THEN val[v] = Value(m, mapto[v]) ELSE mapval[v] # Eliminated => val[v] = mapval[v]
  <2>1. p[v] = IF mapto[v] # 0 THEN Value(m, mapto[v]) ELSE IF mapval[v] = Eliminated THEN 0 ELSE mapval[v]
    BY DEF p
  <2> QED
    BY <1>3, <2>1 DEF Open, Fixed, PutOff
<1> QED
  BY <1>3, <1>4 DEF Follows

(* Nothing has been put aside yet. *)
LEMMA NothingAside ==
  ASSUME NEW n \in Nat, res_clause = <<>>, resolution = <<>>
  PROVE  PutAside(n)
<1>1. res_clause \in Clauses(n) /\ resolution \in Seq(1 .. n)
  BY DEF Clauses
<1> QED
  BY <1>1 DEF PutAside, IsInjective

\* Every variable stands in one of the three ways until the solvers' answer is in.
LEMMA StandingIs ==
  ASSUME StateInv, NEW n, n = input.vars, pc \in Stages \ {"complete", "done", "simulated", "aborted"}
  PROVE  n \in Nat /\ PutAside(n) /\ \A v \in 1 .. n : Open(v) \/ Fixed(v) \/ PutOff(v)
<1>1. n \in Nat /\ Typed /\ StageInv(n) /\ vars \in Nat
  <2>1. n \in Nat /\ Typed /\ StageInv(n)
    BY InputIs DEF StateInv, Typed
  <2> QED
    BY <2>1 DEF Typed
<1>2. CASE pc \in {"circuit", "gauss", "up"}
  <2>1. AsRead(n)
    BY <1>1, <1>2 DEF StageInv
  <2>2. \A v \in 1 .. n : v \in Literals(n)
    BY <1>1 DEF Literals
  <2> QED
    BY <1>1, <2>1, <2>2, NothingAside DEF AsRead, Open, ToSet
<1>3. CASE pc \in {"card", "resolution"}
  <2>1. Numbered(n)
    BY <1>1, <1>3 DEF StageInv
  <2>2. \A v \in 1 .. n : mapto[v] \in Literals(vars) \cup {0}
    BY <1>1 DEF Typed
  <2> QED
    BY <1>1, <2>1, <2>2, NothingAside DEF Numbered, OpenOrFixed, Open, Fixed, ToSet
<1>4. CASE pc \in {"binary", "pairs", "rewrite", "labels", "solve"}
  <2>1. PutAside(n) /\ Accounted(n, vars, mapto, mapval, resolution)
    BY <1>1, <1>4 DEF StageInv, Resolved, Standing, Ready
  <2>2. \A v \in 1 .. n : mapto[v] \in Literals(vars) \cup {0}
    BY <1>1 DEF Typed
  <2> QED
    BY <1>1, <2>1, <2>2 DEF Accounted, Open, Fixed, PutOff, Eliminated
<1> QED
  BY <1>2, <1>3, <1>4 DEF Stages

(* The current formula has a model iff the input has one. *)
LEMMA MeaningKept ==
  ASSUME NEW n \in Nat, vars \in Nat, PutAside(n), \A v \in 1 .. n : Open(v) \/ Fixed(v) \/ PutOff(v),
         NEW Ref \in SUBSET Total(vars), Meaning(n, Ref)
  PROVE  Ref = {} <=> InputModels = {}
<1>1. ASSUME NEW m \in Ref
      PROVE  InputModels # {}
  <2>1. m \in Total(vars)
    OBVIOUS
  <2>2. PICK val \in Total(n) : Follows(val, m, n, mapto, mapval) /\ All(val, res_clause)
    BY <2>1, Reached
  <2> QED
    BY <2>2 DEF Meaning, Back
<1> QED
  BY <1>1 DEF Meaning, Forth

(* MeaningInv keeps the satisfiability of the input. *)
LEMMA MeaningSatisfiability ==
  ASSUME StateInv, MeaningInv(input.vars)
  PROVE  SatisfiabilityKept
<1> SUFFICES ASSUME pc \notin {"complete", "done", "simulated", "aborted"}, ~b.overwritten
             PROVE  Left = {} <=> InputModels = {}
  BY DEF SatisfiabilityKept
<1> DEFINE n == input.vars
<1>1. pc \in Stages \ {"circuit", "gauss", "complete", "done", "simulated", "aborted"} /\ vars \in Nat
  <2>1. vars \in 0 .. n /\ n \in Nat
    BY InputIs DEF StateInv, Typed
  <2> QED
    BY <2>1 DEF MeaningInv
<1>2. n \in Nat /\ PutAside(n) /\ \A v \in 1 .. n : Open(v) \/ Fixed(v) \/ PutOff(v)
  BY <1>1, StandingIs
<1>3. CASE pc \in {"pairs", "rewrite", "labels"}
  <2>1. PICK Ref \in SUBSET Total(vars) : SoundIf(b, clause, Ref) /\ Meaning(n, Ref)
    BY <1>3 DEF MeaningInv, Worked
  <2>2. \A val \in Total(vars) : val \in Ref <=> Meets(b, clause, val)
    BY <2>1 DEF SoundIf, Sound, Exactly
  <2>3. \A val : val \in Left <=> val \in Total(vars) /\ Meets(b, clause, val)
    BY <1>3 DEF Left, Total, Meets, Agree
  <2>4. Left = Ref
    BY <2>2, <2>3
  <2> HIDE DEF n
  <2> QED
    BY <1>1, <1>2, <2>1, <2>4, MeaningKept
<1>4. CASE pc \in {"up", "card", "resolution", "binary", "solve"}
  <2>1. Meaning(n, AllModels)
    BY <1>4 DEF MeaningInv
  <2>2. Left = AllModels
    BY <1>4 DEF Left, AllModels, Total, All
  <2>3. AllModels \in SUBSET Total(vars)
    BY DEF AllModels
  <2> HIDE DEF n
  <2> QED
    BY <1>1, <1>2, <2>1, <2>2, <2>3, MeaningKept
<1> QED
  BY <1>1, <1>3, <1>4 DEF Stages

(* preprocess_card keeps MeaningInv. *)
LEMMA CardMeans ==
  ASSUME StateInv, MeaningInv(input.vars), preprocess_card
  PROVE  MeaningInv(input.vars)'
<1> DEFINE n == input.vars
<1>1. vars \in Nat /\ clause \in Clauses(vars) /\ Meaning(n, AllModels) /\ answer = "none"
  <2>1. n \in Nat /\ vars \in 0 .. n /\ clause \in Clauses(vars) /\ Meaning(n, AllModels) /\ answer = "none"
    BY InputIs DEF StateInv, Typed, preprocess_card, MeaningInv
  <2> QED
    BY <2>1
<1>2. CASE CardRefutes(clause, vars)
  <2>1. AllModels = {}
    BY <1>1, <1>2, CardSound DEF AllModels
  <2>2. InputModels = {}
    BY <1>1, <2>1 DEF Meaning, Forth
  <2>3. Unsat
    BY <1>2 DEF preprocess_card
  <2> QED
    BY <2>2, <2>3, UnsatMeans
<1>3. CASE ~CardRefutes(clause, vars)
  <2>1. pc' = "resolution" /\ UNCHANGED <<input, answer, clause, vars, mapto, mapval, mapfrom, res_clause, resolution, b>>
    BY <1>3 DEF preprocess_card, Goto, pre_vars
  <2>2. InputModels' = InputModels
    BY <2>1, SameModels
  <2>3. AllModels' = AllModels
    BY <2>1 DEF AllModels
  <2>4. Meaning(n, AllModels)'
    BY <1>1, <2>1, <2>2, <2>3 DEF Meaning, Back, Forth
  <2> QED
    BY <1>1, <2>1, <2>4 DEF MeaningInv, Stages
<1> QED
  BY <1>2, <1>3

-------------------------------------------------------------------------------
(* Both invariants hold when the formula has been read. *)
LEMMA InitMeaning ==
  ASSUME Init, pc = "up"
  PROVE  StateInv /\ MeaningInv(input.vars)
BY InitState, InitMeans

(* Every step keeps MeaningInv. *)
LEMMA NextMeaning ==
  ASSUME StateInv, MeaningInv(input.vars), [Next]_all_vars
  PROVE  MeaningInv(input.vars)'
<1>1. pc \notin {"circuit", "gauss"}
  BY DEF MeaningInv
<1>2. ~preprocess_circuit /\ ~preprocess_gauss
  BY <1>1 DEF preprocess_circuit, preprocess_gauss
<1>3. CASE preprocess_up
  BY <1>3, UpMeans
<1>4. CASE preprocess_card
  BY <1>4, CardMeans
<1>5. CASE preprocess_resolution
  BY <1>5, ResolutionMeans
<1>6. CASE BinaryStart
  BY <1>6, StartMeans
<1>7. CASE Pairs
  BY <1>7, PairsMeans
<1>8. CASE Rewrite
  BY <1>8, RewriteMeans
<1>9. CASE BinaryEnd
  BY <1>9, EndMeans
<1>10. CASE Solve
  BY <1>10, SolveMeans
<1>11. CASE get_complete_model
  BY <1>11, CompleteMeans
<1>12. CASE Done
  BY <1>12, StutterMeans DEF Done
<1>13. CASE UNCHANGED all_vars
  BY <1>13, StutterMeans
<1> QED
  BY <1>2, <1>3, <1>4, <1>5, <1>6, <1>7, <1>8, <1>9, <1>10, <1>11, <1>12, <1>13 DEF Next

(* MeaningInv makes the answers right. *)
LEMMA MeaningAnswers ==
  ASSUME MeaningInv(input.vars)
  PROVE  AnswerRight /\ (Right \/ b.overwritten) /\ (InputModels # {} => Right)
<1>1. CASE pc = "done"
  BY <1>1 DEF MeaningInv, AnswerRight, Right
<1>2. CASE pc # "done"
  BY <1>2 DEF MeaningInv, AnswerRight, Right
<1> QED
  BY <1>1, <1>2

(* In PRS-distributed, for every set of inputs, what is left at any moment  *)
(* says of the input what it has to (MeaningInv): a model of what is left   *)
(* gives models of the input, and there is one if the input has one, unless *)
(* a merge has overwritten a value, which only an unsatisfiable input does. *)
THEOREM MeaningInvariant == DistributedSpec => [](StateInv /\ MeaningInv(input.vars))
<1> DEFINE Inv == StateInv /\ MeaningInv(input.vars)
<1>1. Init /\ pc = "up" => Inv
  BY InitMeaning
<1>2. Inv /\ [Next]_all_vars => Inv'
  BY NextState, NextMeaning
<1> HIDE DEF Inv
<1>3. Inv <=> StateInv /\ MeaningInv(input.vars)
  BY DEF Inv
<1> QED
  BY <1>1, <1>2, <1>3, PTL DEF DistributedSpec

(* In PRS-distributed unit propagation, cardinality reasoning, resolution   *)
(* and the merging of equivalent variables neither lose the models of the   *)
(* input nor invent some, for every formula.                                *)
THEOREM KeepsSatisfiability == DistributedSpec => []SatisfiabilityKept
<1>1. StateInv /\ MeaningInv(input.vars) => SatisfiabilityKept
  BY MeaningSatisfiability
<1> QED
  BY <1>1, MeaningInvariant, PTL

(* In PRS-distributed the model get_complete_model completes satisfies      *)
(* every clause of the input, and UNSAT is said of inputs without a model   *)
(* only, whichever model the solvers find and for every formula, unless a   *)
(* merge has overwritten a value (PreprocessLoses).                         *)
THEOREM AnswersRight == DistributedSpec => []AnswerRight /\ [](Right \/ b.overwritten)
<1>1. StateInv /\ MeaningInv(input.vars) => AnswerRight /\ (Right \/ b.overwritten)
  BY MeaningAnswers
<1> DEFINE Certain == Right \/ b.overwritten
<1>2. StateInv /\ MeaningInv(input.vars) => Certain
  BY <1>1
<1> HIDE DEF Certain
<1>3. DistributedSpec => []AnswerRight /\ []Certain
  BY <1>1, <1>2, MeaningInvariant, PTL
<1> QED
  BY <1>3 DEF Certain

(* In PRS-distributed a formula that has a model is never answered wrongly: *)
(* the model that is printed is one of its models.  The wrong answers of    *)
(* PreprocessLoses are models of formulas that have none.                   *)
THEOREM SatisfiableAnswered == DistributedSpec => [](InputModels # {} => PrintedAnswerRight)
<1> DEFINE Certain == InputModels # {} => PrintedAnswerRight
<1>1. StateInv /\ MeaningInv(input.vars) => Certain
  BY MeaningAnswers DEF PrintedAnswerRight
<1> HIDE DEF Certain
<1>2. DistributedSpec => []Certain
  BY <1>1, MeaningInvariant, PTL
<1> QED
  BY <1>2 DEF Certain
==============================================================================
