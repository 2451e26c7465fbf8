-------------------------------- MODULE Gauss --------------------------------
(***************************************************************************)
(* preprocess_gauss (gauss.cpp): xor constraints are read off the clauses,  *)
(* each group of constraints that share variables is brought to reduced     *)
(* row echelon form, and rows of one or two variables become clauses.  The  *)
(* elimination itself is m4ri's; whichever of its methods runs, the reduced *)
(* echelon form is the same.  The rows are read after mzd_free; below the   *)
(* size of a cache m4ri keeps what is freed, unchanged (mmc.c 83).          *)
(***************************************************************************)
EXTENDS Cnf

CONSTANT MostCells     \* a group with more rows times variables is left as it is: 1e7

MAX_XOR == 6

-------------------------------------------------------------------------------
(* search_xors: a constraint over the variables of a clause holds if every  *)
(* sign pattern of one parity is there.  abstract compares the variables    *)
(* modulo 32.  A pattern is the set of places with a negative literal.      *)
cmpvar(x, y) == Abs(x) < Abs(y) \/ (Abs(x) = Abs(y) /\ x > y)
Place(c, j) == Cardinality({k \in DOMAIN c : cmpvar(c[k], c[j]) \/ (c[k] = c[j] /\ k <= j)})
cal_dup_val(c) == {Place(c, j) : j \in {j \in DOMAIN c : c[j] < 0}}
Rhs(c) == IF Cardinality({j \in DOMAIN c : c[j] < 0}) % 2 = 0 THEN 1 ELSE 0

Required(l) == 2 ^ (l - 2)
Frequent(cs, v, n) ==
  \A l \in {v, -v} : Cardinality(UNION {{i} \X {j \in DOMAIN cs[i] : cs[i][j] = l} : i \in DOMAIN cs}) >= n

\* st.used: nxtc.  The clauses with new patterns are used up, i always is.
SearchFrom(cs, st, i) ==
  LET c == cs[i]   l == Len(c)
      alike == {k \in DOMAIN cs \ (st.used \cup {i}) : Len(cs[k]) = l /\ VarsOf(cs[k]) = VarsOf(c)}
      group == <<i>> \o Ascending(alike, Len(cs))
      fresh == {n \in DOMAIN group : \A m \in 1 .. n - 1 : cal_dup_val(cs[group[m]]) # cal_dup_val(cs[group[n]])}
      signs(r) == Cardinality({n \in fresh : Rhs(cs[group[n]]) = r})
      gate(r) == IF signs(r) = 2 * Required(l) THEN << [vars |-> VarsOf(c), first |-> Abs(c[1]), rhs |-> r] >> ELSE <<>>
  IN  IF i \in st.used THEN st
      ELSE IF \/ l <= 2 \/ l > MAX_XOR
              \/ \E v \in VarsOf(c) : ~Frequent(cs, v, Required(l))
              \/ Len(group) < 2 * Required(l)
           THEN [st EXCEPT !.used = @ \cup {i}]
      ELSE [used |-> st.used \cup {group[n] : n \in fresh}, xors |-> st.xors \o gate(0) \o gate(1)]

search_xors(cs) == Looped(LAMBDA st, i : SearchFrom(cs, st, i), [used |-> {}, xors |-> <<>>], Len(cs)).xors

-------------------------------------------------------------------------------
(* ecc_var, ecc_xor: the constraints by connected variables, a group at the *)
(* place of its first constraint.                                           *)
Near(xors, V) == V \cup UNION {x.vars : x \in {x \in ToSet(xors) : x.vars \cap V # {}}}
Reach(xors, V) == Looped(LAMBDA W, k : Near(xors, W), V, Len(xors))
Groups(xors) == Distinct(Mapped(LAMBDA x : Kept(xors, LAMBDA y : y.first \in Reach(xors, x.vars)), xors))

(* gauss_elimination: a row is the set of its ones, 0 the column of the     *)
(* right-hand side, which is the last.                                      *)
Least(S) == CHOOSE k \in S : \A j \in S : k <= j
Sum2(r, s) == (r \ s) \cup (s \ r)
Pivot(rows, done, v) ==
  LET at == {k \in DOMAIN rows : k > done /\ v \in rows[k]}
  IN  IF at = {} THEN [rows |-> rows, done |-> done]
      ELSE LET p == rows[Least(at)]
               swapped == [rows EXCEPT ![Least(at)] = rows[done + 1], ![done + 1] = p]
           IN  [rows |-> [k \in DOMAIN rows |-> IF k # done + 1 /\ v \in swapped[k] THEN Sum2(swapped[k], p)
                                                ELSE swapped[k]],
                done |-> done + 1]
mzd_echelonize(rows, vars) ==
  LET cols == Ascending((UNION ToSet(rows)) \ {0}, vars) \o <<0>>
  IN  Looped(LAMBDA st, k : Pivot(st.rows, st.done, cols[k]), [rows |-> rows, done |-> 0], Len(cols)).rows

Ones(r, vars) == Ascending(r \ {0}, vars)
Derived(r, vars) ==
  LET ones == Ones(r, vars)   q == IF 0 \in r THEN ones[2] ELSE -ones[2]
  IN  CASE Len(ones) = 1 -> << <<IF 0 \in r THEN ones[1] ELSE -ones[1]>> >>
        [] Len(ones) = 2 -> << <<ones[1], q>>, <<-ones[1], -q>> >>
        [] OTHER         -> <<>>

\* "ok" with the new clauses, "UNSAT", or "abort" on assert(scc[id].size() > 3).
GaussResult(cs, vars) ==
  LET groups == Kept(Groups(search_xors(cs)), LAMBDA g : Len(g) > 1)
      rows(g) == mzd_echelonize(Mapped(LAMBDA x : x.vars \cup (IF x.rhs = 1 THEN {0} ELSE {}), g), vars)
      size(g) == Cardinality(UNION {x.vars : x \in ToSet(g)})
      visit(st, k) ==
        LET g == groups[k] IN
        IF st.res # "open" THEN st
        ELSE IF size(g) <= 3 THEN [st EXCEPT !.res = "abort"]
        ELSE IF size(g) * Len(g) > MostCells THEN st
        ELSE [clause |-> st.clause \o Flat(Mapped(LAMBDA r : Derived(r, vars), rows(g))),
              res    |-> IF {0} \in ToSet(rows(g)) THEN "UNSAT" ELSE "open"]
  IN  Looped(visit, [clause |-> cs, res |-> "open"], Len(groups))
===============================================================================
