--------------------------------- MODULE Cnf ---------------------------------
(***************************************************************************)
(* Formulas in conjunctive normal form as preprocess.hpp keeps them: a      *)
(* literal is a nonzero integer, a clause a sequence of literals, a formula *)
(* a sequence of clauses.  A (partial) assignment gives each variable 1, -1 *)
(* or 0.  Satisfies and Models are the reference the passes are checked     *)
(* against.                                                                *)
(***************************************************************************)
EXTENDS Integers, Sequences, FiniteSets, SequencesExt

Abs(x) == IF x < 0 THEN -x ELSE x
pnsign(x) == IF x > 0 THEN 1 ELSE -1

Literals(n) == {l \in -n .. n : l # 0}
Value(val, l) == pnsign(l) * val[Abs(l)]
VarsOf(c) == {Abs(l) : l \in ToSet(c)}

Satisfies(val, c) == \E l \in ToSet(c) : Value(val, l) = 1
Models(cs, V) == {val \in [V -> {-1, 1}] : \A i \in DOMAIN cs : Satisfies(val, cs[i])}

Tautology(c) == \E l \in ToSet(c) : -l \in ToSet(c)

-------------------------------------------------------------------------------
(* Loops and lists.  A loop over 1 .. n is a function of the number of its  *)
(* turns, a part of a list is given by the places that stay.                *)
Looped(turn(_, _), start, n) ==
  LET after[k \in 0 .. n] == IF k = 0 THEN start ELSE turn(after[k - 1], k)
  IN  after[n]

Pick(s, S) == Looped(LAMBDA done, i : IF i \in S THEN Append(done, s[i]) ELSE done, <<>>, Len(s))
Ascending(S, n) == Pick([i \in 1 .. n |-> i], S)
Kept(s, test(_)) == Pick(s, {i \in DOMAIN s : test(s[i])})
Distinct(s) == Pick(s, {i \in DOMAIN s : \A j \in 1 .. i - 1 : s[j] # s[i]})
Mapped(op(_), s) == [i \in DOMAIN s |-> op(s[i])]
Flat(ss) == Looped(LAMBDA done, k : done \o ss[k], <<>>, Len(ss))

-------------------------------------------------------------------------------
(* update_var_clause_label: the remaining variables are numbered in the     *)
(* order in which the remaining clauses mention them.                       *)
Order(cs) == Distinct(Mapped(Abs, Flat(cs)))
ColorKept(cs, V) == [v \in V |-> IF Contains(Order(cs), v) THEN v ELSE 0]
Color(cs, V) == LET order == Order(cs)
                IN  [v \in V |-> IF Contains(order, v)
                                 THEN CHOOSE k \in DOMAIN order : order[k] = v
                                 ELSE 0]
Relabel(cs, color) == [i \in DOMAIN cs |-> [j \in DOMAIN cs[i] |->
                         pnsign(cs[i][j]) * color[Abs(cs[i][j])]]]
==============================================================================
