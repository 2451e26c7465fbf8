-------------------------------- MODULE Circuit --------------------------------
(***************************************************************************)
(* preprocess_circuit (circuit.cpp): a formula that is nothing but the      *)
(* clauses of and- and xor-gates, of equal variables and of units is read   *)
(* as a circuit, and the conjunction of the units on gates is simulated     *)
(* under every assignment of the inputs that are left.                      *)
(***************************************************************************)
EXTENDS Cnf

CONSTANTS FewestInputs, MostInputs     \* simulated only with more than 16 and at most 32

-------------------------------------------------------------------------------
(* cnf2aig, the clauses: each group of them ends at i and starts behind     *)
(* last.  f gives the root of a variable.                                   *)
ByVar(c) == SortSeq(c, LAMBDA x, y : Abs(x) < Abs(y))

rematch_eql(c, d) == Len(c) = 2 /\ Len(d) = 2 /\ ByVar(c) = Mapped(LAMBDA x : -x, ByVar(d))

\* out <-> p /\ q: the sides are (-out p) and (-out q).
Psum(clauses, x) == Cardinality(UNION {{k} \X {j \in DOMAIN clauses[k] : clauses[k][j] = x} : k \in DOMAIN clauses})
IsOut(c, sides, r) == /\ c[r] > 0 /\ Psum(sides, -c[r]) = 2
                      /\ \A j \in 1 .. 3 \ {r} : Psum(sides, -c[j]) = 1
rematch_and(c, sides) ==
  /\ Len(c) = 3 /\ \E r \in 1 .. 3 : IsOut(c, sides, r)
  /\ \A s \in ToSet(sides) : Len(s) = 2 /\ \A x \in ToSet(s) : -x \in ToSet(c)
AndGate(c, sides) ==
  LET out == c[CHOOSE r \in 1 .. 3 : IsOut(c, sides, r)]
  IN  [type |-> "and", out |-> out, in |-> Mapped(LAMBDA x : -x, Kept(c, LAMBDA x : x # out))]

Even(c) == Cardinality({j \in DOMAIN c : c[j] < 0}) % 2 = 0
rematch_xor(c, others) ==
  /\ Len(c) = 3
  /\ \A k \in DOMAIN others : Len(others[k]) = 3 /\ VarsOf(others[k]) \subseteq VarsOf(c) /\ Even(others[k]) = Even(c)
  /\ \A x \in ToSet(c) : Psum(others, x) = 1
XorGate(c) ==
  LET v   == Mapped(Abs, c)
      out == Max(ToSet(v))
      in  == Kept(v, LAMBDA x : x # out)
  IN  [type |-> "xor", out |-> out, in |-> IF Even(c) THEN <<-in[1], in[2]>> ELSE in]

Joined(f, c) == LET a == f[Abs(ByVar(c)[1])]   d == Abs(ByVar(c)[2])
                IN  [v \in DOMAIN f |-> IF f[v] = d THEN a ELSE f[v]]

ReadClause(cs, st, i) ==
  LET c == cs[i]   n == i - st.last
      before(k) == SubSeq(cs, i - k, i - 1)
      failed == [st EXCEPT !.ok = FALSE]
      closed(k, s) == IF n > k THEN failed ELSE [s EXCEPT !.last = i]
  IN  IF ~st.ok THEN st
      ELSE IF n >= 2 /\ rematch_eql(c, cs[i - 1])
           THEN IF st.f[Abs(ByVar(c)[2])] # Abs(ByVar(c)[2]) THEN failed
                ELSE closed(2, [st EXCEPT !.f = Joined(@, c), !.eql = Append(@, c)])
      ELSE IF n >= 3 /\ rematch_and(c, before(2))
           THEN closed(3, [st EXCEPT !.gate = Append(@, AndGate(c, before(2)))])
      ELSE IF n >= 4 /\ rematch_xor(c, before(3))
           THEN closed(4, [st EXCEPT !.gate = Append(@, XorGate(c))])
      ELSE IF Len(c) = 1 THEN closed(1, [st EXCEPT !.val = Append(@, c[1])])
      ELSE IF n >= 4 THEN failed ELSE st

ReadClauses(cs, vars) ==
  LET st == Looped(LAMBDA st, i : ReadClause(cs, st, i),
                   [ok |-> TRUE, last |-> 0, gate |-> <<>>, val |-> <<>>, eql |-> <<>>,
                    f |-> [v \in 1 .. vars |-> v]],
                   Len(cs))
  IN  [st EXCEPT !.ok = @ /\ st.last = Len(cs)]

-------------------------------------------------------------------------------
(* cnf2aig, the circuit. *)
RootOf(f, l) == pnsign(l) * f[Abs(l)]

Rooted(st, ls) == Mapped(LAMBDA l : RootOf(st.f, l), ls)

\* The units on gates, joined by and-gates; what is left open are the inputs.
Conjunction(andg, vars) ==
  [k \in 1 .. Len(andg) - 1 |->
     [type |-> "and", out |-> vars + k, in |-> <<IF k = 1 THEN andg[1] ELSE vars + k - 1, andg[k + 1]>>]]

CircuitOf(st, gate, out, val, vars) ==
  LET ins  == (UNION {VarsOf(g.in) : g \in ToSet(gate)}) \ out
      fixed(x) == LET on == Kept(val, LAMBDA l : Abs(l) = x) IN IF on = <<>> THEN 0 ELSE pnsign(Last(on))
      andg == Kept(val, LAMBDA l : Abs(l) \in out)
  IN  [ok    |-> /\ st.ok /\ \A g \in ToSet(gate) : st.f[g.out] = g.out
                 /\ Cardinality(out) = Len(gate) /\ Len(andg) >= 2,
       gate  |-> gate \o Conjunction(andg, vars), ins |-> Ascending(ins, vars),
       fixed |-> [x \in ins |-> fixed(x)], epcec_out |-> vars + Len(andg) - 1,
       rins  |-> Cardinality(ins) - Cardinality({k \in DOMAIN val : Abs(val[k]) \in ins}),
       f |-> st.f, val |-> val, eql |-> st.eql]

Connect(st, vars) == CircuitOf(st, Mapped(LAMBDA g : [g EXCEPT !.in = Rooted(st, @)], st.gate),
                               {g.out : g \in ToSet(st.gate)}, Rooted(st, st.val), vars)

cnf2aig(cs, vars) == Connect(ReadClauses(cs, vars), vars)

-------------------------------------------------------------------------------
(* _simulate: the gates in the order they are computed, until the output is.*)
\* One turn takes the first variable of the queue; every gate it completes is computed next.
Compute(aig, st) ==
  LET known == {aig.gate[c].out : c \in ToSet(st.order)}
      u == Head(st.queue)
      n(c) == st.counter[c] + Cardinality({j \in DOMAIN aig.gate[c].in : Abs(aig.gate[c].in[j]) = u})
      new == Ascending({c \in DOMAIN aig.gate : n(c) = 2 /\ st.counter[c] # 2}, Len(aig.gate))
  IN  IF st.queue = <<>> \/ aig.epcec_out \in known THEN st
      ELSE [queue   |-> Tail(st.queue) \o Mapped(LAMBDA c : aig.gate[c].out, new),
            counter |-> [c \in DOMAIN aig.gate |-> n(c)], order |-> st.order \o new]
Schedule(aig) ==
  Looped(LAMBDA st, turn : Compute(aig, st),
         [queue |-> aig.ins, counter |-> [c \in DOMAIN aig.gate |-> 0], order |-> <<>>],
         Len(aig.ins) + Len(aig.gate)).order

Holds(val, l) == IF l > 0 THEN val[l] ELSE ~val[-l]
Simulated(aig, order, val) ==
  LET compute(v, k) ==
        LET g == aig.gate[order[k]]
            out == IF g.type = "and" THEN Holds(v, g.in[1]) /\ Holds(v, g.in[2])
                   ELSE Holds(v, g.in[1]) # Holds(v, g.in[2])
        IN  [x \in DOMAIN v \cup {g.out} |-> IF x = g.out THEN out ELSE v[x]]
  IN  Looped(compute, val, Len(order))

(* do_epcec: 20 if the output is never 1, else 10 with the values under one *)
(* of the assignments; what is not computed counts as 1.  A circuit whose   *)
(* output is never computed is read through an unset pointer.               *)
Epcec(aig, order, vars) ==
  LET input == {a \in [ToSet(aig.ins) -> BOOLEAN] : \A x \in DOMAIN a : aig.fixed[x] # 0 => a[x] = (aig.fixed[x] = 1)}
      model(s) == [v \in 1 .. vars |-> IF aig.f[v] \in DOMAIN s /\ ~s[aig.f[v]] THEN -1 ELSE 1]
      found == {s \in {Simulated(aig, order, a) : a \in input} : s[aig.epcec_out]}
  IN  IF \A c \in ToSet(order) : aig.gate[c].out # aig.epcec_out THEN {[res |-> "abort", model |-> <<>>]}
      ELSE IF found = {} THEN {[res |-> "UNSAT", model |-> <<>>]}
      ELSE {[res |-> "SAT", model |-> model(s)] : s \in found}

Decided(aig, vars) ==
  IF ~aig.ok \/ aig.rins <= FewestInputs \/ aig.rins > MostInputs THEN {[res |-> "open", model |-> <<>>]}
  ELSE Epcec(aig, Schedule(aig), vars)

CircuitAnswers(cs, vars) == Decided(cnf2aig(cs, vars), vars)

(* Where the pass decides, the circuit says what the formula says if the    *)
(* pairs of clauses make two variables equal rather than opposite, every    *)
(* gate is in the cone of the output, and every unit is on a gate, or once  *)
(* on an input.                                                             *)
WellRead(aig) ==
  /\ \A c \in ToSet(aig.eql) : pnsign(c[1]) # pnsign(c[2])
  /\ Len(Schedule(aig)) = Len(aig.gate)
  /\ \A l \in ToSet(aig.val) : /\ \E g \in ToSet(aig.gate) : Abs(l) \in VarsOf(g.in)
                               /\ Abs(l) \in ToSet(aig.ins) => -l \notin ToSet(aig.val)
ReadAsWritten(cs, vars) == WellRead(cnf2aig(cs, vars))
===============================================================================
