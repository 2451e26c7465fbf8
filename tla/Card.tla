--------------------------------- MODULE Card ---------------------------------
(***************************************************************************)
(* preprocess_card (card.cpp): at-most-one constraints are read off the     *)
(* two-literal clauses and merged, and Fourier-Motzkin elimination looks    *)
(* for a contradiction with the other clauses.  It refutes the formula or   *)
(* leaves it as it is.  Numbers are exact here; rows are integers, which a  *)
(* positive factor does not change.                                         *)
(***************************************************************************)
EXTENDS Cnf

CONSTANTS Cells, Rows      \* 1e7 and 1e3: beyond them the attempt is given up

ASSUME CardAssumption == Cells \in Nat /\ Rows \in Nat

TooLarge(n, vars) == n * vars > Cells

-------------------------------------------------------------------------------
(* search_almost_one: cliques of literals no two of which are both false;   *)
(* the clauses of a clique are used up.                                     *)
PairsOf(ino) == {{u, v} : u, v \in ToSet(ino)}

Clique(pairs, i, nei) ==
  LET join(ino, k) == IF \A u \in ToSet(ino) : {u, nei[k]} \in pairs THEN Append(ino, nei[k]) ELSE ino
  IN  Looped(join, <<i>>, Len(nei))

\* st.one: the cliques with literal i so far, negated; a turn that finds i alone changes nothing.
OneMore(st, i, nei) ==
  LET ino == Clique(st.pairs, i, nei)
  IN  IF Len(ino) = 1 THEN st
      ELSE [st EXCEPT !.pairs = @ \ PairsOf(ino), !.one = Append(@, Mapped(LAMBDA x : -x, ino))]

Literal(k) == IF k % 2 = 1 THEN (k + 1) \div 2 ELSE -(k \div 2)
Partners(two, l, done) ==
  LET others == Mapped(LAMBDA c : IF c[1] = l THEN c[2] ELSE c[1], Kept(two, LAMBDA c : l \in ToSet(c)))
  IN  Kept(others, LAMBDA v : v \notin done)

AlmostOne(cs, vars) ==
  LET two == Kept(cs, LAMBDA c : Len(c) = 2)
      done(k) == {Literal(j) : j \in 1 .. k - 1}
      take(st, k) ==
        LET i == Literal(k)   nei == Partners(two, i, done(k))
        IN  Looped(LAMBDA t, turn : OneMore(t, i, nei), st, Len(nei))
  IN  Looped(take, [pairs |-> {ToSet(c) : c \in ToSet(two)}, one |-> <<>>], 2 * vars)

\* Of a clause that is there twice only the last is used up.
Unused(cs, pairs) ==
  Pick(cs, {i \in DOMAIN cs : Len(cs[i]) = 2 /\ ToSet(cs[i]) \notin pairs =>
                                 \E k \in DOMAIN cs : k > i /\ ToSet(cs[k]) = ToSet(cs[i])})

-------------------------------------------------------------------------------
(* scc_almost_one: at most one of x and P, at most one of -x and N give at  *)
(* most one of P and N.  live: the constraints in the occurrence lists.     *)
Occurs(st, l) == Flat([k \in DOMAIN st.one |->
                   IF k \in st.live THEN Mapped(LAMBDA x : k, Kept(st.one[k], LAMBDA x : x = l))
                   ELSE <<>>])

\* upd_occur shortens the list its caller walks over: every other entry stays.
Struck(occ) ==
  LET strike(st, n) == IF n > Len(st.occ) THEN st
                       ELSE [occ |-> Kept(st.occ, LAMBDA k : k # st.occ[n]), gone |-> st.gone \cup {st.occ[n]}]
  IN  Looped(strike, [occ |-> occ, gone |-> {}], Len(occ)).gone

MergeOn(st, i) ==
  LET op == Occurs(st, i)   on == Occurs(st, -i)
      rest(k) == Kept(st.one[k], LAMBDA x : Abs(x) # i)
      new == Flat([a \in DOMAIN op |-> [c \in DOMAIN on |-> rest(op[a]) \o rest(on[c])]])
      now == [st EXCEPT !.one  = @ \o new,
                        !.live = (@ \cup Len(st.one) + 1 .. Len(st.one) + Len(new)) \ Struck(op),
                        !.cdel = @ \cup ToSet(op) \cup ToSet(on), !.again = TRUE]
  IN  [now EXCEPT !.live = @ \ Struck(Occurs(now, -i))]

Visit(st, i, vars) ==
  LET op == Occurs(st, i)
  IN  IF st.full \/ op = <<>> \/ Occurs(st, -i) = <<>> THEN st
      ELSE IF TooLarge(Len(st.one) + Len(op) * Len(op), vars) THEN [st EXCEPT !.full = TRUE]
      ELSE MergeOn(st, i)

\* A turn that merges makes the list longer, which ends the loop (TooLarge) before Cells of them.
MergedAfter(st, vars, n) ==
  LET round(s, turn) == IF ~s.again \/ s.full THEN s
                        ELSE Looped(LAMBDA t, i : Visit(t, i, vars), [s EXCEPT !.again = FALSE], vars)
  IN  Looped(round, [st EXCEPT !.again = TRUE], n)

Merged(st, vars) ==
  LET over(s) == ~s.again \/ s.full
  IN  MergedAfter(st, vars, CHOOSE n \in 0 .. Cells + 1 : n = Cells + 1 \/ over(MergedAfter(st, vars, n)))

-------------------------------------------------------------------------------
(* card_elimination: rows r stand for  r[1] x1 + ... + r[n] xn <= r[0].     *)
Count(c, x) == Cardinality({j \in DOMAIN c : c[j] = x})
AtMostOne(c, vars) == [v \in 0 .. vars |-> IF v = 0 THEN 1 - Cardinality({j \in DOMAIN c : c[j] < 0})
                                           ELSE Count(c, v) - Count(c, -v)]
AtLeastOne(c, vars) == LET r == AtMostOne(c, vars) IN [v \in DOMAIN r |-> -r[v]]

Terms(r) == {v \in DOMAIN r \ {0} : r[v] # 0}
Low(r)  == Looped(LAMBDA sum, v : IF r[v] < 0 THEN sum + r[v] ELSE sum, 0, Cardinality(DOMAIN r) - 1)
High(r) == Looped(LAMBDA sum, v : IF r[v] > 0 THEN sum + r[v] ELSE sum, 0, Cardinality(DOMAIN r) - 1)

\* check_card
Wrong(r)   == Low(r) > r[0]
Useless(r) == Cardinality(Terms(r)) <= 1 \/ High(r) <= r[0]

Combined(u, l, v) == [j \in DOMAIN u |-> u[j] * (-l[v]) + l[j] * u[v]]

\* The order of elimination, from the rows and their sizes at the start.
Ordered(mat, size, vars) ==
  LET upp(v) == {k \in DOMAIN mat : mat[k][v] > 0}
      low(v) == {k \in DOMAIN mat : mat[k][v] < 0}
      total(S) == Cardinality(UNION {{k} \X (1 .. size[k]) : k \in S})
      score1 == [v \in 1 .. vars |-> Cardinality(upp(v)) * Cardinality(low(v))]
      score2 == [v \in 1 .. vars |-> total(upp(v)) * total(low(v))]
      before(v, w) == \/ score1[v] < score1[w]
                      \/ score1[v] = score1[w] /\ score2[v] < score2[w]
                      \/ score1[v] = score1[w] /\ score2[v] = score2[w] /\ v < w
      place(v) == Cardinality({w \in 1 .. vars : before(w, v)})
  IN  [k \in 1 .. vars |-> CHOOSE v \in 1 .. vars : place(v) = k - 1]

\* mat: the rows not used up; made: all there have been.
Eliminate(st, v, vars) ==
  LET upp == Kept(st.mat, LAMBDA r : r[v] > 0)
      low == Kept(st.mat, LAMBDA r : r[v] < 0)
      new == Flat([u \in DOMAIN upp |-> [l \in DOMAIN low |-> Combined(upp[u], low[l], v)]])
      kept == Kept(new, LAMBDA r : ~Useless(r))
  IN  IF st.res # "open" THEN st
      ELSE IF TooLarge(st.made + Len(upp) * Len(low), vars) \/ st.made > Rows THEN [st EXCEPT !.res = "full"]
      ELSE IF \E k \in DOMAIN new : Wrong(new[k]) THEN [st EXCEPT !.res = "wrong"]
      ELSE [st EXCEPT !.mat = Kept(@, LAMBDA r : r[v] = 0) \o kept, !.made = @ + Len(kept)]

AfterElimination(mat, order, vars) ==
  Looped(LAMBDA st, k : Eliminate(st, order[k], vars), [mat |-> mat, made |-> Len(mat), res |-> "open"], Len(order))

card_elimination(one, cs, vars) ==
  LET mat  == Mapped(LAMBDA c : AtMostOne(c, vars), one) \o Mapped(LAMBDA c : AtLeastOne(c, vars), cs)
  IN  AfterElimination(mat, Ordered(mat, Mapped(Len, one \o cs), vars), vars).res # "wrong"

Refuted(scc, left, rest, vars) ==
  LET sz == Len(scc.one) + Len(rest)
  IN  /\ ~scc.full /\ left # <<>>
      /\ ~TooLarge(sz, vars) /\ sz <= Rows
      /\ ~card_elimination(left, rest, vars)

scc_almost_one(one, vars) ==
  Merged([one |-> one, live |-> DOMAIN one, cdel |-> {}, again |-> FALSE, full |-> FALSE], vars)

Survivors(scc) == Pick(scc.one, DOMAIN scc.one \ scc.cdel)
RefutedBy(scc, rest, vars) == Refuted(scc, Survivors(scc), rest, vars)

Tried(found, cs, vars) ==
  found.one # <<>> /\ RefutedBy(scc_almost_one(found.one, vars), Unused(cs, found.pairs), vars)
CardRefutes(cs, vars) == Tried(AlmostOne(cs, vars), cs, vars)
===============================================================================
