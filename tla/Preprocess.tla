------------------------------ MODULE Preprocess ------------------------------
(***************************************************************************)
(* do_preprocess: unit propagation, cardinality reasoning, resolution and   *)
(* binary implications; then the solvers' answer for what is left, and      *)
(* get_complete_model.  PRS-thread looks for a circuit and for xors before; *)
(* the other passes are the same in both.  The passes that are skipped for  *)
(* more than 1e5 variables (preprocess.cpp 181) always run here.            *)
(***************************************************************************)
EXTENDS Circuit, Gauss, Card

CONSTANT Formulas     \* the inputs: records [vars, clause]

ASSUME FormulasAssumption ==
  \A f \in Formulas : f.vars \in Nat /\ f.clause \in Seq(Seq(Literals(f.vars)))

VARIABLES pc, input,
          clause, vars,                 \* the current formula
          mapto, mapval, mapfrom,       \* per variable of the input; mapfrom per current one
          res_clause, resolution,       \* what preprocess_resolution took away
          b,                            \* what preprocess_binary works on
          answer

pre_vars == <<clause, vars, mapto, mapval, mapfrom, res_clause, resolution>>
all_vars == <<pc, input, pre_vars, b, answer>>

Eliminated == -10                       \* mapval of a variable resolved away
OriVars == 1 .. input.vars

Idle == [live |-> {}, root |-> <<>>, varval |-> <<>>, hash |-> <<>>, nxtc |-> <<>>,
         simplify |-> FALSE, conflict |-> FALSE, overwritten |-> FALSE]

Init == /\ pc \in {"circuit", "up"}       \* PRS-thread, PRS-distributed
        /\ input \in Formulas /\ answer = "none"
        /\ clause = input.clause /\ vars = input.vars
        /\ mapto = [v \in OriVars |-> v] /\ mapval = [v \in OriVars |-> 0] /\ mapfrom = <<>>
        /\ res_clause = <<>> /\ resolution = <<>> /\ b = Idle

Unsat == pc' = "done" /\ answer' = "UNSAT" /\ UNCHANGED <<input, pre_vars, b>>
Goto(to) == pc' = to /\ UNCHANGED <<input, answer>>

\* The program ends without an answer, on an assertion or an unset pointer.
Abort == pc' = "aborted" /\ UNCHANGED <<input, pre_vars, b, answer>>

-------------------------------------------------------------------------------
(* The passes of PRS-thread.  What the simulation of a circuit answers is   *)
(* printed as it is, a model too: nothing follows it.                       *)
preprocess_circuit ==
  /\ pc = "circuit"
  /\ \E found \in CircuitAnswers(clause, vars) :
       CASE found.res = "open"  -> Goto("gauss") /\ UNCHANGED <<pre_vars, b>>
         [] found.res = "abort" -> Abort
         [] OTHER               -> /\ mapval' = IF found.res = "SAT" THEN found.model ELSE mapval
                                   /\ pc' = "simulated" /\ answer' = found.res
                                   /\ UNCHANGED <<input, clause, vars, mapto, mapfrom, res_clause, resolution, b>>

preprocess_gauss ==
  LET found == GaussResult(clause, vars)
  IN  /\ pc = "gauss"
      /\ CASE found.res = "UNSAT" -> Unsat
           [] found.res = "abort" -> Abort
           [] found.res = "open"  -> /\ clause' = found.clause /\ Goto("up")
                                     /\ UNCHANGED <<vars, mapto, mapval, mapfrom, res_clause, resolution, b>>

preprocess_card ==
  /\ pc = "card"
  /\ IF CardRefutes(clause, vars) THEN Unsat ELSE Goto("resolution") /\ UNCHANGED <<pre_vars, b>>

-------------------------------------------------------------------------------
(* preprocess_up *)
Entered(cs) == Kept(Mapped(Distinct, cs), LAMBDA c : ~Tautology(c))

Reduced(c, T) == Kept(c, LAMBDA l : -l \notin T)
Contradicts(cs, T) == \/ \E i \in DOMAIN cs : Reduced(cs[i], T) = <<>>
                      \/ \E l \in T : -l \in T
Units(cs, T) == {Reduced(cs[i], T)[1] : i \in {i \in DOMAIN cs : Len(Reduced(cs[i], T)) = 1}}

\* A turn finds a literal or is the last; a contradiction stays one in the turns that follow.
Propagated(cs, n) == Looped(LAMBDA T, turn : T \cup Units(cs, T), {}, 2 * n)
Remaining(cs, T) == Mapped(LAMBDA c : Reduced(c, T), Kept(cs, LAMBDA c : ToSet(c) \cap T = {}))

preprocess_up ==
  LET read  == Entered(clause)
      T     == Propagated(read, vars)
      left  == Remaining(read, T)
      color == Color(left, OriVars)
  IN  /\ pc = "up"
      /\ IF Contradicts(read, T) THEN Unsat
         ELSE /\ clause' = Relabel(left, color) /\ vars' = Len(Order(left))
              /\ mapto' = color /\ mapfrom' = Order(left)
              /\ mapval' = [v \in OriVars |-> CASE v \in T        -> 1
                                                [] -v \in T       -> -1
                                                [] color[v] # 0   -> 0
                                                [] OTHER          -> 1]    \* no use var
              /\ Goto("card") /\ UNCHANGED <<res_clause, resolution, b>>

-------------------------------------------------------------------------------
(* preprocess_resolution: a round takes away the variables whose resolvents *)
(* with the clauses that are left are all tautologies; the next round looks *)
(* again at the variables of the clauses that went with them.               *)
Occ(S, l) == {i \in S : l \in ToSet(clause[i])}

ResolventsAll(S, x) ==
  \A i \in Occ(S, x), j \in Occ(S, -x) : \E l \in ToSet(clause[i]) : -l \in ToSet(clause[j])

res_is_empty(S, x) ==
  \A i \in Occ(S, x), j \in Occ(S, -x) :
     \E l \in ToSet(clause[i]) : Abs(l) # x /\ -l \in ToSet(clause[j])

Removable(S, x) == LET op == Cardinality(Occ(S, x))   on == Cardinality(Occ(S, -x))
                   IN  op * on <= op + on /\ res_is_empty(S, x)

Without(q) == {i \in DOMAIN clause : VarsOf(clause[i]) \cap ToSet(q) = {}}

Touched(round) ==
  LET around(x) == Pick(clause, Occ(DOMAIN clause, x)) \o Pick(clause, Occ(DOMAIN clause, -x))
  IN  Order(Flat(Mapped(around, round)))

\* st.q: taken away so far; st.round: the variables the next round takes away.
Round(st) ==
  LET all == st.q \o st.round
  IN  [q |-> all, round |-> Kept(Touched(st.round), LAMBDA v : v \notin ToSet(all) /\ Removable(Without(all), v))]

\* A round takes away a variable or is the last.
Queue ==
  LET first == [q |-> <<>>, round |-> Ascending({v \in 1 .. vars : Removable(DOMAIN clause, v)}, vars)]
  IN  Looped(LAMBDA st, turn : Round(st), first, vars + 1).q

preprocess_resolution ==
  LET q     == Queue
      gone  == DOMAIN clause \ Without(q)
      left  == Pick(clause, Without(q))
      color == Color(left, 1 .. vars)
      names == Mapped(LAMBDA v : mapfrom[v], q)
  IN  /\ pc = "resolution" /\ Goto("binary")
      /\ res_clause' = Relabel(Pick(clause, gone), mapfrom) /\ resolution' = names
      /\ clause' = Relabel(left, color) /\ vars' = Len(Order(left))
      /\ mapto' = [v \in OriVars |-> IF mapto[v] = 0 \/ v \in ToSet(names) THEN 0 ELSE color[mapto[v]]]
      /\ mapval' = [v \in OriVars |-> IF v \in ToSet(names) THEN Eliminated ELSE mapval[v]]
      /\ UNCHANGED <<mapfrom, b>>
-------------------------------------------------------------------------------
(* preprocess_binary.  root[v] is the literal of the class's root that v    *)
(* equals (f and val after find), hash the table of two-literal clauses.    *)
Keys == {{x, y} : x, y \in Literals(vars)}
Insert(hash, c, i) == [hash EXCEPT ![ToSet(c)] = i]
Twos == Ascending({i \in DOMAIN clause : Len(clause[i]) = 2}, Len(clause))
Root(s, l) == pnsign(l) * s.root[Abs(l)]

BinaryStart ==
  /\ pc = "binary" /\ Goto("pairs")
  /\ b' = [Idle EXCEPT !.live = DOMAIN clause,
                       !.root = [v \in 1 .. vars |-> v], !.varval = [v \in 1 .. vars |-> 0],
                       !.nxtc = Twos,
                       !.hash = Looped(LAMBDA h, k : Insert(h, clause[Twos[k]], Twos[k]), [key \in Keys |-> 0], Len(Twos))]
  /\ UNCHANGED pre_vars

Drop(s, S) == [s EXCEPT !.live = @ \ S, !.simplify = TRUE]

(* (x or y) and (not x or not y): x = -y.  The smaller root goes below the  *)
(* larger one, and its value, if it has one, becomes the larger one's.      *)
Join(s, lo, hi) ==           \* root literals with lo = -hi, lo's variable the smaller
  LET below == -pnsign(lo) * hi
      given == s.varval[Abs(lo)] * pnsign(below)
  IN  [s EXCEPT !.root = [v \in DOMAIN @ |-> IF Abs(@[v]) = Abs(lo) THEN pnsign(@[v] * lo) * (-hi) ELSE @[v]],
                !.varval[Abs(hi)] = IF given # 0 THEN given ELSE @,
                !.overwritten = @ \/ given * s.varval[Abs(hi)] = -1]

Merge(s, i, r) ==
  LET x == Root(s, clause[i][1])   y == Root(s, clause[i][2])
  IN  IF x = -y THEN Drop(s, {i, r})
      ELSE IF x = y THEN [s EXCEPT !.conflict = TRUE]
      ELSE IF Abs(x) < Abs(y) THEN Join(Drop(s, {i, r}), x, y)
      ELSE Join(Drop(s, {i, r}), y, x)

Unit(s, i, d, l) ==
  IF Value(s.varval, l) = -1 THEN [s EXCEPT !.conflict = TRUE]
  ELSE [Drop(s, {i, d}) EXCEPT !.varval[Abs(l)] = pnsign(l)]

PairUp(s, i) ==
  LET x  == clause[i][1]   y == clause[i][2]
      r  == s.hash[{-x, -y}]   d1 == s.hash[{x, -y}]   d2 == s.hash[{-x, y}]
      s0 == IF r = 0 THEN s ELSE Merge(s, i, r)
      s1 == IF d1 = 0 \/ s0.conflict THEN s0 ELSE Unit(s0, i, d1, x)
      s2 == IF d2 = 0 \/ s1.conflict THEN s1 ELSE Unit(s1, i, d2, y)
  IN  IF i \notin s.live \/ s.conflict THEN s ELSE s2

\* A value of one member is a value of its whole class.
Spread(s) ==
  LET Class(v) == {w \in DOMAIN s.root : Abs(s.root[w]) = Abs(s.root[v])}
      said(v)  == {s.varval[w] * pnsign(s.root[w] * s.root[v]) : w \in Class(v)} \ {0}
  IN  IF \E v \in DOMAIN s.root : {-1, 1} \subseteq said(v) THEN [s EXCEPT !.conflict = TRUE]
      ELSE [s EXCEPT !.varval = [v \in DOMAIN @ |-> IF said(v) = {} THEN 0 ELSE CHOOSE x \in said(v) : TRUE]]

Pairs ==
  LET s == Spread(Looped(LAMBDA t, k : PairUp(t, b.nxtc[k]), [b EXCEPT !.simplify = FALSE], Len(b.nxtc)))
  IN  /\ pc = "pairs"
      /\ IF s.conflict THEN Unsat
         ELSE b' = [s EXCEPT !.nxtc = <<>>] /\ Goto("rewrite") /\ UNCHANGED pre_vars

StrikeLater(live, i) == live
Strike(live, i) == live \ {i}

(* The clauses in terms of the roots and of the values so far; a clause of  *)
(* one literal gives a value at once, a new one of two goes to the next     *)
(* turn.  t.cs is clause as it is being rewritten.                          *)
RewriteOne(t, i) ==
  LET s     == t.s
      kept  == Kept(Mapped(LAMBDA l : Root(s, l), clause[i]), LAMBDA l : Value(s.varval, l) # -1)
      c     == Distinct(kept)
      gone  == Tautology(c) \/ \E l \in ToSet(c) : Value(s.varval, l) = 1
      less  == gone \/ Len(c) < Len(clause[i]) \/ Len(c) = 1
      new   == ~gone /\ Len(c) = 2 /\ ToSet(c) # ToSet(clause[i])
  IN  IF i \notin s.live \/ s.conflict THEN t
      ELSE IF c = <<>> THEN [t EXCEPT !.s.conflict = TRUE]
      ELSE [cs |-> [t.cs EXCEPT ![i] = c],
            s  |-> [s EXCEPT !.live = IF gone THEN Strike(@, i) ELSE @,
                             !.simplify = @ \/ less,
                             !.varval = IF Len(c) = 1 THEN [@ EXCEPT ![Abs(c[1])] = pnsign(c[1])] ELSE @,
                             !.nxtc = IF new THEN Append(@, i) ELSE @,
                             !.hash = IF new THEN Insert(@, c, i) ELSE @]]

Rewrite ==
  LET t == Looped(RewriteOne, [cs |-> clause, s |-> b], Len(clause))
      s == Spread(t.s)
  IN  /\ pc = "rewrite"
      /\ IF s.conflict \/ t.s.conflict THEN Unsat
         ELSE /\ b' = s /\ clause' = t.cs
              /\ Goto(IF s.simplify THEN "pairs" ELSE "labels")
              /\ UNCHANGED <<vars, mapto, mapval, mapfrom, res_clause, resolution>>

(* The sign of v in its class, and the value of v if no clause mentions it. *)
SignOf(v) == pnsign(b.root[mapto[v]])
LeftoverUnset(v) == 0
Leftover(v) == SignOf(v)

BinaryEnd ==
  LET left   == Pick(clause, b.live)
      color  == Color(left, 1 .. vars)
      open   == {v \in OriVars : mapval[v] = 0}
      valued(v) == b.varval[mapto[v]] # 0
      class(v)  == color[Abs(b.root[mapto[v]])]
  IN  /\ pc = "labels" /\ Goto("solve")
      /\ clause' = Relabel(left, color) /\ vars' = Len(Order(left))
      /\ mapval' = [v \in OriVars |-> IF v \notin open THEN mapval[v]
                                      ELSE IF valued(v) THEN b.varval[mapto[v]]
                                      ELSE IF class(v) # 0 THEN 0 ELSE Leftover(v)]
      /\ mapto' = [v \in OriVars |-> IF v \in open THEN IF valued(v) THEN 0 ELSE class(v) * SignOf(v)
                                     ELSE mapto[v]]
      /\ UNCHANGED <<mapfrom, res_clause, resolution, b>>

-------------------------------------------------------------------------------
(* The answer for the remaining formula, from any solver: received by the   *)
(* leader of PRS-distributed, main's own in PRS-thread (solve.cpp 169-172).  *)
Solve ==
  /\ pc = "solve"
  /\ IF Models(clause, 1 .. vars) = {} THEN Unsat
     ELSE \E sol \in Models(clause, 1 .. vars) :
            /\ mapval' = [v \in OriVars |-> IF mapto[v] # 0 THEN Value(sol, mapto[v]) ELSE mapval[v]]
            /\ Goto("complete")
            /\ UNCHANGED <<clause, vars, mapto, mapfrom, res_clause, resolution, b>>

(* get_complete_model: the variables resolved away get a value in reverse   *)
(* order, 1 if no clause needs the opposite, else -1 likewise, else none.   *)
Needs(val, l) == \E i \in DOMAIN res_clause :
                    /\ l \in ToSet(res_clause[i]) /\ ~Satisfies(val, res_clause[i])
                    /\ Cardinality({x \in ToSet(res_clause[i]) : val[Abs(x)] = 0}) <= 1
Assign(val, v) == [val EXCEPT ![v] = IF ~Needs(val, -v) THEN 1 ELSE IF ~Needs(val, v) THEN -1 ELSE 0]

Uncompleted == [v \in OriVars |-> IF mapval[v] = Eliminated THEN 0 ELSE mapval[v]]
CompleteForward(val) == Looped(LAMBDA now, k : Assign(now, resolution[k]), val, Len(resolution))
Completed(val) == Looped(LAMBDA now, k : Assign(now, resolution[Len(resolution) + 1 - k]), val, Len(resolution))

get_complete_model ==
  /\ pc = "complete" /\ pc' = "done" /\ answer' = "SAT"
  /\ mapval' = Completed(Uncompleted)
  /\ UNCHANGED <<input, clause, vars, mapto, mapfrom, res_clause, resolution, b>>

Done == pc \in {"done", "simulated", "aborted"} /\ UNCHANGED all_vars

Next == \/ preprocess_circuit \/ preprocess_gauss \/ preprocess_up \/ preprocess_card \/ preprocess_resolution
        \/ BinaryStart \/ Pairs \/ Rewrite \/ BinaryEnd
        \/ Solve \/ get_complete_model \/ Done

Spec == Init /\ [][Next]_all_vars

\* PRS-distributed alone.
DistributedSpec == Init /\ pc = "up" /\ [][Next]_all_vars

-------------------------------------------------------------------------------
Simplified(cs) == \A i \in DOMAIN cs : /\ Len(cs[i]) >= 2 /\ ToSet(cs[i]) \subseteq Literals(vars)
                                       /\ Distinct(cs[i]) = cs[i] /\ ~Tautology(cs[i])

(* Types; between the passes every clause has two literals or more, all     *)
(* different, and its variables are numbered without gaps.                  *)
TypeOK ==
  /\ pc \in {"circuit", "gauss", "up", "card", "resolution", "binary", "pairs", "rewrite", "labels", "solve", "complete",
            "done", "simulated", "aborted"}
  /\ answer \in {"none", "SAT", "UNSAT"}
  /\ vars \in 0 .. input.vars
  /\ DOMAIN mapto = OriVars /\ \A v \in OriVars : mapto[v] \in Literals(vars) \cup {0}
  /\ DOMAIN mapval = OriVars /\ \A v \in OriVars : mapval[v] \in {-1, 0, 1, Eliminated}
  /\ ToSet(mapfrom) \subseteq OriVars /\ ToSet(resolution) \subseteq OriVars
  /\ pc \in {"card", "resolution", "binary", "solve"} => Simplified(clause)

(* What is left at any moment, with the classes and values that             *)
(* preprocess_binary has taken out of it, has a model exactly if the input  *)
(* has one: the deletions of clauses and variables are all paid for.  Where *)
(* a merge has overwritten a value this is not so (PrintedAnswerRight).     *)
Left == {val \in [1 .. vars -> {-1, 1}] :
           IF pc \in {"pairs", "rewrite", "labels"}
           THEN /\ \A i \in b.live : Satisfies(val, clause[i])
                /\ \A v \in 1 .. vars : /\ val[v] = Value(val, b.root[v])
                                        /\ b.varval[v] \in {0, val[v]}
           ELSE \A i \in DOMAIN clause : Satisfies(val, clause[i])}
InputModels == Models(input.clause, OriVars)
SatisfiabilityKept ==
  pc \notin {"complete", "done", "simulated", "aborted"} /\ ~b.overwritten => (Left = {} <=> InputModels = {})

(* Before the solvers start every variable of the input is exactly one of:  *)
(* a literal of a current variable, fixed, or waiting for                   *)
(* get_complete_model, which finds it in resolution.                        *)
EveryVariableAccounted ==
  pc = "solve" =>
    /\ \A v \in OriVars :
         \/ mapto[v] # 0 /\ mapval[v] = 0
         \/ mapto[v] = 0 /\ mapval[v] \in {-1, 1}
         \/ mapto[v] = 0 /\ mapval[v] = Eliminated /\ v \in ToSet(resolution)
    /\ \A x \in 1 .. vars : \E v \in OriVars : Abs(mapto[v]) = x

(* The answer is right whichever model the solvers find for what is left:   *)
(* the completed model gives every variable a value and satisfies every     *)
(* clause that was read.  Two things are left out.  Where a merge has       *)
(* overwritten a value the answer may be wrong.  An answer that the         *)
(* simulation of a circuit gave is about the formula only if cnf2aig read   *)
(* that formula faithfully; a formula that the circuit pass hands on is     *)
(* never left out, nor is any of PRS-distributed, which has no such pass.   *)
Right == /\ answer = "SAT"   => mapval \in InputModels
         /\ answer = "UNSAT" => InputModels = {}
AnswerRight == Right \/ b.overwritten \/ (pc = "simulated" /\ ~ReadAsWritten(input.clause, input.vars))

(* "s SATISFIABLE" and "s UNSATISFIABLE" are said of the input, always.     *)
PrintedAnswerRight == Right

(* What preprocess_binary works on: the clauses, each with the places of    *)
(* its literals, and the variables without a value.  It is finite, no step  *)
(* adds to it and a step that sets simplify, for which another turn is      *)
(* taken, removes something: the loop ends.                                 *)
Pending == (UNION {{i} \X (0 .. Len(clause[i])) : i \in b.live}) \cup ({0} \X {v \in DOMAIN b.varval : b.varval[v] = 0})
InTurn == pc \in {"pairs", "rewrite"} /\ pc' # "done"
TurnsShrink ==
  [][InTurn => /\ Pending' \subseteq Pending
               /\ b'.simplify /\ (pc = "pairs" \/ ~b.simplify) => Pending' # Pending]_all_vars
===============================================================================
