----------------------------- MODULE MCPreprocess -----------------------------
(***************************************************************************)
(* Formulas for Preprocess: subsets of a list of clauses, in its order;     *)
(* xor constraints; circuits.                                               *)
(***************************************************************************)
EXTENDS Preprocess

SubFormulas(n, pool, S) == {[vars |-> n, clause |-> Pick(pool, I)] : I \in S}

\* All two-literal clauses over three variables.
Binary3 == << <<1,3>>, <<1,-3>>, <<2,3>>, <<2,-3>>, <<1,2>>, <<-1,-2>>,
              <<1,-2>>, <<-1,2>>, <<-1,3>>, <<-1,-3>>, <<-2,3>>, <<-2,-3>> >>

\* As they may stand in a file: units, repeated literals, tautologies; classes of more than two.
Mixed4 == << <<2,2,-3>>, <<3,-3>>, <<1,-2>>, <<-1,2>>, <<2,-3>>, <<-2,3>>, <<3,4>>, <<-3,-4>>,
             <<1,3,4>>, <<-1,-3,-4>>, <<4>> >>

\* All nine together are refuted by at-most-one constraints.
Card5 == << <<-5,-3>>, <<-5,1>>, <<-3,1>>, <<-4,1>>, <<-4,-1>>, <<-2,4>>, <<-2,-1>>, <<4,-1>>, <<5,3,2>> >>

\* x + y + z = r, and the same with a clause missing or with all of them twice.
XorClauses(x, y, z, r) == IF r = 1 THEN << <<x,y,z>>, <<x,-y,-z>>, <<-x,y,-z>>, <<-x,-y,z>> >>
                          ELSE << <<-x,y,z>>, <<x,-y,z>>, <<x,y,-z>>, <<-x,-y,-z>> >>
AnyXor(x, y, z) == {<<>>} \cup {XorClauses(x, y, z, r) : r \in 0 .. 1}
OddXor == {XorClauses(1, 2, 3, 0) \o XorClauses(1, 2, 3, 1), SubSeq(XorClauses(1, 2, 3, 0), 1, 3),
           XorClauses(1, 2, 3, 0) \o XorClauses(1, 2, 3, 0)}
Xors == {[vars |-> 4, clause |-> a \o c \o d \o e] :
           a \in AnyXor(1, 2, 3) \cup OddXor, c \in AnyXor(2, 3, 4), d \in AnyXor(1, 2, 4),
           e \in {<<>>, XorClauses(1, 3, 4, 1)}}

\* Two gates or three with their values, and what may stand beside them.
And(o, p, q) == << <<-o,p>>, <<-o,q>>, <<o,-p,-q>> >>
Equal(x, y) == << <<x,-y>>, <<-x,y>> >>
Gate4 == {And(4, 1, 2), And(4, -1, 3), And(4, 5, 1), XorClauses(1, 2, 4, 0), XorClauses(1, 2, 4, 1)}
Gate5 == {And(5, 1, 2), And(5, -1, -2), And(5, 4, 3), XorClauses(2, 3, 5, 0), XorClauses(3, 4, 5, 1)}
Beside == {<<>>, Equal(1, 3), Equal(1, -3), And(6, 1, 5), And(3, 1, 6) \o << <<3>> >>, << <<1>> >>, << <<-3>>, <<3>> >>, << <<6>> >>}
Circuits == {[vars |-> 6, clause |-> g \o h \o s \o v] :
               g \in Gate4, h \in Gate5, s \in Beside, v \in {<< <<x>>, <<y>> >> : x \in {4, -4}, y \in {5, -5}}}

\* At most k of the n clauses of a list.
UpTo(k, n) == UNION {kSubset(i, 1 .. n) : i \in 0 .. k}

MCFormulas == SubFormulas(3, Binary3, UpTo(5, 12) \cup SUBSET (1 .. 7)) \cup SubFormulas(4, Mixed4, UpTo(5, 11) \cup {1 .. 11})
              \cup SubFormulas(5, Card5, SUBSET (1 .. 9)) \cup Xors \cup Circuits

\* Values for two variables first, their equivalence afterwards.
Overwriting == SubFormulas(3, Binary3, SUBSET (1 .. 7))
===============================================================================
