---------------------------- MODULE MCClauseRelay ----------------------------
(***************************************************************************)
(* Instances of ClauseRelay: a group of four with the trees that srand(17)  *)
(* and glibc's rand lay out for it, and the solvers that learn something.   *)
(***************************************************************************)
EXTENDS ClauseRelay

GlibcOrder == <<<<1, 3, 2, 4>>, <<2, 4, 3, 1>>, <<3, 2, 1, 4>>, <<4, 2, 3, 1>>>>

CONSTANTS c1, c2

(* Workers 1 and 3 learn the same clause: on the trees above each cuts the  *)
(* other's branch to worker 4.  A second clause is learnt by another thread *)
(* of 1.                                                                    *)
MixedLearners == [c \in Clause |-> IF c = c1 THEN {<<1, 1>>, <<3, 1>>} ELSE {<<1, T>>}]
==============================================================================
