-------------------------------- MODULE Groups --------------------------------
(***************************************************************************)
(* seperate_groups (solve.cpp): the workers 1 .. n of the MPI job are split *)
(* into sharing groups, and each gets a solver and a mode by its rank.      *)
(* init_circular_transmission (sharer.cpp) lays a ring through each group.  *)
(***************************************************************************)
EXTENDS Integers

sat_procs(n)     == n \div 8
unsat_procs(n)   == n \div 4
maple_procs(n)   == n \div 8
default_procs(n) == n - sat_procs(n) - unsat_procs(n) - maple_procs(n) - 1

\* The last rank of each group but the fifth, which ends with n.
LastSat(n)   == sat_procs(n)
LastUnsat(n) == sat_procs(n) + unsat_procs(n)
LastMaple(n) == LastUnsat(n) + maple_procs(n)

sharing_groups(n) ==
  IF n > 8
  THEN { 1 .. LastSat(n), LastSat(n) + 1 .. LastUnsat(n), LastUnsat(n) + 1 .. LastMaple(n),
         {LastMaple(n) + 1}, LastMaple(n) + 2 .. n }
  ELSE { 1 .. n }

\* The last test that holds decides, as in the code.
solver_type(n, rank) ==
  IF n <= 8 THEN "MAPLE"
  ELSE IF rank = LastMaple(n) + 1 THEN "LGL"
  ELSE IF rank \in LastUnsat(n) + 1 .. LastMaple(n) THEN "MAPLE"
  ELSE "KISSAT"

worker_type(n, rank) ==
  IF n <= 8 THEN "UNSAT"
  ELSE IF rank \in LastMaple(n) + 2 .. n \/ rank = LastMaple(n) + 1 THEN "DEFAULT"
  ELSE IF rank \in LastUnsat(n) + 1 .. LastMaple(n) THEN "UNSAT"
  ELSE IF rank \in LastSat(n) + 1 .. LastUnsat(n) THEN "UNSAT"
  ELSE IF rank \in 1 .. LastSat(n) THEN "SAT"
  ELSE "unset"

\* The groups are intervals: the next place, or the first one after the last.
FirstOf(g) == CHOOSE x \in g : \A y \in g : x <= y
next_node(g, rank) == IF rank + 1 \in g THEN rank + 1 ELSE FirstOf(g)
===============================================================================
