-------------------------------- MODULE MCDce --------------------------------
(***************************************************************************)
(* Instances of the clause exchange with three workers.  StartedSpec: all  *)
(* threads have entered solve_worker before the first of them ends its     *)
(* search.  OneAnswerSpec: threads start at any time, worker N answers in   *)
(* its first period and the others on their own never do.                   *)
(***************************************************************************)
EXTENDS Dce

CONSTANT Fates     \* the periods a search may end in, a subset of Period \cup {Never}

StartedInit == /\ fate \in [Worker -> Fates]
               /\ pc = [w \in Worker |-> "search"]
               /\ Fresh

StartedSpec == StartedInit /\ [][Next]_vars

OneAnswerInit == Init /\ fate = [w \in Worker |-> IF w = N THEN 0 ELSE Never]

OneAnswerSpec == OneAnswerInit /\ [][Next]_vars /\ Fairness
==============================================================================
