------------------------------ MODULE Portfolio ------------------------------
(***************************************************************************)
(* What a portfolio of solvers promises, whatever runs it: the answer it    *)
(* publishes is that of a participant whose answer is complete (for a       *)
(* satisfiable instance: whose model has been copied to the last value).    *)
(***************************************************************************)
EXTENDS Integers

CONSTANTS Participant      \* numbers other than those of Running and Unknown

VARIABLES complete,        \* the participants whose answer is complete
          outcome          \* Running, Unknown or the participant whose answer is published

Running == 0
Unknown == -1

Init == complete = {} /\ outcome = Running

Complete(p) == outcome = Running /\ complete' = complete \cup {p} /\ UNCHANGED outcome
Publish(p)  == outcome = Running /\ p \in complete /\ outcome' = p /\ UNCHANGED complete
GiveUp      == outcome = Running /\ outcome' = Unknown /\ UNCHANGED complete

Next == (\E p \in Participant : Complete(p) \/ Publish(p)) \/ GiveUp

Spec == Init /\ [][Next]_<<complete, outcome>>

(* A published answer is complete. *)
Sound == outcome \in Participant => outcome \in complete
==============================================================================
