------------------------------ MODULE DistSolve ------------------------------
(***************************************************************************)
(* One worker process of PRS-distributed: solve_worker and light::solve     *)
(* (solve.cpp).  Unlike PRS-thread a winner announces itself only after it  *)
(* has copied its model, and main does not join the solver threads before   *)
(* it reads result, winner_id and the winner's model.                       *)
(***************************************************************************)
EXTENDS Integers, FiniteSets

CONSTANTS N,       \* threads
          Verdict  \* what the solvers answer for the instance: 10 or 20

ASSUME NAssumption       == N \in Nat \ {0}
ASSUME VerdictAssumption == Verdict \in {10, 20}

Worker == 1 .. N
NoWinner == N + 1          \* the 1e9 of light's constructor: above every id

VARIABLES pc, stop, next,        \* as in ThreadSolve
          terminated, result, winner_id,
          model,                 \* per worker: "empty", "partial" or "complete"
          main, nextMain,
          taken,                 \* the state of main's own copy of a model
          published              \* what main returned: "none", "unknown", "unsat", or a model's state

vars == <<pc, stop, next, terminated, result, winner_id, model, main, nextMain, taken, published>>

Init == /\ pc = [w \in Worker |-> "unborn"]
        /\ stop = [w \in Worker |-> FALSE]
        /\ next = [w \in Worker |-> 0]
        /\ terminated = FALSE /\ result = 0 /\ winner_id = NoWinner
        /\ model = [w \in Worker |-> "empty"]
        /\ main = "watch" /\ nextMain = 0 /\ taken = "empty" /\ published = "none"

Go(w, to) == pc' = [pc EXCEPT ![w] = to]
Loop == IF terminated THEN "exit" ELSE "search"      \* while (!terminated)

Start(w) ==
  /\ pc[w] = "unborn" /\ Go(w, Loop)
  /\ UNCHANGED <<stop, next, terminated, result, winner_id, model, main, nextMain, taken, published>>

(* The solver returns an answer, or none when it has been told to stop. *)
SolverAnswers(w) ==
  /\ pc[w] = "search" /\ Go(w, "test") /\ stop' = [stop EXCEPT ![w] = FALSE]
  /\ UNCHANGED <<next, terminated, result, winner_id, model, main, nextMain, taken, published>>

SolverGivesUp(w) ==
  /\ pc[w] = "search" /\ stop[w] /\ Go(w, Loop) /\ stop' = [stop EXCEPT ![w] = FALSE]
  /\ UNCHANGED <<next, terminated, result, winner_id, model, main, nextMain, taken, published>>

TestAnnouncing(w) ==
  /\ pc[w] = "test" /\ Go(w, IF terminated THEN Loop ELSE "record")
  /\ terminated' = TRUE
  /\ UNCHANGED <<stop, next, result, winner_id, model, main, nextMain, taken, published>>

(* if (res && !terminated): an answer after the end is dropped. *)
Test(w) ==
  /\ pc[w] = "test" /\ Go(w, IF terminated THEN Loop ELSE "record")
  /\ UNCHANGED <<stop, next, terminated, result, winner_id, model, main, nextMain, taken, published>>

Record(w) ==
  /\ pc[w] = "record" /\ result' = Verdict /\ Go(w, "commit")
  /\ UNCHANGED <<stop, next, terminated, winner_id, model, main, nextMain, taken, published>>

(* update_winner under winner_mtx: the lowest id so far. *)
Commit(w) ==
  /\ pc[w] = "commit"
  /\ winner_id' = IF w < winner_id THEN w ELSE winner_id
  /\ Go(w, IF Verdict = 10 THEN "clear" ELSE "announce")
  /\ UNCHANGED <<stop, next, terminated, result, model, main, nextMain, taken, published>>

(* get_model: clear, push the values; not protected by a lock. *)
ClearModel(w) ==
  /\ pc[w] = "clear" /\ Go(w, "push") /\ model' = [model EXCEPT ![w] = "partial"]
  /\ UNCHANGED <<stop, next, terminated, result, winner_id, main, nextMain, taken, published>>

PushModel(w) ==
  /\ pc[w] = "push" /\ Go(w, "announce") /\ model' = [model EXCEPT ![w] = "complete"]
  /\ UNCHANGED <<stop, next, terminated, result, winner_id, main, nextMain, taken, published>>

AnnounceSilently(w) ==
  /\ pc[w] = "announce" /\ Go(w, "terminate")
  /\ next' = [next EXCEPT ![w] = 0]
  /\ UNCHANGED <<terminated, stop, result, winner_id, model, main, nextMain, taken, published>>

(* terminated = 1, then terminate_workers, one solver at a time. *)
Announce(w) ==
  /\ pc[w] = "announce" /\ Go(w, "terminate")
  /\ terminated' = TRUE
  /\ next' = [next EXCEPT ![w] = 0]
  /\ UNCHANGED <<stop, result, winner_id, model, main, nextMain, taken, published>>

LastTooLate(i) == i > N
LastOne(i) == i = N
Terminate(w) ==
  /\ pc[w] = "terminate"
  /\ IF LastOne(next[w])
     THEN Go(w, Loop) /\ UNCHANGED <<stop, next>>
     ELSE /\ next' = [next EXCEPT ![w] = @ + 1]
          /\ stop' = [stop EXCEPT ![next[w] + 1] = TRUE]
          /\ UNCHANGED pc
  /\ UNCHANGED <<terminated, result, winner_id, model, main, nextMain, taken, published>>

----------------------------------------------------------------------------
(* light::solve leaves its 0.5 s loop because a worker announced itself ... *)
SeeTerminated ==
  /\ main = "watch" /\ terminated /\ main' = "read"
  /\ UNCHANGED <<pc, stop, next, terminated, result, winner_id, model, nextMain, taken, published>>

(* ... or because the leader's TERMINATE or the cutoff has come.            *)
Interrupt ==
  /\ main = "watch" /\ terminated' = TRUE
  /\ main' = "terminate" /\ nextMain' = 0
  /\ UNCHANGED <<pc, stop, next, result, winner_id, model, taken, published>>

TerminateFromMain ==
  /\ main = "terminate"
  /\ IF LastOne(nextMain)
     THEN main' = "read" /\ UNCHANGED <<stop, nextMain>>
     ELSE /\ nextMain' = nextMain + 1
          /\ stop' = [stop EXCEPT ![nextMain + 1] = TRUE]
          /\ UNCHANGED main
  /\ UNCHANGED <<pc, next, terminated, result, winner_id, model, taken, published>>

(* if (result == 10): the winner's model is copied at the next step.        *)
ReadResult ==
  /\ main = "read" /\ main' = IF result = 10 THEN "copy" ELSE "return"
  /\ UNCHANGED <<pc, stop, next, terminated, result, winner_id, model, nextMain, taken, published>>

(* workers[winner_id]->model.copyTo(model): past the array when no thread   *)
(* has reached update_winner yet.                                           *)
CopyWinner ==
  /\ main = "copy" /\ main' = "return"
  /\ taken' = IF winner_id \in Worker THEN model[winner_id] ELSE "out of bounds"
  /\ UNCHANGED <<pc, stop, next, terminated, result, winner_id, model, nextMain, published>>

(* return result, read again: a thread that records 10 only after the first *)
(* read makes main return 10 with no model copied at all.                   *)
Return ==
  /\ main = "return" /\ main' = "done"
  /\ published' = CASE result = 10 -> taken
                    [] result = 20 -> "unsat"
                    [] OTHER       -> "unknown"
  /\ UNCHANGED <<pc, stop, next, terminated, result, winner_id, model, nextMain, taken>>

Done == main = "done" /\ UNCHANGED vars

WorkerStep(w) ==
  \/ Start(w) \/ Test(w) \/ Record(w) \/ Commit(w) \/ ClearModel(w) \/ PushModel(w)
  \/ Announce(w) \/ Terminate(w) \/ SolverGivesUp(w)
MainStep == SeeTerminated \/ Interrupt \/ TerminateFromMain \/ ReadResult \/ CopyWinner \/ Return

Next == (\E w \in Worker : WorkerStep(w) \/ SolverAnswers(w)) \/ MainStep \/ Done

Spec == Init /\ [][Next]_vars

----------------------------------------------------------------------------
TypeOK ==
  /\ pc \in [Worker -> {"unborn", "search", "test", "record", "commit", "clear", "push",
                        "announce", "terminate", "exit"}]
  /\ stop \in [Worker -> BOOLEAN] /\ next \in [Worker -> 0 .. N]
  /\ terminated \in BOOLEAN /\ result \in {0, Verdict} /\ winner_id \in 1 .. NoWinner
  /\ model \in [Worker -> {"empty", "partial", "complete"}]
  /\ main \in {"watch", "terminate", "read", "copy", "return", "done"} /\ nextMain \in 0 .. N
  /\ taken \in {"empty", "partial", "complete", "out of bounds"}
  /\ published \in {"none", "unknown", "unsat", "empty", "partial", "complete", "out of bounds"}

StopOnlyAfterTerminated == \A w \in Worker : stop[w] => terminated

(* The workers that have passed the test of terminated. *)
Claimants == {w \in Worker : \/ pc[w] \in {"record", "commit", "clear", "push", "announce", "terminate"}
                             \/ model[w] # "empty"}

(* leader.hpp: "received model size: pre->vars", the model a worker sends   *)
(* is that of all variables.                                                *)
PublishedModelComplete == published \notin {"empty", "partial", "out of bounds"}

(* It is, at least, when a single worker has claimed the victory and nothing *)
(* interrupted main: the order of solve_worker, model first and terminated   *)
(* after it, stands in for the join.                                         *)
SoleAnswerComplete ==
  main = "copy" /\ nextMain = 0 /\ Cardinality(Claimants) = 1 =>
    winner_id \in Worker /\ model[winner_id] = "complete"
==============================================================================
