----------------------------- MODULE ThreadSolve -----------------------------
(***************************************************************************)
(* PRS-thread without clause exchange between periods: solve_worker and     *)
(* light::solve (solve.cpp) in the mode --DCE=0, and in the mode --DCE=1    *)
(* with --clause_sharing=0, in which no solver has a period callback.       *)
(* A solver may answer or search for ever; told to stop, it returns without *)
(* an answer or with one that it found before it polled the flag.           *)
(***************************************************************************)
EXTENDS Integers, FiniteSets

CONSTANTS N,      \* nThreads
          DCE,    \* --DCE
          Verdict \* what the solvers answer for the instance: 10 or 20

ASSUME NAssumption       == N \in Nat \ {0}
ASSUME DCEAssumption     == DCE \in BOOLEAN
ASSUME VerdictAssumption == Verdict \in {10, 20}

Worker == 1 .. N
NoWinner == -1

VARIABLES pc, stop,              \* per worker: place in solve_worker, solver->terminate
          next,                  \* per worker: loop counter of terminate_workers
          terminated, result, winner_id,
          copied,                \* the workers that have left their answer behind, model and all
          main, nextMain         \* the main thread and its loop counter

vars == <<pc, stop, next, terminated, result, winner_id, copied, main, nextMain>>

WorkerPc == {"unborn", "search", "test", "claim", "terminate", "record", "commit",
             "copy", "exit"}

Init == /\ pc = [w \in Worker |-> "unborn"]
        /\ stop = [w \in Worker |-> FALSE]
        /\ next = [w \in Worker |-> 0]
        /\ terminated = FALSE /\ result = 0 /\ winner_id = NoWinner
        /\ copied = {}
        /\ main = "watch" /\ nextMain = 0

Go(w, to) == pc' = [pc EXCEPT ![w] = to]
Loop == IF terminated THEN "exit" ELSE "search"      \* while (!terminated)

Start(w) ==
  /\ pc[w] = "unborn" /\ Go(w, Loop)
  /\ UNCHANGED <<stop, next, terminated, result, winner_id, copied, main, nextMain>>

(* kissat_solve returns: 10 or 20, or 0 when it has been told to stop.  Its *)
(* stop_search clears the flag.                                             *)
SolverAnswers(w) ==
  /\ pc[w] = "search" /\ Go(w, "test")
  /\ stop' = [stop EXCEPT ![w] = FALSE]
  /\ UNCHANGED <<next, terminated, result, winner_id, copied, main, nextMain>>

SolverGivesUp(w) ==
  /\ pc[w] = "search" /\ stop[w] /\ Go(w, Loop)
  /\ stop' = [stop EXCEPT ![w] = FALSE]
  /\ UNCHANGED <<next, terminated, result, winner_id, copied, main, nextMain>>

(* if (res && !terminated): without DCE a late answer is dropped.  The test *)
(* and the assignment are apart, so two workers may both pass.              *)
LateDropped == ~DCE /\ terminated
Test(w) ==
  /\ pc[w] = "test" /\ Go(w, IF LateDropped THEN Loop ELSE "claim")
  /\ UNCHANGED <<stop, next, terminated, result, winner_id, copied, main, nextMain>>

ClaimUnannounced(w) ==
  /\ pc[w] = "claim" /\ Go(w, IF DCE THEN "record" ELSE "terminate")
  /\ next' = [next EXCEPT ![w] = 0]
  /\ UNCHANGED <<terminated, stop, result, winner_id, copied, main, nextMain>>

Claim(w) ==
  /\ pc[w] = "claim" /\ Go(w, IF DCE THEN "record" ELSE "terminate")
  /\ terminated' = TRUE
  /\ next' = [next EXCEPT ![w] = 0]
  /\ UNCHANGED <<stop, result, winner_id, copied, main, nextMain>>

(* terminate_workers by a worker: one solver's flag at a time. *)
LastTooLate(i) == i > N
LastTooSoon(i) == i = N - 1
LastOne(i) == i = N
Terminate(w) ==
  /\ pc[w] = "terminate"
  /\ IF LastOne(next[w])
     THEN Go(w, "record") /\ UNCHANGED <<stop, next>>
     ELSE /\ next' = [next EXCEPT ![w] = @ + 1]
          /\ stop' = [stop EXCEPT ![next[w] + 1] = TRUE]
          /\ UNCHANGED pc
  /\ UNCHANGED <<terminated, result, winner_id, copied, main, nextMain>>

Record(w) ==
  /\ pc[w] = "record" /\ Go(w, "commit")
  /\ result' = Verdict
  /\ UNCHANGED <<stop, next, terminated, winner_id, copied, main, nextMain>>

(* update_winner(id, 0) under winner_mtx: the periods are equal, the lowest id wins. *)
Commit(w) ==
  /\ pc[w] = "commit" /\ Go(w, "copy")
  /\ winner_id' = IF winner_id = NoWinner \/ w < winner_id THEN w ELSE winner_id
  /\ UNCHANGED <<stop, next, terminated, result, copied, main, nextMain>>

Copy(w) ==
  /\ pc[w] = "copy" /\ Go(w, Loop)
  /\ copied' = copied \cup {w}
  /\ UNCHANGED <<stop, next, terminated, result, winner_id, main, nextMain>>

----------------------------------------------------------------------------
(* light::solve: a worker's answer or the cutoff ends the 0.1 s loop. *)
SeeTerminated ==
  /\ main = "watch" /\ terminated /\ main' = "join" /\ nextMain' = 0
  /\ UNCHANGED <<pc, stop, next, terminated, result, winner_id, copied>>

Cutoff ==
  /\ main = "watch" /\ main' = "terminate" /\ nextMain' = 0
  /\ terminated' = TRUE
  /\ UNCHANGED <<pc, stop, next, result, winner_id, copied>>

TerminateFromMain ==
  /\ main = "terminate"
  /\ IF LastOne(nextMain)
     THEN main' = "join" /\ nextMain' = 0 /\ UNCHANGED stop
     ELSE /\ nextMain' = nextMain + 1
          /\ stop' = [stop EXCEPT ![nextMain + 1] = TRUE]
          /\ UNCHANGED main
  /\ UNCHANGED <<pc, next, terminated, result, winner_id, copied>>

JoinedAlways(w) == TRUE
Joined(w) == pc[w] = "exit"
Join ==
  /\ main = "join" /\ Joined(nextMain + 1)
  /\ nextMain' = nextMain + 1
  /\ main' = IF nextMain + 1 = N THEN "done" ELSE "join"
  /\ UNCHANGED <<pc, stop, next, terminated, result, winner_id, copied>>

Done == main = "done" /\ UNCHANGED vars

WorkerStep(w) == \/ Start(w) \/ Test(w) \/ Claim(w) \/ Terminate(w)
                 \/ Record(w) \/ Commit(w) \/ Copy(w) \/ SolverGivesUp(w)
MainStep == SeeTerminated \/ Cutoff \/ TerminateFromMain \/ Join

Next == (\E w \in Worker : WorkerStep(w) \/ SolverAnswers(w)) \/ MainStep \/ Done

Spec == Init /\ [][Next]_vars

(* Threads run, the clock runs, a flagged solver polls its flag; no search  *)
(* need ever answer.                                                        *)
FairSpec == Spec /\ (\A w \in Worker : WF_vars(WorkerStep(w))) /\ WF_vars(MainStep)

----------------------------------------------------------------------------
TypeOK == /\ pc \in [Worker -> WorkerPc] /\ stop \in [Worker -> BOOLEAN]
          /\ next \in [Worker -> 0 .. N] /\ terminated \in BOOLEAN
          /\ result \in {0, Verdict} /\ winner_id \in Worker \cup {NoWinner}
          /\ copied \subseteq Worker
          /\ main \in {"watch", "terminate", "join", "done"} /\ nextMain \in 0 .. N

(* As in the exchange: a solver told to stop too early would be started a   *)
(* second time, which kissat refuses by aborting the process.               *)
StopOnlyAfterTerminated == \A w \in Worker : pc[w] = "search" /\ stop[w] => terminated

(* What main publishes is the answer of a worker that has copied its model, *)
(* although several workers may claim the victory at once.                  *)
Outcome == IF main # "done" THEN 0 ELSE IF result = 0 THEN -1 ELSE winner_id
Abstract == INSTANCE Portfolio WITH Participant <- Worker, complete <- copied, outcome <- Outcome
ImplementsPortfolio == Abstract!Spec

(* UNKNOWN is printed only if no worker has a recorded answer, and then no  *)
(* thread is left that could still record one.                              *)
NoAnswerLost == main = "done" /\ result = 0 => copied = {} /\ \A w \in Worker : pc[w] = "exit"

(* README: "cutoff: the wall time for SAT solving": the run ends. *)
CutoffEndsRun == <>(main = "done")
==============================================================================
