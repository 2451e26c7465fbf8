--------------------------- MODULE DistSolveProofs ---------------------------
(***************************************************************************)
(* The race inside one MPI worker, for any number of threads: types, no     *)
(* early stop, and a complete model when a single thread has claimed the    *)
(* victory, although main joins nobody.                                     *)
(***************************************************************************)
EXTENDS DistSolve, FiniteSetTheorems, TLAPS

(* The order in which the flags are set.  main runs terminate_workers with   *)
(* N >= 1 steps, so nextMain = 0 later means that a worker ended the race.  *)
FlagOrder ==
  /\ \A w \in Worker : pc[w] = "terminate" \/ stop[w] => terminated
  /\ main # "watch" => terminated
  /\ main = "watch" => nextMain = 0
  /\ main = "copy" => result = 10

(* What a worker has done before it announces itself: its model is          *)
(* complete, and winner_id is its id or a smaller one.                      *)
Through(w) == /\ winner_id <= w
              /\ Verdict = 10 => model[w] = "complete"
Announced(w) == pc[w] \in {"terminate", "exit"} /\ Through(w)

ModelFirst ==
  /\ \A w \in Worker : pc[w] \in {"announce", "terminate"} => Through(w)
  /\ \A w \in Worker : pc[w] \in {"clear", "push"} => winner_id <= w
  /\ terminated /\ main # "terminate" /\ nextMain = 0 => \E w \in Worker : Announced(w)
  /\ Verdict = 10 /\ winner_id \in Worker =>
       \/ model[winner_id] # "empty"
       \/ pc[winner_id] = "clear"

IInv == TypeOK /\ FlagOrder /\ ModelFirst

LEMMA IInit == Init => IInv
<1> SUFFICES ASSUME Init PROVE IInv
  OBVIOUS
<1>0. N \in Nat \ {0} /\ 0 \in 0 .. N /\ NoWinner \in 1 .. NoWinner /\ ~ NoWinner \in Worker
  BY NAssumption DEF NoWinner, Worker
<1>1. TypeOK
  BY <1>0 DEF Init, TypeOK
<1>2. FlagOrder
  BY <1>0 DEF Init, FlagOrder
<1>3. ModelFirst
  BY <1>0 DEF Init, ModelFirst
<1> QED
  BY <1>1, <1>2, <1>3 DEF IInv

(* Types. *)
LEMMA TypeNext == TypeOK /\ [Next]_vars => TypeOK'
<1> SUFFICES ASSUME TypeOK, [Next]_vars PROVE TypeOK'
  OBVIOUS
<1>0. /\ N \in Nat \ {0} /\ Worker = 1 .. N /\ NoWinner = N + 1
      /\ Verdict \in {10, 20}
  BY NAssumption, VerdictAssumption DEF Worker, NoWinner
<1>a. /\ \A x \in 0 .. N : ~LastOne(x) => x + 1 \in 1 .. N
      /\ \A x \in 1 .. N : x \in 0 .. N /\ x \in 1 .. NoWinner
      /\ 0 \in 0 .. N
  BY <1>0 DEF LastOne
<1>1. ASSUME NEW w \in Worker, Start(w) PROVE TypeOK'
  BY <1>0, <1>1 DEF Start, Go, Loop, TypeOK
<1>2. ASSUME NEW w \in Worker, SolverAnswers(w) PROVE TypeOK'
  BY <1>0, <1>2 DEF SolverAnswers, Go, Loop, TypeOK
<1>3. ASSUME NEW w \in Worker, SolverGivesUp(w) PROVE TypeOK'
  BY <1>0, <1>3 DEF SolverGivesUp, Go, Loop, TypeOK
<1>4. ASSUME NEW w \in Worker, Test(w) PROVE TypeOK'
  BY <1>0, <1>4 DEF Test, Go, Loop, TypeOK
<1>5. ASSUME NEW w \in Worker, Record(w) PROVE TypeOK'
  BY <1>0, <1>5 DEF Record, Go, Loop, TypeOK
<1>6. ASSUME NEW w \in Worker, Commit(w) PROVE TypeOK'
  <2>1. winner_id' \in 1 .. NoWinner
    BY <1>0, <1>a, <1>6 DEF Commit, TypeOK
  <2> QED
    BY <1>6, <2>1 DEF Commit, Go, TypeOK
<1>7. ASSUME NEW w \in Worker, ClearModel(w) PROVE TypeOK'
  BY <1>0, <1>7 DEF ClearModel, Go, Loop, TypeOK
<1>8. ASSUME NEW w \in Worker, PushModel(w) PROVE TypeOK'
  BY <1>0, <1>8 DEF PushModel, Go, Loop, TypeOK
<1>9. ASSUME NEW w \in Worker, Announce(w) PROVE TypeOK'
  <2>1. next' \in [Worker -> 0 .. N] /\ terminated' \in BOOLEAN
    BY <1>a, <1>9 DEF Announce, TypeOK
  <2> QED
    BY <1>9, <2>1 DEF Announce, Go, TypeOK
<1>10. ASSUME NEW w \in Worker, Terminate(w) PROVE TypeOK'
  <2>1. next' \in [Worker -> 0 .. N]
    <3>1. next[w] \in 0 .. N /\ next \in [Worker -> 0 .. N]
      BY DEF TypeOK
    <3>2. ~LastOne(next[w]) => next[w] + 1 \in 0 .. N
      BY <1>a, <3>1
    <3> QED
      BY <1>10, <3>1, <3>2 DEF Terminate
  <2>2. stop' \in [Worker -> BOOLEAN]
    BY <1>0, <1>10 DEF Terminate, TypeOK
  <2>3. pc' \in [Worker -> {"unborn", "search", "test", "record", "commit", "clear", "push",
                           "announce", "terminate", "exit"}]
    BY <1>10 DEF Terminate, Go, Loop, TypeOK
  <2> QED
    BY <1>10, <2>1, <2>2, <2>3 DEF Terminate, TypeOK
<1>11. CASE SeeTerminated
  BY <1>0, <1>11 DEF SeeTerminated, TypeOK
<1>12. CASE Interrupt
  <2>1. nextMain' \in 0 .. N
    BY <1>0, <1>12 DEF Interrupt
  <2> QED
    BY <1>12, <2>1 DEF Interrupt, TypeOK
<1>13. CASE TerminateFromMain
  <2>1. nextMain' \in 0 .. N
    BY <1>0, <1>a, <1>13 DEF TerminateFromMain, TypeOK
  <2>2. stop' \in [Worker -> BOOLEAN]
    BY <1>0, <1>13 DEF TerminateFromMain, TypeOK
  <2> QED
    BY <1>13, <2>1, <2>2 DEF TerminateFromMain, TypeOK
<1>14. CASE ReadResult
  BY <1>0, <1>14 DEF ReadResult, TypeOK
<1>15. CASE CopyWinner
  BY <1>0, <1>15 DEF CopyWinner, TypeOK
<1>16. CASE Return
  BY <1>0, <1>16 DEF Return, TypeOK
<1>17. CASE UNCHANGED vars
  BY <1>0, <1>17 DEF vars, TypeOK
<1> QED
  BY <1>1, <1>2, <1>3, <1>4, <1>5, <1>6, <1>7, <1>8, <1>9, <1>10, <1>11, <1>12, <1>13, <1>14, <1>15, <1>16, <1>17 DEF Next, WorkerStep, MainStep, Done

(* A flag given to a solver comes after terminated. *)
LEMMA FlagNext == TypeOK /\ FlagOrder /\ [Next]_vars => FlagOrder'
<1> SUFFICES ASSUME TypeOK, FlagOrder, [Next]_vars PROVE FlagOrder'
  OBVIOUS
<1>0. /\ N \in Nat \ {0} /\ Worker = 1 .. N /\ NoWinner = N + 1
      /\ Verdict \in {10, 20}
  BY NAssumption, VerdictAssumption DEF Worker, NoWinner
<1>a. /\ \A x \in 0 .. N : ~LastOne(x) => x + 1 \in 1 .. N
      /\ \A x \in 1 .. N : x \in 0 .. N /\ x \in 1 .. NoWinner
      /\ 0 \in 0 .. N
  BY <1>0 DEF LastOne
<1>1. ASSUME NEW w \in Worker, Start(w) PROVE FlagOrder'
  BY <1>0, <1>1 DEF Start, Go, Loop, TypeOK, FlagOrder
<1>2. ASSUME NEW w \in Worker, SolverAnswers(w) PROVE FlagOrder'
  BY <1>0, <1>2 DEF SolverAnswers, Go, Loop, TypeOK, FlagOrder
<1>3. ASSUME NEW w \in Worker, SolverGivesUp(w) PROVE FlagOrder'
  BY <1>0, <1>3 DEF SolverGivesUp, Go, Loop, TypeOK, FlagOrder
<1>4. ASSUME NEW w \in Worker, Test(w) PROVE FlagOrder'
  BY <1>0, <1>4 DEF Test, Go, Loop, TypeOK, FlagOrder
<1>5. ASSUME NEW w \in Worker, Record(w) PROVE FlagOrder'
  BY <1>0, <1>5 DEF Record, Go, Loop, TypeOK, FlagOrder
<1>6. ASSUME NEW w \in Worker, Commit(w) PROVE FlagOrder'
  BY <1>0, <1>6 DEF Commit, Go, Loop, TypeOK, FlagOrder
<1>7. ASSUME NEW w \in Worker, ClearModel(w) PROVE FlagOrder'
  BY <1>0, <1>7 DEF ClearModel, Go, Loop, TypeOK, FlagOrder
<1>8. ASSUME NEW w \in Worker, PushModel(w) PROVE FlagOrder'
  BY <1>0, <1>8 DEF PushModel, Go, Loop, TypeOK, FlagOrder
<1>9. ASSUME NEW w \in Worker, Announce(w) PROVE FlagOrder'
  BY <1>0, <1>9 DEF Announce, Go, Loop, TypeOK, FlagOrder
<1>10. ASSUME NEW w \in Worker, Terminate(w) PROVE FlagOrder'
  BY <1>0, <1>10 DEF Terminate, Go, Loop, TypeOK, FlagOrder
<1>11. CASE SeeTerminated
  BY <1>0, <1>11 DEF SeeTerminated, TypeOK, FlagOrder
<1>12. CASE Interrupt
  BY <1>0, <1>12 DEF Interrupt, TypeOK, FlagOrder
<1>13. CASE TerminateFromMain
  BY <1>0, <1>13 DEF TerminateFromMain, TypeOK, FlagOrder
<1>14. CASE ReadResult
  BY <1>0, <1>14 DEF ReadResult, TypeOK, FlagOrder
<1>15. CASE CopyWinner
  BY <1>0, <1>15 DEF CopyWinner, TypeOK, FlagOrder
<1>16. CASE Return
  BY <1>0, <1>16 DEF Return, TypeOK, FlagOrder
<1>17. CASE UNCHANGED vars
  BY <1>0, <1>17 DEF vars, TypeOK, FlagOrder
<1> QED
  BY <1>1, <1>2, <1>3, <1>4, <1>5, <1>6, <1>7, <1>8, <1>9, <1>10, <1>11, <1>12, <1>13, <1>14, <1>15, <1>16, <1>17 DEF Next, WorkerStep, MainStep, Done

(* A worker is through with its model before it announces itself. *)
LEMMA ModelNext == TypeOK /\ FlagOrder /\ ModelFirst /\ [Next]_vars => ModelFirst'
<1> SUFFICES ASSUME TypeOK, FlagOrder, ModelFirst, [Next]_vars PROVE ModelFirst'
  OBVIOUS
<1>0. /\ N \in Nat \ {0} /\ Worker = 1 .. N /\ NoWinner = N + 1
      /\ Verdict \in {10, 20}
  BY NAssumption, VerdictAssumption DEF Worker, NoWinner
<1>a. /\ \A x \in 0 .. N : ~LastOne(x) => x + 1 \in 1 .. N
      /\ \A x \in 1 .. N : x \in 0 .. N /\ x \in 1 .. NoWinner
      /\ 0 \in 0 .. N
  BY <1>0 DEF LastOne
<1>1. ASSUME NEW w \in Worker, Start(w) PROVE ModelFirst'
  BY <1>0, <1>1 DEF Start, Go, Loop, TypeOK, FlagOrder, ModelFirst, Through, Announced
<1>2. ASSUME NEW w \in Worker, SolverAnswers(w) PROVE ModelFirst'
  BY <1>0, <1>2 DEF SolverAnswers, Go, Loop, TypeOK, FlagOrder, ModelFirst, Through, Announced
<1>3. ASSUME NEW w \in Worker, SolverGivesUp(w) PROVE ModelFirst'
  BY <1>0, <1>3 DEF SolverGivesUp, Go, Loop, TypeOK, FlagOrder, ModelFirst, Through, Announced
<1>4. ASSUME NEW w \in Worker, Test(w) PROVE ModelFirst'
  BY <1>0, <1>4 DEF Test, Go, Loop, TypeOK, FlagOrder, ModelFirst, Through, Announced
<1>5. ASSUME NEW w \in Worker, Record(w) PROVE ModelFirst'
  BY <1>0, <1>5 DEF Record, Go, Loop, TypeOK, FlagOrder, ModelFirst, Through, Announced
<1>6. ASSUME NEW w \in Worker, Commit(w) PROVE ModelFirst'
  <2>0. winner_id \in Nat /\ \A v \in Worker : v \in Nat
    <3>1. winner_id \in 1 .. NoWinner
      BY DEF TypeOK
    <3> QED
      BY <1>0, <3>1
  <2>1. winner_id' <= winner_id /\ winner_id' <= w /\ winner_id' \in {w, winner_id}
    BY <2>0, <1>6 DEF Commit
  <2>2. \A v \in Worker : v # w => pc'[v] = pc[v]
    BY <1>6 DEF Commit, Go, TypeOK
  <2>3. pc'[w] = IF Verdict = 10 THEN "clear" ELSE "announce"
    BY <1>6 DEF Commit, Go, TypeOK
  <2>4. UNCHANGED <<terminated, model, main, nextMain>> /\ pc[w] = "commit"
    BY <1>6 DEF Commit
  <2>5. \A v \in Worker : Through(v) => Through(v)'
    BY <2>0, <2>1, <2>4 DEF Through
  <2>6. \A v \in Worker : pc'[v] \in {"announce", "terminate"} => Through(v)'
    BY <1>0, <2>1, <2>2, <2>3, <2>5 DEF ModelFirst, Through
  <2>7. \A v \in Worker : pc'[v] \in {"clear", "push"} => winner_id' <= v
    BY <2>0, <2>1, <2>2, <2>3 DEF ModelFirst
  <2>8. \A v \in Worker : Announced(v) => Announced(v)'
    BY <2>2, <2>4, <2>5 DEF Announced
  <2>9. Verdict = 10 /\ winner_id' \in Worker =>
           model'[winner_id'] # "empty" \/ pc'[winner_id'] = "clear"
    BY <2>1, <2>2, <2>3, <2>4 DEF ModelFirst
  <2> QED
    BY <2>4, <2>6, <2>7, <2>8, <2>9 DEF ModelFirst
<1>7. ASSUME NEW w \in Worker, ClearModel(w) PROVE ModelFirst'
  BY <1>0, <1>7 DEF ClearModel, Go, Loop, TypeOK, FlagOrder, ModelFirst, Through, Announced
<1>8. ASSUME NEW w \in Worker, PushModel(w) PROVE ModelFirst'
  BY <1>0, <1>8, ZenonT(60) DEF PushModel, Go, Loop, TypeOK, FlagOrder, ModelFirst, Through, Announced
<1>9. ASSUME NEW w \in Worker, Announce(w) PROVE ModelFirst'
  BY <1>0, <1>9 DEF Announce, Go, Loop, TypeOK, FlagOrder, ModelFirst, Through, Announced
<1>10. ASSUME NEW w \in Worker, Terminate(w) PROVE ModelFirst'
  BY <1>0, <1>10, ZenonT(60) DEF Terminate, Go, Loop, TypeOK, FlagOrder, ModelFirst, Through, Announced
<1>11. CASE SeeTerminated
  BY <1>0, <1>11 DEF SeeTerminated, TypeOK, FlagOrder, ModelFirst, Through, Announced
<1>12. CASE Interrupt
  BY <1>0, <1>12 DEF Interrupt, TypeOK, FlagOrder, ModelFirst, Through, Announced
<1>13. CASE TerminateFromMain
  <2>1. main' = "terminate" \/ nextMain' # 0
    BY <1>0, <1>13 DEF TerminateFromMain, LastOne, TypeOK
  <2> QED
    BY <1>13, <2>1 DEF TerminateFromMain, ModelFirst, Through, Announced
<1>14. CASE ReadResult
  BY <1>0, <1>14 DEF ReadResult, TypeOK, FlagOrder, ModelFirst, Through, Announced
<1>15. CASE CopyWinner
  BY <1>0, <1>15 DEF CopyWinner, TypeOK, FlagOrder, ModelFirst, Through, Announced
<1>16. CASE Return
  BY <1>0, <1>16 DEF Return, TypeOK, FlagOrder, ModelFirst, Through, Announced
<1>17. CASE UNCHANGED vars
  BY <1>0, <1>17 DEF vars, TypeOK, FlagOrder, ModelFirst, Through, Announced
<1> QED
  BY <1>1, <1>2, <1>3, <1>4, <1>5, <1>6, <1>7, <1>8, <1>9, <1>10, <1>11, <1>12, <1>13, <1>14, <1>15, <1>16, <1>17 DEF Next, WorkerStep, MainStep, Done

LEMMA Invariant == Spec => []IInv
<1>1. IInv /\ [Next]_vars => IInv'
  BY TypeNext, FlagNext, ModelNext DEF IInv
<1> QED
  BY IInit, <1>1, PTL DEF Spec

(* The fields keep their types, for any number of threads. *)
THEOREM TypeCorrect == Spec => []TypeOK
<1>1. IInv => TypeOK
  BY DEF IInv
<1> QED
  BY Invariant, <1>1, PTL

(* No solver of the process is told to stop before terminated is set, be it  *)
(* by a winner, by TERMINATE or by the cutoff (terminate_workers).          *)
THEOREM StopsLate == Spec => []StopOnlyAfterTerminated
<1>1. IInv => StopOnlyAfterTerminated
  BY DEF IInv, FlagOrder, StopOnlyAfterTerminated
<1> QED
  BY Invariant, <1>1, PTL

(* A single claimant's model is complete when main copies it without having  *)
(* joined its thread: the order of solve_worker stands in for the join.      *)
THEOREM SoleAnswer == Spec => []SoleAnswerComplete
<1>1. ASSUME IInv, main = "copy", nextMain = 0, Cardinality(Claimants) = 1
      PROVE  winner_id \in Worker /\ model[winner_id] = "complete"
  <2>0. /\ N \in Nat \ {0} /\ Worker = 1 .. N /\ NoWinner = N + 1
    BY NAssumption DEF Worker, NoWinner
  <2>1. IsFiniteSet(Claimants)
    <3>1. IsFiniteSet(1 .. N)
      BY <2>0, FS_Interval
    <3> QED
      BY <2>0, <3>1, FS_Subset DEF Claimants
  <2>2. PICK x : Claimants = {x}
    BY <1>1, <2>1, FS_Singleton
  <2>3. Verdict = 10
    <3>1. result = 10 /\ result \in {0, Verdict}
      BY <1>1 DEF IInv, FlagOrder, TypeOK
    <3> QED
      BY <3>1
  <2>4. terminated
    BY <1>1 DEF IInv, FlagOrder
  <2>5. PICK w \in Worker : Announced(w)
    BY <1>1, <2>4 DEF IInv, ModelFirst
  <2>6. model[w] = "complete" /\ winner_id <= w
    BY <2>3, <2>5 DEF Announced, Through
  <2>7. winner_id \in Worker
    <3>1. winner_id \in 1 .. NoWinner
      BY <1>1 DEF IInv, TypeOK
    <3> QED
      BY <2>0, <2>6, <3>1
  <2>8. w \in Claimants
    BY <2>6 DEF Claimants
  <2>9. winner_id \in Claimants
    BY <1>1, <2>3, <2>7 DEF IInv, ModelFirst, Claimants
  <2> QED
    BY <2>2, <2>6, <2>7, <2>8, <2>9
<1>2. IInv => SoleAnswerComplete
  BY <1>1 DEF SoleAnswerComplete
<1> QED
  BY Invariant, <1>2, PTL
==============================================================================
