-------------------------- MODULE ThreadSolveProofs --------------------------
(***************************************************************************)
(* The race without exchange, for any number of threads: nobody is told to  *)
(* stop too early, no recorded answer is lost, and what main publishes is   *)
(* what Portfolio allows, however many workers claim the victory at once.   *)
(***************************************************************************)
EXTENDS ThreadSolve, TLAPS

(* main joins the workers 1 .. N and no other. *)
Joining == main = "join" => nextMain < N
Shape == TypeOK /\ Joining

LEMMA ShapeInit == Init => Shape
<1> SUFFICES ASSUME Init PROVE Shape
  OBVIOUS
<1> USE DEF Init
<1>1. pc \in [Worker -> WorkerPc]
  BY DEF WorkerPc
<1>2. stop \in [Worker -> BOOLEAN] /\ next \in [Worker -> 0 .. N] /\ 0 \in 0 .. N
  BY NAssumption
<1> QED
  BY <1>1, <1>2 DEF TypeOK, Shape, Joining

LEMMA TypeNext == Shape /\ [Next]_vars => TypeOK'
<1> SUFFICES ASSUME TypeOK, Joining, [Next]_vars PROVE TypeOK'
  BY DEF Shape
<1>0. /\ pc \in [Worker -> WorkerPc] /\ stop \in [Worker -> BOOLEAN]
      /\ next \in [Worker -> 0 .. N] /\ terminated \in BOOLEAN
      /\ result \in {0, Verdict} /\ winner_id \in Worker \cup {NoWinner}
      /\ copied \subseteq Worker
      /\ main \in {"watch", "terminate", "join", "done"} /\ nextMain \in 0 .. N
      /\ N \in Nat \ {0}
  BY NAssumption DEF TypeOK
<1>a. \A i \in 0 .. N : ~LastOne(i) => i + 1 \in 0 .. N
  BY <1>0 DEF LastOne
<1>1. ASSUME NEW w \in Worker, Start(w) PROVE TypeOK'
  BY <1>0, <1>1 DEF Start, Go, Loop, TypeOK, WorkerPc
<1>2. ASSUME NEW w \in Worker, SolverAnswers(w) PROVE TypeOK'
  BY <1>0, <1>2 DEF SolverAnswers, Go, TypeOK, WorkerPc
<1>3. ASSUME NEW w \in Worker, SolverGivesUp(w) PROVE TypeOK'
  BY <1>0, <1>3 DEF SolverGivesUp, Go, Loop, TypeOK, WorkerPc
<1>4. ASSUME NEW w \in Worker, Test(w) PROVE TypeOK'
  BY <1>0, <1>4 DEF Test, Go, Loop, TypeOK, WorkerPc
<1>5. ASSUME NEW w \in Worker, Claim(w) PROVE TypeOK'
  <2>1. pc' \in [Worker -> WorkerPc]
    BY <1>0, <1>5 DEF Claim, Go, WorkerPc
  <2>2. next' \in [Worker -> 0 .. N] /\ terminated' \in BOOLEAN
    BY <1>0, <1>5 DEF Claim
  <2> QED
    BY <1>0, <1>5, <2>1, <2>2 DEF Claim, TypeOK
<1>6. ASSUME NEW w \in Worker, Terminate(w) PROVE TypeOK'
  <2>1. pc' \in [Worker -> WorkerPc]
    BY <1>0, <1>6 DEF Terminate, Go, WorkerPc
  <2>2. next' \in [Worker -> 0 .. N]
    BY <1>0, <1>a, <1>6 DEF Terminate
  <2>3. stop' \in [Worker -> BOOLEAN]
    BY <1>0, <1>6 DEF Terminate
  <2> QED
    BY <1>0, <1>6, <2>1, <2>2, <2>3 DEF Terminate, TypeOK
<1>7. ASSUME NEW w \in Worker, Record(w) PROVE TypeOK'
  BY <1>0, <1>7 DEF Record, Go, TypeOK, WorkerPc
<1>8. ASSUME NEW w \in Worker, Commit(w) PROVE TypeOK'
  BY <1>0, <1>8 DEF Commit, Go, TypeOK, WorkerPc
<1>9. ASSUME NEW w \in Worker, Copy(w) PROVE TypeOK'
  BY <1>0, <1>9 DEF Copy, Go, Loop, TypeOK, WorkerPc
<1>10. CASE SeeTerminated
  BY <1>0, <1>10 DEF SeeTerminated, TypeOK
<1>11. CASE Cutoff
  BY <1>0, <1>11 DEF Cutoff, TypeOK
<1>12. CASE TerminateFromMain
  <2>1. nextMain' \in 0 .. N /\ main' \in {"terminate", "join"}
    BY <1>0, <1>a, <1>12 DEF TerminateFromMain
  <2>2. stop' \in [Worker -> BOOLEAN]
    BY <1>0, <1>12 DEF TerminateFromMain
  <2> QED
    BY <1>0, <1>12, <2>1, <2>2 DEF TerminateFromMain, TypeOK
<1>13. CASE Join
  <2>1. nextMain' = nextMain + 1 /\ nextMain + 1 \in 0 .. N
    BY <1>0, <1>13 DEF Join, Joining
  <2> QED
    BY <1>0, <1>13, <2>1 DEF Join, TypeOK
<1>14. CASE Done \/ UNCHANGED vars
  BY <1>0, <1>14 DEF Done, vars, TypeOK
<1> QED
  BY <1>1, <1>2, <1>3, <1>4, <1>5, <1>6, <1>7, <1>8, <1>9, <1>10, <1>11, <1>12, <1>13, <1>14
  DEF Next, WorkerStep, MainStep

LEMMA JoiningNext == Shape /\ [Next]_vars => Joining'
<1> SUFFICES ASSUME TypeOK, Joining, [Next]_vars PROVE Joining'
  BY DEF Shape
<1>0. nextMain \in 0 .. N /\ N \in Nat \ {0}
  BY NAssumption DEF TypeOK
<1>1. CASE MainStep
  BY <1>0, <1>1 DEF MainStep, SeeTerminated, Cutoff, TerminateFromMain, Join, Joining
<1>2. CASE UNCHANGED <<main, nextMain>>
  BY <1>2 DEF Joining
<1> QED
  BY <1>1, <1>2 DEF Next, WorkerStep, Start, SolverAnswers, SolverGivesUp, Test, Claim, Terminate,
     Record, Commit, Copy, Done, vars

(* The state keeps its types. *)
THEOREM TypeCorrect == Spec => []TypeOK
<1>1. Shape /\ [Next]_vars => Shape'
  BY TypeNext, JoiningNext DEF Shape
<1>2. Shape => TypeOK
  BY DEF Shape
<1> QED
  BY ShapeInit, <1>1, <1>2, PTL DEF Spec

----------------------------------------------------------------------------
(* terminated is set, for good, before anybody raises a flag. *)
Racing == ~terminated => /\ \A w \in Worker : ~stop[w] /\ pc[w] # "terminate"
                         /\ main = "watch"

LEMMA RacingNext == TypeOK /\ Racing /\ [Next]_vars => Racing'
<1> SUFFICES ASSUME TypeOK, Racing, [Next]_vars, ~terminated' PROVE Racing'
  BY DEF Racing
<1>0. pc \in [Worker -> WorkerPc] /\ stop \in [Worker -> BOOLEAN] /\ terminated \in BOOLEAN
  BY DEF TypeOK
<1>1. ~terminated
  BY <1>0 DEF Next, WorkerStep, MainStep, Start, SolverAnswers, SolverGivesUp, Test, Claim, Terminate,
     Record, Commit, Copy, SeeTerminated, Cutoff, TerminateFromMain, Join, Done, vars
<1>2. (\A w \in Worker : ~stop[w] /\ pc[w] # "terminate") /\ main = "watch"
  BY <1>1 DEF Racing
<1>3. ASSUME NEW w \in Worker, WorkerStep(w) \/ SolverAnswers(w) PROVE Racing'
  <2>1. main' = main
    BY <1>3 DEF WorkerStep, Start, SolverAnswers, SolverGivesUp, Test, Claim, Terminate, Record,
       Commit, Copy
  <2>2. \A v \in Worker : ~stop'[v]
    BY <1>0, <1>2, <1>3 DEF WorkerStep, Start, SolverAnswers, SolverGivesUp, Test, Claim, Terminate,
       Record, Commit, Copy
  <2>3. ~Claim(w) /\ ~Terminate(w)
    BY <1>2 DEF Claim, Terminate
  <2>4. \A v \in Worker : pc'[v] # "terminate"
    BY <1>0, <1>2, <1>3, <2>3 DEF WorkerStep, Start, SolverAnswers, SolverGivesUp, Test, Record,
       Commit, Copy, Go, Loop
  <2> QED
    BY <1>2, <2>1, <2>2, <2>4 DEF Racing
<1>4. CASE MainStep
  BY <1>1, <1>2, <1>4 DEF MainStep, SeeTerminated, Cutoff, TerminateFromMain, Join
<1>5. CASE Done \/ UNCHANGED vars
  BY <1>2, <1>5 DEF Done, vars, Racing
<1> QED
  BY <1>3, <1>4, <1>5 DEF Next

(* No solver is told to stop while the race is on. *)
THEOREM StopsLate == Spec => []StopOnlyAfterTerminated
<1>1. Init => Racing
  BY DEF Init, Racing
<1>2. TypeOK /\ Racing => StopOnlyAfterTerminated
  BY DEF TypeOK, Racing, StopOnlyAfterTerminated
<1> QED
  BY <1>1, <1>2, TypeCorrect, RacingNext, PTL DEF Spec

----------------------------------------------------------------------------
(* From the record of an answer to its publication: somebody enters the     *)
(* winner, the winner copies its model, and main waits for all of them.     *)
Joined1 == \A w \in Worker : (main = "join" /\ w <= nextMain) \/ main = "done" => pc[w] = "exit"
NoRecord == result = 0 => /\ \A w \in Worker : pc[w] # "commit" /\ pc[w] # "copy"
                          /\ winner_id = NoWinner /\ copied = {}
Entering == result # 0 => winner_id # NoWinner \/ \E w \in Worker : pc[w] = "commit"
Copying  == winner_id # NoWinner => pc[winner_id] = "copy" \/ winner_id \in copied
AnswerInv == Joined1 /\ NoRecord /\ Entering /\ Copying

LEMMA AnswerInit == Init => AnswerInv
<1> SUFFICES ASSUME Init PROVE AnswerInv
  OBVIOUS
<1>1. Joined1 /\ NoRecord
  BY DEF Init, Joined1, NoRecord
<1>2. Entering /\ Copying
  BY DEF Init, Entering, Copying
<1> QED
  BY <1>1, <1>2 DEF AnswerInv

(* The steps that neither record, commit nor copy. *)
Bystander(w) == \/ Start(w) \/ SolverAnswers(w) \/ SolverGivesUp(w) \/ Test(w) \/ Claim(w)
                \/ Terminate(w)

LEMMA BystanderEffect ==
  ASSUME TypeOK, NEW w \in Worker, Bystander(w)
  PROVE  /\ UNCHANGED <<result, winner_id, copied, main, nextMain>>
         /\ pc[w] \notin {"commit", "copy", "exit"} /\ pc'[w] \notin {"commit", "copy"}
         /\ \A v \in Worker : v # w => pc'[v] = pc[v]
<1>0. pc \in [Worker -> WorkerPc]
  BY DEF TypeOK
<1>1. UNCHANGED <<result, winner_id, copied, main, nextMain>>
  BY DEF Bystander, Start, SolverAnswers, SolverGivesUp, Test, Claim, Terminate
<1>2. pc[w] \notin {"commit", "copy", "exit"}
  BY DEF Bystander, Start, SolverAnswers, SolverGivesUp, Test, Claim, Terminate
<1>3. pc'[w] \notin {"commit", "copy"}
  BY <1>0 DEF Bystander, Start, SolverAnswers, SolverGivesUp, Test, Claim, Terminate, Go, Loop
<1>4. \A v \in Worker : v # w => pc'[v] = pc[v]
  BY <1>0 DEF Bystander, Start, SolverAnswers, SolverGivesUp, Test, Claim, Terminate, Go
<1> QED
  BY <1>1, <1>2, <1>3, <1>4

LEMMA AnswerNext == TypeOK /\ Joining /\ AnswerInv /\ [Next]_vars => AnswerInv'
<1> SUFFICES ASSUME TypeOK, Joining, AnswerInv, [Next]_vars PROVE AnswerInv'
  OBVIOUS
<1>0. /\ pc \in [Worker -> WorkerPc] /\ winner_id \in Worker \cup {NoWinner}
      /\ nextMain \in 0 .. N /\ Verdict # 0 /\ NoWinner \notin Worker /\ N \in Nat \ {0}
  BY NAssumption, VerdictAssumption DEF TypeOK, NoWinner, Worker
<1>i. Joined1 /\ NoRecord /\ Entering /\ Copying
  BY DEF AnswerInv
<1>1. ASSUME NEW w \in Worker, Bystander(w) PROVE AnswerInv'
  <2>1. /\ UNCHANGED <<result, winner_id, copied, main, nextMain>>
        /\ pc[w] \notin {"commit", "copy", "exit"} /\ pc'[w] \notin {"commit", "copy"}
        /\ \A v \in Worker : v # w => pc'[v] = pc[v]
    BY <1>1, BystanderEffect
  <2>2. Joined1'
    BY <1>i, <2>1 DEF Joined1
  <2>3. NoRecord'
    BY <1>i, <2>1 DEF NoRecord
  <2>4. Entering'
    BY <1>i, <2>1 DEF Entering
  <2>5. Copying'
    BY <1>0, <1>i, <2>1 DEF Copying
  <2> QED
    BY <2>2, <2>3, <2>4, <2>5 DEF AnswerInv
<1>2. ASSUME NEW w \in Worker, Record(w) PROVE AnswerInv'
  <2>1. /\ pc[w] = "record" /\ pc'[w] = "commit" /\ \A v \in Worker : v # w => pc'[v] = pc[v]
        /\ result' = Verdict /\ UNCHANGED <<winner_id, copied, main, nextMain>>
    BY <1>0, <1>2 DEF Record, Go
  <2>2. Joined1'
    BY <1>i, <2>1 DEF Joined1
  <2>3. NoRecord' /\ Entering'
    BY <1>0, <2>1 DEF NoRecord, Entering
  <2>4. Copying'
    BY <1>0, <1>i, <2>1 DEF Copying
  <2> QED
    BY <2>2, <2>3, <2>4 DEF AnswerInv
<1>3. ASSUME NEW w \in Worker, Commit(w) PROVE AnswerInv'
  <2>1. /\ pc[w] = "commit" /\ pc'[w] = "copy" /\ \A v \in Worker : v # w => pc'[v] = pc[v]
        /\ winner_id' \in {w, winner_id} /\ (winner_id = NoWinner => winner_id' = w)
        /\ UNCHANGED <<result, copied, main, nextMain>>
    BY <1>0, <1>3 DEF Commit, Go
  <2>2. Joined1'
    BY <1>i, <2>1 DEF Joined1
  <2>3. result # 0
    BY <1>i, <2>1 DEF NoRecord
  <2>4. NoRecord' /\ Entering'
    BY <1>0, <2>1, <2>3 DEF NoRecord, Entering
  <2>5. Copying'
    BY <1>0, <1>i, <2>1 DEF Copying
  <2> QED
    BY <2>2, <2>4, <2>5 DEF AnswerInv
<1>4. ASSUME NEW w \in Worker, Copy(w) PROVE AnswerInv'
  <2>1. /\ pc[w] = "copy" /\ pc'[w] # "commit" /\ \A v \in Worker : v # w => pc'[v] = pc[v]
        /\ copied' = copied \cup {w} /\ UNCHANGED <<result, winner_id, main, nextMain>>
    BY <1>0, <1>4 DEF Copy, Go, Loop
  <2>2. Joined1'
    BY <1>i, <2>1 DEF Joined1
  <2>3. result # 0
    BY <1>i, <2>1 DEF NoRecord
  <2>4. NoRecord' /\ Entering'
    BY <1>i, <2>1, <2>3 DEF NoRecord, Entering
  <2>5. Copying'
    BY <1>0, <1>i, <2>1 DEF Copying
  <2> QED
    BY <2>2, <2>4, <2>5 DEF AnswerInv
<1>5. ASSUME UNCHANGED <<pc, result, winner_id, copied>>, Joined1' PROVE AnswerInv'
  BY <1>i, <1>5 DEF AnswerInv, NoRecord, Entering, Copying
<1>6. CASE SeeTerminated \/ Cutoff \/ TerminateFromMain
  <2>1. UNCHANGED <<pc, result, winner_id, copied>>
    BY <1>6 DEF SeeTerminated, Cutoff, TerminateFromMain
  <2>2. main' # "done" /\ (main' = "join" => nextMain' = 0)
    BY <1>6 DEF SeeTerminated, Cutoff, TerminateFromMain
  <2>3. Joined1'
    BY <1>0, <2>2 DEF Joined1, Worker
  <2> QED
    BY <1>5, <2>1, <2>3
<1>7. CASE Join
  <2>1. UNCHANGED <<pc, result, winner_id, copied>> /\ main = "join" /\ pc[nextMain + 1] = "exit"
    BY <1>7 DEF Join, Joined
  <2>2. nextMain' = nextMain + 1 /\ (main' = "done" <=> nextMain + 1 = N)
    BY <1>7 DEF Join
  <2>3. ASSUME NEW v \in Worker, v <= nextMain + 1 PROVE pc[v] = "exit"
    <3>1. v \in 1 .. N /\ (v <= nextMain \/ v = nextMain + 1)
      BY <1>0, <2>3 DEF Worker
    <3> QED
      BY <1>i, <2>1, <3>1 DEF Joined1
  <2>4. Joined1'
    <3> SUFFICES ASSUME NEW v \in Worker, (main' = "join" /\ v <= nextMain') \/ main' = "done"
                 PROVE  pc'[v] = "exit"
      BY DEF Joined1
    <3>1. v <= nextMain + 1
      BY <1>0, <2>2 DEF Worker
    <3> QED
      BY <2>1, <2>3, <3>1
  <2> QED
    BY <1>5, <2>1, <2>4
<1>8. CASE Done \/ UNCHANGED vars
  <2>1. UNCHANGED <<pc, result, winner_id, copied, main, nextMain>>
    BY <1>8 DEF Done, vars
  <2>2. Joined1'
    BY <1>i, <2>1 DEF Joined1
  <2> QED
    BY <1>5, <2>1, <2>2
<1> QED
  BY <1>1, <1>2, <1>3, <1>4, <1>6, <1>7, <1>8 DEF Next, WorkerStep, MainStep, Bystander

LEMMA AnswerCorrect == Spec => [](Shape /\ AnswerInv)
<1>1. Shape /\ [Next]_vars => Shape'
  BY TypeNext, JoiningNext DEF Shape
<1>2. Shape /\ AnswerInv /\ [Next]_vars => AnswerInv'
  BY AnswerNext DEF Shape
<1> QED
  BY ShapeInit, AnswerInit, <1>1, <1>2, PTL DEF Spec

(* UNKNOWN is only printed when no thread has or can still bring an answer. *)
THEOREM AnswersKept == Spec => []NoAnswerLost
<1>1. AnswerInv => NoAnswerLost
  BY DEF AnswerInv, Joined1, NoRecord, NoAnswerLost
<1> QED
  BY <1>1, AnswerCorrect, PTL

(* The race implements Portfolio: the answer main publishes is that of a    *)
(* worker that has copied its model, and nothing changes afterwards.        *)
THEOREM Implements == Spec => ImplementsPortfolio
<1>1. Init => Abstract!Init
  BY DEF Init, Abstract!Init, Abstract!Running, Outcome
<1>2. ASSUME Shape, AnswerInv, [Next]_vars PROVE [Abstract!Next]_<<copied, Outcome>>
  <2>0. /\ pc \in [Worker -> WorkerPc] /\ winner_id \in Worker \cup {NoWinner}
        /\ nextMain \in 0 .. N /\ N \in Nat \ {0}
    BY <1>2, NAssumption DEF Shape, TypeOK
  <2>i. Joined1 /\ NoRecord /\ Entering /\ Copying
    BY <1>2 DEF AnswerInv
  <2>1. ASSUME NEW w \in Worker, Copy(w) PROVE Abstract!Complete(w)
    <3>1. main # "done" /\ main' = main /\ copied' = copied \cup {w}
      BY <2>i, <2>1 DEF Copy, Joined1
    <3> QED
      BY <3>1 DEF Abstract!Complete, Abstract!Running, Outcome
  <2>2. ASSUME Join, main' = "done" PROVE Abstract!Next
    <3>1. /\ UNCHANGED <<pc, result, winner_id, copied>> /\ main = "join"
          /\ nextMain + 1 = N /\ pc[nextMain + 1] = "exit"
      BY <2>2 DEF Join, Joined
    <3>2. \A v \in Worker : pc[v] = "exit"
      <4> TAKE v \in Worker
      <4>1. v <= nextMain \/ v = nextMain + 1
        BY <2>0, <3>1 DEF Worker
      <4> QED
        BY <2>i, <3>1, <4>1 DEF Joined1
    <3>3. CASE result = 0
      BY <2>2, <3>1, <3>3 DEF Abstract!Next, Abstract!GiveUp, Abstract!Running, Abstract!Unknown, Outcome
    <3>4. CASE result # 0
      <4>1. winner_id \in Worker /\ winner_id \in copied
        BY <2>0, <2>i, <3>2, <3>4 DEF Entering, Copying
      <4>2. Abstract!Publish(winner_id)
        BY <2>2, <3>1, <3>4, <4>1 DEF Abstract!Publish, Abstract!Running, Outcome
      <4> QED
        BY <4>1, <4>2 DEF Abstract!Next
    <3> QED
      BY <3>3, <3>4
  <2>3. ASSUME UNCHANGED copied, main # "done", main' # "done" PROVE UNCHANGED <<copied, Outcome>>
    BY <2>3 DEF Outcome
  <2>4. CASE main = "done"
    <3>1. \A w \in Worker : pc[w] = "exit"
      BY <2>i, <2>4 DEF Joined1
    <3>2. UNCHANGED <<copied, main, result, winner_id>>
      BY <1>2, <2>4, <3>1 DEF Next, WorkerStep, MainStep, Start, SolverAnswers, SolverGivesUp, Test,
         Claim, Terminate, Record, Commit, Copy, SeeTerminated, Cutoff, TerminateFromMain, Join, Done, vars
    <3> QED
      BY <3>2 DEF Outcome
  <2>5. CASE main # "done"
    <3>1. ASSUME NEW w \in Worker, WorkerStep(w) \/ SolverAnswers(w), ~Copy(w)
          PROVE  UNCHANGED <<copied, main>>
      BY <3>1 DEF WorkerStep, Start, SolverAnswers, SolverGivesUp, Test, Claim, Terminate, Record, Commit
    <3>2. CASE SeeTerminated \/ Cutoff \/ TerminateFromMain \/ (Join /\ main' # "done")
      BY <2>3, <2>5, <3>2 DEF SeeTerminated, Cutoff, TerminateFromMain, Join
    <3>3. CASE Done \/ UNCHANGED vars
      BY <2>3, <2>5, <3>3 DEF Done, vars
    <3> QED
      BY <1>2, <2>1, <2>2, <2>3, <2>5, <3>1, <3>2, <3>3 DEF Next, MainStep, Abstract!Next
  <2> QED
    BY <2>4, <2>5
<1> QED
  BY <1>1, <1>2, AnswerCorrect, PTL DEF Spec, ImplementsPortfolio, Abstract!Spec
==============================================================================
