-------------------------- MODULE LeaderWorkerProofs --------------------------
(***************************************************************************)
(* The MPI job for any number of workers: the collective calls agree on all *)
(* branches, the leader asks nobody for a model whom it has told to stop,   *)
(* and what it prints is what Portfolio allows.  At the end: the sharing    *)
(* groups the workers are split into (Groups), for any number of workers.   *)
(***************************************************************************)
EXTENDS LeaderWorker, Groups, TLAPS

(* Refuted by preprocessing: nobody takes part in the prologue. *)
Short == res[Leader] # 0 /\ source = Leader
Base  == IF Short THEN 0 ELSE 5
Kind(n) == IF ~Short /\ n \in {2, 4} THEN "bcast" ELSE "barrier"

(* How many collective calls lie behind a process at each place. *)
Passed(p) ==
  /\ pc[p] \in {"preprocess", "start"} => calls[p] = <<>>
  /\ pc[p] = "setup" => ~Short /\ Len(calls[p]) <= 5
  /\ pc[p] \in {"poll", "model", "run", "report", "reply"} => ~Short /\ Len(calls[p]) = 5
  /\ pc[p] = "close" => Len(calls[p]) = Base
  /\ pc[p] = "closing" => Len(calls[p]) = Base + 1
  /\ pc[p] \in {"finish", "end"} => Len(calls[p]) = Base + 2

InOrder(p) == \A n \in 1 .. Len(calls[p]) : calls[p][n] = Kind(n)

Untold == pc[Leader] = "preprocess" =>
            /\ res[Leader] = 0 /\ source = Leader
            /\ \A w \in Worker : pc[w] = "start" /\ startMsg[w] = "none"
Told(w) == (startMsg[w] = "go" => ~Short) /\ (startMsg[w] = "stop" => Short)

CallsInv == /\ \A p \in Process : Passed(p) /\ InOrder(p)
            /\ \A w \in Worker : Told(w)
            /\ Untold

(* A report comes from a worker that still answers, unless its clock or     *)
(* TERMINATE has taken it away; TERMINATE goes out with the first report.   *)
Reporting(w) ==
  w \in solvedMsg => /\ res[w] # 0
                     /\ res[w] = 10 => pc[w] = "reply" \/ late[w] \/ terminateMsg[w] \/ modelMsg[w]
Chosen == pc[Leader] = "model" => /\ source \in Worker /\ ~terminateMsg[source]
                                  /\ pc[source] = "reply" \/ modelMsg[source] \/ late[source]
ReportInv == /\ \A w \in Worker : Reporting(w)
             /\ pc[Leader] \in {"preprocess", "setup", "poll"} => \A w \in Worker : ~terminateMsg[w]
             /\ Chosen

(* The closing barrier separates the search from the printing. *)
AnswerInv ==
  /\ \A w \in Worker : pc[w] \in {"start", "setup", "run"} => res[w] = 0
  /\ source \in Worker => res[source] # 0
  /\ (pc[Leader] = "closing" /\ ~inside[Leader]) \/ printed # 0 =>
       /\ pc[Leader] \in {"closing", "finish", "end"}
       /\ \A p \in Process : Len(calls[p]) >= Base + 1

IInv == TypeOK /\ CallsInv /\ ReportInv /\ AnswerInv

LEMMA IInit == Init => IInv
<1> SUFFICES ASSUME Init PROVE IInv
  OBVIOUS
<1>0. W \in Nat \ {0} /\ Leader \in Process /\ Leader \notin Worker /\ \A w \in Worker : w \in Process
  BY WAssumption DEF Worker, Process, Leader
<1>1. TypeOK
  BY <1>0 DEF Init, TypeOK, Preprocessor
<1>2. CallsInv
  BY <1>0 DEF Init, CallsInv, Passed, InOrder, Told, Untold, Short, Kind
<1>3. ReportInv
  BY <1>0 DEF Init, ReportInv, Reporting, Chosen
<1>4. AnswerInv
  BY <1>0 DEF Init, AnswerInv
<1> QED
  BY <1>1, <1>2, <1>3, <1>4 DEF IInv

(* Types. *)
LEMMA TypeNext == TypeOK /\ [Next]_vars => TypeOK'
<1> SUFFICES ASSUME TypeOK, [Next]_vars PROVE TypeOK'
  OBVIOUS
<1>0. /\ W \in Nat \ {0} /\ Leader \in Process /\ Leader \notin Worker
      /\ \A w \in Worker : w \in Process /\ w # Leader
  BY WAssumption DEF Worker, Process, Leader
<1>1. ASSUME NEW w \in Worker, ReceiveStart(w) PROVE TypeOK'
  BY <1>0, <1>1 DEF ReceiveStart, Go, Enter, msgs, TypeOK
<1>2. ASSUME NEW w \in Worker, RunAnswers(w) PROVE TypeOK'
  BY <1>0, <1>2 DEF RunAnswers, Go, Enter, msgs, TypeOK
<1>3. ASSUME NEW w \in Worker, RunTimeout(w) PROVE TypeOK'
  BY <1>0, <1>3 DEF RunTimeout, Go, Enter, msgs, TypeOK
<1>4. ASSUME NEW w \in Worker, RunTerminated(w) PROVE TypeOK'
  BY <1>0, <1>4 DEF RunTerminated, Go, Enter, msgs, TypeOK
<1>5. ASSUME NEW w \in Worker, Report(w) PROVE TypeOK'
  BY <1>0, <1>5 DEF Report, Go, Enter, msgs, TypeOK
<1>6. ASSUME NEW w \in Worker, ReplyTimeout(w) PROVE TypeOK'
  BY <1>0, <1>6 DEF ReplyTimeout, Go, Enter, msgs, TypeOK
<1>7. ASSUME NEW w \in Worker, ReplyTerminated(w) PROVE TypeOK'
  BY <1>0, <1>7 DEF ReplyTerminated, Go, Enter, msgs, TypeOK
<1>8. ASSUME NEW w \in Worker, ReplyModel(w) PROVE TypeOK'
  BY <1>0, <1>8 DEF ReplyModel, Go, Enter, msgs, TypeOK
<1>9. ASSUME NEW w \in Worker, PollSolved(w) PROVE TypeOK'
  <2>1. pc' \in [Process -> {"preprocess", "start", "setup", "poll", "model", "run", "report",
                            "reply", "close", "closing", "finish", "end"}]
    BY <1>0, <1>9 DEF PollSolved, Go, TypeOK
  <2>2. terminateMsg' \in [Worker -> BOOLEAN] /\ modelRequest' \in [Worker -> BOOLEAN]
    BY <1>9, Zenon DEF PollSolved, TypeOK
  <2>3. res' \in [Process -> {0, verdict}] /\ source' \in Process /\ solvedMsg' \subseteq Worker
    BY <1>0, <1>9 DEF PollSolved, Reported, TypeOK
  <2> QED
    BY <1>9, <2>1, <2>2, <2>3 DEF PollSolved, TypeOK
<1>10. ASSUME NEW p \in Process, TimePasses(p) PROVE TypeOK'
  BY <1>0, <1>10 DEF TimePasses, Go, Enter, msgs, TypeOK
<1>11. ASSUME NEW p \in Process, Leave(p) PROVE TypeOK'
  BY <1>0, <1>11 DEF Leave, Go, Enter, msgs, TypeOK
<1>12. ASSUME NEW p \in Process, Setup(p) PROVE TypeOK'
  <2>1. Len(calls[p]) \in Nat /\ calls[p] \in Seq({"barrier", "bcast"})
    BY <1>12 DEF TypeOK
  <2>2. Prologue(p)[Len(calls[p]) + 1] \in {"barrier", "bcast"}
    BY <1>12, <2>1 DEF Setup, Prologue, LeaderPrologue, WorkerPrologue
  <2>3. calls' \in [Process -> Seq({"barrier", "bcast"})]
    BY <1>12, <2>1, <2>2 DEF Setup, Enter, TypeOK
  <2> QED
    BY <1>12, <2>3 DEF Setup, Enter, msgs, TypeOK
<1>13. ASSUME NEW p \in Process, SetupDone(p) PROVE TypeOK'
  BY <1>0, <1>13 DEF SetupDone, Go, Enter, msgs, TypeOK
<1>14. ASSUME NEW p \in Process, Close(p) PROVE TypeOK'
  BY <1>0, <1>14 DEF Close, Go, Enter, msgs, TypeOK
<1>15. ASSUME NEW p \in Process, Finish(p) PROVE TypeOK'
  BY <1>0, <1>15 DEF Finish, Go, Enter, msgs, TypeOK
<1>16. ASSUME NEW p \in Process, Finalize(p) PROVE TypeOK'
  BY <1>0, <1>16 DEF Finalize, Go, Enter, msgs, TypeOK
<1>17. CASE Preprocess
  <2>c. /\ pc' = [pc EXCEPT ![Leader] = "setup"] \/ pc' = [pc EXCEPT ![Leader] = "close"]
        /\ startMsg' = [v \in Worker |-> "go"] \/ startMsg' = [v \in Worker |-> "stop"]
        /\ res' = res \/ (verdict = 20 /\ res' = [res EXCEPT ![Leader] = 20])
    BY <1>17 DEF Preprocess, Go
  <2>1. pc' \in [Process -> {"preprocess", "start", "setup", "poll", "model", "run", "report",
                            "reply", "close", "closing", "finish", "end"}]
    BY <1>0, <2>c DEF TypeOK
  <2>2. startMsg' \in [Worker -> {"none", "go", "stop"}]
    BY <2>c
  <2>3. res' \in [Process -> {0, verdict}]
    BY <1>0, <2>c DEF TypeOK
  <2> QED
    BY <1>17, <2>1, <2>2, <2>3 DEF Preprocess, TypeOK
<1>18. CASE PollTimeout
  BY <1>0, <1>18 DEF PollTimeout, Go, Enter, msgs, TypeOK
<1>19. CASE ReceiveModel
  BY <1>0, <1>19 DEF ReceiveModel, Go, Enter, msgs, TypeOK
<1>20. CASE PrintAnswer
  <2>1. printed' \in {-1, 0} \cup 1 .. Preprocessor
    <3>1. source \in 0 .. W
      BY DEF TypeOK, Process
    <3> QED
      BY <1>0, <1>20, <3>1 DEF PrintAnswer, Answer, Preprocessor, Leader
  <2> QED
    BY <1>20, <2>1 DEF PrintAnswer, msgs, TypeOK
<1>21. CASE UNCHANGED vars
  BY <1>0, <1>21 DEF vars, msgs, TypeOK
<1> QED
  BY <1>0, <1>1, <1>2, <1>3, <1>4, <1>5, <1>6, <1>7, <1>8, <1>9, <1>10, <1>11, <1>12,
     <1>13, <1>14, <1>15, <1>16, <1>17, <1>18, <1>19, <1>20, <1>21 DEF Next,
     LeaderStep, WorkerStep, Collective, Done

(* Reports, TERMINATE and the request for the model. *)
LEMMA ReportNext == TypeOK /\ AnswerInv /\ ReportInv /\ [Next]_vars => ReportInv'
<1> SUFFICES ASSUME TypeOK, AnswerInv, ReportInv, [Next]_vars PROVE ReportInv'
  OBVIOUS
<1>0. /\ W \in Nat \ {0} /\ Leader \in Process /\ Leader \notin Worker
      /\ \A w \in Worker : w \in Process /\ w # Leader
  BY WAssumption DEF Worker, Process, Leader
<1>1. ASSUME NEW w \in Worker, ReceiveStart(w) PROVE ReportInv'
  BY <1>0, <1>1 DEF ReceiveStart, Go, Enter, msgs, TypeOK, AnswerInv, ReportInv,
     Reporting, Chosen
<1>2. ASSUME NEW w \in Worker, RunAnswers(w) PROVE ReportInv'
  BY <1>0, <1>2 DEF RunAnswers, Go, Enter, msgs, TypeOK, AnswerInv, ReportInv,
     Reporting, Chosen
<1>3. ASSUME NEW w \in Worker, RunTimeout(w) PROVE ReportInv'
  BY <1>0, <1>3 DEF RunTimeout, Go, Enter, msgs, TypeOK, AnswerInv, ReportInv,
     Reporting, Chosen
<1>4. ASSUME NEW w \in Worker, RunTerminated(w) PROVE ReportInv'
  BY <1>0, <1>4 DEF RunTerminated, Go, Enter, msgs, TypeOK, AnswerInv, ReportInv,
     Reporting, Chosen
<1>5. ASSUME NEW w \in Worker, Report(w) PROVE ReportInv'
  BY <1>0, <1>5 DEF Report, Go, Enter, msgs, TypeOK, AnswerInv, ReportInv, Reporting,
     Chosen
<1>6. ASSUME NEW w \in Worker, ReplyTimeout(w) PROVE ReportInv'
  BY <1>0, <1>6 DEF ReplyTimeout, TimeIsUp, Go, msgs, TypeOK, ReportInv, Reporting,
     Chosen
<1>7. ASSUME NEW w \in Worker, ReplyTerminated(w) PROVE ReportInv'
  BY <1>0, <1>7 DEF ReplyTerminated, Go, Enter, msgs, TypeOK, AnswerInv, ReportInv,
     Reporting, Chosen
<1>8. ASSUME NEW w \in Worker, ReplyModel(w) PROVE ReportInv'
  BY <1>0, <1>8 DEF ReplyModel, Go, Enter, msgs, TypeOK, AnswerInv, ReportInv,
     Reporting, Chosen
<1>9. ASSUME NEW w \in Worker, PollSolved(w) PROVE ReportInv'
  <2>1. pc[Leader] = "poll" /\ w \in solvedMsg /\ solvedMsg' = solvedMsg \ {w} /\ source' = w
    BY <1>9 DEF PollSolved
  <2>2. /\ pc'[Leader] \in {"model", "close"} /\ (pc'[Leader] = "model" => res[w] = 10)
        /\ \A v \in Worker : pc'[v] = pc[v] /\ res'[v] = res[v]
    BY <1>0, <1>9 DEF PollSolved, Go, TypeOK
  <2>3. UNCHANGED <<late, modelMsg>>
    BY <1>9 DEF PollSolved
  <2>4. \A v \in Worker : terminateMsg'[v] = (v # w)
    BY <1>9, <2>1 DEF PollSolved, Others, ReportInv, TypeOK
  <2>5. \A v \in Worker : Reporting(v)'
    BY <2>1, <2>2, <2>3, <2>4 DEF ReportInv, Reporting
  <2>6. Chosen'
    BY <1>9, <2>1, <2>2, <2>3, <2>4 DEF ReportInv, Reporting, Chosen
  <2> QED
    BY <2>2, <2>5, <2>6 DEF ReportInv
<1>10. ASSUME NEW p \in Process, TimePasses(p) PROVE ReportInv'
  BY <1>0, <1>10 DEF TimePasses, Go, Enter, msgs, TypeOK, AnswerInv, ReportInv,
     Reporting, Chosen
<1>11. ASSUME NEW p \in Process, Leave(p) PROVE ReportInv'
  BY <1>0, <1>11 DEF Leave, Go, Enter, msgs, TypeOK, AnswerInv, ReportInv, Reporting,
     Chosen
<1>12. ASSUME NEW p \in Process, Setup(p) PROVE ReportInv'
  BY <1>0, <1>12 DEF Setup, Go, Enter, msgs, TypeOK, AnswerInv, ReportInv, Reporting,
     Chosen
<1>13. ASSUME NEW p \in Process, SetupDone(p) PROVE ReportInv'
  BY <1>0, <1>13 DEF SetupDone, Go, Enter, msgs, TypeOK, AnswerInv, ReportInv,
     Reporting, Chosen
<1>14. ASSUME NEW p \in Process, Close(p) PROVE ReportInv'
  BY <1>0, <1>14 DEF Close, Go, Enter, msgs, TypeOK, AnswerInv, ReportInv, Reporting,
     Chosen
<1>15. ASSUME NEW p \in Process, Finish(p) PROVE ReportInv'
  BY <1>0, <1>15 DEF Finish, Go, Enter, msgs, TypeOK, AnswerInv, ReportInv, Reporting,
     Chosen
<1>16. ASSUME NEW p \in Process, Finalize(p) PROVE ReportInv'
  BY <1>0, <1>16 DEF Finalize, Go, Enter, msgs, TypeOK, AnswerInv, ReportInv,
     Reporting, Chosen
<1>17. CASE Preprocess
  BY <1>0, <1>17 DEF Preprocess, Go, Enter, msgs, TypeOK, AnswerInv, ReportInv,
     Reporting, Chosen
<1>18. CASE PollTimeout
  BY <1>0, <1>18 DEF PollTimeout, Go, Enter, msgs, TypeOK, AnswerInv, ReportInv,
     Reporting, Chosen
<1>19. CASE ReceiveModel
  BY <1>0, <1>19 DEF ReceiveModel, Go, Enter, msgs, TypeOK, AnswerInv, ReportInv,
     Reporting, Chosen
<1>20. CASE PrintAnswer
  BY <1>0, <1>20 DEF PrintAnswer, Go, Enter, msgs, TypeOK, AnswerInv, ReportInv,
     Reporting, Chosen
<1>21. CASE UNCHANGED vars
  BY <1>0, <1>21 DEF vars, msgs, TypeOK, AnswerInv, ReportInv, Reporting, Chosen
<1> QED
  BY <1>0, <1>1, <1>2, <1>3, <1>4, <1>5, <1>6, <1>7, <1>8, <1>9, <1>10, <1>11, <1>12,
     <1>13, <1>14, <1>15, <1>16, <1>17, <1>18, <1>19, <1>20, <1>21 DEF Next,
     LeaderStep, WorkerStep, Collective, Done

(* Entering the next call of the row keeps everybody's calls in order. *)
LEMMA EnterExtends ==
  ASSUME TypeOK, CallsInv, NEW p \in Process, NEW kind, Enter(p, kind), Short' = Short,
         kind = Kind(Len(calls[p]) + 1)
  PROVE  /\ Len(calls[p]) \in Nat /\ Len(calls'[p]) = Len(calls[p]) + 1
         /\ \A q \in Process : q # p => calls'[q] = calls[q]
         /\ \A q \in Process : InOrder(q)'
<1>1. calls[p] \in Seq({"barrier", "bcast"}) /\ calls' = [calls EXCEPT ![p] = Append(@, kind)]
      /\ kind \in {"barrier", "bcast"}
  BY DEF TypeOK, Enter, Kind
<1>2. calls'[p] = Append(calls[p], kind) /\ \A q \in Process : q # p => calls'[q] = calls[q]
  BY <1>1 DEF TypeOK
<1>3. \A n : Kind(n)' = Kind(n)
  BY DEF Kind
<1>4. InOrder(p)'
  <2>1. \A n \in 1 .. Len(calls[p]) : calls[p][n] = Kind(n)
    BY DEF CallsInv, InOrder
  <2> QED
    BY <1>1, <1>2, <1>3, <2>1 DEF InOrder
<1>5. \A q \in Process : q # p => InOrder(q)'
  BY <1>2, <1>3 DEF CallsInv, InOrder
<1> QED
  BY <1>1, <1>2, <1>4, <1>5

(* The collective calls of every branch. *)
LEMMA CallsNext == TypeOK /\ CallsInv /\ [Next]_vars => CallsInv'
<1> SUFFICES ASSUME TypeOK, CallsInv, [Next]_vars PROVE CallsInv'
  OBVIOUS
<1>0. /\ W \in Nat \ {0} /\ Leader \in Process /\ Leader \notin Worker
      /\ \A w \in Worker : w \in Process /\ w # Leader
  BY WAssumption DEF Worker, Process, Leader
<1>1. ASSUME NEW w \in Worker, ReceiveStart(w) PROVE CallsInv'
  BY <1>0, <1>1 DEF ReceiveStart, Go, Enter, msgs, TypeOK, CallsInv, Passed, InOrder,
     Told, Untold, Short, Base, Kind
<1>2. ASSUME NEW w \in Worker, RunAnswers(w) PROVE CallsInv'
  BY <1>0, <1>2 DEF RunAnswers, Go, Enter, msgs, TypeOK, CallsInv, Passed, InOrder,
     Told, Untold, Short, Base, Kind
<1>3. ASSUME NEW w \in Worker, RunTimeout(w) PROVE CallsInv'
  BY <1>0, <1>3 DEF RunTimeout, Go, Enter, msgs, TypeOK, CallsInv, Passed, InOrder,
     Told, Untold, Short, Base, Kind
<1>4. ASSUME NEW w \in Worker, RunTerminated(w) PROVE CallsInv'
  BY <1>0, <1>4 DEF RunTerminated, Go, Enter, msgs, TypeOK, CallsInv, Passed, InOrder,
     Told, Untold, Short, Base, Kind
<1>5. ASSUME NEW w \in Worker, Report(w) PROVE CallsInv'
  BY <1>0, <1>5 DEF Report, Go, Enter, msgs, TypeOK, CallsInv, Passed, InOrder, Told,
     Untold, Short, Base, Kind
<1>6. ASSUME NEW w \in Worker, ReplyTimeout(w) PROVE CallsInv'
  BY <1>0, <1>6 DEF ReplyTimeout, Go, Enter, msgs, TypeOK, CallsInv, Passed, InOrder,
     Told, Untold, Short, Base, Kind
<1>7. ASSUME NEW w \in Worker, ReplyTerminated(w) PROVE CallsInv'
  BY <1>0, <1>7 DEF ReplyTerminated, Go, Enter, msgs, TypeOK, CallsInv, Passed,
     InOrder, Told, Untold, Short, Base, Kind
<1>8. ASSUME NEW w \in Worker, ReplyModel(w) PROVE CallsInv'
  BY <1>0, <1>8 DEF ReplyModel, Go, Enter, msgs, TypeOK, CallsInv, Passed, InOrder,
     Told, Untold, Short, Base, Kind
<1>9. ASSUME NEW w \in Worker, PollSolved(w) PROVE CallsInv'
  BY <1>0, <1>9 DEF PollSolved, Go, Enter, msgs, TypeOK, CallsInv, Passed, InOrder,
     Told, Untold, Short, Base, Kind
<1>10. ASSUME NEW p \in Process, TimePasses(p) PROVE CallsInv'
  BY <1>0, <1>10 DEF TimePasses, Go, Enter, msgs, TypeOK, CallsInv, Passed, InOrder,
     Told, Untold, Short, Base, Kind
<1>11. ASSUME NEW p \in Process, Leave(p) PROVE CallsInv'
  BY <1>0, <1>11 DEF Leave, Go, Enter, msgs, TypeOK, CallsInv, Passed, InOrder, Told,
     Untold, Short, Base, Kind
<1>12. ASSUME NEW p \in Process, Setup(p) PROVE CallsInv'
  <2>1. Short' = Short
    BY <1>12 DEF Setup, Short
  <2>a. Len(calls[p]) \in Nat
    BY <1>12 DEF TypeOK
  <2>b. Len(Prologue(p)) = 5
    BY DEF Prologue, LeaderPrologue, WorkerPrologue
  <2>c. pc[p] = "setup" /\ Len(calls[p]) < 5
    BY <1>12, <2>b DEF Setup
  <2>2. ~Short /\ pc[p] = "setup" /\ Len(calls[p]) \in 0 .. 4
    <3>1. ~Short
      BY <2>c DEF CallsInv, Passed
    <3>2. \A k \in Nat : k < 5 => k \in 0 .. 4
      OBVIOUS
    <3> QED
      BY <2>a, <2>c, <3>1, <3>2
  <2>3. Prologue(p)[Len(calls[p]) + 1] = Kind(Len(calls[p]) + 1)
    <3>1. \A n \in 1 .. 5 : LeaderPrologue[n] = IF n \in {2, 4} THEN "bcast" ELSE "barrier"
      BY DEF LeaderPrologue
    <3>2. \A n \in 1 .. 5 : Prologue(p)[n] = IF n \in {2, 4} THEN "bcast" ELSE "barrier"
      BY <3>1 DEF Prologue, LeaderPrologue, WorkerPrologue
    <3>3. \A k \in 0 .. 4 : k + 1 \in 1 .. 5
      OBVIOUS
    <3>4. Len(calls[p]) + 1 \in 1 .. 5
      BY <2>2, <3>3
    <3> QED
      BY <2>2, <3>2, <3>4 DEF Kind
  <2>4. /\ Len(calls[p]) \in Nat /\ Len(calls'[p]) = Len(calls[p]) + 1
        /\ \A q \in Process : q # p => calls'[q] = calls[q]
        /\ \A q \in Process : InOrder(q)'
    BY <1>12, <2>1, <2>3, EnterExtends DEF Setup
  <2>5. UNCHANGED <<res, startMsg, source>> /\ pc' = pc
        /\ \A q \in Process : q # p => pc'[q] = pc[q]
    BY <1>12 DEF Setup, Go, msgs, TypeOK
  <2>6. Passed(p)'
    <3>0. \A k \in 0 .. 4 : k + 1 <= 5
      OBVIOUS
    <3>1. pc'[p] = "setup" /\ Len(calls'[p]) <= 5 /\ ~Short'
      BY <2>1, <2>2, <2>4, <2>5, <3>0
    <3> QED
      BY <3>1 DEF Passed
  <2>7. \A q \in Process : q # p => Passed(q)'
    BY <2>1, <2>4, <2>5 DEF CallsInv, Passed, Base
  <2>8. \A w \in Worker : Told(w)'
    BY <2>1, <2>5 DEF CallsInv, Told
  <2>9. Untold'
    <3>1. p = Leader \/ p \in Worker
      BY DEF Process, Worker, Leader
    <3>2. pc'[Leader] # "preprocess"
      BY <1>0, <2>2, <2>5, <3>1 DEF CallsInv, Untold
    <3> QED
      BY <3>2 DEF Untold
  <2> QED
    BY <2>4, <2>6, <2>7, <2>8, <2>9 DEF CallsInv
<1>13. ASSUME NEW p \in Process, SetupDone(p) PROVE CallsInv'
  <2>1. Short' = Short /\ UNCHANGED <<calls, startMsg, res, source>>
    BY <1>13 DEF SetupDone, Short, msgs
  <2>2. Len(calls[p]) = 5 /\ ~Short /\ pc[p] = "setup" /\ pc'[p] \in {"poll", "run"}
        /\ \A q \in Process : q # p => pc'[q] = pc[q]
    BY <1>13 DEF SetupDone, Go, CallsInv, Passed, TypeOK, Prologue, LeaderPrologue,
       WorkerPrologue
  <2> QED
    BY <1>0, <2>1, <2>2 DEF CallsInv, Passed, InOrder, Told, Untold, Base, Kind
<1>14. ASSUME NEW p \in Process, Close(p) PROVE CallsInv'
  <2>1. Short' = Short
    BY <1>14 DEF Close, Short
  <2>2. pc[p] = "close" /\ Len(calls[p]) = Base
    BY <1>14 DEF Close, CallsInv, Passed
  <2>3. "barrier" = Kind(Len(calls[p]) + 1)
    BY <2>2 DEF Kind, Base
  <2>4. /\ Len(calls[p]) \in Nat /\ Len(calls'[p]) = Len(calls[p]) + 1
        /\ \A q \in Process : q # p => calls'[q] = calls[q]
        /\ \A q \in Process : InOrder(q)'
    BY <1>14, <2>1, <2>3, EnterExtends DEF Close
  <2>5. UNCHANGED <<res, startMsg, source>> /\ pc'[p] = "closing"
        /\ \A q \in Process : q # p => pc'[q] = pc[q]
    BY <1>14 DEF Close, Go, msgs, TypeOK
  <2>6. Passed(p)'
    BY <2>1, <2>2, <2>4, <2>5 DEF Passed, Base
  <2>7. \A q \in Process : q # p => Passed(q)'
    BY <2>1, <2>4, <2>5 DEF CallsInv, Passed, Base
  <2>8. \A w \in Worker : Told(w)'
    BY <2>1, <2>5 DEF CallsInv, Told
  <2>9. Untold'
    <3>1. p = Leader \/ p \in Worker
      BY DEF Process, Worker, Leader
    <3>2. pc'[Leader] # "preprocess"
      BY <1>0, <2>2, <2>5, <3>1 DEF CallsInv, Untold
    <3> QED
      BY <3>2 DEF Untold
  <2> QED
    BY <2>4, <2>6, <2>7, <2>8, <2>9 DEF CallsInv
<1>15. ASSUME NEW p \in Process, Finish(p) PROVE CallsInv'
  <2>1. Short' = Short
    BY <1>15 DEF Finish, Short
  <2>2. pc[p] = "closing" /\ Len(calls[p]) = Base + 1
    BY <1>15 DEF Finish, CallsInv, Passed
  <2>3. "barrier" = Kind(Len(calls[p]) + 1)
    BY <2>2 DEF Kind, Base
  <2>4. /\ Len(calls[p]) \in Nat /\ Len(calls'[p]) = Len(calls[p]) + 1
        /\ \A q \in Process : q # p => calls'[q] = calls[q]
        /\ \A q \in Process : InOrder(q)'
    BY <1>15, <2>1, <2>3, EnterExtends DEF Finish
  <2>5. UNCHANGED <<res, startMsg, source>> /\ pc'[p] = "finish"
        /\ \A q \in Process : q # p => pc'[q] = pc[q]
    BY <1>15 DEF Finish, Go, msgs, TypeOK
  <2>6. Passed(p)'
    BY <2>1, <2>2, <2>4, <2>5 DEF Passed, Base
  <2>7. \A q \in Process : q # p => Passed(q)'
    BY <2>1, <2>4, <2>5 DEF CallsInv, Passed, Base
  <2>8. \A w \in Worker : Told(w)'
    BY <2>1, <2>5 DEF CallsInv, Told
  <2>9. Untold'
    <3>1. p = Leader \/ p \in Worker
      BY DEF Process, Worker, Leader
    <3>2. pc'[Leader] # "preprocess"
      BY <1>0, <2>2, <2>5, <3>1 DEF CallsInv, Untold
    <3> QED
      BY <3>2 DEF Untold
  <2> QED
    BY <2>4, <2>6, <2>7, <2>8, <2>9 DEF CallsInv
<1>16. ASSUME NEW p \in Process, Finalize(p) PROVE CallsInv'
  BY <1>0, <1>16 DEF Finalize, Go, Enter, msgs, TypeOK, CallsInv, Passed, InOrder,
     Told, Untold, Short, Base, Kind
<1>17. CASE Preprocess
  <2>1. /\ pc[Leader] = "preprocess" /\ ~Short /\ source' = source /\ calls' = calls
        /\ \A w \in Worker : pc'[w] = "start" /\ calls[w] = <<>>
        /\ calls[Leader] = <<>>
    BY <1>0, <1>17 DEF Preprocess, Go, CallsInv, Passed, Untold, Short, TypeOK
  <2>2. \/ pc'[Leader] = "setup" /\ res' = res /\ \A w \in Worker : startMsg'[w] = "go"
        \/ pc'[Leader] = "close" /\ res'[Leader] = 20 /\ \A w \in Worker : startMsg'[w] = "stop"
    BY <1>0, <1>17 DEF Preprocess, Go, TypeOK
  <2>3. pc'[Leader] = "close" => Short'
    <3>1. source = Leader
      BY <2>1 DEF CallsInv, Untold
    <3> QED
      BY <2>1, <2>2, <3>1 DEF Short
  <2>4. pc'[Leader] = "setup" => ~Short'
    BY <2>1, <2>2 DEF Short
  <2>5. \A p \in Process : p = Leader \/ p \in Worker
    BY DEF Process, Worker, Leader
  <2>6. \A p \in Process : Passed(p)' /\ InOrder(p)'
    BY <2>1, <2>2, <2>3, <2>4, <2>5 DEF Passed, InOrder, Base
  <2>7. Untold' /\ \A w \in Worker : Told(w)'
    BY <2>2, <2>3, <2>4 DEF Untold, Told
  <2> QED
    BY <2>6, <2>7 DEF CallsInv
<1>18. CASE PollTimeout
  BY <1>0, <1>18 DEF PollTimeout, Go, Enter, msgs, TypeOK, CallsInv, Passed, InOrder,
     Told, Untold, Short, Base, Kind
<1>19. CASE ReceiveModel
  BY <1>0, <1>19 DEF ReceiveModel, Go, Enter, msgs, TypeOK, CallsInv, Passed, InOrder,
     Told, Untold, Short, Base, Kind
<1>20. CASE PrintAnswer
  BY <1>0, <1>20 DEF PrintAnswer, Go, Enter, msgs, TypeOK, CallsInv, Passed, InOrder,
     Told, Untold, Short, Base, Kind
<1>21. CASE UNCHANGED vars
  BY <1>0, <1>21 DEF vars, msgs, TypeOK, CallsInv, Passed, InOrder, Told, Untold,
     Short, Base, Kind
<1> QED
  BY <1>0, <1>1, <1>2, <1>3, <1>4, <1>5, <1>6, <1>7, <1>8, <1>9, <1>10, <1>11, <1>12,
     <1>13, <1>14, <1>15, <1>16, <1>17, <1>18, <1>19, <1>20, <1>21 DEF Next,
     LeaderStep, WorkerStep, Collective, Done

(* Answers, up to the print. *)
LEMMA AnswerNext == TypeOK /\ CallsInv /\ ReportInv /\ AnswerInv /\ [Next]_vars => AnswerInv'
<1> SUFFICES ASSUME TypeOK, CallsInv, ReportInv, AnswerInv, [Next]_vars PROVE AnswerInv'
  OBVIOUS
<1>0. /\ W \in Nat \ {0} /\ Leader \in Process /\ Leader \notin Worker
      /\ \A w \in Worker : w \in Process /\ w # Leader
  BY WAssumption DEF Worker, Process, Leader
<1>1. ASSUME NEW w \in Worker, ReceiveStart(w) PROVE AnswerInv'
  BY <1>0, <1>1 DEF ReceiveStart, Go, Enter, msgs, TypeOK, CallsInv, Passed, AnswerInv,
     Short, Base
<1>2. ASSUME NEW w \in Worker, RunAnswers(w) PROVE AnswerInv'
  BY <1>0, <1>2 DEF RunAnswers, Go, Enter, msgs, TypeOK, CallsInv, Passed, AnswerInv,
     Short, Base
<1>3. ASSUME NEW w \in Worker, RunTimeout(w) PROVE AnswerInv'
  BY <1>0, <1>3 DEF RunTimeout, Go, Enter, msgs, TypeOK, CallsInv, Passed, AnswerInv,
     Short, Base
<1>4. ASSUME NEW w \in Worker, RunTerminated(w) PROVE AnswerInv'
  BY <1>0, <1>4 DEF RunTerminated, Go, Enter, msgs, TypeOK, CallsInv, Passed,
     AnswerInv, Short, Base
<1>5. ASSUME NEW w \in Worker, Report(w) PROVE AnswerInv'
  BY <1>0, <1>5 DEF Report, Go, Enter, msgs, TypeOK, CallsInv, Passed, AnswerInv,
     Short, Base
<1>6. ASSUME NEW w \in Worker, ReplyTimeout(w) PROVE AnswerInv'
  BY <1>0, <1>6 DEF ReplyTimeout, Go, Enter, msgs, TypeOK, CallsInv, Passed, AnswerInv,
     Short, Base
<1>7. ASSUME NEW w \in Worker, ReplyTerminated(w) PROVE AnswerInv'
  BY <1>0, <1>7 DEF ReplyTerminated, Go, Enter, msgs, TypeOK, CallsInv, Passed,
     AnswerInv, Short, Base
<1>8. ASSUME NEW w \in Worker, ReplyModel(w) PROVE AnswerInv'
  BY <1>0, <1>8 DEF ReplyModel, Go, Enter, msgs, TypeOK, CallsInv, Passed, AnswerInv,
     Short, Base
<1>9. ASSUME NEW w \in Worker, PollSolved(w) PROVE AnswerInv'
  <2>1. Short' = Short /\ UNCHANGED <<calls, inside, printed>> /\ pc[Leader] = "poll"
    <3>1. ~Short /\ source' = w /\ w # Leader
      BY <1>0, <1>9 DEF PollSolved, CallsInv, Passed
    <3> QED
      BY <1>9, <3>1 DEF PollSolved, Short
  <2>2. /\ source' = w /\ res[w] # 0 /\ pc'[Leader] \in {"model", "close"}
        /\ \A v \in Worker : pc'[v] = pc[v] /\ res'[v] = res[v]
    BY <1>0, <1>9 DEF PollSolved, Go, ReportInv, Reporting, TypeOK
  <2> QED
    BY <1>0, <2>1, <2>2 DEF AnswerInv
<1>10. ASSUME NEW p \in Process, TimePasses(p) PROVE AnswerInv'
  BY <1>0, <1>10 DEF TimePasses, Go, Enter, msgs, TypeOK, CallsInv, Passed, AnswerInv,
     Short, Base
<1>11. ASSUME NEW p \in Process, Leave(p) PROVE AnswerInv'
  <2>1. Short' = Short /\ UNCHANGED <<calls, pc, res, source, printed>>
    BY <1>11 DEF Leave, Short
  <2>2. CASE p # Leader
    <3>1. inside'[Leader] = inside[Leader]
      BY <1>0, <1>11, <2>2 DEF Leave, TypeOK
    <3> QED
      BY <2>1, <3>1 DEF AnswerInv, Base
  <2>3. CASE p = Leader
    <3>1. ASSUME pc[Leader] = "closing"
      PROVE \A q \in Process : Len(calls[q]) >= Base + 1
      <4>1. Len(calls[Leader]) = Base + 1 /\ calls[Leader][Base + 1] = Kind(Base + 1)
        BY <1>0, <3>1 DEF CallsInv, Passed, InOrder, Base
      <4>2. Kind(Base + 1) = "barrier"
        BY DEF Kind, Base
      <4> QED
        BY <1>11, <2>3, <4>1, <4>2 DEF Leave, CanLeave
    <3> QED
      BY <2>1, <3>1 DEF AnswerInv, Base
  <2> QED
    BY <2>2, <2>3
<1>12. ASSUME NEW p \in Process, Setup(p) PROVE AnswerInv'
  BY <1>0, <1>12 DEF Setup, Go, Enter, msgs, TypeOK, CallsInv, Passed, AnswerInv,
     Short, Base
<1>13. ASSUME NEW p \in Process, SetupDone(p) PROVE AnswerInv'
  BY <1>0, <1>13 DEF SetupDone, Go, Enter, msgs, TypeOK, CallsInv, Passed, AnswerInv,
     Short, Base
<1>14. ASSUME NEW p \in Process, Close(p) PROVE AnswerInv'
  BY <1>0, <1>14 DEF Close, Go, Enter, msgs, TypeOK, CallsInv, Passed, AnswerInv,
     Short, Base
<1>15. ASSUME NEW p \in Process, Finish(p) PROVE AnswerInv'
  BY <1>0, <1>15 DEF Finish, Go, Enter, msgs, TypeOK, CallsInv, Passed, AnswerInv,
     Short, Base
<1>16. ASSUME NEW p \in Process, Finalize(p) PROVE AnswerInv'
  BY <1>0, <1>16 DEF Finalize, Go, Enter, msgs, TypeOK, CallsInv, Passed, AnswerInv,
     Short, Base
<1>17. CASE Preprocess
  BY <1>0, <1>17 DEF Preprocess, Go, Enter, msgs, TypeOK, CallsInv, Passed, AnswerInv,
     Short, Base
<1>18. CASE PollTimeout
  BY <1>0, <1>18 DEF PollTimeout, Go, Enter, msgs, TypeOK, CallsInv, Passed, AnswerInv,
     Short, Base
<1>19. CASE ReceiveModel
  BY <1>0, <1>19 DEF ReceiveModel, Go, Enter, msgs, TypeOK, CallsInv, Passed,
     AnswerInv, Short, Base
<1>20. CASE PrintAnswer
  BY <1>0, <1>20 DEF PrintAnswer, Go, Enter, msgs, TypeOK, CallsInv, Passed, AnswerInv,
     Short, Base
<1>21. CASE UNCHANGED vars
  BY <1>0, <1>21 DEF vars, msgs, TypeOK, CallsInv, Passed, AnswerInv, Short, Base
<1> QED
  BY <1>0, <1>1, <1>2, <1>3, <1>4, <1>5, <1>6, <1>7, <1>8, <1>9, <1>10, <1>11, <1>12,
     <1>13, <1>14, <1>15, <1>16, <1>17, <1>18, <1>19, <1>20, <1>21 DEF Next,
     LeaderStep, WorkerStep, Collective, Done

LEMMA Invariant == Spec => []IInv
<1>1. Init => IInv
  BY IInit
<1>2. IInv /\ [Next]_vars => IInv'
  BY TypeNext, CallsNext, ReportNext, AnswerNext DEF IInv
<1> QED
  BY <1>1, <1>2, PTL DEF Spec

(* Every message, report and call record has its type, for any number of workers. *)
THEOREM TypeCorrect == Spec => []TypeOK
<1>1. IInv => TypeOK
  BY DEF IInv
<1> QED
  BY <1>1, Invariant, PTL

(* leader_main, worker_main and main make the same barriers and broadcasts in *)
(* the same order, whatever branch each rank takes and however many there are. *)
THEOREM CallsMatch == Spec => []CollectivesMatch
<1>1. IInv => CollectivesMatch
  <2> SUFFICES ASSUME IInv, NEW p \in Process, NEW q \in Process,
                      NEW n \in DOMAIN calls[p] \cap DOMAIN calls[q]
               PROVE  calls[p][n] = calls[q][n]
    BY DEF CollectivesMatch
  <2>1. calls[p] \in Seq({"barrier", "bcast"}) /\ calls[q] \in Seq({"barrier", "bcast"})
    BY DEF IInv, TypeOK
  <2>2. n \in 1 .. Len(calls[p]) /\ n \in 1 .. Len(calls[q])
    BY <2>1
  <2> QED
    BY <2>2 DEF IInv, CallsInv, InOrder
<1> QED
  BY <1>1, Invariant, PTL

(* Of any number of workers, the one whose model the leader waits for can    *)
(* only be missing because its own clock has passed the cutoff.              *)
THEOREM CutoffDeserts == Spec => []OnlyCutoffDeserts
<1>1. IInv => OnlyCutoffDeserts
  BY DEF IInv, ReportInv, Chosen, OnlyCutoffDeserts
<1> QED
  BY <1>1, Invariant, PTL

----------------------------------------------------------------------------
Completed == {w \in Worker : res[w] # 0} \cup (IF Short THEN {Preprocessor} ELSE {})

(* Steps that leave the answers and the print alone. *)
LEMMA Silent ==
  ASSUME UNCHANGED <<res, source, printed>>
  PROVE  UNCHANGED <<Completed, printed>>
BY DEF Completed, Short

(* A worker that leaves light::run completes its answer, or has none. *)
LEMMA RunCompletes ==
  ASSUME IInv, NEW w \in Worker, pc[w] = "run", NEW r, res' = [res EXCEPT ![w] = r],
         UNCHANGED <<source, printed>>
  PROVE  \/ UNCHANGED <<Completed, printed>>
         \/ printed = 0 /\ printed' = printed /\ Completed' = Completed \cup {w}
<1>0. W \in Nat \ {0} /\ w \in Process /\ w # Leader
  BY WAssumption DEF Worker, Process, Leader
<1>1. res[w] = 0
  BY DEF IInv, AnswerInv
<1>2. printed = 0
  <2>1. Len(calls[w]) = 5 /\ Base = 5
    BY <1>0 DEF IInv, CallsInv, Passed, Base
  <2>2. ~ Len(calls[w]) >= Base + 1
    BY <2>1
  <2> QED
    BY <1>0, <2>2 DEF IInv, AnswerInv
<1>3. Short' = Short /\ \A v \in Worker : v # w => res'[v] = res[v]
  BY <1>0 DEF IInv, TypeOK, Short, Worker, Process, Leader
<1>4. res'[w] = r
  BY <1>0 DEF IInv, TypeOK
<1>5. CASE r = 0
  BY <1>1, <1>3, <1>4, <1>5 DEF Completed
<1>6. CASE r # 0
  BY <1>1, <1>2, <1>3, <1>4, <1>6 DEF Completed
<1> QED
  BY <1>5, <1>6

(* Every step of the job is a step of Portfolio or none. *)
LEMMA StepImplements ==
  ASSUME IInv, [Next]_vars
  PROVE  \/ UNCHANGED <<Completed, printed>>
         \/ \E c \in 1 .. Preprocessor : printed = 0 /\ printed' = printed /\ Completed' = Completed \cup {c}
         \/ \E c \in 1 .. Preprocessor : printed = 0 /\ c \in Completed /\ printed' = c /\ UNCHANGED Completed
         \/ printed = 0 /\ printed' = -1 /\ UNCHANGED Completed
<1> DEFINE Goal == \/ UNCHANGED <<Completed, printed>>
                   \/ \E c \in 1 .. Preprocessor : printed = 0 /\ printed' = printed /\ Completed' = Completed \cup {c}
                   \/ \E c \in 1 .. Preprocessor : printed = 0 /\ c \in Completed /\ printed' = c /\ UNCHANGED Completed
                   \/ printed = 0 /\ printed' = -1 /\ UNCHANGED Completed
<1> SUFFICES Goal
  OBVIOUS
<1>0. /\ W \in Nat \ {0} /\ Leader \in Process /\ Preprocessor \in 1 .. Preprocessor
      /\ \A w \in Worker : w \in 1 .. Preprocessor /\ w \in Process /\ w # Leader
  BY WAssumption DEF Worker, Process, Leader, Preprocessor
<1>1. ASSUME NEW w \in Worker, ReceiveStart(w) PROVE Goal
  BY <1>1, Silent DEF ReceiveStart, msgs
<1>2. ASSUME NEW w \in Worker, Report(w) PROVE Goal
  BY <1>2, Silent DEF Report, msgs
<1>3. ASSUME NEW w \in Worker, ReplyTimeout(w) PROVE Goal
  BY <1>3, Silent DEF ReplyTimeout, msgs
<1>4. ASSUME NEW w \in Worker, ReplyTerminated(w) PROVE Goal
  BY <1>4, Silent DEF ReplyTerminated, msgs
<1>5. ASSUME NEW w \in Worker, ReplyModel(w) PROVE Goal
  BY <1>5, Silent DEF ReplyModel, msgs
<1>6. ASSUME NEW w \in Worker, RunAnswers(w) PROVE Goal
  BY <1>0, <1>6, RunCompletes DEF RunAnswers
<1>7. ASSUME NEW w \in Worker, RunTimeout(w) PROVE Goal
  <2>1. PICK r : res' = [res EXCEPT ![w] = r]
    BY <1>7 DEF RunTimeout
  <2>2. pc[w] = "run" /\ UNCHANGED <<source, printed>>
    BY <1>7 DEF RunTimeout
  <2> QED
    BY <1>0, <2>1, <2>2, RunCompletes
<1>8. ASSUME NEW w \in Worker, RunTerminated(w) PROVE Goal
  <2>1. PICK r : res' = [res EXCEPT ![w] = r]
    BY <1>8 DEF RunTerminated
  <2>2. pc[w] = "run" /\ UNCHANGED <<source, printed>>
    BY <1>8 DEF RunTerminated
  <2> QED
    BY <1>0, <2>1, <2>2, RunCompletes
<1>9. ASSUME NEW w \in Worker, PollSolved(w) PROVE Goal
  <2>1. pc[Leader] = "poll" /\ source' = w /\ printed' = printed
        /\ \A v \in Worker : res'[v] = res[v]
    BY <1>0, <1>9 DEF PollSolved, IInv, TypeOK
  <2>2. ~Short /\ ~Short'
    BY <1>0, <2>1 DEF IInv, CallsInv, Passed, Short
  <2> QED
    BY <2>1, <2>2 DEF Completed
<1>10. ASSUME NEW p \in Process, TimePasses(p) PROVE Goal
  BY <1>10, Silent DEF TimePasses, msgs
<1>11. ASSUME NEW p \in Process, Leave(p) PROVE Goal
  BY <1>11, Silent DEF Leave, msgs
<1>12. ASSUME NEW p \in Process, Setup(p) PROVE Goal
  BY <1>12, Silent DEF Setup, msgs
<1>13. ASSUME NEW p \in Process, SetupDone(p) PROVE Goal
  BY <1>13, Silent DEF SetupDone, msgs
<1>14. ASSUME NEW p \in Process, Close(p) PROVE Goal
  BY <1>14, Silent DEF Close, msgs
<1>15. ASSUME NEW p \in Process, Finish(p) PROVE Goal
  BY <1>15, Silent DEF Finish, msgs
<1>16. ASSUME NEW p \in Process, Finalize(p) PROVE Goal
  BY <1>16, Silent DEF Finalize, msgs
<1>17. ASSUME Preprocess PROVE Goal
  <2>1. /\ pc[Leader] = "preprocess" /\ source = Leader /\ source' = source
        /\ res[Leader] = 0 /\ printed' = printed
    BY <1>17 DEF Preprocess, IInv, CallsInv, Untold
  <2>2. printed = 0
    BY <2>1 DEF IInv, AnswerInv
  <2>3. CASE res' = res
    BY <2>1, <2>3, Silent
  <2>4. CASE res' = [res EXCEPT ![Leader] = 20]
    <3>1. ~Short /\ Short' /\ \A w \in Worker : res'[w] = res[w]
      BY <1>0, <2>1, <2>4 DEF IInv, TypeOK, Short
    <3>2. Completed' = Completed \cup {Preprocessor}
      BY <3>1 DEF Completed
    <3> QED
      BY <1>0, <2>1, <2>2, <3>2
  <2> QED
    BY <1>17, <2>3, <2>4 DEF Preprocess
<1>18. ASSUME PollTimeout PROVE Goal
  BY <1>18, Silent DEF PollTimeout, msgs
<1>19. ASSUME ReceiveModel PROVE Goal
  BY <1>19, Silent DEF ReceiveModel, msgs
<1>20. ASSUME PrintAnswer PROVE Goal
  <2>1. printed = 0 /\ printed' = Answer /\ UNCHANGED <<res, source>>
    BY <1>20 DEF PrintAnswer
  <2>2. UNCHANGED Completed
    BY <2>1 DEF Completed, Short
  <2>3. CASE res[Leader] = 0
    BY <2>1, <2>2, <2>3 DEF Answer
  <2>4. CASE res[Leader] # 0 /\ source = Leader
    BY <1>0, <2>1, <2>2, <2>4 DEF Answer, Completed, Short
  <2>5. CASE res[Leader] # 0 /\ source # Leader
    <3>1. source \in Worker
      BY <1>0, <2>5 DEF IInv, TypeOK, Process, Worker, Leader
    <3>2. source \in Completed
      BY <3>1 DEF IInv, AnswerInv, Completed
    <3> QED
      BY <1>0, <2>1, <2>2, <2>5, <3>1, <3>2 DEF Answer
  <2> QED
    BY <2>3, <2>4, <2>5
<1>21. ASSUME UNCHANGED vars PROVE Goal
  BY <1>21, Silent DEF vars, msgs
<1> HIDE DEF Goal
<1> QED
  BY <1>0, <1>1, <1>2, <1>3, <1>4, <1>5, <1>6, <1>7, <1>8, <1>9, <1>10, <1>11, <1>12,
     <1>13, <1>14, <1>15, <1>16, <1>17, <1>18, <1>19, <1>20, <1>21 DEF Next,
     LeaderStep, WorkerStep, Collective, Done

(* What the leader prints is what Portfolio allows, for any number of ranks: *)
(* the answer of a worker that has one or of the preprocessor, or UNKNOWN,   *)
(* once, and after every search has ended.                                   *)
THEOREM Implements == Spec => ImplementsPortfolio
<1>1. Init => Abstract!Init
  <2>1. ASSUME Init PROVE Completed = {} /\ printed = 0
    BY <2>1, WAssumption DEF Init, Completed, Short, Worker, Process, Leader
  <2> QED
    BY <2>1 DEF Abstract!Init, Abstract!Running, Completed, Short
<1>2. IInv /\ [Next]_vars => [Abstract!Next]_<<Completed, printed>>
  <2> SUFFICES ASSUME IInv, [Next]_vars PROVE [Abstract!Next]_<<Completed, printed>>
    OBVIOUS
  <2> QED
    BY StepImplements DEF Abstract!Next, Abstract!Complete, Abstract!Publish,
       Abstract!GiveUp,
       Abstract!Running, Abstract!Unknown, Completed, Short
<1> QED
  BY <1>1, <1>2, Invariant, PTL DEF Spec, ImplementsPortfolio, Abstract!Spec,
     Completed, Short

-------------------------------------------------------------------------------
Workers == Nat \ {0}

LEMMA Sizes ==
  ASSUME NEW n \in Workers, n > 8
  PROVE  /\ LastSat(n) \in Int /\ LastUnsat(n) \in Int /\ LastMaple(n) \in Int
         /\ 1 <= LastSat(n) /\ LastSat(n) + 2 <= LastUnsat(n) /\ LastUnsat(n) + 1 <= LastMaple(n)
         /\ LastMaple(n) + 2 <= n
<1>1. /\ n \div 8 \in Int /\ 8 * (n \div 8) <= n /\ n < 8 * (n \div 8) + 8
      /\ n \div 4 \in Int /\ 4 * (n \div 4) <= n /\ n < 4 * (n \div 4) + 4
  BY DEF Workers
<1> DEFINE a == n \div 8   b == n \div 4
<1>2. a \in Int /\ b \in Int /\ 8 * a <= n /\ n < 8 * a + 8 /\ 4 * b <= n /\ n < 4 * b + 4
  BY <1>1
<1> HIDE DEF a, b
<1>3. 1 <= a /\ 2 <= b /\ a + b + a + 2 <= n
  BY <1>2 DEF Workers
<1> QED BY <1>2, <1>3 DEF LastSat, LastUnsat, LastMaple, sat_procs, unsat_procs, maple_procs, a, b

\* Every group is an interval that is not empty, so its last rank is one more than its size behind the one before.
LEMMA Intervals ==
  ASSUME NEW n \in Workers, NEW g \in sharing_groups(n)
  PROVE  \E lo, hi \in 1 .. n : lo <= hi /\ g = lo .. hi
<1>1. CASE n <= 8
  <2>1. g = 1 .. n /\ 1 \in 1 .. n /\ n \in 1 .. n
    BY <1>1 DEF sharing_groups, Workers
  <2> QED BY <2>1
<1>2. CASE n > 8
  <2> DEFINE A == LastSat(n)  B == LastUnsat(n)  C == LastMaple(n)
  <2>1. A \in Int /\ B \in Int /\ C \in Int /\ n \in Int /\ 1 <= A /\ A + 2 <= B /\ B + 1 <= C /\ C + 2 <= n
    BY <1>2, Sizes DEF Workers
  <2>2. g = 1 .. A \/ g = A + 1 .. B \/ g = B + 1 .. C \/ g = {C + 1} \/ g = C + 2 .. n
    BY <1>2 DEF sharing_groups, Workers
  <2> HIDE DEF A, B, C
  <2>3. {C + 1} = C + 1 .. C + 1
    BY <2>1
  <2>4. /\ 1 \in 1 .. n /\ A \in 1 .. n /\ A + 1 \in 1 .. n /\ B \in 1 .. n /\ B + 1 \in 1 .. n
        /\ C \in 1 .. n /\ C + 1 \in 1 .. n /\ C + 2 \in 1 .. n /\ n \in 1 .. n
    BY <2>1
  <2>5. 1 <= A /\ A + 1 <= B /\ B + 1 <= C /\ C + 1 <= C + 1
    BY <2>1
  <2> QED BY <2>1, <2>2, <2>3, <2>4, <2>5
<1> QED BY <1>1, <1>2 DEF Workers

(* The groups split the workers for every number of them: every rank is in  *)
(* exactly one group, and no group is empty - for the last one the code     *)
(* asserts default_procs > 0 (solve.cpp 324).                               *)
THEOREM Partition ==
  \A n \in Workers : /\ UNION sharing_groups(n) = 1 .. n
                     /\ \A g, h \in sharing_groups(n) : g # h => g \cap h = {}
                     /\ {} \notin sharing_groups(n)
                     /\ n > 8 => default_procs(n) > 0
<1> SUFFICES ASSUME NEW n \in Workers
             PROVE  /\ UNION sharing_groups(n) = 1 .. n
                    /\ \A g, h \in sharing_groups(n) : g # h => g \cap h = {}
                    /\ {} \notin sharing_groups(n)
                    /\ n > 8 => default_procs(n) > 0
  OBVIOUS
<1>1. \A g \in sharing_groups(n) : \E lo, hi \in 1 .. n : lo <= hi /\ g = lo .. hi
  BY Intervals
<1>2. {} \notin sharing_groups(n)
  <2> SUFFICES ASSUME {} \in sharing_groups(n) PROVE FALSE
    OBVIOUS
  <2>1. PICK lo \in 1 .. n, hi \in 1 .. n : lo <= hi /\ {} = lo .. hi
    BY <1>1
  <2>2. lo \in lo .. hi
    BY <2>1 DEF Workers
  <2> QED BY <2>1, <2>2
<1>3. CASE n <= 8
  <2>1. sharing_groups(n) = {1 .. n} /\ ~(n > 8)
    BY <1>3 DEF sharing_groups, Workers
  <2>2. UNION {1 .. n} = 1 .. n
    OBVIOUS
  <2> QED BY <1>2, <2>1, <2>2
<1>4. CASE n > 8
  <2> DEFINE A == LastSat(n)  B == LastUnsat(n)  C == LastMaple(n)
  <2>1. A \in Int /\ B \in Int /\ C \in Int /\ n \in Int /\ 1 <= A /\ A + 2 <= B /\ B + 1 <= C /\ C + 2 <= n
    BY <1>4, Sizes DEF Workers
  <2>2. sharing_groups(n) = {1 .. A, A + 1 .. B, B + 1 .. C, {C + 1}, C + 2 .. n}
    BY <1>4 DEF sharing_groups, Workers
  <2>3. default_procs(n) > 0
    BY <1>4, Sizes DEF default_procs, LastMaple, LastUnsat, sat_procs, unsat_procs, maple_procs, Workers
  <2> HIDE DEF A, B, C
  <2>4. (1 .. A) \cup (A + 1 .. B) \cup (B + 1 .. C) \cup {C + 1} \cup (C + 2 .. n) = 1 .. n
    BY <2>1
  <2>5. /\ (1 .. A) \cap (A + 1 .. B) = {} /\ (1 .. A) \cap (B + 1 .. C) = {}
        /\ (1 .. A) \cap {C + 1} = {} /\ (1 .. A) \cap (C + 2 .. n) = {}
        /\ (A + 1 .. B) \cap (B + 1 .. C) = {} /\ (A + 1 .. B) \cap {C + 1} = {}
        /\ (A + 1 .. B) \cap (C + 2 .. n) = {} /\ (B + 1 .. C) \cap {C + 1} = {}
        /\ (B + 1 .. C) \cap (C + 2 .. n) = {} /\ {C + 1} \cap (C + 2 .. n) = {}
    BY <2>1
  <2>6. UNION sharing_groups(n) = 1 .. n
    BY <2>2, <2>4
  <2>7. \A g, h \in sharing_groups(n) : g # h => g \cap h = {}
    <3> SUFFICES ASSUME NEW g \in sharing_groups(n), NEW h \in sharing_groups(n), g # h
                 PROVE  g \cap h = {}
      OBVIOUS
    <3> DEFINE X == 1 .. A   Y == A + 1 .. B   Z == B + 1 .. C   U == {C + 1}   Last == C + 2 .. n
    <3>1. g \in {X, Y, Z, U, Last} /\ h \in {X, Y, Z, U, Last}
      BY <2>2
    <3>2. /\ X \cap Y = {} /\ X \cap Z = {} /\ X \cap U = {} /\ X \cap Last = {} /\ Y \cap Z = {}
          /\ Y \cap U = {} /\ Y \cap Last = {} /\ Z \cap U = {} /\ Z \cap Last = {} /\ U \cap Last = {}
      BY <2>5
    <3> HIDE DEF X, Y, Z, U, Last
    <3>3. \A p, q : p \cap q = q \cap p
      OBVIOUS
    <3> QED BY <3>1, <3>2, <3>3
  <2> QED BY <1>2, <2>3, <2>6, <2>7
<1> QED BY <1>3, <1>4 DEF Workers

(* Clauses are shared by workers of one kind only: solver and mode are set  *)
(* by tests of the rank of their own, and no worker is left without a mode. *)
THEOREM OneKindPerGroup ==
  \A n \in Workers : \A g \in sharing_groups(n) : \A r, s \in g :
     /\ solver_type(n, r) = solver_type(n, s)
     /\ worker_type(n, r) = worker_type(n, s) /\ worker_type(n, r) # "unset"
<1> SUFFICES ASSUME NEW n \in Workers, NEW g \in sharing_groups(n), NEW r \in g, NEW s \in g
             PROVE  /\ solver_type(n, r) = solver_type(n, s)
                    /\ worker_type(n, r) = worker_type(n, s) /\ worker_type(n, r) # "unset"
  OBVIOUS
<1>1. CASE n <= 8
  BY <1>1 DEF solver_type, worker_type
<1>2. CASE n > 8
  <2> DEFINE A == LastSat(n)  B == LastUnsat(n)  C == LastMaple(n)
  <2>1. A \in Int /\ B \in Int /\ C \in Int /\ n \in Int /\ 1 <= A /\ A + 2 <= B /\ B + 1 <= C /\ C + 2 <= n
    BY <1>2, Sizes DEF Workers
  <2>2. g = 1 .. A \/ g = A + 1 .. B \/ g = B + 1 .. C \/ g = {C + 1} \/ g = C + 2 .. n
    BY <1>2 DEF sharing_groups, Workers
  <2>3. ~(n <= 8)
    BY <1>2 DEF Workers
  <2>4. CASE g = 1 .. A
    BY <2>1, <2>3, <2>4 DEF solver_type, worker_type
  <2>5. CASE g = A + 1 .. B
    BY <2>1, <2>3, <2>5 DEF solver_type, worker_type
  <2>6. CASE g = B + 1 .. C
    BY <2>1, <2>3, <2>6 DEF solver_type, worker_type
  <2>7. CASE g = {C + 1}
    BY <2>1, <2>3, <2>7 DEF solver_type, worker_type
  <2>8. CASE g = C + 2 .. n
    BY <2>1, <2>3, <2>8 DEF solver_type, worker_type
  <2> QED BY <2>2, <2>4, <2>5, <2>6, <2>7, <2>8
<1> QED BY <1>1, <1>2 DEF Workers

(* In the ring of a group every worker sends to one of the group, every     *)
(* worker is sent to, and no two send to the same one.                      *)
THEOREM RingCloses ==
  \A n \in Workers : \A g \in sharing_groups(n) :
     /\ \A r \in g : next_node(g, r) \in g
     /\ \A r, s \in g : next_node(g, r) = next_node(g, s) => r = s
     /\ \A s \in g : \E r \in g : next_node(g, r) = s
<1> SUFFICES ASSUME NEW n \in Workers, NEW g \in sharing_groups(n)
             PROVE  /\ \A r \in g : next_node(g, r) \in g
                    /\ \A r, s \in g : next_node(g, r) = next_node(g, s) => r = s
                    /\ \A s \in g : \E r \in g : next_node(g, r) = s
  OBVIOUS
<1>1. PICK lo \in 1 .. n, hi \in 1 .. n : lo <= hi /\ g = lo .. hi
  BY Intervals
<1>2. lo \in Int /\ hi \in Int
  BY DEF Workers
<1>3. FirstOf(g) = lo
  <2>1. lo \in g /\ \A y \in g : lo <= y
    BY <1>1, <1>2
  <2>2. \A x \in g : (\A y \in g : x <= y) => x = lo
    BY <1>1, <1>2
  <2> QED BY <2>1, <2>2 DEF FirstOf
<1>4. \A r \in g : next_node(g, r) = IF r = hi THEN lo ELSE r + 1
  <2> TAKE r \in g
  <2>1. r + 1 \in g <=> r # hi
    BY <1>1, <1>2
  <2>2. next_node(g, r) = IF r + 1 \in g THEN r + 1 ELSE lo
    BY <1>3 DEF next_node
  <2> QED BY <2>1, <2>2
<1>5. \A r \in g : r \in Int /\ lo <= r /\ r <= hi
  BY <1>1, <1>2
<1>6. \A r \in g : next_node(g, r) \in g
  BY <1>1, <1>2, <1>4, <1>5
<1>7. \A r, s \in g : next_node(g, r) = next_node(g, s) => r = s
  BY <1>2, <1>4, <1>5
<1>8. \A s \in g : \E r \in g : next_node(g, r) = s
  <2> TAKE s \in g
  <2>1. CASE s = lo
    <3>1. hi \in g
      BY <1>1, <1>2
    <3> QED BY <1>4, <2>1, <3>1
  <2>2. CASE s # lo
    <3>1. s - 1 \in g /\ s - 1 # hi /\ (s - 1) + 1 = s
      BY <1>1, <1>2, <1>5, <2>2
    <3> QED BY <1>4, <3>1
  <2> QED BY <2>1, <2>2
<1> QED BY <1>6, <1>7, <1>8
===============================================================================
