---------------------------- MODULE LeaderWorker ----------------------------
(***************************************************************************)
(* The MPI job of PRS-distributed: leader_main (leader.hpp, rank 0),        *)
(* worker_main (worker.hpp, ranks 1 .. W) and the last barrier of main.cpp. *)
(* A worker's light::run is one step here; DistSolve models its inside.     *)
(* Messages of one tag between two processes arrive in order and none is    *)
(* lost (MPI); an Isend is a message that is there from now on.             *)
(***************************************************************************)
EXTENDS Integers, Sequences, FiniteSets

CONSTANTS W        \* worker processes, num_procs - 1

ASSUME WAssumption == W \in Nat \ {0}

Leader  == 0
Worker  == 1 .. W
Process == 0 .. W
Preprocessor == W + 1        \* as a participant that may refute the instance

VARIABLES verdict,           \* the instance: 10 satisfiable, 20 unsatisfiable
          pc,                \* per process
          calls,             \* per process: the collective calls it has entered
          inside,            \* per process: still in the last of them?
          late,              \* per process: has its own clock passed the cutoff?
          startMsg,          \* per worker: the START message: "none", "go" or "stop"
          terminateMsg,      \* per worker: a TERMINATE message has been sent
          res,               \* per process: 0, 10 or 20
          solvedMsg,         \* workers whose SOLVED report is in flight
          modelRequest,      \* per worker: the leader's MODEL message
          modelMsg,          \* per worker: the model itself
          source,            \* the worker whose report the leader took
          printed            \* 0, -1 (UNKNOWN) or the participant whose answer was printed

msgs == <<startMsg, terminateMsg, solvedMsg, modelRequest, modelMsg>>
vars == <<verdict, pc, calls, inside, late, res, msgs, source, printed>>

Init == /\ verdict \in {10, 20}
        /\ pc = [p \in Process |-> IF p = Leader THEN "preprocess" ELSE "start"]
        /\ calls = [p \in Process |-> <<>>] /\ inside = [p \in Process |-> FALSE]
        /\ late = [p \in Process |-> FALSE]
        /\ startMsg = [w \in Worker |-> "none"]
        /\ terminateMsg = [w \in Worker |-> FALSE]
        /\ res = [p \in Process |-> 0]
        /\ solvedMsg = {}
        /\ modelRequest = [w \in Worker |-> FALSE] /\ modelMsg = [w \in Worker |-> FALSE]
        /\ source = Leader /\ printed = 0

Go(p, to) == pc' = [pc EXCEPT ![p] = to]

(* A process's clock passes --times; the clocks are not synchronised.       *)
TimePasses(p) ==
  /\ ~late[p] /\ late' = [late EXCEPT ![p] = TRUE]
  /\ UNCHANGED <<verdict, pc, calls, inside, res, msgs, source, printed>>

----------------------------------------------------------------------------
(* The CNF is handed out, its length and its text, between three barriers:  *)
(* the calls of leader_main and those of worker_main.                       *)
LeaderProloguePlain == <<"bcast", "barrier", "bcast", "barrier">>
LeaderPrologue == <<"barrier", "bcast", "barrier", "bcast", "barrier">>
WorkerPrologue == <<"barrier", "bcast", "barrier", "bcast", "barrier">>
Prologue(p) == IF p = Leader THEN LeaderPrologue ELSE WorkerPrologue

(* A barrier lets a process go when all have entered it, a broadcast when   *)
(* the leader has.                                                          *)

CanLeave(p) ==
  LET n == Len(calls[p]) IN
  IF calls[p][n] = "barrier" THEN \A q \in Process : Len(calls[q]) >= n
                             ELSE Len(calls[Leader]) >= n

Enter(p, kind) ==
  /\ ~inside[p]
  /\ calls' = [calls EXCEPT ![p] = Append(@, kind)]
  /\ inside' = [inside EXCEPT ![p] = TRUE]

Leave(p) ==
  /\ inside[p] /\ CanLeave(p)
  /\ inside' = [inside EXCEPT ![p] = FALSE]
  /\ UNCHANGED <<verdict, pc, calls, late, res, msgs, source, printed>>

Setup(p) ==
  /\ pc[p] = "setup" /\ Len(calls[p]) < Len(Prologue(p))
  /\ Enter(p, Prologue(p)[Len(calls[p]) + 1])
  /\ UNCHANGED <<verdict, pc, late, res, msgs, source, printed>>

SetupDone(p) ==
  /\ pc[p] = "setup" /\ ~inside[p] /\ Len(calls[p]) = Len(Prologue(p))
  /\ Go(p, IF p = Leader THEN "poll" ELSE "run")
  /\ UNCHANGED <<verdict, calls, inside, late, res, msgs, source, printed>>

(* The barrier that ends leader_main or worker_main, then the one of main.  *)
Close(p) ==
  /\ pc[p] = "close" /\ Enter(p, "barrier") /\ Go(p, "closing")
  /\ UNCHANGED <<verdict, late, res, msgs, source, printed>>

Finish(p) ==
  /\ pc[p] = "closing" /\ ~inside[p]
  /\ p = Leader => printed # 0
  /\ Enter(p, "barrier") /\ Go(p, "finish")
  /\ UNCHANGED <<verdict, late, res, msgs, source, printed>>

Finalize(p) ==
  /\ pc[p] = "finish" /\ ~inside[p] /\ Go(p, "end")
  /\ UNCHANGED <<verdict, calls, inside, late, res, msgs, source, printed>>

----------------------------------------------------------------------------
(* do_preprocess, then START to every worker: 0 if the instance is refuted. *)
Preprocess ==
  /\ pc[Leader] = "preprocess"
  /\ \/ /\ Go(Leader, "setup")
        /\ startMsg' = [w \in Worker |-> "go"]
        /\ UNCHANGED res
     \/ /\ verdict = 20
        /\ Go(Leader, "close")
        /\ startMsg' = [w \in Worker |-> "stop"]
        /\ res' = [res EXCEPT ![Leader] = 20]
  /\ UNCHANGED <<verdict, calls, inside, late, terminateMsg, solvedMsg,
                 modelRequest, modelMsg, source, printed>>

(* solve_time > OPT(times).  In the polling loop it is tested first. *)
WorkerTimeOnly(p) == p # Leader /\ late[p]
TimeIsUp(p) == late[p]
PollTimeout ==
  /\ pc[Leader] = "poll" /\ TimeIsUp(Leader) /\ Go(Leader, "close")
  /\ UNCHANGED <<verdict, calls, inside, late, res, msgs, source, printed>>

(* The posted receive has matched worker w's report: TERMINATE to the other *)
(* workers, and for a satisfiable instance the model is asked for.          *)
AllWorkers(w) == Worker
NoWorker(w) == {}
Others(w) == Worker \ {w}
RankAsResult(w) == w
Reported(w) == res[w]
PollSolved(w) ==
  /\ pc[Leader] = "poll" /\ w \in solvedMsg
  /\ source' = w /\ solvedMsg' = solvedMsg \ {w}
  /\ terminateMsg' = [v \in Worker |-> terminateMsg[v] \/ v \in Others(w)]
  /\ res' = [res EXCEPT ![Leader] = Reported(w)]
  /\ modelRequest' = [modelRequest EXCEPT ![w] = res[w] = 10]
  /\ Go(Leader, IF res[w] = 10 THEN "model" ELSE "close")
  /\ UNCHANGED <<verdict, calls, inside, late, startMsg, modelMsg, printed>>

(* The blocking MPI_Recv of the model. *)
ReceiveModel ==
  /\ pc[Leader] = "model" /\ modelMsg[source] /\ Go(Leader, "close")
  /\ UNCHANGED <<verdict, calls, inside, late, res, msgs, source, printed>>

(* After the closing barrier. *)
AnswerOfAny == IF source = Leader THEN Preprocessor ELSE source
Answer == IF res[Leader] = 0 THEN -1
          ELSE IF source = Leader THEN Preprocessor ELSE source
PrintAnswer ==
  /\ pc[Leader] = "closing" /\ ~inside[Leader] /\ printed = 0
  /\ printed' = Answer
  /\ UNCHANGED <<verdict, pc, calls, inside, late, res, msgs, source>>

----------------------------------------------------------------------------
ReceiveStart(w) ==
  /\ pc[w] = "start" /\ startMsg[w] # "none"
  /\ Go(w, IF startMsg[w] = "go" THEN "setup" ELSE "close")
  /\ startMsg' = [startMsg EXCEPT ![w] = "none"]
  /\ UNCHANGED <<verdict, calls, inside, late, res, terminateMsg, solvedMsg,
                 modelRequest, modelMsg, source, printed>>

(* light::run returns: with an answer; or because TERMINATE or the cutoff   *)
(* came, and then a solver may still have left an answer.                   *)
RunAnswers(w) ==
  /\ pc[w] = "run" /\ Go(w, "report")
  /\ res' = [res EXCEPT ![w] = verdict]
  /\ UNCHANGED <<verdict, calls, inside, late, msgs, source, printed>>

RunTimeout(w) ==
  /\ pc[w] = "run" /\ TimeIsUp(w) /\ Go(w, "report")
  /\ \E r \in {0, verdict} : res' = [res EXCEPT ![w] = r]
  /\ UNCHANGED <<verdict, calls, inside, late, msgs, source, printed>>

RunTerminated(w) ==
  /\ pc[w] = "run" /\ terminateMsg[w] /\ Go(w, "report")
  /\ \E r \in {0, verdict} : res' = [res EXCEPT ![w] = r]
  /\ UNCHANGED <<verdict, calls, inside, late, startMsg, terminateMsg, solvedMsg,
                 modelRequest, modelMsg, source, printed>>

(* SOLVED goes to the leader; a model may be asked for. *)
Report(w) ==
  /\ pc[w] = "report"
  /\ solvedMsg' = IF res[w] = 0 THEN solvedMsg ELSE solvedMsg \cup {w}
  /\ Go(w, IF res[w] = 10 THEN "reply" ELSE "close")
  /\ UNCHANGED <<verdict, calls, inside, late, res, startMsg, terminateMsg,
                 modelRequest, modelMsg, source, printed>>

ReplyTimeout(w) ==
  /\ pc[w] = "reply" /\ TimeIsUp(w) /\ Go(w, "close")
  /\ UNCHANGED <<verdict, calls, inside, late, res, msgs, source, printed>>

(* MPI_Test on terminal_request; a request completed in light::solve is     *)
(* null, and its test succeeds as well.                                     *)
ReplyTerminated(w) ==
  /\ pc[w] = "reply" /\ terminateMsg[w] /\ Go(w, "close")
  /\ UNCHANGED <<verdict, calls, inside, late, res, startMsg, terminateMsg, solvedMsg,
                 modelRequest, modelMsg, source, printed>>

ReplyModel(w) ==
  /\ pc[w] = "reply" /\ modelRequest[w] /\ Go(w, "close")
  /\ modelMsg' = [modelMsg EXCEPT ![w] = TRUE]
  /\ UNCHANGED <<verdict, calls, inside, late, res, startMsg, terminateMsg,
                 solvedMsg, modelRequest, source, printed>>

Collective(p) == Leave(p) \/ Setup(p) \/ SetupDone(p) \/ Close(p) \/ Finish(p) \/ Finalize(p)

LeaderStep == \/ Preprocess \/ PollTimeout \/ (\E w \in Worker : PollSolved(w))
              \/ ReceiveModel \/ PrintAnswer \/ Collective(Leader)

WorkerStep(w) == \/ ReceiveStart(w) \/ RunTimeout(w) \/ RunTerminated(w) \/ Report(w)
                 \/ ReplyTimeout(w) \/ ReplyTerminated(w) \/ ReplyModel(w) \/ Collective(w)

Done == (\A p \in Process : pc[p] = "end") /\ UNCHANGED vars

Next == \/ LeaderStep \/ (\E w \in Worker : WorkerStep(w) \/ RunAnswers(w))
        \/ (\E p \in Process : TimePasses(p)) \/ Done

Spec == Init /\ [][Next]_vars

(* Processes run; no search need ever answer, and the clocks may stand      *)
(* still for as long as a property is about the time before the cutoff.     *)
FairSpec == Spec /\ WF_vars(LeaderStep) /\ \A w \in Worker : WF_vars(WorkerStep(w))

----------------------------------------------------------------------------
TypeOK ==
  /\ verdict \in {10, 20}
  /\ pc \in [Process -> {"preprocess", "start", "setup", "poll", "model", "run", "report",
                         "reply", "close", "closing", "finish", "end"}]
  /\ calls \in [Process -> Seq({"barrier", "bcast"})] /\ inside \in [Process -> BOOLEAN]
  /\ late \in [Process -> BOOLEAN]
  /\ startMsg \in [Worker -> {"none", "go", "stop"}]
  /\ terminateMsg \in [Worker -> BOOLEAN]
  /\ res \in [Process -> {0, verdict}]
  /\ solvedMsg \subseteq Worker
  /\ modelRequest \in [Worker -> BOOLEAN] /\ modelMsg \in [Worker -> BOOLEAN]
  /\ source \in Process /\ printed \in {-1, 0} \cup 1 .. Preprocessor

(* MPI requires all processes to make the same collective calls in the same *)
(* order: the branches of leader and worker (refuted by preprocessing, cut  *)
(* off, solved, terminated) agree on their number and kind.                 *)
CollectivesMatch ==
  \A p, q \in Process : \A i \in DOMAIN calls[p] \cap DOMAIN calls[q] :
    calls[p][i] = calls[q][i]

(* While the leader is blocked in the receive of the model, the worker it   *)
(* asked is still answering or its model is under way, unless that worker's *)
(* own clock has passed the cutoff: TERMINATE never hits the chosen worker. *)
OnlyCutoffDeserts ==
  pc[Leader] = "model" => pc[source] = "reply" \/ modelMsg[source] \/ late[source]

(* The answer that is printed is that of a worker that has one, or of the   *)
(* preprocessor, and no worker is still solving when it is printed.         *)
Abstract == INSTANCE Portfolio WITH
  Participant <- 1 .. Preprocessor,
  complete <- {w \in Worker : res[w] # 0} \cup
              (IF res[Leader] # 0 /\ source = Leader THEN {Preprocessor} ELSE {}),
  outcome <- printed
ImplementsPortfolio == Abstract!Spec

AllEnded == \A p \in Process : pc[p] = "end"

CutoffPasses == <>(\A p \in Process : late[p])

(* leader.hpp and worker.hpp test --times ("Cutoff time") in every loop: the *)
(* job ends once all clocks have passed it.                                  *)
CutoffEndsJob == CutoffPasses => <>AllEnded

(* The one way not to: the leader waits for the model of a worker that has  *)
(* left its answering loop because of the cutoff.                           *)
Deserted == pc[Leader] = "model" /\ pc[source] # "reply" /\ ~modelMsg[source]
EndsOrDeserted == CutoffPasses => <>(AllEnded \/ []Deserted)

(* Before the cutoff, one report ends the whole job: TERMINATE reaches the  *)
(* workers in whatever loop they are, and every barrier is met.             *)
ReportEndsJob == [](\A p \in Process : ~late[p]) => ((solvedMsg # {}) ~> AllEnded)
==============================================================================
