--------------------------------- MODULE Dce ---------------------------------
(***************************************************************************)
(* Deterministic clause exchange of PRS-thread (--DCE=1 --clause_sharing=1): *)
(* the solver threads of solve_worker, the periods in which they exchange   *)
(* learnt clauses (workers/basesolver.cpp, workers/sharer.cpp), and the     *)
(* main thread that watches the cutoff and joins them (solve.cpp).          *)
(*                                                                         *)
(* A worker's search is deterministic as long as it imports every bundle of *)
(* clauses due to it, so a behaviour starts by fixing fate[w]: the period   *)
(* in which w's search ends with an answer, or Never.  A worker whose       *)
(* solver has been told to stop may return without one, and, as kissat      *)
(* polls its flag only now and then, may also still find one.               *)
(*                                                                         *)
(* Next to some definitions stands a mistaken form of it (AfterNoSkip next  *)
(* to After): the change of the code that the properties must notice.       *)
(***************************************************************************)
EXTENDS Integers, Sequences, FiniteSets

CONSTANTS N,          \* nThreads, the number of workers
          Margin,     \* --margin: w imports at the end of period p the bundles of p - Margin
          MaxPeriod,  \* bound: no worker leaves period MaxPeriod
          Inf,        \* the 1e9 of winner_period and terminate_period
          Verdict     \* what the solvers answer for the instance: 10 or 20

ASSUME NAssumption       == N \in Nat \ {0}
ASSUME MarginAssumption  == Margin \in Nat
ASSUME PeriodAssumption  == MaxPeriod \in Nat /\ Inf \in Nat /\ MaxPeriod < Inf
ASSUME VerdictAssumption == Verdict \in {10, 20}

Worker == 1 .. N
Period == 0 .. MaxPeriod
Never  == Inf

VARIABLES
  fate,              \* fate[w]: the period in which w's search ends, or Never
  pc,                \* pc[w]: where worker thread w is
  period,            \* basesolver::period
  terminate_period,  \* basesolver::terminate_period
  ext_terminated,    \* basesolver::terminated, set by external_terminate
  stop,              \* kissat's solver->terminate
  pq,                \* basesolver::pq: the bundles [period, refs] w still offers
  import_clause,     \* import_clause[w]: the bundles <<s, k>> whose clauses wait in w's queue
  got,               \* history: every bundle w has imported
  unfree,            \* basesolver::unfree
  peer,              \* the producer at which w's loop over producers stands
  terminated,        \* the global flag of solve.cpp
  result, winner_period, winner_id,
  model,             \* the workers whose model vector is complete
  main,              \* where the main thread is
  joined             \* main's loop counter over the workers

exchange == <<pq, import_clause, got, unfree>>
outcome  == <<result, winner_period, winner_id, model>>
mainvars == <<main, joined>>
vars == <<fate, pc, period, terminate_period, ext_terminated, stop, exchange,
          peer, terminated, outcome, mainvars>>

WorkerPc == {"unborn", "search", "kill", "select", "inc", "import", "wait",
             "free", "pop", "answer", "commit", "copy", "exit"}

----------------------------------------------------------------------------
(* The loop "for (i = 0; i < producers.size(); i++) if (i == id) continue"  *)
AfterNoSkip(w, i) == i + 1
After(w, i) == IF i + 1 = w THEN i + 2 ELSE i + 1
First(w)    == After(w, 0)

(* period_queue::find: the slot is computed from the period of the front.   *)
Slot(s, k)  == k - pq[s][1].period + 1
Found(s, k) == /\ pq[s] # <<>>
               /\ Slot(s, k) \in DOMAIN pq[s]
               /\ pq[s][Slot(s, k)].period = k

(* The period whose bundles w imports: the one it has just ended, less the margin. *)
Due(w) == period[w] - 1 - Margin

NothingDue(w) == period[w] - Margin < 0      \* asked before period[w] is incremented

(* The loop condition of sharer::import_clauses on producer s. *)
MustWaitLess(w, s) == /\ period[s] < Due(w)
                      /\ terminate_period[s] > Due(w)
                      /\ ~ext_terminated[s]
MustWait(w, s) == /\ period[s] <= Due(w)
                  /\ terminate_period[s] > Due(w)
                  /\ ~ext_terminated[s]

(* increase_refs(producers.size() - 1): one reference per other worker. *)
Shares == N - 1

(* A bundle in import_clause is those of its clauses that fitted: a push on  *)
(* the full queue drops a clause without a word.  The thread that pushes is *)
(* the one that drains, so no interleaving decides what is dropped, and the *)
(* references are the bundle's.  (Full queues between threads: NpsShare.)    *)
(* The clauses left in w's queue by kissat_importClauses, the periods noted *)
(* by unfree.push, and the end of the loop over unfree.                     *)
LeftKept(w) == import_clause[w]
Left(w) == {}
NotedFirst(w) == <<Due(w)>> \o unfree[w]
Noted(w) == Append(unfree[w], Due(w))
LastUnfreeLate(w) == Len(unfree[w]) = 0
LastUnfree(w) == Len(unfree[w]) = 1

(* cbk_start_new_period's first test, and the order of update_winner. *)
PastAnyWinner(w) == winner_period # Inf
PastWinner(w) == period[w] >= winner_period
BeatsById(w) == winner_id = -1 \/ w < winner_id
Beats(w) == \/ period[w] < winner_period
            \/ period[w] = winner_period /\ w < winner_id

(* s->cond.notify_all(): every thread that waits on s tests its condition again. *)
NotifiedNone(s) == {}
Notified(s) == {w \in Worker : pc[w] = "wait" /\ peer[w] = s}
GoNotify(s, movers, to) ==
  pc' = [v \in Worker |-> IF v \in movers THEN to
                          ELSE IF v \in Notified(s) THEN "import" ELSE pc[v]]
Go(w, to) == pc' = [pc EXCEPT ![w] = to]

----------------------------------------------------------------------------
(* basesolver's constructor and init_workers, before any thread runs. *)
Fresh ==
  /\ period = [w \in Worker |-> 0]
  /\ terminate_period = [w \in Worker |-> Inf]
  /\ ext_terminated = [w \in Worker |-> FALSE]
  /\ stop = [w \in Worker |-> FALSE]
  /\ pq = [w \in Worker |-> <<>>]
  /\ import_clause = [w \in Worker |-> {}]
  /\ got = [w \in Worker |-> {}]
  /\ unfree = [w \in Worker |-> <<>>]
  /\ peer = [w \in Worker |-> 1]
  /\ terminated = FALSE
  /\ result = 0 /\ winner_period = Inf /\ winner_id = -1
  /\ model = {}
  /\ main = "watch" /\ joined = 0

Init == /\ fate \in [Worker -> Period \cup {Never}]
        /\ pc = [w \in Worker |-> "unborn"]
        /\ Fresh

(* A thread enters solve_worker and tests while (!terminated). *)
Start(w) ==
  /\ pc[w] = "unborn"
  /\ Go(w, IF terminated THEN "exit" ELSE "search")
  /\ UNCHANGED <<fate, period, terminate_period, ext_terminated, stop, exchange,
                 peer, terminated, outcome, mainvars>>

(* cbk_start_new_period: the winner's period is read under winner_mtx; a    *)
(* worker that has reached it gives up, any other closes its period.        *)
NewPeriod(w) ==
  /\ pc[w] = "search"
  /\ stop[w] \/ period[w] # fate[w]
  /\ IF PastWinner(w)
     THEN Go(w, "kill")
     ELSE period[w] < MaxPeriod /\ Go(w, "select")
  /\ UNCHANGED <<fate, period, terminate_period, ext_terminated, stop, exchange,
                 peer, terminated, outcome, mainvars>>

InternalTerminateOnly(w) ==
  /\ pc[w] = "kill"
  /\ terminate_period' = [terminate_period EXCEPT ![w] = period[w]]
  /\ GoNotify(w, {w}, "search")
  /\ UNCHANGED <<fate, period, ext_terminated, stop, exchange, peer, terminated,
                 outcome, mainvars>>

(* internal_terminate(); terminate(): back into the search with the flag set. *)
InternalTerminate(w) ==
  /\ pc[w] = "kill"
  /\ terminate_period' = [terminate_period EXCEPT ![w] = period[w]]
  /\ stop' = [stop EXCEPT ![w] = TRUE]
  /\ GoNotify(w, {w}, "search")
  /\ UNCHANGED <<fate, period, ext_terminated, exchange, peer, terminated,
                 outcome, mainvars>>

(* select_clauses: the bundle of the period, one reference per other worker. *)
SelectClauses(w) ==
  /\ pc[w] = "select"
  /\ pq' = [pq EXCEPT ![w] = Append(@, [period |-> period[w], refs |-> Shares])]
  /\ Go(w, "inc")
  /\ UNCHANGED <<fate, period, terminate_period, ext_terminated, stop,
                 import_clause, got, unfree, peer, terminated, outcome, mainvars>>

(* inc_period, and the early return of import_clauses while no bundle is due. *)
IncPeriod(w) ==
  /\ pc[w] = "inc"
  /\ period' = [period EXCEPT ![w] = @ + 1]
  /\ peer' = [peer EXCEPT ![w] = First(w)]
  /\ GoNotify(w, {w}, IF NothingDue(w) THEN "search" ELSE "import")
  /\ UNCHANGED <<fate, terminate_period, ext_terminated, stop, exchange,
                 terminated, outcome, mainvars>>

(* One round of import_clauses, under the mutex of producer s.              *)
ImportFrom(w) ==
  LET s == peer[w] k == Due(w) IN
  /\ pc[w] = "import" /\ s \in Worker
  /\ \/ /\ MustWait(w, s)
        /\ Go(w, "wait")
        /\ UNCHANGED <<exchange, peer>>
     \/ /\ ~MustWait(w, s)
        /\ ext_terminated[s] \/ terminate_period[s] <= k
        /\ Go(w, "kill")
        /\ UNCHANGED <<exchange, peer>>
     \/ /\ ~MustWait(w, s)
        /\ ~ext_terminated[s] /\ terminate_period[s] > k
        /\ LET b == <<s, pq[s][Slot(s, k)].period>> IN
           /\ import_clause' = [import_clause EXCEPT ![w] = @ \cup {b}]
           /\ got' = [got EXCEPT ![w] = @ \cup {b}]
        /\ peer' = [peer EXCEPT ![w] = After(w, s)]
        /\ UNCHANGED <<pc, pq, unfree>>
  /\ UNCHANGED <<fate, period, terminate_period, ext_terminated, stop, terminated,
                 outcome, mainvars>>

(* The loop over producers is over: the period is noted in unfree.          *)
ImportDone(w) ==
  /\ pc[w] = "import" /\ peer[w] \notin Worker
  /\ unfree' = [unfree EXCEPT ![w] = Noted(w)]
  /\ Go(w, "search")
  /\ UNCHANGED <<fate, period, terminate_period, ext_terminated, stop, pq,
                 import_clause, got, peer, terminated, outcome, mainvars>>

----------------------------------------------------------------------------
(* kissat_search at decision level 0: kissat_importClauses empties the      *)
(* import queue, then cbk_free_clauses gives the bundles back.              *)
DrainAtLevelZero(w) ==
  /\ pc[w] = "search"
  /\ import_clause[w] # {} \/ unfree[w] # <<>>
  /\ import_clause' = [import_clause EXCEPT ![w] = Left(w)]
  /\ peer' = [peer EXCEPT ![w] = First(w)]
  /\ Go(w, IF unfree[w] = <<>> THEN "search" ELSE "free")
  /\ UNCHANGED <<fate, period, terminate_period, ext_terminated, stop, pq, got,
                 unfree, terminated, outcome, mainvars>>

(* pc->free_clause() on the bundle of producer s: fetch_sub on its references. *)
FreeClause(w) ==
  LET s == peer[w] k == Head(unfree[w]) IN
  /\ pc[w] = "free" /\ s \in Worker
  /\ pq' = [pq EXCEPT ![s][Slot(s, k)].refs = @ - 1]
  /\ IF pq[s][Slot(s, k)].refs <= 1
     THEN Go(w, "pop") /\ UNCHANGED peer
     ELSE UNCHANGED pc /\ peer' = [peer EXCEPT ![w] = After(w, s)]
  /\ UNCHANGED <<fate, period, terminate_period, ext_terminated, stop,
                 import_clause, got, unfree, terminated, outcome, mainvars>>

(* s->pq.pop(import_period): the front bundle goes, whatever its period.    *)
PopFront(w) ==
  /\ pc[w] = "pop"
  /\ pq' = [pq EXCEPT ![peer[w]] = Tail(@)]
  /\ peer' = [peer EXCEPT ![w] = After(w, @)]
  /\ Go(w, "free")
  /\ UNCHANGED <<fate, period, terminate_period, ext_terminated, stop,
                 import_clause, got, unfree, terminated, outcome, mainvars>>

(* End of the loop over producers, then of the loop over unfree. *)
FreeNext(w) ==
  /\ pc[w] = "free" /\ peer[w] \notin Worker
  /\ unfree' = [unfree EXCEPT ![w] = Tail(@)]
  /\ peer' = [peer EXCEPT ![w] = First(w)]
  /\ Go(w, IF LastUnfree(w) THEN "search" ELSE "free")
  /\ UNCHANGED <<fate, period, terminate_period, ext_terminated, stop, pq,
                 import_clause, got, terminated, outcome, mainvars>>

----------------------------------------------------------------------------
AnswerUnannounced(w) ==
  /\ pc[w] = "search"
  /\ stop[w] \/ period[w] = fate[w]
  /\ Go(w, "answer")
  /\ UNCHANGED <<fate, period, terminate_period, ext_terminated, stop, exchange,
                 peer, terminated, outcome, mainvars>>

(* kissat_solve returns an answer, and solve_worker records that the race   *)
(* is over: terminated = 1.                                                 *)
Answer(w) ==
  /\ pc[w] = "search"
  /\ stop[w] \/ period[w] = fate[w]
  /\ terminated' = TRUE
  /\ Go(w, "answer")
  /\ UNCHANGED <<fate, period, terminate_period, ext_terminated, stop, exchange,
                 peer, outcome, mainvars>>

(* kissat_solve polls its flag and returns 0: stop_search clears the flag   *)
(* and while (!terminated) decides whether the thread solves again.         *)
GiveUp(w) ==
  /\ pc[w] = "search" /\ stop[w]
  /\ stop' = [stop EXCEPT ![w] = FALSE]
  /\ Go(w, IF terminated THEN "exit" ELSE "search")
  /\ UNCHANGED <<fate, period, terminate_period, ext_terminated, exchange, peer,
                 terminated, outcome, mainvars>>

(* result = res; internal_terminate(). *)
RecordResult(w) ==
  /\ pc[w] = "answer"
  /\ result' = Verdict
  /\ terminate_period' = [terminate_period EXCEPT ![w] = period[w]]
  /\ GoNotify(w, {w}, "commit")
  /\ UNCHANGED <<fate, period, ext_terminated, stop, exchange, peer, terminated,
                 winner_period, winner_id, model, mainvars>>

(* update_winner: the earliest period, the lowest id among equals.          *)
UpdateWinner(w) ==
  /\ pc[w] = "commit"
  /\ IF Beats(w)
     THEN winner_period' = period[w] /\ winner_id' = w
     ELSE UNCHANGED <<winner_period, winner_id>>
  /\ Go(w, "copy")
  /\ UNCHANGED <<fate, period, terminate_period, ext_terminated, stop, exchange,
                 peer, terminated, result, model, mainvars>>

(* get_model for a satisfiable instance; then while (!terminated) ends the thread. *)
CopyModel(w) ==
  /\ pc[w] = "copy"
  /\ model' = IF Verdict = 10 THEN model \cup {w} ELSE model
  /\ Go(w, IF terminated THEN "exit" ELSE "search")
  /\ UNCHANGED <<fate, period, terminate_period, ext_terminated, stop, exchange,
                 peer, terminated, result, winner_period, winner_id, mainvars>>

----------------------------------------------------------------------------
(* light::solve: the 0.1 s loop ends when a worker has an answer.           *)
SeeTerminated ==
  /\ main = "watch" /\ terminated
  /\ main' = "join" /\ joined' = 0
  /\ UNCHANGED <<fate, pc, period, terminate_period, ext_terminated, stop, exchange,
                 peer, terminated, outcome>>

(* The cutoff has passed: terminated = 1; terminate_workers().  The test of *)
(* terminated and that of the clock are apart, so an answer may come between. *)
Cutoff ==
  /\ main = "watch"
  /\ terminated' = TRUE
  /\ main' = "terminate" /\ joined' = 0
  /\ UNCHANGED <<fate, pc, period, terminate_period, ext_terminated, stop, exchange,
                 peer, outcome>>

(* terminate_workers: external_terminate on the next worker. *)
ExternalTerminate ==
  LET w == joined + 1 IN
  /\ main = "terminate" /\ w \in Worker
  /\ ext_terminated' = [ext_terminated EXCEPT ![w] = TRUE]
  /\ stop' = [stop EXCEPT ![w] = TRUE]
  /\ GoNotify(w, {}, "import")
  /\ joined' = w
  /\ UNCHANGED <<fate, period, terminate_period, exchange, peer, terminated, outcome,
                 main>>

AllTerminated ==
  /\ main = "terminate" /\ joined = N
  /\ main' = "join" /\ joined' = 0
  /\ UNCHANGED <<fate, pc, period, terminate_period, ext_terminated, stop, exchange,
                 peer, terminated, outcome>>

(* pthread_join returns when the thread has. *)
FinishedAlways(w) == TRUE
Finished(w) == pc[w] = "exit"

(* pthread_join on the next worker; after the last one the result is printed. *)
Join ==
  /\ main = "join" /\ joined < N
  /\ Finished(joined + 1)
  /\ joined' = joined + 1
  /\ main' = IF joined + 1 = N THEN "done" ELSE "join"
  /\ UNCHANGED <<fate, pc, period, terminate_period, ext_terminated, stop, exchange,
                 peer, terminated, outcome>>

(* The process has ended; the workers are gone with it. *)
Done == main = "done" /\ UNCHANGED vars

WorkerStep(w) ==
  \/ Start(w) \/ NewPeriod(w) \/ InternalTerminate(w) \/ SelectClauses(w)
  \/ IncPeriod(w) \/ ImportFrom(w) \/ ImportDone(w)
  \/ FreeClause(w) \/ PopFront(w) \/ FreeNext(w)
  \/ Answer(w) \/ GiveUp(w) \/ RecordResult(w) \/ UpdateWinner(w) \/ CopyModel(w)

MainStep == SeeTerminated \/ Cutoff \/ ExternalTerminate \/ AllTerminated \/ Join

Next == \/ \E w \in Worker : WorkerStep(w) \/ DrainAtLevelZero(w)
        \/ MainStep
        \/ Done

Spec == Init /\ [][Next]_vars

(* Threads are scheduled and the clock runs.  A flagged solver polls its    *)
(* flag again and again however often its callbacks run in between, hence   *)
(* strong fairness for GiveUp; nothing makes a solver reach level 0.        *)
Fairness == /\ \A w \in Worker : WF_vars(WorkerStep(w)) /\ SF_vars(GiveUp(w))
            /\ WF_vars(MainStep)

FairSpec == Spec /\ Fairness

----------------------------------------------------------------------------
ControlTypes ==
  /\ fate \in [Worker -> Period \cup {Never}]
  /\ pc \in [Worker -> WorkerPc]
  /\ ext_terminated \in [Worker -> BOOLEAN]
  /\ stop \in [Worker -> BOOLEAN]
  /\ terminated \in BOOLEAN
  /\ main \in {"watch", "terminate", "join", "done"}

CounterTypes ==
  /\ period \in [Worker -> Period]
  /\ terminate_period \in [Worker -> Period \cup {Inf}]
  /\ unfree \in [Worker -> Seq(Nat)]
  /\ peer \in [Worker -> Nat \ {0}]
  /\ joined \in 0 .. N

OutcomeTypes ==
  /\ result \in {0, Verdict}
  /\ winner_period \in Period \cup {Inf}
  /\ winner_id \in Worker \cup {-1}
  /\ model \subseteq Worker

LocalOK ==
  \A w \in Worker :
    /\ pc[w] \in {"select", "inc"} => period[w] < MaxPeriod
    /\ pc[w] \in {"import", "wait"} => period[w] > Margin
    /\ pc[w] \in {"wait", "pop"} => peer[w] \in Worker
    /\ pc[w] \in {"free", "pop"} => unfree[w] # <<>>

ThreadTypeOK == ControlTypes /\ CounterTypes /\ OutcomeTypes /\ LocalOK

Bundle == Worker \X Period

ExchangeTypeOK ==
  /\ pq \in [Worker -> Seq([period : Period, refs : 0 .. N - 1])]
  /\ import_clause \in [Worker -> SUBSET Bundle]
  /\ got \in [Worker -> SUBSET Bundle]

TypeOK == ThreadTypeOK /\ ExchangeTypeOK

(* A solver is told to stop only once the race is over: kissat refuses a    *)
(* second kissat_solve, so a worker whose solver returned 0 with terminated *)
(* still unset would abort the whole process in while (!terminated).        *)
StopOnlyAfterTerminated == \A w \in Worker : stop[w] => terminated

(* No wakeup is lost: whoever sleeps on producer s in import_clauses still  *)
(* has to wait for it.  Every change of the three things the condition      *)
(* reads, by three functions and two kinds of thread, notifies in time.     *)
NoLostWakeup == \A w \in Worker : pc[w] = "wait" => MustWait(w, peer[w])

(* period_queue::find computes a slot from the front of the deque without   *)
(* looking: whoever is about to import a bundle or to free one finds it.    *)
FindHits ==
  \A w \in Worker :
    /\ pc[w] = "import" /\ peer[w] \in Worker /\ ~MustWait(w, peer[w])
         /\ ~ext_terminated[peer[w]] /\ terminate_period[peer[w]] > Due(w)
         => Found(peer[w], Due(w))
    /\ pc[w] = "free" /\ peer[w] \in Worker => Found(peer[w], Head(unfree[w]))

(* The clauses of a bundle are released only when no import queue refers to *)
(* them any more, although the references are counted per bundle and per    *)
(* period and given back long after the import, at decision level 0.        *)
NoUseAfterFree ==
  \A w \in Worker : \A b \in import_clause[w] :
    \E i \in DOMAIN pq[b[1]] : pq[b[1]][i].period = b[2]

(* period_queue::pop(int assert_period): while the race is on, the front    *)
(* that goes is the bundle of the period the caller names.  (Afterwards it  *)
(* need not be, harmlessly as NoUseAfterFree shows: pop ignores its         *)
(* argument, and a worker being stopped no longer keeps the order.)         *)
PopsInOrder ==
  ~terminated => \A w \in Worker :
    pc[w] = "pop" => pq[peer[w]][1].period = Head(unfree[w])

(* Determinism: a worker that has not been told to stop has imported, when  *)
(* it searches in period p, exactly the bundles of every other worker up to *)
(* period p - 1 - Margin, whatever the scheduling was.                      *)
SameImports ==
  \A w \in Worker : pc[w] = "search" /\ ~stop[w] =>
    got[w] = (Worker \ {w}) \X (0 .. Due(w))

(* Of the workers that ran, the winner is one that answered in the earliest *)
(* period: a thread that is first by the clock cannot take the victory from *)
(* one that needs fewer periods.  (Without a cutoff.)                       *)
Ran(w) == terminate_period[w] # Inf
EarliestPeriodWins ==
  main = "done" /\ (\A w \in Worker : ~ext_terminated[w]) =>
    /\ result = Verdict /\ winner_id \in Worker
    /\ \A w \in Worker : Ran(w) => winner_period <= fate[w]
    /\ \E w \in Worker : winner_period = fate[w]

(* What main publishes of a satisfiable instance is the answer of a worker  *)
(* that has copied its model, although the winner may still change after it *)
(* has copied it; UNKNOWN or that answer is published once and for all.     *)
Published == IF main # "done" THEN 0 ELSE IF result = 0 THEN -1 ELSE winner_id
Abstract == INSTANCE Portfolio WITH Participant <- Worker, complete <- model, outcome <- Published
ImplementsPortfolio == Abstract!Spec

(* If every thread has entered its search before the race ends, main joins  *)
(* them all: nobody sleeps for ever on a worker that is gone.               *)
Entered(w) == pc[w] # "unborn" /\ (pc[w] = "exit" => Ran(w) \/ ext_terminated[w])
JoinsAll == (\A w \in Worker : Entered(w)) ~> main = "done"

(* README: "cutoff: the wall time for SAT solving."                         *)
CutoffEndsRun == <>(main = "done")

==============================================================================
