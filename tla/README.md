# A verification of PRS

PRS (SAT competition 2024) is a parallel portfolio solver for propositional
formulas. The repository holds three programs:

| program | directory | what it is |
|---|---|---|
| PRS-distributed | `src/PRS-distributed-sc24` | an MPI job: rank 0 preprocesses and leads, every other rank runs several solver threads |
| PRS-thread32 | `src/PRS-thread32-sc24` | one process, 32 solver threads |
| PRS-thread64 | `src/PRS-thread64-sc24` | the same sources with 64 threads by default (`utils/paras.hpp:21`) |

The solvers (a modified kissat, MapleCOMSPS, Lingeling, YalSAT), m4ri and
`cmdline.h` are third-party code, and by far most of the lines in the repository.
This directory models what PRS adds to them: the preprocessing, the race between
the solvers, the exchange of learnt clauses, the MPI protocol. `T:` below stands
for `src/PRS-thread32-sc24/`, `D:` for `src/PRS-distributed-sc24/src/`.

Contents: 1 inventory, 2 modules, 3 runs, 4 fairness, 5 proofs, 6 where the code
and its documentation differ, 7 what is not modelled, 8 what could come next.

## 1. Inventory

### Components, their state and their interaction

**Solve race of a process** (`T:solve.cpp`, `D:solve.cpp`, `light.hpp`). One
thread per solver runs `solve_worker`; `main` polls `terminated` and the clock.
Shared and mostly unprotected: `terminated`, `result`, the winner (under
`winner_mtx`), each worker's `model`, each solver's stop flag. There are three
variants, which differ in what makes them correct:
- thread, `--DCE=0` ("NPS"): the first finisher sets `terminated`, stops
  everybody, records `result`, the winner, its model; main joins all threads.
- thread, `--DCE=1`: a finisher stops nobody. The others find out at the end of a
  period, and the *earliest period*, not the earliest time, wins.
- distributed: model first, `terminated` afterwards; main does not join.

**Deterministic clause exchange** (DCE; `T:workers/`). A solver's search is cut
into periods. At the end of period p (`cbk_start_new_period`) a worker publishes
a bundle of clauses for p, then imports the bundles of period p - margin of all
the others, waiting for them on the producer's condition variable. Bundles are
counted down by their consumers at decision level 0 (`cbk_free_clauses`) and
released by the last. Correct means: always the same imports, no lost wakeup, no
early release, the earliest period wins, everything ends.

**Exchange without determinism** (NPS; `share_worker`, `T:workers/sharer.cpp`
8-45). A thread of its own collects, selects and hands out clauses every half
second; clauses are counted by references. Correct means: a clause is freed when
the last holder has let go and not before, everybody is offered it once, a round
keeps to the literal limit and wastes none of it.

**Exchange between MPI workers** (`D:sharer.cpp`). The main thread of a worker
runs `do_clause_sharing` twice a second: it receives, hands new clauses to its
threads and passes them on, then collects from its own threads. Relay on a ring,
or from every originator down a binary tree of its own. `clause_imported`, a set
of hash codes, drops what is known. Correct means: what is shared reaches
everybody, nothing goes around twice.

**Leader and workers** (`D:leader.hpp`, `D:worker.hpp`, `D:main.cpp`). START, the
formula (broadcasts between barriers), SOLVED, TERMINATE and the request for and
transfer of the MODEL. Every process has its own clock. Correct means: the
collective calls match on all branches, one report ends the job, the printed
answer is that of somebody who has one, the cutoff ends the job.

**Preprocessors** (`T:preprocess/`, `D:preprocess/`). Sequential passes over the
formula (propagation, at-most-one constraints, resolution, binary implications;
in the thread version circuits and xors before them) and `get_complete_model`,
which undoes them for a model. Every pass renumbers the variables (`mapto`,
`mapval`, `mapfrom`). Correct means: the printed answer is right for the formula
that was read, and every pass ends.

**Groups** (`seperate_groups`, `init_circular_transmission`). Which workers share
with each other, and with which solver and mode they run. Correct means: every
worker is in one group, and the ring of a group visits all of it.

**Configuration** (`diversity_workers`, `paras`), **adapters** (`basekissat`,
`basemaple`, `baselgl`), **parsing** and containers.

### What is hard

Interleavings of threads that share plain variables; an order of assignments that
replaces a lock; condition variables with several writers; reference counts given
back late; processes whose clocks disagree at the cutoff; messages dropped because
they seem to be known; passes whose bookkeeping must be undone in reverse; tables
and lists read while they are changed. `hazards` in `PROJECT.json` lists each at
its line, with the property that would catch it.

## 2. Modules

    Portfolio                    what any race of solvers promises
      |  implemented by
      +-- ThreadSolve            threads, --DCE=0 (and --DCE=1 without sharing)
      |     +-- ThreadSolveProofs
      +-- LeaderWorker           the MPI job
      |     +-- LeaderWorkerProofs
      +-- Dce                    threads, --DCE=1 with sharing: race and exchange
            +-- MCDce            instances with three workers
            +-- DceProofs        types, stopping, wakeups, who wins; the life of a
                                 bundle, what is imported
    NpsShare                     threads, --DCE=0: the clause exchange
      +-- MCNpsShare
      +-- NpsShareProofs
    DistSolve                    the race inside one MPI worker
      +-- DistSolveProofs
    ClauseRelay                  the clause exchange of MPI workers and their threads
      +-- MCClauseRelay          groups, trees, who learns what
      +-- ClauseRelayProofs
    Groups                       sharing groups and their ring (theorems in LeaderWorkerProofs)
    Cnf                          formulas, assignments, loops and lists, renumbering
      +-- Circuit, Gauss, Card   one pass each
      |     +-- CardProofs       loops and lists; at-most-one reasoning is sound
      +-- Preprocess             all passes, the solvers' answer, the way back
            +-- MCPreprocess     the formulas
            +-- PreprocessProofs types, bookkeeping, termination; the answers are right

Actions are as large as the code lets other threads see them: a block under a
mutex is one step, an unprotected assignment is a step of its own. `pc[w]` names
the place of thread or process w. Names follow the source; `map` in
`PROJECT.json` gives the lines of each definition. Next to some definitions stands
a variant that is not used (`LeftKept` next to `Left`): the mistake a
property must notice, listed under `mutants`.

**Portfolio.** `Complete(p)`: a participant's answer is complete. `Publish(p)`,
only of such a participant, or `GiveUp`, once and for all.

**ThreadSolve.** `solve_worker` is Start, SolverAnswers / SolverGivesUp, Test
(`res && !terminated`), Claim (`terminated = 1`), Terminate (one solver's flag per
step), Record, Commit (`update_winner`), Copy (`get_model`); main is SeeTerminated,
Cutoff, TerminateFromMain, Join. Test and Claim are apart, so several workers may
win at once. `stop[w]` is kissat's flag, which `stop_search` clears when it returns.

**Dce.** The threads of ThreadSolve with `cbk_start_new_period` (NewPeriod,
InternalTerminate, SelectClauses, IncPeriod, ImportFrom, ImportDone) and
`cbk_free_clauses` (DrainAtLevelZero, FreeClause, PopFront, FreeNext). As a
search is deterministic for given imports, a behaviour fixes in `fate[w]` in which
period w's search ends; the scheduler may only change when. A bundle is its
producer, period and reference count; `pq` is `period_queue`, `import_clause`
what lies in the solver's import queue, `got` a history for SameImports.
`cond.notify_all()` is GoNotify: it wakes the sleepers, who test again.

**NpsShare.** The sharer thread is Wake, Collect, Sort, Increase, Push, FreeOwn: a
step per access to a queue or a reference count, as these are all it shares with
the solvers. Solvers Learn (below their export limit), Pop and Free; a solver that
has left its search takes no more steps. `sort_clauses` is two recursive functions
for its two loops: Filled (what enters the buckets; Rejected is the rest) and Sorted
(space, selection and buckets after Take for every size). `given` and `lost` are histories: offers, and
references that nobody will ever drop because a push or a bucket refused the
clause. Terminate stands for ThreadSolve.

**DistSolve.** ThreadSolve's counterpart in an MPI worker. `model[w]` is "empty",
"partial" or "complete", because main may copy it at any moment; `NoWinner` is the
1e9 of the constructor, above all ids. Interrupt is TERMINATE or the cutoff. Main reads
`result` twice, to decide whether there is a model to copy (ReadResult, CopyWinner into
`taken`) and to return it (Return); each read is a step.

**LeaderWorker.** One process per rank; `calls[p]` is the sequence of collective
calls p has entered, and CanLeave says when a barrier or a broadcast lets it go.
`late[p]` is p's own clock. A worker's `light::run` is one step, whose result may
also be an answer when it was interrupted (DistSolve shows why). A test of
`terminal_request` that has completed before succeeds again (a null request), so
`terminateMsg` is never taken back.

**ClauseRelay.** A clause stands for its hash code. A round of `do_clause_sharing`
is: Receive as long as something new arrives, NothingArrived, then Collect for each
thread. What `sort_clauses` sends, keeps in its buckets and drops is a free choice
of Collect. Messages between two workers keep their order. `Order[r]` is the shuffled
group from which originator r's tree is laid out: any such order in the module, in
the instance the one glibc's `rand` gives after `srand(17)`.

**Groups.** `seperate_groups` for n workers as a set of intervals, with the solver and
mode of each rank; `next_node` is the ring edge. Operators only: what could go wrong
is arithmetic, and it is proved for every n instead of being run for a few.

**Preprocess.** A formula is a sequence of clauses, a clause a sequence of literals;
the order of both is kept, because the passes depend on it (which variable is the
first to be numbered, which entry of the table of two-literal clauses is the
last). One action per pass, and in `preprocess_binary` one per half of a turn:
Pairs (`root` and `varval` are the union-find with signs and the values), Rewrite.
`Solve` gives the solvers' answer: any model of what is left. In `Circuit`,
ReadClauses is the recognition of gates clause by clause, cnf2aig the circuit,
Schedule and Simulated the simulation; in `Gauss`, search_xors, Groups (connected
constraints) and the echelon form (m4ri's, by what it computes); in `Card`, the
cliques, their merging with the lists that are shortened while being walked over,
and Fourier-Motzkin elimination over integers. Every loop of these passes is a
`Looped(turn, start, n)`, the function of the number of turns done, with a bound
on the turns; that makes one way of reasoning enough for all of them.

## 3. Runs

| run | instance | shows |
|---|---|---|
| `dce_two` | 2 workers, margin 1, periods 0..3, any fates | types; solvers are told to stop only after the race; no wakeup lost; `find` hits; bundles popped in order while the race is on; same imports; earliest period wins; the race implements Portfolio; main joins all once all have entered their search |
| `dce_three` | 3 started workers, margin 0, periods 0..1 | no early release of a bundle with two consumers; same imports along a chain of workers |
| `dce_hang` | 3 workers, only one ever answers | *violated*: the cutoff ends the run |
| `thread_nps` | 3 workers, satisfiable | the race implements Portfolio; no recorded answer is lost; the cutoff or an answer ends the run |
| `nps_share` | 3 solvers, 3 clauses, queues of one entry, limit of 2 or 4 literals | reference counts equal the holders; each clause offered once to each other worker; a round keeps to the limit and wastes nothing |
| `dist_solve` | 3 threads | a sole, uninterrupted answer is complete when main copies it |
| `dist_model` | the same | *violated*: what main copies is complete |
| `leader_worker` | leader and 3 workers, both verdicts | collective calls match; the printed answer (Portfolio); one report ends the job; the cutoff ends it unless a worker has deserted the leader; only the cutoff makes one desert |
| `leader_hang` | leader and 2 workers | *violated*: the cutoff ends the job |
| `relay` | 4 workers x 2 threads, 2 clauses, ring and trees | nothing lost on a ring or inside a worker; no echo; once quiet, a ring has told everybody of every clause, trees of every clause that one worker has learnt; on a ring every clause arrives |
| `preprocess` | about 4000 formulas, each read by both programs, each with all models of its remainder | satisfiability is kept at every step; every variable is accounted for; the printed answer is right (except after a merge has overwritten a value, and where the circuit pass has answered a formula it misread); every turn of `preprocess_binary` shrinks the formula |
| `preprocess_loses` | 128 formulas of two-literal clauses | *violated*: the printed answer is right |

### Bounds

- Periods (`MaxPeriod` in Dce): no worker leaves the last one. Four periods with margin 1 are
  enough for a worker to import twice, to hold two bundles not yet freed and to be
  two periods ahead of another; with margin m a worker can be at most m + 1 ahead.
- Two workers meet every pairwise race of the exchange; three add what needs a
  third: a bundle with two consumers, and a chain of waiting workers. In
  `dce_three` all threads have entered their search, and `dce_hang` shows what
  happens otherwise.
- Three racing threads: two finish at once while a third is told to stop.
- `nps_share`: three solvers give a clause two consumers. Queues of one entry are
  full as soon as anything waits, so every push may fail; `MaxLimit` stops the
  sharer after a few rounds, when an export limit has grown to 4. The limits of 2
  and 4 literals make a round fit one clause, two, or one and not the next. The two
  clauses of equal size and glue are interchangeable (SYMMETRY).
- Three MPI workers: the chosen one, another that reported too late, a third still
  solving. Whether the formula is satisfiable is chosen initially.
- `relay`: a worker learns a clause once per thread, which bounds the messages.
  Clause c1 is learnt by workers 1 and 3, c2 by another thread of worker 1: two
  originators of one clause that cut each other's branch to worker 4 in the trees of
  this group, and one worker with two clauses in flight. Four
  workers are the least for which trees have a branch below the root's sons.
- `preprocess`: the formulas are `MCFormulas`: sets of two-literal clauses over three
  variables (chains, cycles and contradictions of implications); mixed clauses over
  four variables with units, repeated literals and tautologies; sets of nine clauses
  that together are refuted by at-most-one constraints; xors, complete, incomplete,
  contradictory and doubled; circuits of two or three gates with every value of
  their outputs. Of the 4038 inputs of PRS-thread the circuit pass answers 620; 412 of these are read as
  written, so that `AnswerRight` checks them, and 208 are exempted. Whatever it hands on
  is checked, as is all of PRS-distributed. Of the 108 xor inputs Gauss changes or decides
  82, 13 of them refuted. `MostCells` is 16 (1e7 in the code) so that 8 inputs have a group that
  is skipped for its size. Each branch of each pass is met, except the other size limits: `Cells`,
  `Rows` (1e7 and 1e3 in the code), the 1e5 variables above which passes are
  skipped, and the 17 to 32 inputs of a circuit (`FewestInputs`, `MostInputs`, here 2
  to 32: the code's lower bound only saves effort).
- Times are not modelled as numbers: the cutoff may come at any step.

`QuietMeansShared` (`relay`) is about every clause on a ring and about clauses of one
originator on trees. For clause c1 on the trees, with its two originators, the stronger
statement is false in this very instance (section 6). Deadlock is
checked (a finished system stutters in `Done`) except where the system really may
stop: in `dce_hang`, `leader_hang` and `leader_worker`, whose leader may be deserted.

## 4. Fairness

- Threads and processes are scheduled: weak fairness of each worker's own steps and
  of main's, which contain the cutoff. Nothing makes a search *end*: SolverAnswers
  and RunAnswers, and in Dce the arrival at decision level 0, carry no fairness
  of their own (in Dce a period ends or an answer comes; both are part of WorkerStep,
  because a period is counted in ticks of the search).
- A solver that has been told to stop returns: kissat polls its flag. In Dce the
  callbacks can run in between again and again, hence strong fairness of GiveUp.
- LeaderWorker: clocks may stand still; properties about the cutoff say
  "if all clocks pass it" (`CutoffPasses`), and `ReportEndsJob` is about runs in
  which none does.
- ClauseRelay: each worker goes on with its rounds, and (strong fairness) a
  message that has been sent completes the posted receive at last although
  MPI_Test may fail any number of times.
- NpsShare, DistSolve and Preprocess state safety only. That the loop of
  `preprocess_binary` ends is the action property `TurnsShrink`: no step of a turn
  adds to `Pending`, the finite set of the places of the clauses' literals and of the
  variables without a value, and a step that asks for another turn removes something.

## 5. Proofs

Checked by tlapm for all values of the constants that satisfy the named
assumptions (at least one worker, thread or process; a natural margin and number
of periods below the code's 1e9; a verdict of 10 or 20; `Order` a permutation per
originator that starts with it and names it once; natural limits `Cells` and `Rows`, nothing about `MostCells`; for
Preprocess any set of formulas over finitely many variables, `FormulasAssumption`).

*ThreadSolveProofs.* `TypeCorrect`. `StopsLate`: a solver in its search has the stop flag only after
`terminated`. The property alone is not inductive; `Racing` adds that before
`terminated` main watches and nobody is in `terminate_workers`. `AnswersKept`
(`NoAnswerLost`) and `Implements` (`ImplementsPortfolio`) rest on `AnswerInv`: main has joined
what it counted (Joined1); nothing is entered before a result is recorded
(NoRecord); once one is, somebody is about to enter the winner or it is entered
(Entering); the winner is copying its model or has (Copying). When main is done
everybody has left, so Entering and Copying give a winner with a complete model.
The refinement maps Copy to Complete, the last Join to Publish or GiveUp and all
else to stuttering.

*DceProofs.* `ThreadTypeCorrect`: types of the threads' state, with `LocalOK` for what
each place of the code knows about its counters (a worker about to import has
passed the margin). `StopsLate`, from QuietUntilTerminated: before `terminated` no
worker is stopping, has a `terminate_period` or a winner to yield to.
`WakeupsArrive` (`NoLostWakeup`): whoever sleeps on a producer still has to; every step
that could change that notifies.
`Implements` (`ImplementsPortfolio`), from WinnerInv (the winner's model is being copied or
is there, although an earlier period may still replace the winner) and from
`EndIsFinal`: once main has joined all workers nothing changes any more. It is stated
for a satisfiable instance, as only then is there something to be complete.
`EarliestPeriod` (`EarliestPeriodWins`) is the reason why the thread version is
deterministic although threads race. `Settled(p)`: there is a winner of period p or
an earlier one, or a worker whose own search has ended by p is about to enter
itself. Once settled a period stays settled (`SettledStays`). The invariant, as long
as no cutoff has come, is `Standing(w)` for each worker - it stops, or has stopped,
only in a period that is settled, and if it has gone on past the end of its own
search (a stopping solver may) that period is settled too - with `WinnerReal`, the
winner's period is that of a search that really ended there, or one such is still to
be entered, which covers an answer that a solver finds while being stopped. Giving up because
a producer has given up, in chains of any length, is the step that needs
`Standing` of all workers at once.

Its second half is the exchange of bundles, for any number of workers. `TypeCorrect`.
`FindNeverMisses` (`FindHits`) and `ClausesLive` (`NoUseAfterFree`) follow from
`BundlesKept`. Neither property is inductive: whether a bundle is still there when a
consumer looks for it depends on which consumers gave which bundles back, and on
pops begun but not done. `BundleInv` has four parts. QueueInv: a producer's queue
holds consecutive periods, from its front to the last one made. LocalInv: what a
consumer waits for, imports or has noted in `unfree` has been made, and it notes
periods in order. KeptInv: what anybody needs is behind all pops under way, so a pop
never takes it. CountInv: `refs` is at least the number of holders, those who have
noted the bundle or have yet to import it; not equal, as a worker stopped
in the middle of `import_clauses` never gives back what it has not noted. Hence a
bundle whose count drops to 0 has no holder, and those in front of it have been popped
or are about to be (`LastIsFront`, `FreeEffect`).
`PopsKeepOrder` (`PopsInOrder`) speaks of the time before `terminated`, when nobody is
stopped and the inequality is an equality (Exact) and nobody skips a period
(Unbroken): `OrderInv`. Then the only bundle without holders is the front, while one
worker is popping it. `ImportsDetermined` (`SameImports`), from `ImportsInv`: what a
worker has imported is a function of its place, its period and the peer it has come
to, hence the same for workers that have come equally far.

*NpsShareProofs.* Any number of workers, any finite set of clauses of any sizes, any
capacity of the queues and any `share_lits`. `RefsCorrect` (`RefsMatchHolders`),
`OfferedToEach` (`OfferedOnce`) and `TypeCorrect` follow from `ShareInv`. A reference count
equals the number of holders only because no two places hold a clause that should
be in one, and this needs the whole way of a clause. Origin: it is in one place between
the worker that has learnt it and the sharer's hands, and until it is handed out
nobody has been given it. InHand: during a round the consumers passed, and the
clauses pushed to the one at work, are exactly the offers made (`Reached`). Outcome: a
clause that has left the way has been given to everybody or, refused, to nobody. RoundInv
bounds the loops, Sized the buckets. One lemma per step (`LearnKeeps` .. `SortKeeps`).
`SelectionCorrect` (`SelectionFits`) is an invariant of the second loop of `sort_clauses`,
`LoopInv`: space and literals add up to the limit, buckets and selection split what the
first loop has let in (Split), and a bucket left behind is no shorter than what goes
out and does not fit (Tight). The two recursive functions are defined on all numbers up
to their bound by `Recursion`, and their invariants carried along by `Counting`, both
proved from the least counterexample.

*DistSolveProofs.* `TypeCorrect`; `StopsLate`, from the order in which the flags are set
(FlagOrder); `SoleAnswer` (`SoleAnswerComplete`): ModelFirst says that a worker that has
set `terminated` has its model complete, as long as it is the only one and nobody
interrupted it.

*LeaderWorkerProofs.* For any number of workers. `CallsMatch` (`CollectivesMatch`):
CallsInv relates every process's sequence of collective calls to its place in
the program and the leader's branch. `CutoffDeserts` (`OnlyCutoffDeserts`): ReportInv
follows a report from the worker to the leader's choice and its TERMINATE messages.
`Implements` (`ImplementsPortfolio`): AnswerInv says whose answer the leader is about to
print, whether refuted in preprocessing, reported or received as a model.

*ClauseRelayProofs.* `ThreadsMissNothing` (`SeenByAllThreads`): the invariant also needs
that what waits in a thread's export queue or bucket is known to that thread.
`RingLosesNothing` (`RingCarries`): what a worker has seen its successor has seen or is
being sent; needs that a message names an originator that has seen its clauses, for
the hop on which the relay stops. Both use what `Share` does to the messages in flight
(`ShareEffect` and the lemmas about `Carried`). `QuietAgrees` (`QuietMeansShared`) has two halves.
On the ring (`QuietRing`) it follows from RingCarries and `OneCycle`, that a set closed under the
successor is the whole ring; this is an induction around the ring, done with a least
number (`LeastNumber`, from the well-foundedness of the natural numbers).
On trees (`QuietTree`) it needs an invariant of its own, `TreeInv`, for a clause with one originator r:
all messages that carry it come from r (FromSole), nobody has it without r (RootFirst), and a worker
that has it has told its sons in r's tree or is about to (SonsTold). That it is kept
(`TreeNext`) rests on `ShareReaches`, what a share does for the sons. With nothing in flight the set
of those who have it is closed under sons, and every worker but the root is the son of one
placed before it (`ParentIs`), so it is all of them, again by a least number.
`NothingComesBack` (`NoEcho`) on rings and trees: a message stops in front of its
originator, which on a tree is nobody's son.

Groups, at the end of *LeaderWorkerProofs*, for every number of workers: `Partition`
(each rank in exactly one group, none empty), `OneKindPerGroup`, `RingCloses` (the ring
edges are a permutation of the group).

*CardProofs.* What the other two need of loops and lists: the recursive function in
`Looped` exists (`Recursion`) and what each turn keeps holds to the end (`Counting`), both
from the least counterexample; one lemma per loop (`PickLoop`, ...) says what its turns are;
and what `Pick`, `Distinct`, `Flat`, `Order` and `Color`
keep. Then `CardSound`: `preprocess_card` refutes no formula that has a model. For a
model of the clauses every constraint in the lists is one the model satisfies (`Cards`),
through search_almost_one, the cliques, their merging with the shortened lists and every
row of the elimination; a constraint whose least value exceeds its bound would
contradict that. Where the limits stop the elimination does not matter.

*PreprocessProofs.* The sequential counterpart: one invariant for the places between the passes,
one lemma per pass, for any set of input formulas.
- For both programs: `StateInvariant`. TypeOK says nothing of what a pass relies on from the
  passes before it, so `StateInv` adds for each place (StageInv): before propagation nothing has been
  renamed (AsRead); then every variable is numbered or fixed (Numbered); after resolution the
  list `resolution` is without repetitions, and a clause in `res_clause` that mentions its k-th
  variable and none before it resolves only to tautologies with the others
  like it (PutAside); within `preprocess_binary` roots are one level deep (Standing), a turn
  pairs clauses of two literals only, and when it ends every clause is settled; before the solvers everything
  has its place (Ready). `Types` (`TypeOK`) and `VariablesAccounted` (`EveryVariableAccounted`)
  follow, and `TurnsEnd` (`TurnsShrink`) is proved from it step by step.
- For PRS-distributed: `MeaningInvariant`. `KeepsSatisfiability` compares two sets of models
  for emptiness, which no pass preserves by itself: what has to be carried along is how a model
  of what is left becomes one of the input. `Back`: every
  assignment that follows a model of what is left, through mapto and mapval, and satisfies
  the clauses put aside satisfies the input; `Forth`: if the input has a model so has
  what is left. During `preprocess_binary` "what is left" is a set of assignments `Ref` fixed at its
  start, which clauses, classes and values together describe, and an entry of the table
  of two-literal clauses says something that all of Ref satisfies, even when its clause is gone
  (`Sound`); once a merge has
  overwritten a value, the input had no model (SoundIf). At "complete", any values for the
  variables resolved away that satisfy the clauses put aside will do (Transferred), and the loop
  of get_complete_model finds such values because of PutAside.
  `KeepsSatisfiability` (`SatisfiabilityKept`), `AnswersRight` (`AnswerRight`, and that only an
  overwritten value can make an answer wrong) and `SatisfiableAnswered` follow: the error that
  `preprocess_loses` shows can turn an unsatisfiable formula's answer into "s SATISFIABLE",
  never the other way round, and a satisfiable formula's printed model is one of its models.

MeaningInvariant is not stated for PRS-thread because its first two passes do not keep the
meaning of every formula: xors may be misread (section 6), and circuits
(ReadAsWritten). For formulas without such clauses it is model-checked.

Only model-checked: liveness (the prover does not handle fairness); SatisfiabilityKept and
AnswerRight in PRS-thread. Not
provable here is what a loop computes exactly; the lemmas about loops state invariants of
their turns.

## 6. Where code and documentation differ

Each is a run that TLC must find violated; the `findings` quote the lines.

1. `dce_hang`: with DCE a thread that enters `solve_worker` after the race has
   ended leaves no trace; a worker that waits for its bundle sleeps for ever and
   main, in its joins, no longer looks at the cutoff (`T:workers/sharer.cpp:56`).
   `JoinsAll` in `dce_two` shows that this late thread is the only cause.
2. `dist_model`: main may copy an empty, half-copied or nonexistent winner's model
   (`D:solve.cpp:285`), or return 10 without having copied any, when `result` is set
   between its two reads (285 and 295; the trace TLC prints). `SoleAnswerComplete` says when it cannot.
3. `leader_hang`: at the cutoff a worker may leave between the leader's decision to
   take its report and the request for its model (`D:worker.hpp:91`).
   `EndsOrDeserted` shows that nothing else keeps the job from ending.
4. `preprocess_loses`: when two variables become equal, the value of one
   overwrites the value of the other without a comparison
   (`D:preprocess/binary.cpp:58`), and an unsatisfiable formula is answered
   "s SATISFIABLE". `AnswerRight` shows that apart from this, from circuits that
   are misread and from xors that are misread (both below) the answers are right; for
   PRS-distributed, which looks for neither, this is proved (`AnswersRight`).

Seen while modelling, without a run of its own:
- `--DCE=1` without sharing stops nobody after an answer (`T:solve.cpp:31`); ThreadSolve
  with DCE = TRUE violates CutoffEndsRun, the run lasts as long as the slowest search.
- On trees, dropping what is known also drops the duty to pass it on
  (`D:sharer.cpp:137`): with two originators of one clause a worker below both may
  never get it. In the instance of `relay` 1 and 3 cut each other's branch to 4: TLC refutes
  QuietMeansShared there when it is stated of all clauses. On rings this cannot happen, nor
  on trees to a clause that one worker has learnt (`QuietAgrees`, proved).
- `rematch_eql` takes any two clauses over two variables with opposite signs for an
  equality and forgets the sign (`T:preprocess/circuit.cpp:13`), a gate outside the cone of the
  output is not looked at, and an input with two opposite units keeps the last one.
  Circuits read that way may be answered wrongly. `AnswerRight` exempts
  these answers and no others: those of the circuit pass (the place "simulated") to formulas that
  are not `ReadAsWritten`. A formula that `cnf2aig` rejects, or that the pass cannot decide, goes
  on to the other passes and is checked like the rest.
- `search_xors` counts the sign patterns of a clause's literals, and the reader keeps
  literals that are repeated (`T:preprocess/gauss.cpp:82`, `T:utils/parse.cpp:78`). The clauses
  (1 1 2)(-1 -1 2)(-1 2 -2)(1 -2 -2) make 1 and 2 true and pass for 1 + 2 = 1. With the clauses
  of 1 + 3 + 4 = 0 and 2 + 3 + 4 = 0 beside them PRS-thread answers a satisfiable formula with
  "s UNSATISFIABLE"; TLC finds the same when MCFormulas is given this formula. The formulas
  of `preprocess` have no variable twice in the clauses of an xor.
- A group of xors over three variables ends the program by an assertion
  (`T:preprocess/gauss.cpp:178`), and a circuit whose output is never computed ends it
  at an unset pointer; both are the place "aborted" of Preprocess.

## 7. Not modelled

- Full import queues of DCE: a push on a full queue drops the clause silently. In Dce the thread
  that pushes is the one that drains, so what is dropped does not depend on the scheduling;
  queues that fill up between threads are in NpsShare.
- Two clauses with one hash code, full lock-free queues of the distributed version,
  the bound of 64 buckets, a number of threads rounded down to 0: listed as hazards
  where they bite, without a property.
- Trees that differ between workers because `rand` is also called by solver threads:
  `Order` is one constant.
- The end of main while `share_worker` is still in a round (`T:light.cpp:18`).
- In the preprocessors the limits on size and time, the rounding of the doubles of
  `card_elimination`, and matrices larger than the cache in which m4ri keeps freed
  memory (`T:preprocess/gauss.cpp:198` reads it).
- Solvers' insides, parsing, containers, option parsing, diversification tables,
  Docker scripts: no interaction of their own, or third-party code. They are the bulk
  of the repository's lines.
- Memory models: an unprotected access is atomic and sequentially consistent; what
  is nondeterministic is the order of accesses.

## 8. What could come next

1. *Selection of the distributed version* as operators in place of ClauseRelay's free choice.
2. *Trees*: which pairs of originators cut each other's branches, for a given `Order`.
3. *The two passes of PRS-thread alone*: that `preprocess_gauss` is sound for clauses without
   repeated variables (parity of the symmetric difference, and that all sign patterns of one
   parity say an xor), and that a circuit read as written is answered rightly.
