----------------------------- MODULE ClauseRelay -----------------------------
(***************************************************************************)
(* Learnt clauses between the MPI workers of one sharing group and between  *)
(* the solver threads inside each (sharer.cpp of PRS-distributed).  The     *)
(* main thread of a worker repeats do_clause_sharing: it takes what other   *)
(* workers sent, hands it to its threads and passes it on, then collects,   *)
(* thread by thread, what its own solvers exported.  A clause is identified *)
(* with its hash code.  Relayed along a ring (--share_method=0) or, from    *)
(* every originator, down a binary tree of its own (--share_method=1).      *)
(***************************************************************************)
EXTENDS Integers, Sequences, FiniteSets

CONSTANTS N,        \* workers of the group
          T,        \* solver threads of each worker
          Clause,
          Learners, \* per clause: the <<worker, thread>> whose solvers may learn it
          Methods,  \* the values of --share_method
          Order     \* per originator: the shuffled group its tree is laid out from

ASSUME NAssumption     == N \in Nat \ {0}
ASSUME TAssumption     == T \in Nat \ {0}
ASSUME MethodsAssumption == Methods \subseteq {0, 1}
ASSUME OrderAssumption ==
  \A r \in 1 .. N : /\ Order[r] \in [1 .. N -> 1 .. N] /\ Order[r][1] = r
                    /\ \A w \in 1 .. N : \E k \in 1 .. N : Order[r][k] = w
                    /\ \A k, m \in 1 .. N : Order[r][k] = Order[r][m] => k = m

Node   == 1 .. N
Thread == 1 .. T

VARIABLES share_method,    \* 0: ring, 1: trees; the same on every worker
          learnt,          \* per worker and thread: the clauses its solver has exported so far
          exported,        \* per worker and thread: those still in the export queue
          bucket,          \* per worker and thread: those kept back by sort_clauses
          imported,        \* per worker and thread: clauses handed to import_clauses_from
          clause_imported, \* per worker: the hash codes it has seen
          chan,            \* per sender and receiver: messages in flight
          pc               \* per worker: 0 while it receives, else the producer to collect from

local == <<share_method, learnt, exported, bucket, imported, clause_imported, pc>>
vars  == <<local, chan>>

PerThread == [Node -> [Thread -> SUBSET Clause]]

Init == /\ share_method \in Methods
        /\ learnt   = [n \in Node |-> [t \in Thread |-> {}]]
        /\ exported = [n \in Node |-> [t \in Thread |-> {}]]
        /\ bucket   = [n \in Node |-> [t \in Thread |-> {}]]
        /\ imported = [n \in Node |-> [t \in Thread |-> {}]]
        /\ clause_imported = [n \in Node |-> {}]
        /\ chan = [n \in Node |-> [d \in Node |-> <<>>]]
        /\ pc = [n \in Node |-> 0]

----------------------------------------------------------------------------
(* Who gets what worker n passes on for originator `from`.                  *)
NoWrap(n) == IF n = N THEN n ELSE n + 1
next_node(n) == (n % N) + 1

Place(from, n) == CHOOSE k \in Node : Order[from][k] = n
SonOffByOne(from, n) == {Order[from][k] : k \in {2 * Place(from, n) + 1, 2 * Place(from, n) + 2} \cap Node}
son(from, n) == {Order[from][k] : k \in {2 * Place(from, n), 2 * Place(from, n) + 1} \cap Node}

RingTargetsOn(from, n) == {next_node(n)}
RingTargetsOwn(from, n) == IF from = n THEN {} ELSE {next_node(n)}
RingTargets(from, n) == {next_node(n)} \ {from}    \* once around
Ring == share_method = 0
Targets(from, n) == IF Ring THEN RingTargets(from, n) ELSE son(from, n)

(* share_clauses_to_other_node; `taken` is the sender whose message n has   *)
(* just received, 0 if none.                                                *)
Share(n, from, cls, taken) ==
  chan' = [s \in Node |-> [d \in Node |->
             IF s = n /\ cls # {} /\ d \in Targets(from, n)
             THEN Append(chan[s][d], [from |-> from, cls |-> cls])
             ELSE IF s = taken /\ d = n THEN Tail(chan[s][d]) ELSE chan[s][d]]]

----------------------------------------------------------------------------
(* A solver exports a clause; a thread exports each clause once, to bound   *)
(* the run.  A second export is dropped once the first has been shared; if  *)
(* both are kept back the clause is sent twice, and dropped by its          *)
(* receivers the second time.                                               *)
Learn(n, t, c) ==
  /\ <<n, t>> \in Learners[c] /\ c \notin learnt[n][t]
  /\ learnt'   = [learnt   EXCEPT ![n][t] = @ \cup {c}]
  /\ exported' = [exported EXCEPT ![n][t] = @ \cup {c}]
  /\ UNCHANGED <<share_method, bucket, imported, clause_imported, chan, pc>>

(* receive_clauses_from_other_node drops what is known, and the loop goes   *)
(* on as long as a message brings something new.                            *)
NewOf(m, n) == m.cls \ clause_imported[n]
HandToNone(n, cls) == imported
HandToAll(n, cls) == [imported EXCEPT ![n] = [t \in Thread |-> imported[n][t] \cup cls]]
Receive(n, s) ==
  /\ pc[n] = 0 /\ chan[s][n] # <<>>
  /\ LET m == Head(chan[s][n])
         cls == NewOf(m, n)
     IN /\ clause_imported' = [clause_imported EXCEPT ![n] = @ \cup cls]
        /\ imported' = HandToAll(n, cls)
        /\ Share(n, m.from, cls, s)
        /\ pc' = [pc EXCEPT ![n] = IF cls = {} THEN 1 ELSE 0]
  /\ UNCHANGED <<share_method, learnt, exported, bucket>>

(* MPI_Test: nothing has arrived (yet). *)
NothingArrived(n) ==
  /\ pc[n] = 0 /\ pc' = [pc EXCEPT ![n] = 1]
  /\ UNCHANGED <<share_method, learnt, exported, bucket, imported, clause_imported, chan>>

(* One producer: its exports without the known ones go to its buckets or    *)
(* are dropped there, what sort_clauses selects goes to the other threads   *)
(* and to the network.  An old clause in a bucket is not tested again.      *)
Fresh(n, t) == exported[n][t] \ clause_imported[n]
OtherThreads(t) == Thread \ {t}
LastOneLate(t) == t > T
LastOne(t) == t = T
Collect(n, t) ==
  /\ pc[n] = t
  /\ \E cls \in SUBSET (bucket[n][t] \cup Fresh(n, t)),
        dropped \in SUBSET (Fresh(n, t) \ bucket[n][t]) :
       /\ cls \cap dropped = {}
       /\ bucket' = [bucket EXCEPT ![n][t] = ((@ \cup Fresh(n, t)) \ cls) \ dropped]
       /\ clause_imported' = [clause_imported EXCEPT ![n] = @ \cup cls]
       /\ imported' = [imported EXCEPT ![n] =
                         [u \in Thread |-> IF u \in OtherThreads(t) THEN imported[n][u] \cup cls
                                                                    ELSE imported[n][u]]]
       /\ Share(n, n, cls, 0)
  /\ exported' = [exported EXCEPT ![n][t] = {}]
  /\ pc' = [pc EXCEPT ![n] = IF LastOne(t) THEN 0 ELSE t + 1]
  /\ UNCHANGED <<share_method, learnt>>

Solver == \E n \in Node, t \in Thread, c \in Clause : Learn(n, t, c)
Round(n) == \/ (\E s \in Node : Receive(n, s)) \/ NothingArrived(n)
            \/ (\E t \in Thread : Collect(n, t))

Next == Solver \/ \E n \in Node : Round(n)

Spec == Init /\ [][Next]_vars

(* The rounds go on, and a message that has been sent completes the posted  *)
(* receive at last.  (On a ring all messages come from one sender.)         *)
FairSpec == /\ Spec
            /\ \A n \in Node : WF_vars(Round(n)) /\ SF_vars(\E s \in Node : Receive(n, s))

----------------------------------------------------------------------------
Message == [from : Node, cls : SUBSET Clause]

TypeOK == /\ share_method \in {0, 1}
          /\ learnt \in PerThread /\ exported \in PerThread
          /\ bucket \in PerThread /\ imported \in PerThread
          /\ clause_imported \in [Node -> SUBSET Clause]
          /\ chan \in [Node -> [Node -> Seq(Message)]]
          /\ pc \in [Node -> 0 .. T]

(* Dropping what is known loses nothing inside a worker: each thread has    *)
(* been handed every clause its worker has seen, or has learnt it itself.   *)
SeenByAllThreads ==
  \A n \in Node, t \in Thread : clause_imported[n] \subseteq imported[n][t] \cup learnt[n][t]

Carried(q) == UNION {q[i].cls : i \in DOMAIN q}
InFlight(s, d) == Carried(chan[s][d])

(* Nor does it on a ring: what a worker has seen its successor has seen     *)
(* too, or is about to.                                                     *)
RingCarries ==
  Ring => \A n \in Node : clause_imported[n] \subseteq
                             clause_imported[next_node(n)] \cup InFlight(n, next_node(n))

(* Nobody is sent its own clauses back. *)
NoEcho == \A s, d \in Node : \A i \in DOMAIN chan[s][d] : chan[s][d][i].from # d

Agreed == \A n, m \in Node : clause_imported[n] = clause_imported[m]

LearntBy(c)  == {n \in Node : \E t \in Thread : c \in learnt[n][t]}
OneOrigin(c) == \A n, m \in LearntBy(c) : n = m

(* paras.hpp: "Circle Propagate", "Tree Broadcast": when the network is     *)
(* quiet, a clause that one worker has shared is known to all.  On a ring   *)
(* this is so of every clause, and a worker that has passed it on may drop  *)
(* it.  On the trees it is so of the clauses of one originator: two that    *)
(* learn the same clause broadcast it down two trees, and a worker that has *)
(* it from one of them cuts the branch below it in the other.               *)
QuietMeansShared ==
  (\A s, d \in Node : chan[s][d] = <<>>) =>
     \A c \in Clause : Ring \/ OneOrigin(c) =>
        \A n, m \in Node : c \in clause_imported[n] <=> c \in clause_imported[m]

(* On a ring every shared clause reaches every worker: a worker never       *)
(* forgets a clause, and again and again all have seen the same.            *)
RingDelivers == Ring => []<>Agreed
==============================================================================
