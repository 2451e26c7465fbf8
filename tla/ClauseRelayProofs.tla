-------------------------- MODULE ClauseRelayProofs --------------------------
(***************************************************************************)
(* For groups of any size, any number of threads and any set of clauses:    *)
(* nothing that is seen gets lost inside a worker; on a ring what a worker  *)
(* has seen is seen by its successor or on its way there, and on the trees  *)
(* a clause of one originator by every son, so that a quiet network agrees; *)
(* nobody is sent its own clauses back.                                     *)
(***************************************************************************)
EXTENDS ClauseRelay, SequenceTheorems, WellFoundedInduction, TLAPS

(* What is in flight after a send and after a receive. *)
LEMMA CarriedAppend ==
  ASSUME NEW q \in Seq(Message), NEW m \in Message
  PROVE  Carried(Append(q, m)) = Carried(q) \cup m.cls
<1>1. /\ Len(Append(q, m)) = Len(q) + 1 /\ Append(q, m)[Len(q) + 1] = m
      /\ \A i \in 1 .. Len(q) : Append(q, m)[i] = q[i]
  BY AppendProperties
<1>2. DOMAIN q = 1 .. Len(q) /\ Len(q) \in Nat /\ DOMAIN Append(q, m) = 1 .. Len(q) + 1
  BY <1>1, AppendProperties, LenProperties
<1>3. ASSUME NEW c \in Carried(Append(q, m)) PROVE c \in Carried(q) \cup m.cls
  <2>1. PICK i \in 1 .. Len(q) + 1 : c \in Append(q, m)[i].cls
    BY <1>2, <1>3 DEF Carried
  <2>2. CASE i = Len(q) + 1
    BY <1>1, <2>1, <2>2
  <2>3. CASE i # Len(q) + 1
    <3>1. i \in 1 .. Len(q)
      BY <1>2, <2>3
    <3>2. c \in q[i].cls
      BY <1>1, <2>1, <3>1
    <3> QED
      BY <1>2, <3>1, <3>2 DEF Carried
  <2> QED
    BY <2>2, <2>3
<1>4. ASSUME NEW c \in Carried(q) PROVE c \in Carried(Append(q, m))
  <2>1. PICK i \in 1 .. Len(q) : c \in q[i].cls
    BY <1>2, <1>4 DEF Carried
  <2>2. i \in DOMAIN Append(q, m) /\ c \in Append(q, m)[i].cls
    BY <1>1, <1>2, <2>1
  <2> QED
    BY <2>2 DEF Carried
<1>5. m.cls \subseteq Carried(Append(q, m))
  <2>1. Len(q) + 1 \in DOMAIN Append(q, m)
    BY <1>2
  <2> QED
    BY <1>1, <2>1 DEF Carried
<1> QED
  BY <1>3, <1>4, <1>5

LEMMA CarriedTail ==
  ASSUME NEW q \in Seq(Message), q # <<>>
  PROVE  /\ Head(q) \in Message /\ Tail(q) \in Seq(Message)
         /\ Carried(q) \subseteq Head(q).cls \cup Carried(Tail(q))
         /\ Carried(Tail(q)) \subseteq Carried(q)
         /\ Head(q).cls \subseteq Carried(q)
<1>1. /\ Head(q) \in Message /\ Tail(q) \in Seq(Message) /\ Head(q) = q[1]
      /\ Len(Tail(q)) = Len(q) - 1 /\ Len(q) \in Nat \ {0}
      /\ \A i \in 1 .. Len(Tail(q)) : Tail(q)[i] = q[i + 1]
  BY HeadTailProperties, EmptySeq, LenProperties
<1>2. DOMAIN q = 1 .. Len(q) /\ DOMAIN Tail(q) = 1 .. Len(q) - 1
  BY <1>1, LenProperties
<1>3. ASSUME NEW c \in Carried(q) PROVE c \in Head(q).cls \cup Carried(Tail(q))
  <2>1. PICK i \in 1 .. Len(q) : c \in q[i].cls
    BY <1>2, <1>3 DEF Carried
  <2>2. CASE i = 1
    BY <1>1, <2>1, <2>2
  <2>3. CASE i # 1
    <3>1. i - 1 \in 1 .. Len(q) - 1 /\ (i - 1) + 1 = i
      BY <1>1, <2>3
    <3>2. c \in Tail(q)[i - 1].cls
      BY <1>1, <2>1, <3>1
    <3> QED
      BY <1>2, <3>1, <3>2 DEF Carried
  <2> QED
    BY <2>2, <2>3
<1>4. ASSUME NEW c \in Carried(Tail(q)) PROVE c \in Carried(q)
  <2>1. PICK i \in 1 .. Len(q) - 1 : c \in Tail(q)[i].cls
    BY <1>2, <1>4 DEF Carried
  <2>2. i + 1 \in DOMAIN q /\ c \in q[i + 1].cls
    BY <1>1, <1>2, <2>1
  <2> QED
    BY <2>2 DEF Carried
<1>5. Head(q).cls \subseteq Carried(q)
  <2>1. 1 \in DOMAIN q
    BY <1>1, <1>2
  <2> QED
    BY <1>1, <2>1 DEF Carried
<1> QED
  BY <1>1, <1>3, <1>4, <1>5

(* The places of a tree are the workers, each once, the originator first. *)
LEMMA Placed ==
  ASSUME NEW r \in Node, NEW k \in Node
  PROVE  Order[r][k] \in Node /\ Order[r][1] = r
BY OrderAssumption, ZenonT(60) DEF Node

LEMMA EveryPlaced ==
  ASSUME NEW r \in Node, NEW w \in Node
  PROVE  \E k \in Node : Order[r][k] = w
BY OrderAssumption, ZenonT(60) DEF Node

LEMMA PlacedOnce ==
  ASSUME NEW r \in Node, NEW k \in Node, NEW m \in Node, Order[r][k] = Order[r][m]
  PROVE  k = m
BY OrderAssumption DEF Node

LEMMA SuccessorInGroup == \A n \in Node : next_node(n) \in Node
BY NAssumption DEF next_node, Node

----------------------------------------------------------------------------
(* share_clauses_to_other_node: each channel gains a message, loses its     *)
(* first one or stays.                                                      *)
Effect(n, from, cls, taken) ==
  \A s, d \in Node :
    \/ /\ s = n /\ cls # {} /\ d \in Targets(from, n)
       /\ chan'[s][d] = Append(chan[s][d], [from |-> from, cls |-> cls])
    \/ s = taken /\ d = n /\ chan[s][d] # <<>> /\ chan'[s][d] = Tail(chan[s][d])
    \/ ~(s = taken /\ d = n) /\ chan'[s][d] = chan[s][d]

LEMMA ShareEffect ==
  ASSUME TypeOK, NEW n \in Node, NEW from \in Node, NEW cls \in SUBSET Clause,
         NEW taken, taken = 0 \/ (taken \in Node /\ chan[taken][n] # <<>>),
         Share(n, from, cls, taken)
  PROVE  /\ chan' \in [Node -> [Node -> Seq(Message)]]
         /\ Effect(n, from, cls, taken)
         /\ \A d \in Node : cls # {} /\ d \in Targets(from, n) =>
              chan'[n][d] = Append(chan[n][d], [from |-> from, cls |-> cls])
<1> DEFINE msg == [from |-> from, cls |-> cls]
<1>1. msg \in Message /\ 0 \notin Node
  BY DEF Message, Node
<1>2. chan \in [Node -> [Node -> Seq(Message)]]
  BY DEF TypeOK
<1>3. \A s, d \in Node : chan'[s][d] =
        IF s = n /\ cls # {} /\ d \in Targets(from, n) THEN Append(chan[s][d], msg)
        ELSE IF s = taken /\ d = n THEN Tail(chan[s][d]) ELSE chan[s][d]
  BY DEF Share
<1>4. \A s, d \in Node : chan'[s][d] \in Seq(Message)
  <2> TAKE s, d \in Node
  <2>1. chan[s][d] \in Seq(Message)
    BY <1>2
  <2>2. Append(chan[s][d], msg) \in Seq(Message)
    BY <1>1, <2>1, AppendProperties
  <2>3. chan[s][d] # <<>> => Tail(chan[s][d]) \in Seq(Message)
    BY <2>1, CarriedTail
  <2> QED
    BY <1>1, <1>3, <2>1, <2>2, <2>3
<1>5. chan' \in [Node -> [Node -> Seq(Message)]]
  <2> DEFINE row(s) == [d \in Node |->
               IF s = n /\ cls # {} /\ d \in Targets(from, n) THEN Append(chan[s][d], msg)
               ELSE IF s = taken /\ d = n THEN Tail(chan[s][d]) ELSE chan[s][d]]
  <2>1. chan' = [s \in Node |-> row(s)]
    BY DEF Share
  <2>2. \A s \in Node : row(s) \in [Node -> Seq(Message)]
    <3> TAKE s \in Node
    <3>1. \A d \in Node : row(s)[d] = chan'[s][d]
      BY <1>3
    <3> QED
      BY <1>4, <3>1
  <2> HIDE DEF row
  <2> QED
    BY <2>1, <2>2
<1>6. Effect(n, from, cls, taken)
  BY <1>1, <1>3, ZenonT(60) DEF Effect
<1> QED
  BY <1>1, <1>3, <1>5, <1>6

(* A target is sent what is shared. *)
LEMMA ShareReaches ==
  ASSUME TypeOK, NEW n \in Node, NEW from \in Node, NEW cls \in SUBSET Clause,
         NEW taken, taken = 0 \/ (taken \in Node /\ chan[taken][n] # <<>>),
         Share(n, from, cls, taken), NEW d \in Node, cls # {}, d \in Targets(from, n)
  PROVE  chan'[n][d] = Append(chan[n][d], [from |-> from, cls |-> cls])
BY ShareEffect, SMTT(30)

(* A clause leaves a channel only with the message that is taken from it. *)
LEMMA ShareKeeps ==
  ASSUME TypeOK, NEW n \in Node, NEW from \in Node, NEW cls \in SUBSET Clause,
         NEW taken, taken = 0 \/ (taken \in Node /\ chan[taken][n] # <<>>),
         Share(n, from, cls, taken), NEW s \in Node, NEW d \in Node,
         NEW c \in InFlight(s, d)
  PROVE  c \in InFlight(s, d)' \/ (s = taken /\ d = n /\ c \in Head(chan[s][d]).cls)
<1>1. chan[s][d] \in Seq(Message) /\ [from |-> from, cls |-> cls] \in Message
  BY DEF TypeOK, Message
<1>2. CASE chan'[s][d] = Append(chan[s][d], [from |-> from, cls |-> cls])
  BY <1>1, <1>2, CarriedAppend DEF InFlight
<1>3. CASE s = taken /\ d = n /\ chan[s][d] # <<>> /\ chan'[s][d] = Tail(chan[s][d])
  BY <1>1, <1>3, CarriedTail DEF InFlight
<1>4. CASE chan'[s][d] = chan[s][d]
  BY <1>4 DEF InFlight
<1>5. Effect(n, from, cls, taken)
  BY ShareEffect
<1>6. \/ chan'[s][d] = Append(chan[s][d], [from |-> from, cls |-> cls])
      \/ s = taken /\ d = n /\ chan[s][d] # <<>> /\ chan'[s][d] = Tail(chan[s][d])
      \/ chan'[s][d] = chan[s][d]
  BY <1>5 DEF Effect
<1> QED
  BY <1>2, <1>3, <1>4, <1>6

(* On a ring the successor is sent what is shared, unless it is the origin. *)
LEMMA ShareSends ==
  ASSUME TypeOK, Ring, NEW n \in Node, NEW from \in Node, NEW cls \in SUBSET Clause,
         NEW taken, taken = 0 \/ (taken \in Node /\ chan[taken][n] # <<>>),
         Share(n, from, cls, taken), next_node(n) # from, NEW c \in cls
  PROVE  c \in InFlight(n, next_node(n))'
<1> DEFINE d == next_node(n)
<1>1. d \in Node /\ d \in Targets(from, n) /\ cls # {}
  BY SuccessorInGroup DEF Targets, RingTargets
<1>2. chan'[n][d] = Append(chan[n][d], [from |-> from, cls |-> cls])
  BY <1>1, ShareEffect
<1>3. chan[n][d] \in Seq(Message) /\ [from |-> from, cls |-> cls] \in Message
  BY <1>1 DEF TypeOK, Message
<1>4. c \in Carried(Append(chan[n][d], [from |-> from, cls |-> cls]))
  BY <1>3, CarriedAppend
<1> HIDE DEF d
<1> QED
  BY <1>2, <1>4 DEF InFlight, d

----------------------------------------------------------------------------
THEOREM TypeInit == Init => TypeOK
<1> SUFFICES ASSUME Init PROVE TypeOK
  OBVIOUS
<1> USE DEF Init, PerThread
<1>0. share_method \in {0, 1}
  BY MethodsAssumption
<1>1. learnt \in PerThread /\ exported \in PerThread
  OBVIOUS
<1>2. bucket \in PerThread /\ imported \in PerThread
  OBVIOUS
<1>3. clause_imported \in [Node -> SUBSET Clause]
  OBVIOUS
<1>4. chan \in [Node -> [Node -> Seq(Message)]]
  <2>1. <<>> \in Seq(Message)
    BY EmptySeq
  <2> QED
    BY <2>1
<1>5. pc \in [Node -> 0 .. T]
  BY TAssumption
<1> QED
  BY <1>0, <1>1, <1>2, <1>3, <1>4, <1>5 DEF TypeOK

THEOREM TypeNext == TypeOK /\ [Next]_vars => TypeOK'
<1> SUFFICES ASSUME TypeOK, [Next]_vars PROVE TypeOK'
  OBVIOUS
<1>0. /\ share_method \in {0, 1}
      /\ learnt \in PerThread /\ exported \in PerThread /\ bucket \in PerThread
      /\ imported \in PerThread /\ clause_imported \in [Node -> SUBSET Clause]
      /\ chan \in [Node -> [Node -> Seq(Message)]] /\ pc \in [Node -> 0 .. T]
  BY DEF TypeOK
<1>1. ASSUME NEW n \in Node, NEW t \in Thread, NEW c \in Clause, Learn(n, t, c) PROVE TypeOK'
  <2>1. learnt' \in PerThread
    BY <1>0, <1>1 DEF Learn, PerThread
  <2>2. exported' \in PerThread
    BY <1>0, <1>1 DEF Learn, PerThread
  <2> QED
    BY <1>0, <1>1, <2>1, <2>2 DEF Learn, TypeOK
<1>2. ASSUME NEW n \in Node, NEW s \in Node, Receive(n, s) PROVE TypeOK'
  <2> DEFINE m == Head(chan[s][n])
  <2> DEFINE cls == NewOf(m, n)
  <2>1. m \in Message
    <3>1. chan[s][n] \in Seq(Message) /\ chan[s][n] # <<>>
      BY <1>0, <1>2 DEF Receive
    <3> QED
      BY <3>1, CarriedTail
  <2>2. cls \in SUBSET Clause /\ m.from \in Node
    BY <2>1 DEF NewOf, Message
  <2>3. /\ chan[s][n] # <<>> /\ Share(n, m.from, cls, s)
        /\ clause_imported' = [clause_imported EXCEPT ![n] = @ \cup cls]
        /\ imported' = HandToAll(n, cls)
        /\ pc' = [pc EXCEPT ![n] = IF cls = {} THEN 1 ELSE 0]
        /\ UNCHANGED <<share_method, learnt, exported, bucket>>
    BY <1>2 DEF Receive
  <2> HIDE DEF m, cls
  <2>4. chan' \in [Node -> [Node -> Seq(Message)]]
    BY <2>2, <2>3, ShareEffect
  <2>5. clause_imported' \in [Node -> SUBSET Clause]
    BY <1>0, <2>2, <2>3
  <2>6. imported' \in PerThread
    BY <1>0, <2>2, <2>3 DEF HandToAll, PerThread
  <2>7. pc' \in [Node -> 0 .. T]
    BY <1>0, <2>3, TAssumption
  <2> QED
    BY <1>0, <2>3, <2>4, <2>5, <2>6, <2>7 DEF TypeOK
<1>3. ASSUME NEW n \in Node, NothingArrived(n) PROVE TypeOK'
  <2>1. pc' \in [Node -> 0 .. T]
    BY <1>0, <1>3, TAssumption DEF NothingArrived
  <2> QED
    BY <1>0, <1>3, <2>1 DEF NothingArrived, TypeOK
<1>4. ASSUME NEW n \in Node, NEW t \in Thread, Collect(n, t) PROVE TypeOK'
  <2>1. Fresh(n, t) \subseteq Clause /\ bucket[n][t] \subseteq Clause
    BY <1>0 DEF Fresh, PerThread
  <2>2. PICK cls \in SUBSET (bucket[n][t] \cup Fresh(n, t)),
             dropped \in SUBSET (Fresh(n, t) \ bucket[n][t]) :
          /\ bucket' = [bucket EXCEPT ![n][t] = ((@ \cup Fresh(n, t)) \ cls) \ dropped]
          /\ clause_imported' = [clause_imported EXCEPT ![n] = @ \cup cls]
          /\ imported' = [imported EXCEPT ![n] =
               [u \in Thread |-> IF u \in OtherThreads(t) THEN imported[n][u] \cup cls
                                                          ELSE imported[n][u]]]
          /\ Share(n, n, cls, 0)
    BY <1>4 DEF Collect
  <2>3. cls \in SUBSET Clause
    BY <2>1
  <2>4. chan' \in [Node -> [Node -> Seq(Message)]]
    BY <2>2, <2>3, ShareEffect
  <2>5. clause_imported' \in [Node -> SUBSET Clause]
    BY <1>0, <2>2, <2>3
  <2>6. imported' \in PerThread
    BY <1>0, <2>2, <2>3 DEF PerThread
  <2>7. bucket' \in PerThread
    BY <1>0, <2>1, <2>2 DEF PerThread
  <2>8. exported' \in PerThread /\ learnt' \in PerThread /\ share_method' \in {0, 1}
    BY <1>0, <1>4 DEF Collect, PerThread
  <2>9. pc' \in [Node -> 0 .. T]
    BY <1>0, <1>4, TAssumption DEF Collect, LastOne, Thread
  <2> QED
    BY <2>4, <2>5, <2>6, <2>7, <2>8, <2>9 DEF TypeOK
<1>5. CASE UNCHANGED vars
  BY <1>0, <1>5 DEF vars, local, TypeOK
<1> QED
  BY <1>1, <1>2, <1>3, <1>4, <1>5 DEF Next, Solver, Round

(* The state of the relay keeps its types. *)
THEOREM TypeCorrect == Spec => []TypeOK
BY TypeInit, TypeNext, PTL DEF Spec

----------------------------------------------------------------------------
(* Inside a worker: what is exported or kept back is its thread's own.      *)
OwnClauses == \A n \in Node, t \in Thread :
                exported[n][t] \subseteq learnt[n][t] /\ bucket[n][t] \subseteq learnt[n][t]

SeenInv == OwnClauses /\ SeenByAllThreads

LEMMA SeenNext == TypeOK /\ SeenInv /\ [Next]_vars => SeenInv'
<1> SUFFICES ASSUME TypeOK, SeenInv, [Next]_vars PROVE SeenInv'
  OBVIOUS
<1> USE DEF SeenInv, OwnClauses, SeenByAllThreads
<1>0. /\ learnt \in PerThread /\ exported \in PerThread /\ bucket \in PerThread
      /\ imported \in PerThread /\ clause_imported \in [Node -> SUBSET Clause]
  BY DEF TypeOK
<1>1. ASSUME NEW n \in Node, NEW t \in Thread, NEW c \in Clause, Learn(n, t, c) PROVE SeenInv'
  <2>1. \A p \in Node, u \in Thread :
          /\ learnt'[p][u] = IF p = n /\ u = t THEN learnt[p][u] \cup {c} ELSE learnt[p][u]
          /\ exported'[p][u] = IF p = n /\ u = t THEN exported[p][u] \cup {c} ELSE exported[p][u]
    BY <1>0, <1>1 DEF Learn, PerThread
  <2>2. OwnClauses'
    <3>1. bucket' = bucket
      BY <1>1 DEF Learn
    <3> SUFFICES ASSUME NEW p \in Node, NEW u \in Thread
                 PROVE  exported'[p][u] \subseteq learnt'[p][u] /\ bucket[p][u] \subseteq learnt'[p][u]
      BY <3>1
    <3>2. exported[p][u] \subseteq learnt[p][u] /\ bucket[p][u] \subseteq learnt[p][u]
      OBVIOUS
    <3> QED
      BY <2>1, <3>2
  <2>3. SeenByAllThreads'
    <3>1. clause_imported' = clause_imported /\ imported' = imported
      BY <1>1 DEF Learn
    <3> SUFFICES ASSUME NEW p \in Node, NEW u \in Thread, NEW d \in clause_imported[p]
                 PROVE  d \in imported[p][u] \/ d \in learnt'[p][u]
      BY <3>1
    <3>2. d \in imported[p][u] \/ d \in learnt[p][u]
      OBVIOUS
    <3>3. learnt[p][u] \subseteq learnt'[p][u]
      BY <2>1
    <3> QED
      BY <3>2, <3>3
  <2> QED
    BY <2>2, <2>3
<1>2. ASSUME NEW n \in Node, NEW s \in Node, Receive(n, s) PROVE SeenInv'
  <2> DEFINE cls == NewOf(Head(chan[s][n]), n)
  <2>1. /\ clause_imported' = [clause_imported EXCEPT ![n] = @ \cup cls]
        /\ imported' = HandToAll(n, cls)
        /\ UNCHANGED <<share_method, learnt, exported, bucket>>
    BY <1>2 DEF Receive
  <2> HIDE DEF cls
  <2>2. \A p \in Node, u \in Thread :
          /\ clause_imported'[p] = IF p = n THEN clause_imported[p] \cup cls ELSE clause_imported[p]
          /\ imported'[p][u] = IF p = n THEN imported[p][u] \cup cls ELSE imported[p][u]
    BY <1>0, <2>1 DEF HandToAll, PerThread
  <2>3. OwnClauses'
    BY <2>1
  <2>4. SeenByAllThreads'
    <3> SUFFICES ASSUME NEW p \in Node, NEW u \in Thread, NEW c \in clause_imported'[p]
                 PROVE  c \in imported'[p][u] \/ c \in learnt'[p][u]
      OBVIOUS
    <3>1. c \in clause_imported[p] => c \in imported[p][u] \/ c \in learnt[p][u]
      OBVIOUS
    <3>2. c \in clause_imported[p] \/ (p = n /\ c \in cls)
      BY <2>2
    <3>3. learnt'[p][u] = learnt[p][u]
      BY <2>1
    <3>4. imported'[p][u] = IF p = n THEN imported[p][u] \cup cls ELSE imported[p][u]
      BY <2>2
    <3> QED
      BY <3>1, <3>2, <3>3, <3>4
  <2> QED
    BY <2>3, <2>4
<1>3. ASSUME NEW n \in Node, NothingArrived(n) PROVE SeenInv'
  BY <1>3 DEF NothingArrived
<1>4. ASSUME NEW n \in Node, NEW t \in Thread, Collect(n, t) PROVE SeenInv'
  <2>1. PICK cls \in SUBSET (bucket[n][t] \cup Fresh(n, t)),
             dropped \in SUBSET (Fresh(n, t) \ bucket[n][t]) :
          /\ bucket' = [bucket EXCEPT ![n][t] = ((@ \cup Fresh(n, t)) \ cls) \ dropped]
          /\ clause_imported' = [clause_imported EXCEPT ![n] = @ \cup cls]
          /\ imported' = [imported EXCEPT ![n] =
               [u \in Thread |-> IF u \in OtherThreads(t) THEN imported[n][u] \cup cls
                                                          ELSE imported[n][u]]]
    BY <1>4 DEF Collect
  <2>2. cls \subseteq learnt[n][t] /\ Fresh(n, t) \subseteq learnt[n][t]
    BY DEF Fresh
  <2>3. \A p \in Node, u \in Thread :
          /\ bucket'[p][u] \subseteq bucket[p][u] \cup
                                    (IF p = n /\ u = t THEN Fresh(n, t) ELSE {})
          /\ exported'[p][u] \subseteq exported[p][u]
          /\ learnt'[p][u] = learnt[p][u]
    BY <1>0, <1>4, <2>1 DEF Collect, PerThread
  <2>4. \A p \in Node, u \in Thread :
          /\ clause_imported'[p] = IF p = n THEN clause_imported[p] \cup cls ELSE clause_imported[p]
          /\ imported'[p][u] = IF p = n /\ u # t THEN imported[p][u] \cup cls ELSE imported[p][u]
    BY <1>0, <2>1 DEF PerThread, OtherThreads
  <2>5. OwnClauses'
    BY <2>2, <2>3
  <2>6. SeenByAllThreads'
    <3> SUFFICES ASSUME NEW p \in Node, NEW u \in Thread, NEW c \in clause_imported'[p]
                 PROVE  c \in imported'[p][u] \/ c \in learnt'[p][u]
      OBVIOUS
    <3>1. c \in clause_imported[p] => c \in imported[p][u] \/ c \in learnt[p][u]
      OBVIOUS
    <3>2. c \in clause_imported[p] \/ (p = n /\ c \in cls)
      BY <2>4
    <3>3. learnt'[p][u] = learnt[p][u]
      BY <2>3
    <3>4. imported'[p][u] = IF p = n /\ u # t THEN imported[p][u] \cup cls ELSE imported[p][u]
      BY <2>4
    <3>5. p = n /\ u = t /\ c \in cls => c \in learnt[p][u]
      BY <2>2
    <3> QED
      BY <3>1, <3>2, <3>3, <3>4, <3>5
  <2> QED
    BY <2>5, <2>6
<1>5. CASE UNCHANGED vars
  BY <1>5 DEF vars, local
<1> QED
  BY <1>1, <1>2, <1>3, <1>4, <1>5 DEF Next, Solver, Round

(* Nothing a worker has seen is missing in one of its threads, although     *)
(* whatever is already marked as seen is dropped without being handed on:   *)
(* a clause is marked in the very step that hands it out, and by a thread   *)
(* that has learnt it.                                                      *)
THEOREM ThreadsMissNothing == Spec => []SeenByAllThreads
<1>1. Init => SeenInv
  BY DEF Init, SeenInv, OwnClauses, SeenByAllThreads
<1>2. SeenInv => SeenByAllThreads
  BY DEF SeenInv
<1> QED
  BY <1>1, <1>2, TypeCorrect, SeenNext, PTL DEF Spec

----------------------------------------------------------------------------
(* Along the ring: a message holds clauses that its originator has seen. *)
OriginKnows == \A s, d \in Node : \A i \in DOMAIN chan[s][d] :
                 chan[s][d][i].cls \subseteq clause_imported[chan[s][d][i].from]

RingInv == OriginKnows /\ RingCarries

(* A send whose originator has seen what is sent keeps the first part. *)
LEMMA ShareOrigin ==
  ASSUME TypeOK, OriginKnows, NEW n \in Node, NEW from \in Node, NEW cls \in SUBSET Clause,
         NEW taken, taken = 0 \/ (taken \in Node /\ chan[taken][n] # <<>>),
         Share(n, from, cls, taken),
         \A p \in Node : clause_imported[p] \subseteq clause_imported'[p],
         cls \subseteq clause_imported'[from]
  PROVE  OriginKnows'
<1> SUFFICES ASSUME NEW s \in Node, NEW d \in Node, NEW i \in DOMAIN chan'[s][d]
             PROVE  chan'[s][d][i].cls \subseteq clause_imported'[chan'[s][d][i].from]
  BY DEF OriginKnows
<1> DEFINE msg == [from |-> from, cls |-> cls]
<1> DEFINE q == chan[s][d]
<1>1. q \in Seq(Message) /\ msg \in Message
  BY DEF TypeOK, Message
<1>2. DOMAIN q = 1 .. Len(q) /\ Len(q) \in Nat /\ \A k \in 1 .. Len(q) : q[k] \in Message
  BY <1>1, LenProperties, ElementOfSeq
<1>3. \A k \in 1 .. Len(q) : q[k].cls \subseteq clause_imported'[q[k].from]
  <2> TAKE k \in 1 .. Len(q)
  <2>1. q[k].from \in Node
    BY <1>2 DEF Message
  <2>2. q[k].cls \subseteq clause_imported[q[k].from]
    BY <1>2 DEF OriginKnows
  <2> QED
    BY <2>1, <2>2
<1>4. CASE chan'[s][d] = Append(q, msg)
  <2>1. /\ DOMAIN Append(q, msg) = 1 .. Len(q) + 1 /\ Append(q, msg)[Len(q) + 1] = msg
        /\ \A k \in 1 .. Len(q) : Append(q, msg)[k] = q[k]
    BY <1>1, AppendProperties, LenProperties
  <2>2. CASE i = Len(q) + 1
    BY <1>4, <2>1, <2>2
  <2>3. CASE i # Len(q) + 1
    <3>1. i \in 1 .. Len(q)
      BY <1>2, <1>4, <2>1, <2>3
    <3> QED
      BY <1>3, <1>4, <2>1, <3>1
  <2> QED
    BY <2>2, <2>3
<1>5. CASE q # <<>> /\ chan'[s][d] = Tail(q)
  <2>1. /\ DOMAIN Tail(q) = 1 .. Len(q) - 1
        /\ \A k \in 1 .. Len(q) - 1 : Tail(q)[k] = q[k + 1]
    BY <1>1, <1>5, HeadTailProperties, LenProperties
  <2>2. i \in 1 .. Len(q) - 1 /\ i + 1 \in 1 .. Len(q)
    BY <1>2, <1>5, <2>1
  <2> QED
    BY <1>3, <1>5, <2>1, <2>2
<1>6. CASE chan'[s][d] = q
  BY <1>2, <1>3, <1>6
<1>7. Effect(n, from, cls, taken)
  BY ShareEffect
<1>8. chan'[s][d] = Append(q, msg) \/ (q # <<>> /\ chan'[s][d] = Tail(q)) \/ chan'[s][d] = q
  BY <1>7 DEF Effect
<1> QED
  BY <1>4, <1>5, <1>6, <1>8

LEMMA RingNext == TypeOK /\ RingInv /\ [Next]_vars => RingInv'
<1> SUFFICES ASSUME TypeOK, RingInv, [Next]_vars PROVE RingInv'
  OBVIOUS
<1>0. OriginKnows /\ RingCarries /\ clause_imported \in [Node -> SUBSET Clause]
  BY DEF RingInv, TypeOK
<1>1. ASSUME UNCHANGED <<share_method, clause_imported, chan>> PROVE RingInv'
  BY <1>0, <1>1 DEF RingInv, OriginKnows, RingCarries, InFlight, Ring
<1>2. ASSUME NEW n \in Node, NEW from \in Node, NEW cls \in SUBSET Clause,
             NEW taken, taken = 0 \/ (taken \in Node /\ chan[taken][n] # <<>>),
             Share(n, from, cls, taken),
             clause_imported' = [clause_imported EXCEPT ![n] = @ \cup cls],
             cls \subseteq clause_imported'[from],
             taken \in Node => Head(chan[taken][n]).cls \subseteq clause_imported'[n],
             share_method' = share_method
      PROVE  RingInv'
  <2>1. \A p \in Node : clause_imported'[p] =
          IF p = n THEN clause_imported[p] \cup cls ELSE clause_imported[p]
    BY <1>0, <1>2
  <2>2. OriginKnows'
    BY <1>0, <1>2, <2>1, ShareOrigin
  <2>3. RingCarries'
    <3> SUFFICES ASSUME Ring, NEW p \in Node, NEW c \in clause_imported'[p]
                 PROVE  c \in clause_imported'[next_node(p)] \/ c \in InFlight(p, next_node(p))'
      BY <1>2 DEF RingCarries, Ring
    <3> DEFINE d == next_node(p)
    <3>1. d \in Node
      BY SuccessorInGroup
    <3>2. CASE c \in clause_imported[p]
      <4>1. c \in clause_imported[d] \/ c \in InFlight(p, d)
        BY <1>0, <3>2 DEF RingCarries
      <4>2. CASE c \in clause_imported[d]
        BY <2>1, <3>1, <4>2
      <4>3. CASE c \in InFlight(p, d)
        <5>1. c \in InFlight(p, d)' \/ (p = taken /\ d = n /\ c \in Head(chan[p][d]).cls)
          <6> HIDE DEF d
          <6> QED
            BY <1>2, <3>1, <4>3, ShareKeeps
        <5> QED
          BY <1>2, <5>1
      <4> QED
        BY <4>1, <4>2, <4>3
    <3>3. CASE c \notin clause_imported[p]
      <4>1. p = n /\ c \in cls
        BY <2>1, <3>3
      <4>2. CASE d = from
        BY <1>2, <4>1, <4>2
      <4>3. CASE d # from
        BY <1>2, <4>1, <4>3, ShareSends
      <4> QED
        BY <4>2, <4>3
    <3> QED
      BY <3>2, <3>3
  <2> QED
    BY <2>2, <2>3 DEF RingInv
<1>3. ASSUME NEW n \in Node, NEW t \in Thread, NEW c \in Clause, Learn(n, t, c) PROVE RingInv'
  BY <1>1, <1>3 DEF Learn
<1>4. ASSUME NEW n \in Node, NEW s \in Node, Receive(n, s) PROVE RingInv'
  <2> DEFINE m == Head(chan[s][n])
  <2> DEFINE cls == NewOf(m, n)
  <2>1. /\ chan[s][n] # <<>> /\ Share(n, m.from, cls, s)
        /\ clause_imported' = [clause_imported EXCEPT ![n] = @ \cup cls]
        /\ share_method' = share_method
    BY <1>4 DEF Receive
  <2>2. chan[s][n] \in Seq(Message)
    BY DEF TypeOK
  <2>3. m \in Message /\ 1 \in DOMAIN chan[s][n] /\ m = chan[s][n][1]
    BY <2>1, <2>2, HeadTailProperties, EmptySeq, LenProperties
  <2>4. m.from \in Node /\ m.cls \subseteq clause_imported[m.from]
    BY <1>0, <2>3 DEF OriginKnows, Message
  <2>5. cls \in SUBSET Clause /\ cls \subseteq m.cls /\ m.cls \subseteq clause_imported[n] \cup cls
    BY <2>3 DEF NewOf, Message
  <2> HIDE DEF cls
  <2>6. \A p \in Node : clause_imported[p] \subseteq clause_imported'[p]
    BY <1>0, <2>1
  <2>7. clause_imported'[n] = clause_imported[n] \cup cls
    BY <1>0, <2>1
  <2>8. cls \subseteq clause_imported'[m.from] /\ m.cls \subseteq clause_imported'[n]
    BY <2>4, <2>5, <2>6, <2>7
  <2> QED
    BY <1>2, <2>1, <2>4, <2>5, <2>8, ZenonT(60)
<1>5. ASSUME NEW n \in Node, NothingArrived(n) PROVE RingInv'
  BY <1>1, <1>5 DEF NothingArrived
<1>6. ASSUME NEW n \in Node, NEW t \in Thread, Collect(n, t) PROVE RingInv'
  <2>1. bucket[n][t] \cup Fresh(n, t) \in SUBSET Clause
    BY DEF TypeOK, PerThread, Fresh
  <2>2. PICK cls \in SUBSET (bucket[n][t] \cup Fresh(n, t)) :
          /\ clause_imported' = [clause_imported EXCEPT ![n] = @ \cup cls]
          /\ Share(n, n, cls, 0) /\ share_method' = share_method
    BY <1>6 DEF Collect
  <2>3. cls \in SUBSET Clause /\ cls \subseteq clause_imported'[n] /\ 0 \notin Node
    BY <1>0, <2>1, <2>2 DEF Node
  <2> QED
    BY <1>2, <2>2, <2>3
<1>7. CASE UNCHANGED vars
  BY <1>1, <1>7 DEF vars, local
<1> QED
  BY <1>3, <1>4, <1>5, <1>6, <1>7 DEF Next, Solver, Round

(* On a ring of any size a clause that one worker has seen is never lost:   *)
(* its successor has seen it or finds it in a message.  Two facts meet: a   *)
(* duplicate is dropped by a worker that has passed the clause on before,   *)
(* and a message stops only in front of its originator, which knows it.     *)
THEOREM RingLosesNothing == Spec => []RingCarries
<1>1. Init => RingInv
  BY DEF Init, RingInv, OriginKnows, RingCarries
<1>2. RingInv => RingCarries
  BY DEF RingInv
<1> QED
  BY <1>1, <1>2, TypeCorrect, RingNext, PTL DEF Spec

----------------------------------------------------------------------------
(* The ring is one cycle. *)
LEMMA LeastNumber ==
  ASSUME NEW S \in SUBSET Nat, S # {}
  PROVE  \E x \in S : \A y \in S : x <= y
<1> DEFINE R == OpToRel(<, Nat)
<1>1. IsWellFoundedOn(R, Nat)
  BY NatLessThanWellFounded
<1>2. \A x, y \in Nat : y < x => <<y, x>> \in R
  BY DEF OpToRel
<1> HIDE DEF R
<1>3. PICK x \in S : \A y \in S : ~ (<<y, x>> \in R)
  BY <1>1, WFMin
<1>4. \A y \in S : ~ (y < x) /\ y \in Nat /\ x \in Nat
  BY <1>2, <1>3
<1> QED
  BY <1>4

LEMMA Successor ==
  ASSUME NEW n \in Node
  PROVE  next_node(n) = IF n = N THEN 1 ELSE n + 1
<1>1. N \in Nat \ {0} /\ n \in Nat /\ 1 <= n /\ n <= N
  BY NAssumption DEF Node
<1>2. CASE n = N
  <2>1. n % N = 0
    BY <1>1, <1>2
  <2> QED
    BY <1>2, <2>1 DEF next_node
<1>3. CASE n # N
  <2>1. n % N = n
    BY <1>1, <1>3
  <2> QED
    BY <1>3, <2>1 DEF next_node
<1> QED
  BY <1>2, <1>3

LEMMA OneCycle ==
  ASSUME NEW K \in SUBSET Node, K # {}, \A n \in K : next_node(n) \in K
  PROVE  K = Node
<1>1. N \in Nat /\ N >= 1 /\ \A n \in Node : n \in Nat /\ 1 <= n /\ n <= N
  BY NAssumption DEF Node
<1>2. N \in K
  <2> DEFINE S == {k \in Nat : k < N /\ N - k \in K}
  <2>1. S \in SUBSET Nat /\ S # {}
    <3>1. PICK n \in K : TRUE
      OBVIOUS
    <3>2. n \in Nat /\ 1 <= n /\ n <= N
      BY <1>1
    <3>3. N - n \in Nat /\ N - n < N /\ N - (N - n) = n
      BY <1>1, <3>2
    <3>4. N - n \in S
      BY <3>3
    <3> QED
      BY <3>4
  <2>2. PICK k \in S : \A m \in S : k <= m
    <3> HIDE DEF S
    <3> QED
      BY <2>1, LeastNumber
  <2>3. k \in Nat /\ k < N /\ N - k \in K
    OBVIOUS
  <2>4. CASE k = 0
    BY <1>1, <2>3, <2>4
  <2>5. CASE k # 0
    <3>1. N - k \in Node /\ N - k # N
      BY <1>1, <2>3, <2>5
    <3>2. N - k + 1 \in K
      BY <2>3, <3>1, Successor
    <3>3. k - 1 \in Nat /\ k - 1 < N /\ N - (k - 1) = N - k + 1
      BY <1>1, <2>3, <2>5
    <3>4. k - 1 \in S
      BY <3>2, <3>3
    <3>5. k <= k - 1
      BY <2>2, <3>4
    <3> QED
      BY <2>3, <3>5
  <2> QED
    BY <2>4, <2>5
<1>3. 1 \in K
  <2>1. N \in Node
    BY <1>1 DEF Node
  <2> QED
    BY <1>2, <2>1, Successor
<1>4. \A n \in Node : n \in K
  <2> DEFINE S == {n \in Nat : n \in Node /\ n \notin K}
  <2> SUFFICES ASSUME NEW w \in Node, w \notin K PROVE FALSE
    OBVIOUS
  <2>1. S \in SUBSET Nat /\ S # {}
    BY <1>1
  <2>2. PICK x \in S : \A m \in S : x <= m
    <3> HIDE DEF S
    <3> QED
      BY <2>1, LeastNumber
  <2>3. x \in Nat /\ x \in Node /\ x \notin K
    OBVIOUS
  <2>4. x # 1 /\ 1 <= x /\ x <= N
    BY <1>1, <1>3, <2>3
  <2>5. x - 1 \in Nat /\ x - 1 \in Node /\ x - 1 # N /\ (x - 1) + 1 = x
    BY <1>1, <2>3, <2>4 DEF Node
  <2>6. x - 1 \in K
    <3> SUFFICES ASSUME x - 1 \notin K PROVE FALSE
      OBVIOUS
    <3>1. x - 1 \in S
      BY <2>5
    <3>2. x <= x - 1
      BY <2>2, <3>1
    <3> QED
      BY <2>3, <3>2
  <2>7. next_node(x - 1) = x
    BY <2>5, Successor
  <2> QED
    BY <2>3, <2>6, <2>7
<1> QED
  BY <1>4

(* On a quiet ring what one worker has seen its successor has, and so all   *)
(* round.                                                                   *)
LEMMA QuietRing ==
  ASSUME RingCarries, Ring, \A s, d \in Node : InFlight(s, d) = {},
         NEW c, NEW n \in Node, c \in clause_imported[n]
  PROVE  \A m \in Node : c \in clause_imported[m]
<1> DEFINE K == {p \in Node : c \in clause_imported[p]}
<1>1. \A p \in K : next_node(p) \in K
  <2> TAKE p \in K
  <2>1. next_node(p) \in Node
    BY SuccessorInGroup
  <2> QED
    BY <2>1 DEF RingCarries
<1>2. K \in SUBSET Node /\ K # {}
  OBVIOUS
<1>3. K = Node
  <2> HIDE DEF K
  <2> QED
    BY <1>1, <1>2, OneCycle
<1> QED
  BY <1>3

----------------------------------------------------------------------------
(* Down the trees: a clause that no worker but r has learnt.  Its messages  *)
(* are r's, r has seen it before everybody else, and whoever has seen it,   *)
(* has its sons in r's tree told.                                           *)
Sole(c, r) == \A n \in Node \ {r}, t \in Thread : c \notin learnt[n][t]

FromSole(c, r) == \A s, d \in Node : \A i \in DOMAIN chan[s][d] :
                    c \in chan[s][d][i].cls => chan[s][d][i].from = r
RootFirst(c, r) == \A n \in Node : c \in clause_imported[n] => c \in clause_imported[r]
SonsTold(c, r) == \A n \in Node : c \in clause_imported[n] =>
                    \A d \in son(r, n) : c \in clause_imported[d] \cup InFlight(n, d)
TreeInv ==
  ~Ring => \A c \in Clause, r \in Node : Sole(c, r) => FromSole(c, r) /\ RootFirst(c, r) /\ SonsTold(c, r)

(* The sons are workers of the group. *)
LEMMA SonsInGroup ==
  ASSUME NEW r \in Node, NEW n \in Node
  PROVE  son(r, n) \subseteq Node
<1>1. \A k \in Node : Order[r][k] \in Node
  BY Placed
<1> QED
  BY <1>1 DEF son

(* Every step keeps TreeInv: a send does (<1>5) if it is one of r's whenever *)
(* c is in it.                                                              *)
LEMMA TreeNext == TypeOK /\ SeenInv /\ RingInv /\ TreeInv /\ [Next]_vars => TreeInv'
<1> SUFFICES ASSUME TypeOK, SeenInv, RingInv, TreeInv, [Next]_vars, ~Ring',
                    NEW c \in Clause, NEW r \in Node, Sole(c, r)'
             PROVE  FromSole(c, r)' /\ RootFirst(c, r)' /\ SonsTold(c, r)'
  BY DEF TreeInv
<1>0. /\ clause_imported \in [Node -> SUBSET Clause] /\ learnt \in PerThread
      /\ chan \in [Node -> [Node -> Seq(Message)]]
  BY DEF TypeOK
<1>1. share_method' = share_method /\ \A n \in Node, t \in Thread : learnt[n][t] \subseteq learnt'[n][t]
  <2>1. ASSUME NEW n \in Node, NEW t \in Thread, NEW e \in Clause, Learn(n, t, e)
        PROVE  share_method' = share_method /\ \A p \in Node, u \in Thread : learnt[p][u] \subseteq learnt'[p][u]
    BY <1>0, <2>1 DEF Learn, PerThread
  <2>2. CASE UNCHANGED <<share_method, learnt>>
    BY <2>2
  <2> QED
    BY <2>1, <2>2 DEF Next, Solver, Round, Receive, NothingArrived, Collect, vars, local
<1>2. ~Ring /\ Sole(c, r)
  BY <1>1 DEF Ring, Sole
<1>3. FromSole(c, r) /\ RootFirst(c, r) /\ SonsTold(c, r)
  BY <1>2 DEF TreeInv
<1>4. CASE UNCHANGED <<clause_imported, chan>>
  BY <1>3, <1>4 DEF FromSole, RootFirst, SonsTold, InFlight
<1>5. ASSUME NEW n \in Node, NEW from \in Node, NEW cls \in SUBSET Clause,
             NEW taken, taken = 0 \/ (taken \in Node /\ chan[taken][n] # <<>>),
             Share(n, from, cls, taken),
             clause_imported' = [clause_imported EXCEPT ![n] = @ \cup cls],
             cls \subseteq clause_imported'[from],
             taken \in Node => Head(chan[taken][n]).cls \subseteq clause_imported'[n],
             c \in cls => from = r
      PROVE  FromSole(c, r)' /\ RootFirst(c, r)' /\ SonsTold(c, r)'
  <2> USE <1>2, <1>3, <1>5
  <2> DEFINE msg == [from |-> from, cls |-> cls]
  <2>1. \A p \in Node : clause_imported'[p] = IF p = n THEN clause_imported[p] \cup cls ELSE clause_imported[p]
    BY DEF TypeOK
  <2>2. Effect(n, from, cls, taken)
    BY ShareEffect
  <2>3. FromSole(c, r)'
    <3> SUFFICES ASSUME NEW s \in Node, NEW d \in Node, NEW i \in DOMAIN chan'[s][d], c \in chan'[s][d][i].cls
                 PROVE  chan'[s][d][i].from = r
      BY DEF FromSole
    <3> DEFINE q == chan[s][d]
    <3>1. q \in Seq(Message) /\ msg \in Message
      BY DEF TypeOK, Message
    <3>2. DOMAIN q = 1 .. Len(q) /\ Len(q) \in Nat
      BY <3>1, LenProperties
    <3>3. \A k \in 1 .. Len(q) : c \in q[k].cls => q[k].from = r
      BY <3>2 DEF FromSole
    <3>4. CASE chan'[s][d] = Append(q, msg)
      <4>1. /\ DOMAIN Append(q, msg) = 1 .. Len(q) + 1 /\ Append(q, msg)[Len(q) + 1] = msg
            /\ \A k \in 1 .. Len(q) : Append(q, msg)[k] = q[k]
        BY <3>1, AppendProperties, LenProperties
      <4>2. CASE i = Len(q) + 1
        BY <3>4, <4>1, <4>2
      <4>3. CASE i # Len(q) + 1
        <5>1. i \in 1 .. Len(q)
          BY <3>2, <3>4, <4>1, <4>3
        <5> QED
          BY <3>3, <3>4, <4>1, <5>1
      <4> QED
        BY <4>2, <4>3
    <3>5. CASE q # <<>> /\ chan'[s][d] = Tail(q)
      <4>1. DOMAIN Tail(q) = 1 .. Len(q) - 1 /\ \A k \in 1 .. Len(q) - 1 : Tail(q)[k] = q[k + 1]
        BY <3>1, <3>5, HeadTailProperties, LenProperties
      <4>2. i \in 1 .. Len(q) - 1 /\ i + 1 \in 1 .. Len(q)
        BY <3>2, <3>5, <4>1
      <4> QED
        BY <3>3, <3>5, <4>1, <4>2
    <3>6. CASE chan'[s][d] = q
      BY <3>2, <3>3, <3>6
    <3>7. chan'[s][d] = Append(q, msg) \/ (q # <<>> /\ chan'[s][d] = Tail(q)) \/ chan'[s][d] = q
      BY <2>2 DEF Effect
    <3> QED
      BY <3>4, <3>5, <3>6, <3>7
  <2>4. RootFirst(c, r)'
    <3> SUFFICES ASSUME NEW p \in Node, c \in clause_imported'[p]
                 PROVE  c \in clause_imported'[r]
      BY DEF RootFirst
    <3>1. CASE c \in clause_imported[p]
      BY <2>1, <3>1 DEF RootFirst
    <3>2. CASE c \notin clause_imported[p]
      BY <2>1, <3>2
    <3> QED
      BY <3>1, <3>2
  <2>5. SonsTold(c, r)'
    <3> SUFFICES ASSUME NEW p \in Node, c \in clause_imported'[p], NEW d \in son(r, p)
                 PROVE  c \in clause_imported'[d] \/ c \in InFlight(p, d)'
      BY DEF SonsTold
    <3>1. d \in Node
      BY SonsInGroup
    <3>2. CASE c \in clause_imported[p]
      <4>1. c \in clause_imported[d] \/ c \in InFlight(p, d)
        BY <3>2 DEF SonsTold
      <4>2. CASE c \in clause_imported[d]
        BY <2>1, <3>1, <4>2
      <4>3. CASE c \in InFlight(p, d)
        <5>1. c \in InFlight(p, d)' \/ (p = taken /\ d = n /\ c \in Head(chan[p][d]).cls)
          BY <3>1, <4>3, ShareKeeps
        <5> QED
          BY <5>1
      <4> QED
        BY <4>1, <4>2, <4>3
    <3>3. CASE c \notin clause_imported[p]
      <4>1. p = n /\ c \in cls /\ from = r
        BY <2>1, <3>3
      <4>2. d \in Targets(from, n) /\ cls # {}
        BY <4>1 DEF Targets
      <4>3. chan'[n][d] = Append(chan[n][d], msg)
        BY <3>1, <4>2, ShareReaches
      <4>4. chan[n][d] \in Seq(Message) /\ msg \in Message
        BY <3>1 DEF TypeOK, Message
      <4>5. c \in Carried(Append(chan[n][d], msg))
        BY <4>1, <4>4, CarriedAppend
      <4> QED
        BY <4>1, <4>3, <4>5 DEF InFlight
    <3> QED
      BY <3>2, <3>3
  <2> QED
    BY <2>3, <2>4, <2>5
<1>6. ASSUME NEW n \in Node, NEW s \in Node, Receive(n, s)
      PROVE  FromSole(c, r)' /\ RootFirst(c, r)' /\ SonsTold(c, r)'
  <2> DEFINE m == Head(chan[s][n])
  <2> DEFINE cls == NewOf(m, n)
  <2>1. /\ chan[s][n] # <<>> /\ Share(n, m.from, cls, s)
        /\ clause_imported' = [clause_imported EXCEPT ![n] = @ \cup cls]
    BY <1>6 DEF Receive
  <2>2. m \in Message /\ 1 \in DOMAIN chan[s][n] /\ m = chan[s][n][1]
    BY <1>0, <2>1, HeadTailProperties, EmptySeq, LenProperties
  <2>3. m.from \in Node /\ m.cls \subseteq clause_imported[m.from] /\ (c \in m.cls => m.from = r)
    BY <1>3, <2>2 DEF RingInv, OriginKnows, FromSole, Message
  <2>4. cls \in SUBSET Clause /\ cls \subseteq m.cls /\ m.cls \subseteq clause_imported[n] \cup cls
    BY <2>2 DEF NewOf, Message
  <2> HIDE DEF cls
  <2>5. \A p \in Node : clause_imported[p] \subseteq clause_imported'[p]
    BY <1>0, <2>1
  <2>6. clause_imported'[n] = clause_imported[n] \cup cls
    BY <1>0, <2>1
  <2>7. cls \subseteq clause_imported'[m.from] /\ m.cls \subseteq clause_imported'[n] /\ (c \in cls => m.from = r)
    BY <2>3, <2>4, <2>5, <2>6
  <2> QED
    BY <1>5, <2>1, <2>3, <2>4, <2>7, ZenonT(60)
<1>7. ASSUME NEW n \in Node, NEW t \in Thread, Collect(n, t)
      PROVE  FromSole(c, r)' /\ RootFirst(c, r)' /\ SonsTold(c, r)'
  <2>1. /\ bucket[n][t] \cup Fresh(n, t) \in SUBSET Clause
        /\ bucket[n][t] \cup Fresh(n, t) \subseteq learnt[n][t]
    BY DEF TypeOK, PerThread, Fresh, SeenInv, OwnClauses
  <2>2. PICK cls \in SUBSET (bucket[n][t] \cup Fresh(n, t)) :
          /\ clause_imported' = [clause_imported EXCEPT ![n] = @ \cup cls]
          /\ Share(n, n, cls, 0)
    BY <1>7 DEF Collect
  <2>3. cls \in SUBSET Clause /\ cls \subseteq clause_imported'[n] /\ 0 \notin Node
    BY <1>0, <2>1, <2>2 DEF Node
  <2>4. c \in cls => n = r
    BY <1>2, <2>1, <2>2 DEF Sole
  <2> QED
    BY <1>5, <2>2, <2>3, <2>4
<1>8. \/ UNCHANGED <<clause_imported, chan>>
      \/ \E n \in Node, s \in Node : Receive(n, s)
      \/ \E n \in Node, t \in Thread : Collect(n, t)
  BY DEF Next, Solver, Round, Learn, NothingArrived, vars, local
<1> QED
  BY <1>4, <1>6, <1>7, <1>8

(* A worker's sons stand at twice its place and behind, so that every place *)
(* but the first is a son's.                                                *)
LEMMA ParentIs ==
  ASSUME NEW r \in Node, NEW k \in Node, k # 1
  PROVE  \E x \in Node : x < k /\ Order[r][x] \in Node /\ Order[r][k] \in son(r, Order[r][x])
<1>1. N \in Nat /\ k \in Nat /\ 2 <= k /\ k <= N
  BY NAssumption DEF Node
<1> DEFINE x == k \div 2
<1>2. x \in Node /\ x < k /\ k \in {2 * x, 2 * x + 1}
  BY <1>1 DEF Node
<1> HIDE DEF x
<1>3. Order[r][x] \in Node /\ \A y \in Node : Order[r][y] = Order[r][x] => y = x
  BY <1>2, Placed, PlacedOnce
<1>4. Place(r, Order[r][x]) = x
  BY <1>2, <1>3 DEF Place
<1>5. Order[r][k] \in son(r, Order[r][x])
  BY <1>2, <1>4 DEF son
<1> QED
  BY <1>2, <1>3, <1>5

(* On quiet trees a clause of one originator has gone down its whole tree.  *)
LEMMA QuietTree ==
  ASSUME TreeInv, ~Ring, \A s, d \in Node : InFlight(s, d) = {},
         NEW c \in Clause, NEW r \in Node, Sole(c, r), NEW n \in Node, c \in clause_imported[n]
  PROVE  \A m \in Node : c \in clause_imported[m]
<1>1. RootFirst(c, r) /\ SonsTold(c, r)
  BY DEF TreeInv
<1>2. N \in Nat /\ N >= 1 /\ \A k \in Node : k \in Nat
  BY NAssumption DEF Node
<1>3. \A k \in Node : c \in clause_imported[Order[r][k]]
  <2> DEFINE S == {k \in Nat : k \in Node /\ c \notin clause_imported[Order[r][k]]}
  <2> SUFFICES ASSUME NEW w \in Node, c \notin clause_imported[Order[r][w]] PROVE FALSE
    OBVIOUS
  <2>1. S \in SUBSET Nat /\ S # {}
    BY <1>2
  <2>2. PICK k \in S : \A y \in S : k <= y
    <3> HIDE DEF S
    <3> QED
      BY <2>1, LeastNumber
  <2>3. k \in Nat /\ k \in Node /\ c \notin clause_imported[Order[r][k]]
    OBVIOUS
  <2>4. k # 1
    <3>1. Order[r][1] = r
      BY <2>3, Placed
    <3>2. c \in clause_imported[r]
      BY <1>1 DEF RootFirst
    <3> QED
      BY <2>3, <3>1, <3>2
  <2>5. PICK x \in Node : x < k /\ Order[r][x] \in Node /\ Order[r][k] \in son(r, Order[r][x])
    <3> HIDE DEF S
    <3> QED
      BY <2>3, <2>4, ParentIs
  <2>6. c \in clause_imported[Order[r][x]]
    <3> SUFFICES ASSUME c \notin clause_imported[Order[r][x]] PROVE FALSE
      OBVIOUS
    <3>1. x \in S /\ x \in Nat
      BY <1>2, <2>5
    <3>2. k <= x
      BY <2>2, <3>1
    <3> QED
      BY <2>3, <2>5, <3>1, <3>2
  <2>7. Order[r][k] \in Node
    BY <2>5, SonsInGroup
  <2> HIDE DEF S
  <2> QED
    BY <1>1, <2>3, <2>5, <2>6, <2>7 DEF SonsTold
<1> TAKE m \in Node
<1>4. PICK k \in Node : Order[r][k] = m
  BY EveryPlaced
<1> QED
  BY <1>3, <1>4

(* When nothing is in flight, on a ring of any size every clause, and on    *)
(* trees of any size every clause that not more than one worker has learnt, *)
(* has been seen by all workers or by none.  On the trees the argument goes *)
(* from a worker to its sons: its message to them is not cut, because all   *)
(* messages with the clause come down the same tree.                        *)
THEOREM QuietAgrees == Spec => []QuietMeansShared
<1>1. TypeOK /\ RingInv /\ TreeInv => QuietMeansShared
  <2> SUFFICES ASSUME TypeOK, RingInv, TreeInv, \A s, d \in Node : chan[s][d] = <<>>,
                      NEW c \in Clause, Ring \/ OneOrigin(c), NEW n \in Node, NEW m \in Node, c \in clause_imported[n]
               PROVE  c \in clause_imported[m]
    BY DEF QuietMeansShared
  <2>1. \A s, d \in Node : InFlight(s, d) = {}
    <3> TAKE s, d \in Node
    <3>1. chan[s][d] = <<>>
      OBVIOUS
    <3> QED
      BY <3>1 DEF InFlight, Carried
  <2>2. CASE Ring
    BY <2>1, <2>2, QuietRing DEF RingInv
  <2>3. CASE ~Ring
    <3>1. PICK r \in Node : Sole(c, r)
      <4>1. CASE LearntBy(c) = {}
        BY <4>1 DEF LearntBy, Sole
      <4>2. CASE LearntBy(c) # {}
        <5>1. PICK r \in LearntBy(c) : TRUE
          BY <4>2
        <5>2. r \in Node /\ \A p \in LearntBy(c) : p = r
          BY <2>3, <5>1 DEF OneOrigin, LearntBy
        <5>3. Sole(c, r)
          BY <5>2 DEF Sole, LearntBy
        <5> QED
          BY <5>2, <5>3
      <4> QED
        BY <4>1, <4>2
    <3> QED
      BY <2>1, <2>3, <3>1, QuietTree
  <2> QED
    BY <2>2, <2>3
<1> DEFINE Inv == SeenInv /\ RingInv /\ TreeInv
<1>2. Init => Inv
  <2>1. Init => SeenInv
    BY DEF Init, SeenInv, OwnClauses, SeenByAllThreads
  <2>2. Init => RingInv
    BY DEF Init, RingInv, OriginKnows, RingCarries
  <2>3. Init => TreeInv
    BY DEF Init, TreeInv, FromSole, RootFirst, SonsTold
  <2> QED
    BY <2>1, <2>2, <2>3
<1>3. TypeOK /\ Inv /\ [Next]_vars => Inv'
  BY SeenNext, RingNext, TreeNext
<1>4. TypeOK /\ Inv => QuietMeansShared
  BY <1>1
<1> HIDE DEF Inv
<1> QED
  BY <1>2, <1>3, <1>4, TypeCorrect, PTL DEF Spec
----------------------------------------------------------------------------
(* No message goes to the worker its clauses come from. *)
LEMMA NotToOriginator ==
  ASSUME TypeOK, NEW from \in Node, NEW n \in Node
  PROVE  from \notin Targets(from, n)
<1>1. CASE Ring
  BY <1>1 DEF Targets, RingTargets
<1>2. CASE ~Ring
  <2> SUFFICES ASSUME from \in son(from, n) PROVE FALSE
    BY <1>2 DEF Targets
  <2> DEFINE p == Place(from, n)
  <2>1. p \in Node
    <3>1. \E k \in Node : Order[from][k] = n
      BY EveryPlaced
    <3> QED
      BY <3>1 DEF Place
  <2>2. PICK k \in {2 * p, 2 * p + 1} \cap Node : Order[from][k] = from
    <3> HIDE DEF p
    <3>1. son(from, n) = {Order[from][k] : k \in {2 * p, 2 * p + 1} \cap Node}
      BY DEF son, p
    <3> QED
      BY <3>1
  <2>3. p \in Int /\ 1 <= p /\ N \in Int
    <3> HIDE DEF p
    <3> QED
      BY <2>1, NAssumption DEF Node
  <2>4. k \in Node /\ k # 1 /\ 1 \in Node
    <3> HIDE DEF p
    <3> QED
      BY <2>2, <2>3 DEF Node
  <2>5. Order[from][1] = from
    BY <2>4, Placed
  <2>6. Order[from][k] = Order[from][1]
    BY <2>2, <2>5
  <2> QED
    BY <2>4, <2>6, PlacedOnce
<1> QED
  BY <1>1, <1>2

LEMMA ShareNoEcho ==
  ASSUME TypeOK, NoEcho, NEW n \in Node, NEW from \in Node, NEW cls \in SUBSET Clause,
         NEW taken, taken = 0 \/ (taken \in Node /\ chan[taken][n] # <<>>),
         Share(n, from, cls, taken)
  PROVE  NoEcho'
<1> SUFFICES ASSUME NEW s \in Node, NEW d \in Node, NEW i \in DOMAIN chan'[s][d]
             PROVE  chan'[s][d][i].from # d
  BY DEF NoEcho
<1> DEFINE msg == [from |-> from, cls |-> cls]
<1> DEFINE q == chan[s][d]
<1>1. q \in Seq(Message)
  BY DEF TypeOK
<1>2. DOMAIN q = 1 .. Len(q) /\ Len(q) \in Nat
  BY <1>1, LenProperties
<1>3. \A k \in 1 .. Len(q) : q[k].from # d
  BY <1>2 DEF NoEcho
<1>4. CASE d \in Targets(from, n) /\ chan'[s][d] = Append(q, msg)
  <2>1. /\ DOMAIN Append(q, msg) = 1 .. Len(q) + 1 /\ Append(q, msg)[Len(q) + 1] = msg
        /\ \A k \in 1 .. Len(q) : Append(q, msg)[k] = q[k]
    BY <1>2
  <2>2. CASE i = Len(q) + 1
    BY <1>4, <2>1, <2>2, NotToOriginator
  <2>3. CASE i # Len(q) + 1
    <3>1. i \in 1 .. Len(q)
      BY <1>2, <1>4, <2>1, <2>3
    <3> QED
      BY <1>3, <1>4, <2>1, <3>1
  <2> QED
    BY <2>2, <2>3
<1>5. CASE q # <<>> /\ chan'[s][d] = Tail(q)
  <2>1. /\ DOMAIN Tail(q) = 1 .. Len(q) - 1
        /\ \A k \in 1 .. Len(q) - 1 : Tail(q)[k] = q[k + 1]
    BY <1>1, <1>5, HeadTailProperties, LenProperties
  <2>2. i \in 1 .. Len(q) - 1 /\ i + 1 \in 1 .. Len(q)
    BY <1>2, <1>5, <2>1
  <2> QED
    BY <1>3, <1>5, <2>1, <2>2
<1>6. CASE chan'[s][d] = q
  BY <1>2, <1>3, <1>6
<1>7. Effect(n, from, cls, taken)
  BY ShareEffect
<1>8. \/ d \in Targets(from, n) /\ chan'[s][d] = Append(q, msg)
      \/ q # <<>> /\ chan'[s][d] = Tail(q)
      \/ chan'[s][d] = q
  BY <1>7 DEF Effect
<1> QED
  BY <1>4, <1>5, <1>6, <1>8

LEMMA EchoNext == TypeOK /\ NoEcho /\ [Next]_vars => NoEcho'
<1> SUFFICES ASSUME TypeOK, NoEcho, [Next]_vars PROVE NoEcho'
  OBVIOUS
<1>1. ASSUME UNCHANGED chan PROVE NoEcho'
  BY <1>1 DEF NoEcho
<1>2. ASSUME NEW n \in Node, NEW t \in Thread, NEW c \in Clause, Learn(n, t, c) PROVE NoEcho'
  BY <1>1, <1>2 DEF Learn
<1>3. ASSUME NEW n \in Node, NEW s \in Node, Receive(n, s) PROVE NoEcho'
  <2> DEFINE m == Head(chan[s][n])
  <2>1. chan[s][n] # <<>> /\ Share(n, m.from, NewOf(m, n), s)
    BY <1>3 DEF Receive
  <2>2. chan[s][n] \in Seq(Message)
    BY DEF TypeOK
  <2>3. m \in Message
    BY <2>1, <2>2, HeadTailProperties, EmptySeq, LenProperties
  <2>4. m.from \in Node /\ NewOf(m, n) \in SUBSET Clause
    BY <2>3 DEF Message, NewOf
  <2> HIDE DEF m
  <2> QED
    BY <2>1, <2>4, ShareNoEcho
<1>4. ASSUME NEW n \in Node, NothingArrived(n) PROVE NoEcho'
  BY <1>1, <1>4 DEF NothingArrived
<1>5. ASSUME NEW n \in Node, NEW t \in Thread, Collect(n, t) PROVE NoEcho'
  <2>1. bucket[n][t] \cup Fresh(n, t) \in SUBSET Clause
    BY DEF TypeOK, PerThread, Fresh
  <2>2. PICK cls \in SUBSET (bucket[n][t] \cup Fresh(n, t)) : Share(n, n, cls, 0)
    BY <1>5 DEF Collect
  <2> QED
    BY <2>1, <2>2, ShareNoEcho
<1>6. CASE UNCHANGED vars
  BY <1>1, <1>6 DEF vars
<1> QED
  BY <1>2, <1>3, <1>4, <1>5, <1>6 DEF Next, Solver, Round

(* Nobody is sent its own clauses, neither on a ring, where a message stops  *)
(* in front of its originator, nor on a tree, where the originator is the    *)
(* root and nobody's son.                                                    *)
THEOREM NothingComesBack == Spec => []NoEcho
<1>1. Init => NoEcho
  BY DEF Init, NoEcho
<1> QED
  BY <1>1, TypeCorrect, EchoNext, PTL DEF Spec
==============================================================================
