------------------------------- MODULE NpsShare -------------------------------
(***************************************************************************)
(* Clause exchange of PRS-thread without determinism (--DCE=0): the thread  *)
(* share_worker (sharer.cpp) collects what the solvers have exported, hands *)
(* out a selection and counts references, while the solvers learn, import   *)
(* and free clauses (basekissat.cpp) and leave their search at any time.    *)
(* A clause is a clause_store object; its literals do not matter here.      *)
(***************************************************************************)
EXTENDS Integers, FiniteSets, SequencesExt

CONSTANTS N,            \* nThreads
          Clause,       \* the objects that may be allocated
          Size, Lbd,    \* their fields size and lbd: functions on Clause
          ShareLits,    \* the values --share_lits may have
          Capacity,     \* of import_clause and export_clause
          MaxLimit      \* bound: a round starts only below this export limit

Worker == 1 .. N
NoWorker == 0
MaxSize == Max({Size[c] : c \in Clause})
Lengths == 1 .. MaxSize

ASSUME NAssumption     == N \in Nat \ {0}
ASSUME ClauseAssumption == /\ IsFiniteSet(Clause) /\ Clause # {}
                           /\ Size \in [Clause -> Nat \ {0}] /\ Lbd \in [Clause -> Nat]
ASSUME LimitAssumption == /\ ShareLits \subseteq Nat \ {0} /\ Capacity \in Nat \ {0}
                          /\ MaxLimit \in Nat /\ MaxLimit >= 2

VARIABLES export_clause, import_clause, good_clause_lbd,   \* per worker
          hand,             \* per worker: the clauses popped by call_back_in, one at most
          src, refs,        \* per clause: who has learnt it, its reference count
          share, i, j, k,   \* place of share_worker and its loop counters
          cls, bucket,      \* of the sharer
          terminated, share_lits,
          given, lost       \* history, per clause: offers per worker, references that stay for ever

clause_vars == <<src, refs, given, lost>>
worker_vars == <<import_clause, hand>>
sharer_vars == <<share, i, j, k, cls, bucket>>
vars == <<clause_vars, worker_vars, sharer_vars, export_clause, good_clause_lbd, terminated, share_lits>>

Init == /\ share_lits \in ShareLits /\ terminated = FALSE
        /\ export_clause = [w \in Worker |-> <<>>] /\ import_clause = [w \in Worker |-> <<>>]
        /\ good_clause_lbd = [w \in Worker |-> 2] /\ hand = [w \in Worker |-> {}]
        /\ src = [c \in Clause |-> NoWorker] /\ refs = [c \in Clause |-> 0]
        /\ share = "sleep" /\ i = 1 /\ j = 1 /\ k = 1
        /\ cls = <<>> /\ bucket = [w \in Worker |-> [s \in Lengths |-> <<>>]]
        /\ given = [c \in Clause |-> [w \in Worker |-> 0]] /\ lost = [c \in Clause |-> 0]

Inc(f, c) == [f EXCEPT ![c] = @ + 1]
Dec(f, c) == [f EXCEPT ![c] = @ - 1]
Full(q) == Len(q) >= Capacity              \* push on a full queue fails

-------------------------------------------------------------------------------
(* The solvers.  One that has left its search takes no more steps; what is *)
(* in its queues stays there.                                              *)

\* call_back_out: only below the limit the sharer has set.
Learn(w, c) ==
  /\ src[c] = NoWorker /\ Lbd[c] <= good_clause_lbd[w]
  /\ src' = [src EXCEPT ![c] = w] /\ refs' = [refs EXCEPT ![c] = 1]
  /\ \/ ~Full(export_clause[w])
        /\ export_clause' = [export_clause EXCEPT ![w] = Append(@, c)] /\ UNCHANGED lost
     \/ Full(export_clause[w]) /\ lost' = Inc(lost, c) /\ UNCHANGED export_clause
  /\ UNCHANGED <<worker_vars, sharer_vars, good_clause_lbd, terminated, given>>

\* call_back_in: pop, read the literals, then free_clause.
Pop(w) ==
  /\ hand[w] = {} /\ import_clause[w] # <<>>
  /\ hand' = [hand EXCEPT ![w] = {Head(import_clause[w])}]
  /\ import_clause' = [import_clause EXCEPT ![w] = Tail(@)]
  /\ UNCHANGED <<clause_vars, sharer_vars, export_clause, good_clause_lbd, terminated>>

Free(w) ==
  \E c \in hand[w] :
    /\ refs' = Dec(refs, c) /\ hand' = [hand EXCEPT ![w] = {}]
    /\ UNCHANGED <<src, given, lost, import_clause, sharer_vars, export_clause,
                   good_clause_lbd, terminated>>

\* solve_worker or the cutoff (ThreadSolve).
Terminate ==
  /\ ~terminated /\ terminated' = TRUE
  /\ UNCHANGED <<clause_vars, worker_vars, sharer_vars, export_clause, good_clause_lbd>>

-------------------------------------------------------------------------------
(* sort_clauses(x).  The first loop: a bucket takes clauses of its size as  *)
(* long as they would fit into one round.                                   *)
Fits(b, c) == Size[c] * (Len(b[Size[c]]) + 1) <= share_lits
PutIn(b, c) == IF Fits(b, c) THEN [b EXCEPT ![Size[c]] = Append(@, c)] ELSE b
Filled(x) == LET b[n \in 0 .. Len(cls)] == IF n = 0 THEN bucket[x] ELSE PutIn(b[n - 1], cls[n])
             IN  b[Len(cls)]
Rejected(x) == {c \in ToSet(cls) : ~Contains(Filled(x)[Size[c]], c)}

(* The second loop: the short clauses first, and from a bucket that does    *)
(* not fit as a whole the last ones.                                        *)
TakenOver(q, space, s) == Min({space \div s + 1, Len(q)})
TakenOf(q, space, s) == Min({space \div s, Len(q)})
LastOf(q, n) == IF n = Len(q) THEN q ELSE Reverse(SubSeq(q, Len(q) - n + 1, Len(q)))
Take(t, s) ==
  LET q == t.bucket[s]
      n == TakenOf(q, t.space, s)
  IN  [space |-> t.space - s * n, cls |-> t.cls \o LastOf(q, n),
       bucket |-> [t.bucket EXCEPT ![s] = SubSeq(q, 1, Len(q) - n)]]
Sorted(x) ==
  LET t[s \in 0 .. MaxSize] == IF s = 0 THEN [space |-> share_lits, cls |-> <<>>, bucket |-> Filled(x)]
                               ELSE Take(t[s - 1], s)
  IN  t[MaxSize]
Percent(space) == ((share_lits - space) * 100) \div share_lits

\* broaden_export_limit, restrict_export_limit
AdjustedBelow(limit, percent) == IF percent < 75 THEN limit + 1
                                 ELSE IF percent > 98 THEN limit - 1 ELSE limit
Adjusted(limit, percent) == IF percent < 75 THEN limit + 1
                            ELSE IF percent > 98 /\ limit > 2 THEN limit - 1
                            ELSE limit

-------------------------------------------------------------------------------
(* share_worker *)
NextWorker(x, y) == y + 1
NextConsumer(x, y) == LET after == {z \in Worker : z > y /\ z # x}
                      IN  IF after = {} THEN N + 1 ELSE Min(after)

Wake ==
  /\ share = "sleep" /\ \A w \in Worker : good_clause_lbd[w] < MaxLimit
  /\ share' = IF terminated THEN "end" ELSE "collect"
  /\ i' = 1 /\ cls' = <<>>
  /\ UNCHANGED <<clause_vars, worker_vars, j, k, bucket, export_clause, good_clause_lbd, terminated>>

\* export_clauses_to: pops until the queue is empty, while the solver pushes.
Collect ==
  /\ share = "collect" /\ export_clause[i] # <<>>
  /\ cls' = Append(cls, Head(export_clause[i]))
  /\ export_clause' = [export_clause EXCEPT ![i] = Tail(@)]
  /\ UNCHANGED <<clause_vars, worker_vars, share, i, j, k, bucket, good_clause_lbd, terminated>>

\* The clauses are in hand; for each consumer: count all of them, then push all of them.
TurnUncounted(y) == /\ j' = y /\ k' = 1
                    /\ share' = IF y <= N THEN "push" ELSE "free"
Turn(y) == /\ j' = y /\ k' = 1
           /\ share' = IF y <= N THEN "increase" ELSE "free"

NextProducer == /\ share' = IF i = N THEN "sleep" ELSE "collect"
                /\ i' = i + 1 /\ cls' = <<>>

Sort ==
  LET t == Sorted(i)
  IN  /\ share = "collect" /\ export_clause[i] = <<>>
      /\ bucket' = [bucket EXCEPT ![i] = t.bucket]
      /\ good_clause_lbd' = [good_clause_lbd EXCEPT ![i] = Adjusted(@, Percent(t.space))]
      /\ lost' = [c \in Clause |-> lost[c] + IF c \in Rejected(i) THEN 1 ELSE 0]
      /\ IF t.cls = <<>> THEN NextProducer /\ UNCHANGED <<j, k>>
         ELSE cls' = t.cls /\ Turn(NextConsumer(i, 0)) /\ UNCHANGED i
      /\ UNCHANGED <<worker_vars, export_clause, terminated, src, refs, given>>

\* The loop over cls is at its end.
AtLast == k = Len(cls)

Increase ==
  /\ share = "increase"
  /\ refs' = Inc(refs, cls[k])
  /\ k' = IF AtLast THEN 1 ELSE k + 1
  /\ share' = IF AtLast THEN "push" ELSE share
  /\ UNCHANGED <<src, given, lost, worker_vars, i, j, cls, bucket, export_clause, good_clause_lbd, terminated>>

Push ==
  /\ share = "push"
  /\ given' = [given EXCEPT ![cls[k]][j] = @ + 1]
  /\ \/ ~Full(import_clause[j])
        /\ import_clause' = [import_clause EXCEPT ![j] = Append(@, cls[k])] /\ UNCHANGED lost
     \/ Full(import_clause[j]) /\ lost' = Inc(lost, cls[k]) /\ UNCHANGED import_clause
  /\ IF AtLast THEN Turn(NextConsumer(i, j)) ELSE k' = k + 1 /\ UNCHANGED <<share, j>>
  /\ UNCHANGED <<src, refs, hand, i, cls, bucket, export_clause, good_clause_lbd, terminated>>

FreeOwn ==
  /\ share = "free"
  /\ refs' = Dec(refs, cls[k])
  /\ IF AtLast THEN NextProducer /\ k' = 1 ELSE k' = k + 1 /\ UNCHANGED <<share, i, cls>>
  /\ UNCHANGED <<src, given, lost, worker_vars, j, bucket, export_clause, good_clause_lbd, terminated>>

\* The thread has ended, or the bound on its rounds is reached.
Stopped == /\ share = "end" \/ (share = "sleep" /\ \E w \in Worker : good_clause_lbd[w] >= MaxLimit)
           /\ UNCHANGED vars

Sharer == Wake \/ Collect \/ Sort \/ Increase \/ Push \/ FreeOwn
Solver(w) == (\E c \in Clause : Learn(w, c)) \/ Pop(w) \/ Free(w)

Next == UNCHANGED share_lits /\ (Sharer \/ Terminate \/ Stopped \/ \E w \in Worker : Solver(w))

Spec == Init /\ [][Next]_vars

-------------------------------------------------------------------------------
(* Types; no counter or queue passes its bound.                             *)
TypeOK ==
  /\ terminated \in BOOLEAN /\ share_lits \in ShareLits
  /\ export_clause \in [Worker -> Seq(Clause)] /\ import_clause \in [Worker -> Seq(Clause)]
  /\ hand \in [Worker -> {{}} \cup {{c} : c \in Clause}]
  /\ good_clause_lbd \in [Worker -> 2 .. MaxLimit]
  /\ bucket \in [Worker -> [Lengths -> Seq(Clause)]] /\ cls \in Seq(Clause)
  /\ \A w \in Worker : /\ Len(export_clause[w]) <= Capacity /\ Len(import_clause[w]) <= Capacity
                       /\ \A s \in Lengths : s * Len(bucket[w][s]) <= share_lits
  /\ src \in [Clause -> Worker \cup {NoWorker}] /\ refs \in [Clause -> Nat] /\ lost \in [Clause -> Nat]
  /\ given \in [Clause -> [Worker -> Nat]]
  /\ share \in {"sleep", "collect", "increase", "push", "free", "end"}
  /\ i \in 1 .. N + 1 /\ j \in 1 .. N + 1 /\ k \in 1 .. Cardinality(Clause)
  /\ share \in {"increase", "push", "free"} => k \in DOMAIN cls

(* The reference count of a clause is the number of places that hold it,    *)
(* each of them once: queues, buckets, the hands of the solvers and of the  *)
(* sharer, what has been counted for a consumer and is not pushed yet; and  *)
(* the references that a full queue or bucket has left behind for ever.  So *)
(* nothing is freed while anyone holds it, and nothing else leaks.          *)
From(q, n) == SubSeq(q, n, Len(q))
Owned == IF share = "free" THEN From(cls, k) ELSE cls
Promised == IF share = "increase" THEN SubSeq(cls, 1, k - 1)
            ELSE IF share = "push" THEN From(cls, k) ELSE <<>>
Exporting(c) == {w \in Worker : Contains(export_clause[w], c)}
Storing(c)   == {w \in Worker : \E s \in Lengths : Contains(bucket[w][s], c)}
Importing(c) == {w \in Worker : Contains(import_clause[w], c)}
Reading(c)   == {w \in Worker : c \in hand[w]}
HeldByWorkers(c) == Cardinality(Exporting(c)) + Cardinality(Storing(c))
                    + Cardinality(Importing(c)) + Cardinality(Reading(c))
One(held) == IF held THEN 1 ELSE 0
HeldBySharer(c) == One(Contains(Owned, c)) + One(Contains(Promised, c))
HeldOnce ==
  /\ \A w \in Worker : /\ IsInjective(export_clause[w]) /\ IsInjective(import_clause[w])
                       /\ \A s \in Lengths : IsInjective(bucket[w][s])
  /\ IsInjective(cls)
RefsMatchHolders == HeldOnce /\ \A c \in Clause : refs[c] = HeldByWorkers(c) + HeldBySharer(c) + lost[c]

(* A clause is offered to every worker but the one that has learnt it, to   *)
(* each once, whatever waits in the buckets between the rounds; one that is *)
(* offered to nobody has been refused by a full queue or bucket.            *)
Underway(c) == \/ \E w \in Worker : Contains(export_clause[w], c)
               \/ \E w \in Worker, s \in Lengths : Contains(bucket[w][s], c)
               \/ Contains(cls, c)
OfferedOnce ==
  \A c \in Clause :
    LET others == Worker \ {src[c]}
        to     == {w \in Worker : given[c][w] > 0}
    IN  /\ \A w \in Worker : given[c][w] <= 1
        /\ to \subseteq others
        /\ src[c] # NoWorker /\ ~Underway(c) => to = others \/ (to = {} /\ lost[c] > 0)

(* What goes out in a round keeps to share_lits, nothing that stays behind  *)
(* would still fit, and nothing shorter than what goes out stays behind.    *)
Literals(q) == LET sum[n \in 0 .. Len(q)] == IF n = 0 THEN 0 ELSE sum[n - 1] + Size[q[n]]
               IN  sum[Len(q)]
SelectionFits ==
  share \in {"increase", "push", "free"} =>
    /\ Literals(cls) <= share_lits
    /\ \A s \in Lengths : bucket[i][s] # <<>> =>
         Literals(cls) + s > share_lits /\ \A n \in DOMAIN cls : Size[cls[n]] <= s
===============================================================================
