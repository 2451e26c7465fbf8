------------------------------ MODULE DceProofs ------------------------------
(***************************************************************************)
(* The threads of the clause exchange, for any number of workers, margin    *)
(* and number of periods: when they stop, that no wakeup is lost, who wins; *)
(* then the bundles of clauses they pass round: that none is freed in use,  *)
(* that every search finds its bundle, and what each worker imports.        *)
(***************************************************************************)
EXTENDS Dce, FiniteSetTheorems, SequenceTheorems, TLAPS

USE NAssumption, MarginAssumption, PeriodAssumption, VerdictAssumption
    DEF Worker, Period, Never

(* The loops over producers step to a natural number. *)
LEMMA AfterType == \A w \in Worker, i \in Nat : After(w, i) \in Nat \ {0}
BY DEF After

LEMMA FirstType == \A w \in Worker : First(w) \in Nat \ {0}
BY AfterType DEF First

LEMMA TailNonEmpty ==
  ASSUME NEW S, NEW q \in Seq(S), q # <<>>, Len(q) # 1
  PROVE  Tail(q) # <<>>
<1> DEFINE n == Len(Tail(q))
<1>1. Len(q) \in Nat
  BY EmptySeq
<1>2. n = Len(q) - 1
  BY HeadTailProperties
<1>3. Tail(q) = <<>> => n = 0
  BY EmptySeq, Zenon
<1> HIDE DEF n
<1>4. n # 0
  BY <1>1, <1>2
<1> QED
  BY <1>3, <1>4, Zenon

(* The threads start well typed, and a step keeps their types: one case per action. *)
LEMMA ThreadTypeInit == Init => ThreadTypeOK
<1> SUFFICES ASSUME Init PROVE ThreadTypeOK
  OBVIOUS
<1>1. ControlTypes
  BY DEF Init, Fresh, ControlTypes, WorkerPc
<1>2. CounterTypes
  BY DEF Init, Fresh, CounterTypes
<1>3. OutcomeTypes
  BY DEF Init, Fresh, OutcomeTypes
<1>4. LocalOK
  BY DEF Init, LocalOK
<1> QED
  BY <1>1, <1>2, <1>3, <1>4 DEF ThreadTypeOK

LEMMA ThreadTypeNext == ThreadTypeOK /\ [Next]_vars => ThreadTypeOK'
<1> SUFFICES ASSUME ThreadTypeOK, [Next]_vars PROVE ThreadTypeOK'
  OBVIOUS
<1>0. ControlTypes /\ CounterTypes /\ OutcomeTypes /\ LocalOK
  BY DEF ThreadTypeOK
<1> USE DEF exchange, outcome, mainvars
<1>1. ASSUME NEW w \in Worker, Start(w) PROVE ThreadTypeOK'
  <2>1. ControlTypes'
    BY <1>0, <1>1 DEF ControlTypes, WorkerPc, Start, Go
  <2>2. CounterTypes'
    BY <1>0, <1>1 DEF CounterTypes, LocalOK, Start, Go
  <2>3. OutcomeTypes'
    BY <1>0, <1>1 DEF OutcomeTypes, Start, Go
  <2>4. LocalOK'
    BY <1>0, <1>1 DEF ControlTypes, CounterTypes, LocalOK, WorkerPc, Start, Go
  <2> QED
    BY <2>1, <2>2, <2>3, <2>4 DEF ThreadTypeOK
<1>2. ASSUME NEW w \in Worker, NewPeriod(w) PROVE ThreadTypeOK'
  <2>1. ControlTypes'
    BY <1>0, <1>2 DEF ControlTypes, WorkerPc, NewPeriod, Go
  <2>2. CounterTypes'
    BY <1>0, <1>2 DEF CounterTypes, LocalOK, NewPeriod, Go
  <2>3. OutcomeTypes'
    BY <1>0, <1>2 DEF OutcomeTypes, NewPeriod, Go
  <2>4. LocalOK'
    BY <1>0, <1>2 DEF ControlTypes, CounterTypes, LocalOK, WorkerPc, NewPeriod, Go
  <2> QED
    BY <2>1, <2>2, <2>3, <2>4 DEF ThreadTypeOK
<1>3. ASSUME NEW w \in Worker, InternalTerminate(w) PROVE ThreadTypeOK'
  <2>1. ControlTypes'
    BY <1>0, <1>3 DEF ControlTypes, WorkerPc, InternalTerminate, GoNotify, Notified
  <2>2. CounterTypes'
    BY <1>0, <1>3 DEF CounterTypes, LocalOK, InternalTerminate, GoNotify, Notified
  <2>3. OutcomeTypes'
    BY <1>0, <1>3 DEF OutcomeTypes, InternalTerminate, GoNotify, Notified
  <2>4. LocalOK'
    BY <1>0, <1>3 DEF ControlTypes, CounterTypes, LocalOK, WorkerPc, InternalTerminate, GoNotify, Notified
  <2> QED
    BY <2>1, <2>2, <2>3, <2>4 DEF ThreadTypeOK
<1>4. ASSUME NEW w \in Worker, SelectClauses(w) PROVE ThreadTypeOK'
  <2>1. ControlTypes'
    BY <1>0, <1>4 DEF ControlTypes, WorkerPc, SelectClauses, Go
  <2>2. CounterTypes'
    BY <1>0, <1>4 DEF CounterTypes, LocalOK, SelectClauses, Go
  <2>3. OutcomeTypes'
    BY <1>0, <1>4 DEF OutcomeTypes, SelectClauses, Go
  <2>4. LocalOK'
    BY <1>0, <1>4 DEF ControlTypes, CounterTypes, LocalOK, WorkerPc, SelectClauses, Go
  <2> QED
    BY <2>1, <2>2, <2>3, <2>4 DEF ThreadTypeOK
<1>5. ASSUME NEW w \in Worker, IncPeriod(w) PROVE ThreadTypeOK'
  <2>1. ControlTypes'
    BY <1>0, <1>5 DEF ControlTypes, WorkerPc, IncPeriod, GoNotify, Notified, NothingDue, First, After
  <2>2. CounterTypes'
    <3>1. period' \in [Worker -> Period] /\ joined' \in 0 .. N
      <4>1. period[w] + 1 \in Period
        BY <1>0, <1>5 DEF CounterTypes, LocalOK, IncPeriod
      <4>2. period' \in [Worker -> Period]
        BY <1>0, <1>5, <4>1 DEF CounterTypes, IncPeriod
      <4> QED
        BY <1>0, <1>5, <4>2 DEF CounterTypes, IncPeriod
    <3>2. terminate_period' \in [Worker -> Period \cup {Inf}]
      BY <1>0, <1>5 DEF CounterTypes, IncPeriod
    <3>3. unfree' \in [Worker -> Seq(Nat)]
      BY <1>0, <1>5 DEF CounterTypes, LocalOK, IncPeriod
    <3>4. peer' \in [Worker -> Nat \ {0}]
      BY <1>0, <1>5, FirstType DEF CounterTypes, IncPeriod
    <3> QED
      BY <3>1, <3>2, <3>3, <3>4 DEF CounterTypes
  <2>3. OutcomeTypes'
    BY <1>0, <1>5 DEF OutcomeTypes, IncPeriod, GoNotify, Notified, NothingDue, First, After
  <2>4. LocalOK'
    BY <1>0, <1>5 DEF ControlTypes, CounterTypes, LocalOK, WorkerPc, IncPeriod, GoNotify, Notified, NothingDue, First, After
  <2> QED
    BY <2>1, <2>2, <2>3, <2>4 DEF ThreadTypeOK
<1>6. ASSUME NEW w \in Worker, ImportFrom(w) PROVE ThreadTypeOK'
  <2>1. ControlTypes'
    BY <1>0, <1>6 DEF ControlTypes, WorkerPc, ImportFrom, Go, After
  <2>2. CounterTypes'
    <3>1. period' \in [Worker -> Period] /\ joined' \in 0 .. N
      BY <1>0, <1>6 DEF CounterTypes, LocalOK, ImportFrom
    <3>2. terminate_period' \in [Worker -> Period \cup {Inf}]
      BY <1>0, <1>6 DEF CounterTypes, ImportFrom
    <3>3. unfree' \in [Worker -> Seq(Nat)]
      BY <1>0, <1>6 DEF CounterTypes, LocalOK, ImportFrom
    <3>4. peer' \in [Worker -> Nat \ {0}]
      <4>1. After(w, peer[w]) \in Nat \ {0}
        BY <1>0, AfterType DEF CounterTypes
      <4>2. peer' = peer \/ peer' = [peer EXCEPT ![w] = After(w, peer[w])]
        BY <1>6 DEF ImportFrom
      <4> QED
        BY <1>0, <4>1, <4>2 DEF CounterTypes
    <3> QED
      BY <3>1, <3>2, <3>3, <3>4 DEF CounterTypes
  <2>3. OutcomeTypes'
    BY <1>0, <1>6 DEF OutcomeTypes, ImportFrom, Go, After
  <2>4. LocalOK'
    <3>1. /\ pc[w] = "import" /\ peer[w] \in Worker
          /\ period' = period /\ unfree' = unfree
          /\ \/ (pc' = [pc EXCEPT ![w] = "wait"] \/ pc' = [pc EXCEPT ![w] = "kill"]) /\ peer' = peer
             \/ pc' = pc /\ peer' = [peer EXCEPT ![w] = After(w, peer[w])]
      BY <1>6 DEF ImportFrom, Go, exchange
    <3>2. ASSUME NEW v \in Worker, v # w
          PROVE  pc'[v] = pc[v] /\ peer'[v] = peer[v] /\ period'[v] = period[v] /\ unfree'[v] = unfree[v]
      BY <1>0, <3>1, <3>2 DEF ControlTypes, CounterTypes
    <3>3. pc'[w] \in {"wait", "kill", "import"} /\ (pc'[w] = "wait" => peer'[w] = peer[w])
      BY <1>0, <3>1 DEF ControlTypes
    <3> QED
      BY <1>0, <3>1, <3>2, <3>3 DEF LocalOK
  <2> QED
    BY <2>1, <2>2, <2>3, <2>4 DEF ThreadTypeOK
<1>7. ASSUME NEW w \in Worker, ImportDone(w) PROVE ThreadTypeOK'
  <2>1. ControlTypes'
    BY <1>0, <1>7 DEF ControlTypes, WorkerPc, ImportDone, Go, Noted, Due
  <2>2. CounterTypes'
    <3>1. period' \in [Worker -> Period] /\ joined' \in 0 .. N
      BY <1>0, <1>7 DEF CounterTypes, LocalOK, ImportDone
    <3>2. terminate_period' \in [Worker -> Period \cup {Inf}]
      BY <1>0, <1>7 DEF CounterTypes, ImportDone
    <3>3. unfree' \in [Worker -> Seq(Nat)]
      BY <1>0, <1>7, SMTT(30) DEF CounterTypes, LocalOK, ImportDone, Noted, Due
    <3>4. peer' \in [Worker -> Nat \ {0}]
      BY <1>0, <1>7, AfterType DEF CounterTypes, ImportDone
    <3> QED
      BY <3>1, <3>2, <3>3, <3>4 DEF CounterTypes
  <2>3. OutcomeTypes'
    BY <1>0, <1>7 DEF OutcomeTypes, ImportDone, Go, Noted, Due
  <2>4. LocalOK'
    BY <1>0, <1>7 DEF ControlTypes, CounterTypes, LocalOK, WorkerPc, ImportDone, Go, Noted, Due
  <2> QED
    BY <2>1, <2>2, <2>3, <2>4 DEF ThreadTypeOK
<1>8. ASSUME NEW w \in Worker, DrainAtLevelZero(w) PROVE ThreadTypeOK'
  <2>1. ControlTypes'
    BY <1>0, <1>8 DEF ControlTypes, WorkerPc, DrainAtLevelZero, Go, First, After
  <2>2. CounterTypes'
    BY <1>0, <1>8, SMTT(30) DEF CounterTypes, LocalOK, DrainAtLevelZero, Go, First, After
  <2>3. OutcomeTypes'
    BY <1>0, <1>8 DEF OutcomeTypes, DrainAtLevelZero, Go, First, After
  <2>4. LocalOK'
    BY <1>0, <1>8 DEF ControlTypes, CounterTypes, LocalOK, WorkerPc, DrainAtLevelZero, Go, First, After
  <2> QED
    BY <2>1, <2>2, <2>3, <2>4 DEF ThreadTypeOK
<1>9. ASSUME NEW w \in Worker, FreeClause(w) PROVE ThreadTypeOK'
  <2>1. ControlTypes'
    BY <1>0, <1>9 DEF ControlTypes, WorkerPc, FreeClause, Go, After
  <2>2. CounterTypes'
    <3>1. period' \in [Worker -> Period] /\ joined' \in 0 .. N
      BY <1>0, <1>9 DEF CounterTypes, LocalOK, FreeClause
    <3>2. terminate_period' \in [Worker -> Period \cup {Inf}]
      BY <1>0, <1>9 DEF CounterTypes, FreeClause
    <3>3. unfree' \in [Worker -> Seq(Nat)]
      BY <1>0, <1>9 DEF CounterTypes, LocalOK, FreeClause
    <3>4. peer' \in [Worker -> Nat \ {0}]
      <4>1. After(w, peer[w]) \in Nat \ {0}
        BY <1>0, AfterType DEF CounterTypes
      <4>2. peer' = peer \/ peer' = [peer EXCEPT ![w] = After(w, peer[w])]
        BY <1>9 DEF FreeClause
      <4> QED
        BY <1>0, <4>1, <4>2 DEF CounterTypes
    <3> QED
      BY <3>1, <3>2, <3>3, <3>4 DEF CounterTypes
  <2>3. OutcomeTypes'
    BY <1>0, <1>9 DEF OutcomeTypes, FreeClause, Go, After
  <2>4. LocalOK'
    BY <1>0, <1>9 DEF ControlTypes, CounterTypes, LocalOK, WorkerPc, FreeClause, Go, After
  <2> QED
    BY <2>1, <2>2, <2>3, <2>4 DEF ThreadTypeOK
<1>10. ASSUME NEW w \in Worker, PopFront(w) PROVE ThreadTypeOK'
  <2>1. ControlTypes'
    BY <1>0, <1>10 DEF ControlTypes, WorkerPc, PopFront, Go, After
  <2>2. CounterTypes'
    <3>1. period' \in [Worker -> Period] /\ joined' \in 0 .. N
      BY <1>0, <1>10 DEF CounterTypes, LocalOK, PopFront
    <3>2. terminate_period' \in [Worker -> Period \cup {Inf}]
      BY <1>0, <1>10 DEF CounterTypes, PopFront
    <3>3. unfree' \in [Worker -> Seq(Nat)]
      BY <1>0, <1>10 DEF CounterTypes, LocalOK, PopFront
    <3>4. peer' \in [Worker -> Nat \ {0}]
      BY <1>0, <1>10, AfterType DEF CounterTypes, PopFront
    <3> QED
      BY <3>1, <3>2, <3>3, <3>4 DEF CounterTypes
  <2>3. OutcomeTypes'
    BY <1>0, <1>10 DEF OutcomeTypes, PopFront, Go, After
  <2>4. LocalOK'
    BY <1>0, <1>10 DEF ControlTypes, CounterTypes, LocalOK, WorkerPc, PopFront, Go, After
  <2> QED
    BY <2>1, <2>2, <2>3, <2>4 DEF ThreadTypeOK
<1>11. ASSUME NEW w \in Worker, FreeNext(w) PROVE ThreadTypeOK'
  <2>1. ControlTypes'
    BY <1>0, <1>11 DEF ControlTypes, WorkerPc, FreeNext, Go, First, After, LastUnfree
  <2>2. CounterTypes'
    <3>1. period' \in [Worker -> Period] /\ joined' \in 0 .. N
      BY <1>0, <1>11 DEF CounterTypes, LocalOK, FreeNext
    <3>2. terminate_period' \in [Worker -> Period \cup {Inf}]
      BY <1>0, <1>11 DEF CounterTypes, FreeNext
    <3>3. unfree' \in [Worker -> Seq(Nat)]
      <4>1. unfree[w] \in Seq(Nat) /\ unfree[w] # <<>>
        BY <1>0, <1>11 DEF CounterTypes, LocalOK, FreeNext
      <4>2. Tail(unfree[w]) \in Seq(Nat)
        BY <4>1
      <4> QED
        BY <1>0, <1>11, <4>2 DEF CounterTypes, FreeNext
    <3>4. peer' \in [Worker -> Nat \ {0}]
      BY <1>0, <1>11, FirstType DEF CounterTypes, FreeNext
    <3> QED
      BY <3>1, <3>2, <3>3, <3>4 DEF CounterTypes
  <2>3. OutcomeTypes'
    BY <1>0, <1>11 DEF OutcomeTypes, FreeNext, Go, First, After, LastUnfree
  <2>4. LocalOK'
    <3>1. unfree[w] \in Seq(Nat) /\ unfree[w] # <<>>
      BY <1>0, <1>11 DEF CounterTypes, LocalOK, FreeNext
    <3>2. ~LastUnfree(w) => Tail(unfree[w]) # <<>>
      BY <3>1, TailNonEmpty DEF LastUnfree
    <3>3. /\ pc'[w] \in {"search", "free"}
          /\ pc'[w] = "free" => ~LastUnfree(w)
          /\ unfree'[w] = Tail(unfree[w])
      BY <1>0, <1>11 DEF ControlTypes, CounterTypes, FreeNext, Go
    <3>4. \A v \in Worker \ {w} : pc'[v] = pc[v] /\ unfree'[v] = unfree[v] /\ peer'[v] = peer[v]
      BY <1>0, <1>11 DEF ControlTypes, CounterTypes, FreeNext, Go
    <3>5. period' = period
      BY <1>11 DEF FreeNext
    <3> QED
      <4>1. ASSUME NEW v \in Worker, v # w
            PROVE  /\ pc'[v] \in {"select", "inc"} => period'[v] < MaxPeriod
                   /\ pc'[v] \in {"import", "wait"} => period'[v] > Margin
                   /\ pc'[v] \in {"wait", "pop"} => peer'[v] \in Worker
                   /\ pc'[v] \in {"free", "pop"} => unfree'[v] # <<>>
        BY <1>0, <4>1, <3>4, <3>5 DEF LocalOK
      <4> QED
        BY <3>2, <3>3, <4>1 DEF LocalOK
  <2> QED
    BY <2>1, <2>2, <2>3, <2>4 DEF ThreadTypeOK
<1>12. ASSUME NEW w \in Worker, Answer(w) PROVE ThreadTypeOK'
  <2>1. ControlTypes'
    BY <1>0, <1>12 DEF ControlTypes, WorkerPc, Answer, Go
  <2>2. CounterTypes'
    BY <1>0, <1>12 DEF CounterTypes, LocalOK, Answer, Go
  <2>3. OutcomeTypes'
    BY <1>0, <1>12 DEF OutcomeTypes, Answer, Go
  <2>4. LocalOK'
    BY <1>0, <1>12 DEF ControlTypes, CounterTypes, LocalOK, WorkerPc, Answer, Go
  <2> QED
    BY <2>1, <2>2, <2>3, <2>4 DEF ThreadTypeOK
<1>13. ASSUME NEW w \in Worker, GiveUp(w) PROVE ThreadTypeOK'
  <2>1. ControlTypes'
    BY <1>0, <1>13 DEF ControlTypes, WorkerPc, GiveUp, Go
  <2>2. CounterTypes'
    BY <1>0, <1>13 DEF CounterTypes, LocalOK, GiveUp, Go
  <2>3. OutcomeTypes'
    BY <1>0, <1>13 DEF OutcomeTypes, GiveUp, Go
  <2>4. LocalOK'
    BY <1>0, <1>13 DEF ControlTypes, CounterTypes, LocalOK, WorkerPc, GiveUp, Go
  <2> QED
    BY <2>1, <2>2, <2>3, <2>4 DEF ThreadTypeOK
<1>14. ASSUME NEW w \in Worker, RecordResult(w) PROVE ThreadTypeOK'
  <2>1. ControlTypes'
    BY <1>0, <1>14 DEF ControlTypes, WorkerPc, RecordResult, GoNotify, Notified
  <2>2. CounterTypes'
    BY <1>0, <1>14 DEF CounterTypes, LocalOK, RecordResult, GoNotify, Notified
  <2>3. OutcomeTypes'
    BY <1>0, <1>14 DEF OutcomeTypes, RecordResult, GoNotify, Notified
  <2>4. LocalOK'
    BY <1>0, <1>14 DEF ControlTypes, CounterTypes, LocalOK, WorkerPc, RecordResult, GoNotify, Notified
  <2> QED
    BY <2>1, <2>2, <2>3, <2>4 DEF ThreadTypeOK
<1>15. ASSUME NEW w \in Worker, UpdateWinner(w) PROVE ThreadTypeOK'
  <2>1. ControlTypes'
    BY <1>0, <1>15 DEF ControlTypes, WorkerPc, UpdateWinner, Go
  <2>2. CounterTypes'
    BY <1>0, <1>15 DEF CounterTypes, LocalOK, UpdateWinner, Go
  <2>3. OutcomeTypes'
    <3>1. result' \in {0, Verdict} /\ model' \subseteq Worker
      BY <1>0, <1>15 DEF OutcomeTypes, UpdateWinner
    <3>2. winner_period' \in Period \cup {Inf}
      BY <1>0, <1>15 DEF OutcomeTypes, CounterTypes, UpdateWinner
    <3>3. winner_id' \in Worker \cup {-1}
      BY <1>0, <1>15 DEF OutcomeTypes, UpdateWinner
    <3> QED
      BY <3>1, <3>2, <3>3 DEF OutcomeTypes
  <2>4. LocalOK'
    BY <1>0, <1>15 DEF ControlTypes, CounterTypes, LocalOK, WorkerPc, UpdateWinner, Go
  <2> QED
    BY <2>1, <2>2, <2>3, <2>4 DEF ThreadTypeOK
<1>16. ASSUME NEW w \in Worker, CopyModel(w) PROVE ThreadTypeOK'
  <2>1. ControlTypes'
    BY <1>0, <1>16 DEF ControlTypes, WorkerPc, CopyModel, Go
  <2>2. CounterTypes'
    BY <1>0, <1>16 DEF CounterTypes, LocalOK, CopyModel, Go
  <2>3. OutcomeTypes'
    BY <1>0, <1>16 DEF OutcomeTypes, CopyModel, Go
  <2>4. LocalOK'
    BY <1>0, <1>16 DEF ControlTypes, CounterTypes, LocalOK, WorkerPc, CopyModel, Go
  <2> QED
    BY <2>1, <2>2, <2>3, <2>4 DEF ThreadTypeOK
<1>17. CASE SeeTerminated
  <2>1. ControlTypes'
    BY <1>0, <1>17 DEF ControlTypes, WorkerPc, SeeTerminated
  <2>2. CounterTypes'
    BY <1>0, <1>17 DEF CounterTypes, LocalOK, SeeTerminated
  <2>3. OutcomeTypes'
    BY <1>0, <1>17 DEF OutcomeTypes, SeeTerminated
  <2>4. LocalOK'
    BY <1>0, <1>17 DEF ControlTypes, CounterTypes, LocalOK, WorkerPc, SeeTerminated
  <2> QED
    BY <2>1, <2>2, <2>3, <2>4 DEF ThreadTypeOK
<1>18. CASE Cutoff
  <2>1. ControlTypes'
    BY <1>0, <1>18 DEF ControlTypes, WorkerPc, Cutoff
  <2>2. CounterTypes'
    BY <1>0, <1>18 DEF CounterTypes, LocalOK, Cutoff
  <2>3. OutcomeTypes'
    BY <1>0, <1>18 DEF OutcomeTypes, Cutoff
  <2>4. LocalOK'
    BY <1>0, <1>18 DEF ControlTypes, CounterTypes, LocalOK, WorkerPc, Cutoff
  <2> QED
    BY <2>1, <2>2, <2>3, <2>4 DEF ThreadTypeOK
<1>19. CASE ExternalTerminate
  <2>1. ControlTypes'
    BY <1>0, <1>19 DEF ControlTypes, WorkerPc, ExternalTerminate, GoNotify, Notified
  <2>2. CounterTypes'
    BY <1>0, <1>19, SMTT(30) DEF CounterTypes, LocalOK, ExternalTerminate, GoNotify, Notified
  <2>3. OutcomeTypes'
    BY <1>0, <1>19 DEF OutcomeTypes, ExternalTerminate, GoNotify, Notified
  <2>4. LocalOK'
    BY <1>0, <1>19 DEF ControlTypes, CounterTypes, LocalOK, WorkerPc, ExternalTerminate, GoNotify, Notified
  <2> QED
    BY <2>1, <2>2, <2>3, <2>4 DEF ThreadTypeOK
<1>20. CASE AllTerminated
  <2>1. ControlTypes'
    BY <1>0, <1>20 DEF ControlTypes, WorkerPc, AllTerminated
  <2>2. CounterTypes'
    BY <1>0, <1>20 DEF CounterTypes, LocalOK, AllTerminated
  <2>3. OutcomeTypes'
    BY <1>0, <1>20 DEF OutcomeTypes, AllTerminated
  <2>4. LocalOK'
    BY <1>0, <1>20 DEF ControlTypes, CounterTypes, LocalOK, WorkerPc, AllTerminated
  <2> QED
    BY <2>1, <2>2, <2>3, <2>4 DEF ThreadTypeOK
<1>21. CASE Join
  <2>1. ControlTypes'
    BY <1>0, <1>21 DEF ControlTypes, WorkerPc, Join
  <2>2. CounterTypes'
    BY <1>0, <1>21, SMTT(30) DEF CounterTypes, LocalOK, Join
  <2>3. OutcomeTypes'
    BY <1>0, <1>21 DEF OutcomeTypes, Join
  <2>4. LocalOK'
    BY <1>0, <1>21 DEF ControlTypes, CounterTypes, LocalOK, WorkerPc, Join
  <2> QED
    BY <2>1, <2>2, <2>3, <2>4 DEF ThreadTypeOK
<1>22. CASE UNCHANGED vars
  BY <1>0, <1>22 DEF ThreadTypeOK, ControlTypes, CounterTypes, OutcomeTypes, LocalOK, vars
<1> QED
  BY <1>1, <1>2, <1>3, <1>4, <1>5, <1>6, <1>7, <1>8, <1>9, <1>10, <1>11, <1>12, <1>13, <1>14, <1>15, <1>16, <1>17, <1>18, <1>19, <1>20, <1>21, <1>22
     DEF Next, WorkerStep, MainStep, Done

(* The threads' state keeps its types, whatever the exchange delivers. *)
THEOREM ThreadTypeCorrect == Spec => []ThreadTypeOK
<1>1. Init => ThreadTypeOK
  BY ThreadTypeInit
<1>2. ThreadTypeOK /\ [Next]_vars => ThreadTypeOK'
  BY ThreadTypeNext
<1> QED
  BY <1>1, <1>2, PTL DEF Spec
----------------------------------------------------------------------------
(* As long as terminated is unset nothing has begun to stop: the invariant  *)
(* that makes StopOnlyAfterTerminated inductive.                            *)
QuietUntilTerminated ==
  ~terminated =>
    /\ winner_period = Inf /\ main = "watch"
    /\ \A w \in Worker :
         /\ ~stop[w] /\ ~ext_terminated[w] /\ terminate_period[w] = Inf
         /\ pc[w] \notin {"kill", "answer", "commit", "copy", "exit"}

LEMMA QuietNext ==
  ThreadTypeOK /\ QuietUntilTerminated /\ [Next]_vars => QuietUntilTerminated'
<1> SUFFICES ASSUME ThreadTypeOK, QuietUntilTerminated, [Next]_vars
             PROVE  QuietUntilTerminated'
  OBVIOUS
<1>0. ControlTypes /\ CounterTypes /\ OutcomeTypes /\ LocalOK
  BY DEF ThreadTypeOK
<1> USE DEF QuietUntilTerminated, exchange, outcome, mainvars
<1>1. ASSUME NEW w \in Worker, Start(w) PROVE QuietUntilTerminated'
  BY <1>0, <1>1 DEF ControlTypes, CounterTypes, Start, Go
<1>2. ASSUME NEW w \in Worker, NewPeriod(w) PROVE QuietUntilTerminated'
  <2>1. ~terminated => ~PastWinner(w)
    BY <1>0 DEF CounterTypes, PastWinner
  <2>2. /\ ~terminated => pc'[w] = "select"
        /\ \A v \in Worker \ {w} : pc'[v] = pc[v]
    BY <1>0, <1>2, <2>1 DEF ControlTypes, NewPeriod, Go
  <2> QED
    BY <1>2, <2>2 DEF NewPeriod
<1>3. ASSUME NEW w \in Worker, InternalTerminate(w) PROVE QuietUntilTerminated'
  BY <1>0, <1>3 DEF ControlTypes, CounterTypes, InternalTerminate, GoNotify, Notified
<1>4. ASSUME NEW w \in Worker, SelectClauses(w) PROVE QuietUntilTerminated'
  BY <1>0, <1>4 DEF ControlTypes, CounterTypes, SelectClauses, Go
<1>5. ASSUME NEW w \in Worker, IncPeriod(w) PROVE QuietUntilTerminated'
  BY <1>0, <1>5 DEF ControlTypes, CounterTypes, IncPeriod, GoNotify, Notified
<1>6. ASSUME NEW w \in Worker, ImportFrom(w) PROVE QuietUntilTerminated'
  <2>1. peer[w] \in Worker /\ terminated' = terminated
    BY <1>6 DEF ImportFrom
  <2>2. Due(w) < Inf
    BY <1>0, SMTT(30) DEF CounterTypes, Due
  <2>3. ~terminated => pc'[w] \in {"wait", "import"}
    <3>1. ~terminated => ~ext_terminated[peer[w]] /\ terminate_period[peer[w]] = Inf
      BY <2>1
    <3>2. Due(w) \in Int
      BY <1>0 DEF CounterTypes, Due
    <3>3. ~terminated => ~(ext_terminated[peer[w]] \/ terminate_period[peer[w]] <= Due(w))
      BY <2>2, <3>1, <3>2
    <3> QED
      BY <1>0, <1>6, <3>3 DEF ControlTypes, ImportFrom, Go
  <2>4. /\ \A v \in Worker \ {w} : pc'[v] = pc[v]
        /\ UNCHANGED <<winner_period, main, stop, ext_terminated, terminate_period>>
    BY <1>0, <1>6 DEF ControlTypes, ImportFrom, Go
  <2> QED
    BY <2>1, <2>3, <2>4
<1>7. ASSUME NEW w \in Worker, ImportDone(w) PROVE QuietUntilTerminated'
  BY <1>0, <1>7 DEF ControlTypes, CounterTypes, ImportDone, Go
<1>8. ASSUME NEW w \in Worker, DrainAtLevelZero(w) PROVE QuietUntilTerminated'
  BY <1>0, <1>8 DEF ControlTypes, CounterTypes, DrainAtLevelZero, Go
<1>9. ASSUME NEW w \in Worker, FreeClause(w) PROVE QuietUntilTerminated'
  BY <1>0, <1>9 DEF ControlTypes, CounterTypes, FreeClause, Go
<1>10. ASSUME NEW w \in Worker, PopFront(w) PROVE QuietUntilTerminated'
  BY <1>0, <1>10 DEF ControlTypes, CounterTypes, PopFront, Go
<1>11. ASSUME NEW w \in Worker, FreeNext(w) PROVE QuietUntilTerminated'
  BY <1>0, <1>11 DEF ControlTypes, CounterTypes, FreeNext, Go
<1>12. ASSUME NEW w \in Worker, Answer(w) PROVE QuietUntilTerminated'
  BY <1>0, <1>12 DEF ControlTypes, CounterTypes, Answer, Go
<1>13. ASSUME NEW w \in Worker, GiveUp(w) PROVE QuietUntilTerminated'
  BY <1>0, <1>13 DEF ControlTypes, CounterTypes, GiveUp, Go
<1>14. ASSUME NEW w \in Worker, RecordResult(w) PROVE QuietUntilTerminated'
  BY <1>0, <1>14 DEF ControlTypes, CounterTypes, RecordResult, GoNotify, Notified
<1>15. ASSUME NEW w \in Worker, UpdateWinner(w) PROVE QuietUntilTerminated'
  BY <1>0, <1>15 DEF ControlTypes, CounterTypes, UpdateWinner, Go
<1>16. ASSUME NEW w \in Worker, CopyModel(w) PROVE QuietUntilTerminated'
  BY <1>0, <1>16 DEF ControlTypes, CounterTypes, CopyModel, Go
<1>17. CASE SeeTerminated
  BY <1>0, <1>17 DEF ControlTypes, CounterTypes, SeeTerminated
<1>18. CASE Cutoff
  BY <1>0, <1>18 DEF ControlTypes, CounterTypes, Cutoff
<1>19. CASE ExternalTerminate
  BY <1>0, <1>19 DEF ControlTypes, CounterTypes, ExternalTerminate, GoNotify, Notified
<1>20. CASE AllTerminated
  BY <1>0, <1>20 DEF ControlTypes, CounterTypes, AllTerminated
<1>21. CASE Join
  BY <1>0, <1>21 DEF ControlTypes, CounterTypes, Join
<1>22. CASE UNCHANGED vars
  BY <1>22 DEF vars
<1> QED
  BY <1>1, <1>2, <1>3, <1>4, <1>5, <1>6, <1>7, <1>8, <1>9, <1>10, <1>11, <1>12, <1>13, <1>14, <1>15, <1>16, <1>17, <1>18, <1>19, <1>20, <1>21, <1>22
     DEF Next, WorkerStep, MainStep, Done

(* No solver is told to stop before the race is over, so that no worker     *)
(* calls kissat_solve a second time.                                        *)
THEOREM StopsLate == Spec => []StopOnlyAfterTerminated
<1>1. Init => QuietUntilTerminated
  BY DEF Init, Fresh, QuietUntilTerminated
<1>2. ThreadTypeOK /\ QuietUntilTerminated /\ [Next]_vars => QuietUntilTerminated'
  BY QuietNext
<1>3. ThreadTypeOK /\ QuietUntilTerminated => StopOnlyAfterTerminated
  BY DEF QuietUntilTerminated, StopOnlyAfterTerminated
<1> QED
  BY <1>1, <1>2, <1>3, ThreadTypeCorrect, PTL DEF Spec

----------------------------------------------------------------------------
(* A step of any thread leaves whoever sleeps with a reason to sleep.       *)
LEMMA WakeupNext ==
  ThreadTypeOK /\ NoLostWakeup /\ [Next]_vars => NoLostWakeup'
<1> SUFFICES ASSUME ThreadTypeOK, NoLostWakeup, [Next]_vars
             PROVE  NoLostWakeup'
  OBVIOUS
<1>0. ControlTypes /\ CounterTypes /\ LocalOK
  BY DEF ThreadTypeOK
<1> USE DEF NoLostWakeup, MustWait, Due, exchange, outcome, mainvars
<1>1. ASSUME NEW w \in Worker, Start(w) PROVE NoLostWakeup'
  BY <1>0, <1>1 DEF ControlTypes, CounterTypes, LocalOK, Start, Go
<1>2. ASSUME NEW w \in Worker, NewPeriod(w) PROVE NoLostWakeup'
  BY <1>0, <1>2, SMTT(30) DEF ControlTypes, CounterTypes, LocalOK, NewPeriod, Go
<1>3. ASSUME NEW w \in Worker, InternalTerminate(w) PROVE NoLostWakeup'
  BY <1>0, <1>3 DEF ControlTypes, CounterTypes, LocalOK, InternalTerminate, GoNotify, Notified
<1>4. ASSUME NEW w \in Worker, SelectClauses(w) PROVE NoLostWakeup'
  BY <1>0, <1>4 DEF ControlTypes, CounterTypes, LocalOK, SelectClauses, Go
<1>5. ASSUME NEW w \in Worker, IncPeriod(w) PROVE NoLostWakeup'
  BY <1>0, <1>5 DEF ControlTypes, CounterTypes, LocalOK, IncPeriod, GoNotify, Notified
<1>6. ASSUME NEW w \in Worker, ImportFrom(w) PROVE NoLostWakeup'
  BY <1>0, <1>6 DEF ControlTypes, CounterTypes, LocalOK, ImportFrom, Go
<1>7. ASSUME NEW w \in Worker, ImportDone(w) PROVE NoLostWakeup'
  BY <1>0, <1>7 DEF ControlTypes, CounterTypes, LocalOK, ImportDone, Go
<1>8. ASSUME NEW w \in Worker, DrainAtLevelZero(w) PROVE NoLostWakeup'
  BY <1>0, <1>8 DEF ControlTypes, CounterTypes, LocalOK, DrainAtLevelZero, Go
<1>9. ASSUME NEW w \in Worker, FreeClause(w) PROVE NoLostWakeup'
  BY <1>0, <1>9 DEF ControlTypes, CounterTypes, LocalOK, FreeClause, Go
<1>10. ASSUME NEW w \in Worker, PopFront(w) PROVE NoLostWakeup'
  BY <1>0, <1>10 DEF ControlTypes, CounterTypes, LocalOK, PopFront, Go
<1>11. ASSUME NEW w \in Worker, FreeNext(w) PROVE NoLostWakeup'
  BY <1>0, <1>11 DEF ControlTypes, CounterTypes, LocalOK, FreeNext, Go
<1>12. ASSUME NEW w \in Worker, Answer(w) PROVE NoLostWakeup'
  BY <1>0, <1>12 DEF ControlTypes, CounterTypes, LocalOK, Answer, Go
<1>13. ASSUME NEW w \in Worker, GiveUp(w) PROVE NoLostWakeup'
  BY <1>0, <1>13 DEF ControlTypes, CounterTypes, LocalOK, GiveUp, Go
<1>14. ASSUME NEW w \in Worker, RecordResult(w) PROVE NoLostWakeup'
  BY <1>0, <1>14 DEF ControlTypes, CounterTypes, LocalOK, RecordResult, GoNotify, Notified
<1>15. ASSUME NEW w \in Worker, UpdateWinner(w) PROVE NoLostWakeup'
  BY <1>0, <1>15 DEF ControlTypes, CounterTypes, LocalOK, UpdateWinner, Go
<1>16. ASSUME NEW w \in Worker, CopyModel(w) PROVE NoLostWakeup'
  BY <1>0, <1>16 DEF ControlTypes, CounterTypes, LocalOK, CopyModel, Go
<1>17. CASE SeeTerminated
  BY <1>0, <1>17 DEF ControlTypes, CounterTypes, LocalOK, SeeTerminated
<1>18. CASE Cutoff
  BY <1>0, <1>18 DEF ControlTypes, CounterTypes, LocalOK, Cutoff
<1>19. CASE ExternalTerminate
  BY <1>0, <1>19 DEF ControlTypes, CounterTypes, LocalOK, ExternalTerminate, GoNotify, Notified
<1>20. CASE AllTerminated
  BY <1>0, <1>20 DEF ControlTypes, CounterTypes, LocalOK, AllTerminated
<1>21. CASE Join
  BY <1>0, <1>21 DEF ControlTypes, CounterTypes, LocalOK, Join
<1>22. CASE UNCHANGED vars
  BY <1>22 DEF vars
<1> QED
  BY <1>1, <1>2, <1>3, <1>4, <1>5, <1>6, <1>7, <1>8, <1>9, <1>10, <1>11, <1>12, <1>13, <1>14, <1>15, <1>16, <1>17, <1>18, <1>19, <1>20, <1>21, <1>22
     DEF Next, WorkerStep, MainStep, Done

(* Every change of what import_clauses waits for reaches the sleeper: no    *)
(* thread sleeps on a producer that has already moved on or has stopped.    *)
THEOREM WakeupsArrive == Spec => []NoLostWakeup
<1>1. Init => NoLostWakeup
  BY DEF Init, NoLostWakeup
<1>2. ThreadTypeOK /\ NoLostWakeup /\ [Next]_vars => NoLostWakeup'
  BY WakeupNext
<1> QED
  BY <1>1, <1>2, ThreadTypeCorrect, PTL DEF Spec

-----------------------------------------------------------------------------
(* Who wins, whatever the scheduling: the winner's model is there when main *)
(* prints it, and without a cutoff its period is the earliest.              *)


(* Main has joined what it counted; a recorded result has a winner, or one  *)
(* is about to be entered; the winner's model is being copied or is there.  *)
WinnerInv ==
  /\ main \in {"join", "done"} => \A w \in Worker : w <= joined => pc[w] = "exit"
  /\ main = "done" => joined = N
  /\ winner_id = -1 => winner_period = Inf
  /\ result # 0 => winner_id # -1 \/ \E w \in Worker : pc[w] = "commit"
  /\ Verdict = 10 => \A w \in Worker : w = winner_id => w \in model \/ pc[w] = "copy"

LEMMA WinnerNext ==
  ThreadTypeOK /\ WinnerInv /\ [Next]_vars => WinnerInv'
<1> SUFFICES ASSUME ThreadTypeOK, WinnerInv, [Next]_vars
             PROVE  WinnerInv'
  OBVIOUS
<1>0. ControlTypes /\ CounterTypes /\ OutcomeTypes
  BY DEF ThreadTypeOK
<1> USE DEF WinnerInv, exchange, outcome, mainvars
<1>1. ASSUME NEW w \in Worker, Start(w) PROVE WinnerInv'
  BY <1>0, <1>1 DEF ControlTypes, CounterTypes, OutcomeTypes, Start, Go
<1>2. ASSUME NEW w \in Worker, NewPeriod(w) PROVE WinnerInv'
  BY <1>0, <1>2 DEF ControlTypes, CounterTypes, OutcomeTypes, NewPeriod, Go
<1>3. ASSUME NEW w \in Worker, InternalTerminate(w) PROVE WinnerInv'
  BY <1>0, <1>3 DEF ControlTypes, CounterTypes, OutcomeTypes, InternalTerminate, GoNotify, Notified
<1>4. ASSUME NEW w \in Worker, SelectClauses(w) PROVE WinnerInv'
  BY <1>0, <1>4 DEF ControlTypes, CounterTypes, OutcomeTypes, SelectClauses, Go
<1>5. ASSUME NEW w \in Worker, IncPeriod(w) PROVE WinnerInv'
  BY <1>0, <1>5 DEF ControlTypes, CounterTypes, OutcomeTypes, IncPeriod, GoNotify, Notified
<1>6. ASSUME NEW w \in Worker, ImportFrom(w) PROVE WinnerInv'
  BY <1>0, <1>6 DEF ControlTypes, CounterTypes, OutcomeTypes, ImportFrom, Go
<1>7. ASSUME NEW w \in Worker, ImportDone(w) PROVE WinnerInv'
  BY <1>0, <1>7 DEF ControlTypes, CounterTypes, OutcomeTypes, ImportDone, Go
<1>8. ASSUME NEW w \in Worker, DrainAtLevelZero(w) PROVE WinnerInv'
  BY <1>0, <1>8 DEF ControlTypes, CounterTypes, OutcomeTypes, DrainAtLevelZero, Go
<1>9. ASSUME NEW w \in Worker, FreeClause(w) PROVE WinnerInv'
  BY <1>0, <1>9 DEF ControlTypes, CounterTypes, OutcomeTypes, FreeClause, Go
<1>10. ASSUME NEW w \in Worker, PopFront(w) PROVE WinnerInv'
  BY <1>0, <1>10 DEF ControlTypes, CounterTypes, OutcomeTypes, PopFront, Go
<1>11. ASSUME NEW w \in Worker, FreeNext(w) PROVE WinnerInv'
  BY <1>0, <1>11 DEF ControlTypes, CounterTypes, OutcomeTypes, FreeNext, Go
<1>12. ASSUME NEW w \in Worker, Answer(w) PROVE WinnerInv'
  BY <1>0, <1>12 DEF ControlTypes, CounterTypes, OutcomeTypes, Answer, Go
<1>13. ASSUME NEW w \in Worker, GiveUp(w) PROVE WinnerInv'
  BY <1>0, <1>13 DEF ControlTypes, CounterTypes, OutcomeTypes, GiveUp, Go
<1>14. ASSUME NEW w \in Worker, RecordResult(w) PROVE WinnerInv'
  BY <1>0, <1>14 DEF ControlTypes, CounterTypes, OutcomeTypes, RecordResult, GoNotify, Notified
<1>15. ASSUME NEW w \in Worker, UpdateWinner(w) PROVE WinnerInv'
  <2>1. /\ pc'[w] = "copy" /\ \A v \in Worker \ {w} : pc'[v] = pc[v]
        /\ UNCHANGED <<main, joined, result, model>> /\ pc[w] = "commit"
    BY <1>0, <1>15 DEF ControlTypes, UpdateWinner, Go
  <2>2. winner_id = -1 => Beats(w)
    <3>1. winner_id = -1 => period[w] < winner_period
      BY <1>0, PeriodAssumption DEF CounterTypes, Period
    <3> QED
      BY <3>1 DEF Beats
  <2>3. CASE Beats(w)
    <3>1. winner_id' = w /\ w # -1
      BY <1>15, <2>3 DEF UpdateWinner, Worker
    <3> QED
      BY <2>1, <3>1
  <2>4. CASE ~Beats(w)
    <3>1. winner_id # -1 /\ UNCHANGED <<winner_id, winner_period>>
      BY <1>15, <2>2, <2>4 DEF UpdateWinner
    <3> QED
      BY <2>1, <3>1
  <2> QED
    BY <2>3, <2>4
<1>16. ASSUME NEW w \in Worker, CopyModel(w) PROVE WinnerInv'
  BY <1>0, <1>16 DEF ControlTypes, CounterTypes, OutcomeTypes, CopyModel, Go
<1>17. CASE SeeTerminated
  BY <1>0, <1>17 DEF ControlTypes, CounterTypes, OutcomeTypes, SeeTerminated, Worker
<1>18. CASE Cutoff
  BY <1>0, <1>18 DEF ControlTypes, CounterTypes, OutcomeTypes, Cutoff
<1>19. CASE ExternalTerminate
  BY <1>0, <1>19 DEF ControlTypes, CounterTypes, OutcomeTypes, ExternalTerminate, GoNotify, Notified
<1>20. CASE AllTerminated
  BY <1>0, <1>20 DEF ControlTypes, CounterTypes, OutcomeTypes, AllTerminated, Worker
<1>21. CASE Join
  <2>1. joined \in Nat /\ joined' = joined + 1 /\ joined < N /\ N \in Nat
    BY <1>0, <1>21, NAssumption DEF CounterTypes, Join
  <2>2. main = "join" /\ pc[joined + 1] = "exit"
    BY <1>21 DEF Join, Finished
  <2>3. ASSUME NEW w \in Worker, w <= joined' PROVE pc[w] = "exit"
    <3>1. w <= joined \/ w = joined + 1
      BY <2>1, <2>3 DEF Worker
    <3> QED
      BY <2>2, <3>1
  <2>4. main' = "done" => joined' = N
    BY <1>21, <2>1 DEF Join
  <2> QED
    BY <1>21, <2>3, <2>4 DEF Join
<1>22. CASE UNCHANGED vars
  BY <1>22 DEF vars
<1> QED
  BY <1>1, <1>2, <1>3, <1>4, <1>5, <1>6, <1>7, <1>8, <1>9, <1>10, <1>11, <1>12, <1>13, <1>14, <1>15, <1>16, <1>17, <1>18, <1>19, <1>20, <1>21, <1>22
     DEF Next, WorkerStep, MainStep, Done

(* From here no worker brings an answer any more: main has joined them all. *)
AllJoined == \A w \in Worker : pc[w] = "exit"

LEMMA DoneJoined == ThreadTypeOK /\ WinnerInv /\ main = "done" => AllJoined
BY DEF WinnerInv, AllJoined

(* Once all have been joined a recorded answer is the winner's, with its model. *)
LEMMA JoinedWinner ==
  ASSUME ThreadTypeOK, WinnerInv, AllJoined, Verdict = 10, result # 0
  PROVE  winner_id \in Worker /\ winner_id \in model
<1>1. winner_id \in Worker \cup {-1} /\ winner_id # -1
  BY DEF ThreadTypeOK, OutcomeTypes, WinnerInv, AllJoined
<1> QED
  BY <1>1 DEF WinnerInv, AllJoined

(* Of the worker threads' steps only CopyModel touches what Portfolio sees. *)
LEMMA OnlyCopies ==
  ASSUME NEW w \in Worker, WorkerStep(w) \/ DrainAtLevelZero(w), ~CopyModel(w)
  PROVE  UNCHANGED <<model, main>>
BY DEF WorkerStep, Start, NewPeriod, InternalTerminate, SelectClauses, IncPeriod, ImportFrom,
   ImportDone, DrainAtLevelZero, FreeClause, PopFront, FreeNext, Answer, GiveUp, RecordResult,
   UpdateWinner, outcome, mainvars

(* Main, and the threads it has joined, leave the outcome alone after the end. *)
LEMMA EndIsFinal ==
  ASSUME AllJoined, main = "done", [Next]_vars
  PROVE  UNCHANGED <<model, main, result, winner_id>>
<1>1. ASSUME NEW w \in Worker PROVE ~WorkerStep(w) /\ ~DrainAtLevelZero(w)
  BY DEF AllJoined, WorkerStep, Start, NewPeriod, InternalTerminate, SelectClauses, IncPeriod,
     ImportFrom, ImportDone, DrainAtLevelZero, FreeClause, PopFront, FreeNext, Answer, GiveUp,
     RecordResult, UpdateWinner, CopyModel
<1>2. ~MainStep
  BY DEF MainStep, SeeTerminated, Cutoff, ExternalTerminate, AllTerminated, Join
<1> QED
  BY <1>1, <1>2 DEF Next, Done, vars, outcome, mainvars

LEMMA WinnerCorrect == Spec => [](ThreadTypeOK /\ WinnerInv)
<1>1. Init => WinnerInv
  BY DEF Init, Fresh, WinnerInv, Worker
<1>2. ThreadTypeOK /\ WinnerInv /\ [Next]_vars => WinnerInv'
  BY WinnerNext
<1> QED
  BY <1>1, <1>2, ThreadTypeCorrect, PTL DEF Spec

(* For any number of workers, any margin and any fate of their searches:    *)
(* what main publishes of a satisfiable instance is the answer of a worker  *)
(* whose model has been copied, or UNKNOWN, and it never changes again.     *)
THEOREM Implements == ASSUME Verdict = 10 PROVE Spec => ImplementsPortfolio
<1>1. Init => Abstract!Init
  BY DEF Init, Fresh, Abstract!Init, Abstract!Running, Published
<1>2. ASSUME ThreadTypeOK, WinnerInv, [Next]_vars PROVE [Abstract!Next]_<<model, Published>>
  <2>1. ASSUME NEW w \in Worker, CopyModel(w) PROVE Abstract!Complete(w)
    <3>1. main # "done" /\ main' = main /\ model' = model \cup {w}
      BY <1>2, <2>1, DoneJoined DEF CopyModel, AllJoined, mainvars
    <3> QED
      BY <3>1 DEF Abstract!Complete, Abstract!Running, Published
  <2>2. ASSUME Join, main' = "done" PROVE Abstract!Next
    <3>1. UNCHANGED <<pc, result, winner_id, model>> /\ main = "join" /\ AllJoined
      <4>1. joined \in Nat /\ joined + 1 = N /\ main = "join" /\ pc[joined + 1] = "exit"
        BY <1>2, <2>2 DEF Join, Finished, ThreadTypeOK, CounterTypes
      <4>2. ASSUME NEW v \in Worker PROVE pc[v] = "exit"
        <5>1. v <= joined \/ v = joined + 1
          BY <4>1
        <5> QED
          BY <1>2, <4>1, <5>1 DEF WinnerInv
      <4> QED
        BY <2>2, <4>1, <4>2 DEF Join, AllJoined, outcome
    <3>2. CASE result = 0
      BY <2>2, <3>1, <3>2 DEF Abstract!Next, Abstract!GiveUp, Abstract!Running, Abstract!Unknown, Published
    <3>3. CASE result # 0
      <4>1. winner_id \in Worker /\ winner_id \in model
        BY <1>2, <3>1, <3>3, JoinedWinner
      <4>2. Abstract!Publish(winner_id)
        BY <2>2, <3>1, <3>3, <4>1 DEF Abstract!Publish, Abstract!Running, Published
      <4> QED
        BY <4>1, <4>2 DEF Abstract!Next
    <3> QED
      BY <3>2, <3>3
  <2>3. ASSUME UNCHANGED model, main # "done", main' # "done" PROVE UNCHANGED <<model, Published>>
    BY <2>3 DEF Published
  <2>4. CASE main = "done"
    <3>1. UNCHANGED <<model, main, result, winner_id>>
      BY <1>2, <2>4, DoneJoined, EndIsFinal
    <3> QED
      BY <3>1 DEF Published
  <2>5. CASE main # "done"
    <3>1. CASE SeeTerminated \/ Cutoff \/ ExternalTerminate \/ AllTerminated \/ (Join /\ main' # "done")
      BY <2>3, <2>5, <3>1 DEF SeeTerminated, Cutoff, ExternalTerminate, AllTerminated, Join, outcome
    <3>2. CASE Done \/ UNCHANGED vars
      BY <2>3, <2>5, <3>2 DEF Done, vars, outcome, mainvars
    <3>3. ASSUME NEW w \in Worker, WorkerStep(w) \/ DrainAtLevelZero(w)
          PROVE  [Abstract!Next]_<<model, Published>>
      BY <2>1, <2>3, <2>5, <3>3, OnlyCopies DEF Abstract!Next
    <3> QED
      BY <1>2, <2>2, <3>1, <3>2, <3>3 DEF Next, MainStep
  <2> QED
    BY <2>4, <2>5
<1> QED
  BY <1>1, <1>2, WinnerCorrect, PTL DEF Spec, ImplementsPortfolio, Abstract!Spec

----------------------------------------------------------------------------
(* What another worker's step leaves alone. *)
Untouched(v) ==
  /\ period'[v] = period[v] /\ stop'[v] = stop[v]
  /\ terminate_period'[v] = terminate_period[v]
  /\ pc'[v] = pc[v] \/ (pc[v] = "wait" /\ pc'[v] = "import")

LEMMA OnlyOwn ==
  ASSUME ThreadTypeOK, NEW w \in Worker, WorkerStep(w) \/ DrainAtLevelZero(w)
  PROVE  /\ \A v \in Worker \ {w} : Untouched(v)
         /\ UNCHANGED <<fate, ext_terminated, main, joined>>
<1>0. ControlTypes /\ CounterTypes
  BY DEF ThreadTypeOK
<1> USE DEF Untouched, mainvars
<1>1. CASE Start(w)
  BY <1>0, <1>1 DEF ControlTypes, CounterTypes, Start, Go
<1>2. CASE NewPeriod(w)
  BY <1>0, <1>2 DEF ControlTypes, CounterTypes, NewPeriod, Go
<1>3. CASE InternalTerminate(w)
  BY <1>0, <1>3 DEF ControlTypes, CounterTypes, InternalTerminate, GoNotify, Notified
<1>4. CASE SelectClauses(w)
  BY <1>0, <1>4 DEF ControlTypes, CounterTypes, SelectClauses, Go
<1>5. CASE IncPeriod(w)
  BY <1>0, <1>5 DEF ControlTypes, CounterTypes, IncPeriod, GoNotify, Notified
<1>6. CASE ImportFrom(w)
  BY <1>0, <1>6 DEF ControlTypes, CounterTypes, ImportFrom, Go
<1>7. CASE ImportDone(w)
  BY <1>0, <1>7 DEF ControlTypes, CounterTypes, ImportDone, Go
<1>8. CASE DrainAtLevelZero(w)
  BY <1>0, <1>8 DEF ControlTypes, CounterTypes, DrainAtLevelZero, Go
<1>9. CASE FreeClause(w)
  BY <1>0, <1>9 DEF ControlTypes, CounterTypes, FreeClause, Go
<1>10. CASE PopFront(w)
  BY <1>0, <1>10 DEF ControlTypes, CounterTypes, PopFront, Go
<1>11. CASE FreeNext(w)
  BY <1>0, <1>11 DEF ControlTypes, CounterTypes, FreeNext, Go
<1>12. CASE Answer(w)
  BY <1>0, <1>12 DEF ControlTypes, CounterTypes, Answer, Go
<1>13. CASE GiveUp(w)
  BY <1>0, <1>13 DEF ControlTypes, CounterTypes, GiveUp, Go
<1>14. CASE RecordResult(w)
  BY <1>0, <1>14 DEF ControlTypes, CounterTypes, RecordResult, GoNotify, Notified
<1>15. CASE UpdateWinner(w)
  BY <1>0, <1>15 DEF ControlTypes, CounterTypes, UpdateWinner, Go
<1>16. CASE CopyModel(w)
  BY <1>0, <1>16 DEF ControlTypes, CounterTypes, CopyModel, Go
<1> QED
  BY <1>1, <1>2, <1>3, <1>4, <1>5, <1>6, <1>7, <1>8, <1>9, <1>10, <1>11, <1>12, <1>13, <1>14, <1>15, <1>16 DEF WorkerStep

(* Only the steps of update_winner and of the two before it are taken by a  *)
(* worker with an answer.                                                   *)
LEMMA Answered ==
  ASSUME NEW w \in Worker, WorkerStep(w) \/ DrainAtLevelZero(w)
  PROVE  /\ pc[w] = "answer" => RecordResult(w)
         /\ pc[w] = "commit" => UpdateWinner(w)
         /\ UpdateWinner(w) \/ UNCHANGED <<winner_period, winner_id>>
<1>1. CASE Start(w)
  BY <1>1 DEF Start, outcome
<1>2. CASE NewPeriod(w)
  BY <1>2 DEF NewPeriod, outcome
<1>3. CASE InternalTerminate(w)
  BY <1>3 DEF InternalTerminate, outcome
<1>4. CASE SelectClauses(w)
  BY <1>4 DEF SelectClauses, outcome
<1>5. CASE IncPeriod(w)
  BY <1>5 DEF IncPeriod, outcome
<1>6. CASE ImportFrom(w)
  BY <1>6 DEF ImportFrom, outcome
<1>7. CASE ImportDone(w)
  BY <1>7 DEF ImportDone, outcome
<1>8. CASE DrainAtLevelZero(w)
  BY <1>8 DEF DrainAtLevelZero, outcome
<1>9. CASE FreeClause(w)
  BY <1>9 DEF FreeClause, outcome
<1>10. CASE PopFront(w)
  BY <1>10 DEF PopFront, outcome
<1>11. CASE FreeNext(w)
  BY <1>11 DEF FreeNext, outcome
<1>12. CASE Answer(w)
  BY <1>12 DEF Answer, outcome
<1>13. CASE GiveUp(w)
  BY <1>13 DEF GiveUp, outcome
<1>14. CASE RecordResult(w)
  BY <1>14 DEF RecordResult, outcome
<1>15. CASE UpdateWinner(w)
  BY <1>15 DEF UpdateWinner, outcome
<1>16. CASE CopyModel(w)
  BY <1>16 DEF CopyModel, outcome
<1> QED
  BY <1>1, <1>2, <1>3, <1>4, <1>5, <1>6, <1>7, <1>8, <1>9, <1>10, <1>11, <1>12, <1>13, <1>14, <1>15, <1>16 DEF WorkerStep

----------------------------------------------------------------------------
(* The race is settled for period p: there is a winner of that period or an *)
(* earlier one, or a worker whose own search has ended there is about to    *)
(* enter itself.                                                            *)
Answering(v, p) == pc[v] \in {"answer", "commit"} /\ period[v] = fate[v] /\ period[v] <= p
Settled(p) == winner_period <= p \/ \E v \in Worker : Answering(v, p)

LEMMA SettledLater ==
  ASSUME ThreadTypeOK, NEW p \in Int, NEW q \in Int, p <= q, Settled(p)
  PROVE  Settled(q)
<1>1. winner_period \in Int /\ \A v \in Worker : period[v] \in Int
  BY PeriodAssumption DEF ThreadTypeOK, CounterTypes, OutcomeTypes, Period
<1> QED
  BY <1>1 DEF Settled, Answering

LEMMA WinnerOnlyEarlier ==
  ASSUME ThreadTypeOK, NEW w \in Worker, UpdateWinner(w)
  PROVE  winner_period' <= winner_period /\ winner_period' <= period[w]
<1>1. winner_period \in Int /\ period[w] \in Int
  BY PeriodAssumption DEF ThreadTypeOK, CounterTypes, OutcomeTypes, Period
<1>2. \/ winner_period' = period[w] /\ Beats(w)
      \/ winner_period' = winner_period /\ ~Beats(w)
  BY DEF UpdateWinner
<1> QED
  BY <1>1, <1>2 DEF Beats

LEMMA SettledStays ==
  ASSUME ThreadTypeOK, NEW w \in Worker, WorkerStep(w) \/ DrainAtLevelZero(w)
  PROVE  \A p \in Int : Settled(p) => Settled(p)'
<1> SUFFICES ASSUME NEW p \in Int, Settled(p) PROVE Settled(p)'
  OBVIOUS
<1>0. /\ winner_period \in Int /\ winner_period' \in Int
      /\ \A v \in Worker : period[v] \in Int
  <2>1. winner_period \in Int /\ \A v \in Worker : period[v] \in Int
    BY PeriodAssumption DEF ThreadTypeOK, CounterTypes, OutcomeTypes, Period
  <2>2. winner_period' \in {winner_period, period[w]}
    BY Answered DEF UpdateWinner
  <2> QED
    BY <2>1, <2>2
<1>1. winner_period' <= winner_period
  BY <1>0, Answered, WinnerOnlyEarlier
<1>2. CASE winner_period <= p
  BY <1>0, <1>1, <1>2 DEF Settled
<1>3. ASSUME NEW v \in Worker, Answering(v, p) PROVE Settled(p)'
  <2>1. CASE v # w
    <3>1. Untouched(v) /\ fate' = fate
      BY <2>1, OnlyOwn
    <3>2. Answering(v, p)'
      BY <1>3, <3>1 DEF Answering, Untouched
    <3> QED
      BY <3>2 DEF Settled
  <2>2. CASE v = w /\ pc[w] = "answer"
    <3>1. pc'[w] = "commit" /\ period' = period /\ fate' = fate
      BY <2>2, Answered DEF RecordResult, GoNotify, ThreadTypeOK, ControlTypes
    <3>2. Answering(v, p)'
      BY <1>3, <2>2, <3>1 DEF Answering
    <3> QED
      BY <3>2 DEF Settled
  <2>3. CASE v = w /\ pc[w] = "commit"
    <3>1. winner_period' <= period[w]
      BY <2>3, Answered, WinnerOnlyEarlier
    <3>2. period[w] <= p
      BY <1>3, <2>3 DEF Answering
    <3>3. winner_period' <= p
      BY <1>0, <3>1, <3>2
    <3> QED
      BY <3>3 DEF Settled
  <2> QED
    BY <1>3, <2>1, <2>2, <2>3 DEF Answering
<1> QED
  BY <1>2, <1>3 DEF Settled

----------------------------------------------------------------------------
(* While no cutoff has come, what each worker knows of the race: it has     *)
(* stopped, or is stopping, only in a period for which the race is settled, *)
(* and it has gone past the end of its own search only if it is settled     *)
(* there.                                                                   *)
NoCutoff == main # "terminate" /\ \A w \in Worker : ~ext_terminated[w]
CutoffLeaves == main = "terminate" => \A w \in Worker : w <= joined => ext_terminated[w]

Ending == {"kill", "answer", "commit"}
Closing == {"select", "inc"}
Standing(w) ==
  /\ terminate_period[w] # Inf =>
       terminate_period[w] <= period[w] /\ Settled(terminate_period[w])
  /\ stop[w] \/ pc[w] \in Ending => Settled(period[w])
  /\ pc[w] \in Closing => period[w] # fate[w] \/ Settled(period[w])
  /\ period[w] > fate[w] => Settled(fate[w])

LEMMA RaceNumbers ==
  ASSUME ThreadTypeOK, NEW w \in Worker
  PROVE  /\ period[w] \in Int /\ period[w] < Inf /\ fate[w] \in Int
         /\ terminate_period[w] \in Int /\ winner_period \in Int /\ Inf \in Int
BY PeriodAssumption DEF ThreadTypeOK, ControlTypes, CounterTypes, OutcomeTypes, Period, Never

LEMMA StandingOthers ==
  ASSUME ThreadTypeOK, NEW w \in Worker, WorkerStep(w) \/ DrainAtLevelZero(w),
         NEW v \in Worker, v # w, Standing(v)
  PROVE  Standing(v)'
<1>1. /\ period'[v] = period[v] /\ stop'[v] = stop[v]
      /\ terminate_period'[v] = terminate_period[v] /\ fate'[v] = fate[v]
      /\ pc'[v] = pc[v] \/ (pc[v] = "wait" /\ pc'[v] = "import")
  BY OnlyOwn DEF Untouched
<1>2. /\ Settled(period[v]) => Settled(period[v])'
      /\ Settled(fate[v]) => Settled(fate[v])'
      /\ Settled(terminate_period[v]) => Settled(terminate_period[v])'
  BY <1>1, SettledStays, RaceNumbers DEF Settled, Answering
<1> QED
  BY <1>1, <1>2 DEF Standing, Ending, Closing

(* A step of w that leaves its period alone and does not stop it. *)
LEMMA StandingQuiet ==
  ASSUME ThreadTypeOK, NEW w \in Worker, WorkerStep(w) \/ DrainAtLevelZero(w), Standing(w),
         period'[w] = period[w], terminate_period'[w] = terminate_period[w],
         stop'[w] => stop[w],
         pc'[w] \in Ending => pc[w] \in Ending \/ Settled(period[w])',
         pc'[w] \in Closing => pc[w] \in Closing \/ period[w] # fate[w] \/ Settled(period[w])
  PROVE  Standing(w)'
<1>1. fate'[w] = fate[w]
  BY OnlyOwn
<1>2. /\ Settled(period[w]) => Settled(period[w])'
      /\ Settled(fate[w]) => Settled(fate[w])'
      /\ Settled(terminate_period[w]) => Settled(terminate_period[w])'
  BY <1>1, SettledStays, RaceNumbers DEF Settled, Answering
<1> QED
  BY <1>1, <1>2 DEF Standing

LEMMA StandingOwn ==
  ASSUME ThreadTypeOK, NEW w \in Worker, WorkerStep(w) \/ DrainAtLevelZero(w),
         \A v \in Worker : Standing(v), NoCutoff
  PROVE  Standing(w)'
<1>0. ControlTypes /\ CounterTypes /\ Standing(w)
  BY DEF ThreadTypeOK
<1>a. fate' = fate
  BY OnlyOwn
<1>b. Settled(period[w]) /\ period'[w] = period[w] => Settled(period[w])'
  BY SettledStays, RaceNumbers DEF Settled, Answering
<1> USE DEF exchange, outcome, mainvars, Ending, Closing
<1>1. CASE Start(w)
  BY <1>0, <1>1, StandingQuiet DEF ControlTypes, CounterTypes, Start, Go
<1>2. CASE SelectClauses(w)
  BY <1>0, <1>2, StandingQuiet DEF ControlTypes, CounterTypes, SelectClauses, Go
<1>3. CASE ImportDone(w)
  BY <1>0, <1>3, StandingQuiet DEF ControlTypes, CounterTypes, ImportDone, Go
<1>4. CASE DrainAtLevelZero(w)
  BY <1>0, <1>4, StandingQuiet DEF ControlTypes, CounterTypes, DrainAtLevelZero, Go
<1>5. CASE FreeClause(w)
  BY <1>0, <1>5, StandingQuiet DEF ControlTypes, CounterTypes, FreeClause, Go
<1>6. CASE PopFront(w)
  BY <1>0, <1>6, StandingQuiet DEF ControlTypes, CounterTypes, PopFront, Go
<1>7. CASE FreeNext(w)
  BY <1>0, <1>7, StandingQuiet DEF ControlTypes, CounterTypes, FreeNext, Go
<1>8. CASE UpdateWinner(w)
  BY <1>0, <1>8, StandingQuiet DEF ControlTypes, CounterTypes, UpdateWinner, Go
<1>9. CASE CopyModel(w)
  BY <1>0, <1>9, StandingQuiet DEF ControlTypes, CounterTypes, CopyModel, Go
<1>10. CASE GiveUp(w)
  BY <1>0, <1>10, StandingQuiet DEF ControlTypes, CounterTypes, GiveUp, Go
<1>11. CASE NewPeriod(w)
  <2>1. /\ UNCHANGED <<period, terminate_period, stop>> /\ pc[w] = "search"
        /\ stop[w] \/ period[w] # fate[w]
        /\ (pc'[w] = "kill" /\ period[w] >= winner_period) \/ pc'[w] = "select"
    BY <1>0, <1>11 DEF ControlTypes, NewPeriod, Go, PastWinner
  <2>2. period[w] >= winner_period => Settled(period[w])
    BY RaceNumbers DEF Settled
  <2>3. stop[w] => Settled(period[w])
    BY <1>0 DEF Standing
  <2> QED
    BY <1>0, <1>b, <2>1, <2>2, <2>3, StandingQuiet
<1>12. CASE ImportFrom(w)
  <2>1. /\ UNCHANGED <<period, terminate_period, stop>> /\ pc[w] = "import" /\ peer[w] \in Worker
        /\ \/ pc'[w] \in {"wait", "import"}
           \/ /\ pc'[w] = "kill"
              /\ ext_terminated[peer[w]] \/ terminate_period[peer[w]] <= Due(w)
    BY <1>0, <1>12 DEF ControlTypes, ImportFrom, Go
  <2>2. ASSUME terminate_period[peer[w]] <= Due(w) PROVE Settled(period[w])
    <3>1. /\ terminate_period[peer[w]] \in Int /\ period[w] \in Int /\ Inf \in Int
          /\ period[w] < Inf
      BY <2>1, RaceNumbers
    <3>2. terminate_period[peer[w]] <= period[w] /\ terminate_period[peer[w]] # Inf
      BY <2>2, <3>1, MarginAssumption DEF Due
    <3>3. Settled(terminate_period[peer[w]])
      BY <2>1, <3>2 DEF Standing
    <3> QED
      BY <3>1, <3>2, <3>3, SettledLater
  <2>3. ~ext_terminated[peer[w]]
    BY <2>1 DEF NoCutoff
  <2> QED
    BY <1>0, <1>b, <2>1, <2>2, <2>3, StandingQuiet
<1>13. CASE Answer(w)
  <2>1. /\ UNCHANGED <<period, terminate_period, stop>>
        /\ stop[w] \/ period[w] = fate[w]
        /\ pc'[w] = "answer"
    BY <1>0, <1>13 DEF ControlTypes, Answer, Go
  <2>2. CASE stop[w]
    <3>1. Settled(period[w])
      BY <1>0, <2>2 DEF Standing
    <3> QED
      BY <1>0, <1>b, <2>1, <3>1, StandingQuiet
  <2>3. CASE period[w] = fate[w]
    <3>1. Answering(w, period[w])'
      BY <1>a, <2>1, <2>3, RaceNumbers DEF Answering
    <3>2. Settled(period[w])'
      BY <3>1 DEF Settled
    <3> QED
      BY <1>0, <2>1, <3>2, StandingQuiet
  <2> QED
    BY <2>1, <2>2, <2>3
<1>14. CASE InternalTerminate(w)
  <2>1. /\ period' = period /\ terminate_period'[w] = period[w] /\ pc[w] = "kill" /\ pc'[w] = "search"
    BY <1>0, <1>14 DEF ControlTypes, CounterTypes, InternalTerminate, GoNotify
  <2>2. Settled(period[w])
    BY <1>0, <2>1 DEF Standing
  <2>3. Settled(period[w])' /\ Settled(terminate_period[w])'
    BY <1>b, <2>1, <2>2 DEF Settled, Answering
  <2>4. Settled(fate[w]) => Settled(fate[w])'
    BY <1>a, SettledStays, RaceNumbers DEF Settled, Answering
  <2> QED
    BY <1>0, <1>a, <2>1, <2>3, <2>4, RaceNumbers DEF Standing
<1>15. CASE RecordResult(w)
  <2>1. /\ period' = period /\ terminate_period'[w] = period[w] /\ pc[w] = "answer" /\ pc'[w] = "commit"
    BY <1>0, <1>15 DEF ControlTypes, CounterTypes, RecordResult, GoNotify
  <2>2. Settled(period[w])
    BY <1>0, <2>1 DEF Standing
  <2>3. Settled(period[w])' /\ Settled(terminate_period[w])'
    BY <1>b, <2>1, <2>2 DEF Settled, Answering
  <2>4. Settled(fate[w]) => Settled(fate[w])'
    BY <1>a, SettledStays, RaceNumbers DEF Settled, Answering
  <2> QED
    BY <1>0, <1>a, <2>1, <2>3, <2>4, RaceNumbers DEF Standing
<1>16. CASE IncPeriod(w)
  <2>1. /\ period'[w] = period[w] + 1 /\ UNCHANGED <<terminate_period, stop>>
        /\ pc[w] = "inc" /\ pc'[w] \in {"search", "import"}
    BY <1>0, <1>16 DEF ControlTypes, CounterTypes, IncPeriod, GoNotify
  <2>2. /\ period[w] \in Int /\ fate[w] \in Int /\ terminate_period[w] \in Int
    BY RaceNumbers
  <2>3. Settled(period[w]) => Settled(period[w])'
    <3>1. PICK q \in Int : q = period[w] + 1
      BY <2>2
    <3>2. Settled(period[w]) => Settled(q)
      BY <2>2, <3>1, SettledLater
    <3>3. Settled(q) => Settled(q)'
      BY SettledStays
    <3> QED
      BY <2>1, <3>1, <3>2, <3>3 DEF Settled, Answering
  <2>4. /\ Settled(fate[w]) => Settled(fate[w])'
        /\ Settled(terminate_period[w]) => Settled(terminate_period[w])'
    BY <1>a, <2>1, <2>2, SettledStays DEF Settled, Answering
  <2>5. period[w] + 1 > fate[w] => Settled(fate[w])
    <3>1. period[w] > fate[w] \/ period[w] = fate[w] \/ period[w] + 1 <= fate[w]
      BY <2>2
    <3> QED
      BY <1>0, <2>1, <2>2, <3>1 DEF Standing
  <2>6. terminate_period[w] <= period[w] => terminate_period[w] <= period[w] + 1
    BY <2>2
  <2> QED
    BY <1>0, <1>a, <2>1, <2>3, <2>4, <2>5, <2>6 DEF Standing
<1> QED
  BY <1>1, <1>2, <1>3, <1>4, <1>5, <1>6, <1>7, <1>8, <1>9, <1>10, <1>11, <1>12, <1>13, <1>14, <1>15, <1>16 DEF WorkerStep

----------------------------------------------------------------------------
(* The winner's period is that of a worker whose own search ended there, or *)
(* such a worker will still enter itself; after an answer there is a result *)
(* or somebody about to record one.                                         *)
WinnerReal == winner_period # Inf =>
                \E v \in Worker : fate[v] = winner_period \/ Answering(v, winner_period)
RaceDecided ==
  /\ terminated => result # 0 \/ \E v \in Worker : pc[v] = "answer"
  /\ main \in {"join", "done"} => terminated
  /\ winner_id # -1 => winner_period # Inf

EarliestInv == CutoffLeaves /\ (NoCutoff => (\A w \in Worker : Standing(w)) /\ WinnerReal /\ RaceDecided)

LEMMA CutoffNext ==
  ASSUME ThreadTypeOK, CutoffLeaves, [Next]_vars
  PROVE  CutoffLeaves' /\ (NoCutoff' => NoCutoff)
<1>0. ControlTypes /\ CounterTypes
  BY DEF ThreadTypeOK
<1>1. ASSUME NEW w \in Worker, WorkerStep(w) \/ DrainAtLevelZero(w)
      PROVE  CutoffLeaves' /\ (NoCutoff' => NoCutoff)
  BY <1>1, OnlyOwn DEF CutoffLeaves, NoCutoff
<1>2. CASE SeeTerminated
  BY <1>2 DEF SeeTerminated, CutoffLeaves, NoCutoff
<1>3. CASE Cutoff
  BY <1>3 DEF Cutoff, CutoffLeaves, NoCutoff, Worker
<1>4. CASE ExternalTerminate
  <2>1. /\ main' = "terminate" /\ joined' = joined + 1 /\ joined \in Int /\ joined + 1 \in Worker
        /\ ext_terminated' = [ext_terminated EXCEPT ![joined + 1] = TRUE] /\ main = "terminate"
    BY <1>0, <1>4 DEF ExternalTerminate, CounterTypes
  <2>2. ASSUME NEW v \in Worker, v <= joined' PROVE ext_terminated'[v]
    <3>1. v <= joined \/ v = joined + 1
      BY <2>1, <2>2 DEF Worker
    <3> QED
      BY <1>0, <2>1, <3>1 DEF CutoffLeaves, ControlTypes
  <2> QED
    BY <2>1, <2>2 DEF CutoffLeaves, NoCutoff
<1>5. CASE AllTerminated
  <2>1. main = "terminate" /\ joined = N /\ main' = "join" /\ ext_terminated' = ext_terminated
    BY <1>5 DEF AllTerminated
  <2>2. ext_terminated[1] /\ 1 \in Worker
    BY <2>1, NAssumption DEF CutoffLeaves, Worker
  <2> QED
    BY <2>1, <2>2 DEF CutoffLeaves, NoCutoff
<1>6. CASE Join
  BY <1>6 DEF Join, CutoffLeaves, NoCutoff
<1>7. CASE UNCHANGED vars
  BY <1>7 DEF vars, mainvars, CutoffLeaves, NoCutoff
<1> QED
  BY <1>1, <1>2, <1>3, <1>4, <1>5, <1>6, <1>7 DEF Next, MainStep, Done

LEMMA WinnerRealNext ==
  ASSUME ThreadTypeOK, NEW w \in Worker, WorkerStep(w) \/ DrainAtLevelZero(w),
         Standing(w), WinnerReal
  PROVE  WinnerReal'
<1>0. /\ winner_period \in Int /\ Inf \in Int /\ fate' = fate
      /\ \A v \in Worker : period[v] \in Int
  BY RaceNumbers, OnlyOwn
<1>1. ASSUME NEW v \in Worker, NEW p \in Int, v # w, Answering(v, p) PROVE Answering(v, p)'
  BY <1>1, OnlyOwn DEF Answering, Untouched
<1>2. CASE ~UpdateWinner(w)
  <2>1. winner_period' = winner_period
    BY <1>2, Answered
  <2> SUFFICES ASSUME winner_period # Inf
               PROVE  \E v \in Worker : fate[v] = winner_period \/ Answering(v, winner_period)'
    BY <1>0, <2>1 DEF WinnerReal
  <2>2. PICK v \in Worker : fate[v] = winner_period \/ Answering(v, winner_period)
    BY DEF WinnerReal
  <2>3. CASE Answering(v, winner_period) /\ v = w
    <3>1. pc[w] = "answer" /\ RecordResult(w)
      BY <1>2, <2>3, Answered DEF Answering
    <3>2. pc'[w] = "commit" /\ period' = period
      BY <3>1 DEF RecordResult, GoNotify, ThreadTypeOK, ControlTypes
    <3> QED
      BY <1>0, <2>1, <2>3, <3>2 DEF Answering
  <2>4. CASE Answering(v, winner_period) /\ v # w
    BY <1>0, <1>1, <2>1, <2>4 DEF Answering
  <2> QED
    BY <2>2, <2>3, <2>4
<1>3. CASE UpdateWinner(w)
  <2>1. /\ period' = period /\ pc[w] = "commit"
        /\ \/ winner_period' = period[w] /\ Beats(w)
           \/ winner_period' = winner_period /\ ~Beats(w)
    BY <1>3 DEF UpdateWinner
  <2>2. CASE winner_period' = period[w] /\ period[w] = fate[w]
    BY <1>0, <2>2 DEF WinnerReal
  <2>3. CASE winner_period' = period[w] /\ period[w] # fate[w] /\ period[w] < winner_period
    <3>1. Settled(period[w])
      BY <2>1 DEF Standing, Ending
    <3>2. PICK v \in Worker : Answering(v, period[w])
      BY <1>0, <2>3, <3>1 DEF Settled
    <3>3. v # w
      BY <2>3, <3>2 DEF Answering
    <3>4. Answering(v, winner_period)'
      BY <1>0, <1>1, <2>1, <2>3, <3>2, <3>3 DEF Answering
    <3> QED
      BY <3>4 DEF WinnerReal
  <2>4. CASE winner_period' = winner_period /\ (period[w] = fate[w] => winner_period <= period[w])
    <3> SUFFICES ASSUME winner_period # Inf
                 PROVE  \E v \in Worker : fate[v] = winner_period \/ Answering(v, winner_period)'
      BY <1>0, <2>4 DEF WinnerReal
    <3>1. PICK v \in Worker : fate[v] = winner_period \/ Answering(v, winner_period)
      BY DEF WinnerReal
    <3>2. CASE Answering(v, winner_period) /\ v = w
      BY <1>0, <2>4, <3>2 DEF Answering
    <3>3. CASE Answering(v, winner_period) /\ v # w
      BY <1>0, <1>1, <2>4, <3>3 DEF Answering
    <3> QED
      BY <3>1, <3>2, <3>3
  <2>5. Beats(w) => period[w] < winner_period \/ period[w] = winner_period
    BY DEF Beats
  <2>6. ~Beats(w) => winner_period <= period[w]
    BY <1>0 DEF Beats
  <2>7. period[w] = winner_period => winner_period <= period[w]
    BY <1>0
  <2> QED
    BY <2>1, <2>2, <2>3, <2>4, <2>5, <2>6, <2>7
<1> QED
  BY <1>2, <1>3

(* terminated and the result change only with an answer. *)
LEMMA OtherSteps ==
  ASSUME NEW w \in Worker, WorkerStep(w) \/ DrainAtLevelZero(w)
  PROVE  Answer(w) \/ RecordResult(w) \/ UNCHANGED <<terminated, result>>
<1>1. CASE Start(w)
  BY <1>1 DEF Start, outcome
<1>2. CASE NewPeriod(w)
  BY <1>2 DEF NewPeriod, outcome
<1>3. CASE InternalTerminate(w)
  BY <1>3 DEF InternalTerminate, outcome
<1>4. CASE SelectClauses(w)
  BY <1>4 DEF SelectClauses, outcome
<1>5. CASE IncPeriod(w)
  BY <1>5 DEF IncPeriod, outcome
<1>6. CASE ImportFrom(w)
  BY <1>6 DEF ImportFrom, outcome
<1>7. CASE ImportDone(w)
  BY <1>7 DEF ImportDone, outcome
<1>8. CASE DrainAtLevelZero(w)
  BY <1>8 DEF DrainAtLevelZero, outcome
<1>9. CASE FreeClause(w)
  BY <1>9 DEF FreeClause, outcome
<1>10. CASE PopFront(w)
  BY <1>10 DEF PopFront, outcome
<1>11. CASE FreeNext(w)
  BY <1>11 DEF FreeNext, outcome
<1>12. CASE GiveUp(w)
  BY <1>12 DEF GiveUp, outcome
<1>13. CASE UpdateWinner(w)
  BY <1>13 DEF UpdateWinner, outcome
<1>14. CASE CopyModel(w)
  BY <1>14 DEF CopyModel, outcome
<1> QED
  BY <1>1, <1>2, <1>3, <1>4, <1>5, <1>6, <1>7, <1>8, <1>9, <1>10, <1>11, <1>12, <1>13, <1>14 DEF WorkerStep

LEMMA RaceDecidedNext ==
  ASSUME ThreadTypeOK, NEW w \in Worker, WorkerStep(w) \/ DrainAtLevelZero(w), RaceDecided
  PROVE  RaceDecided'
<1>0. ControlTypes
  BY DEF ThreadTypeOK
<1>1. terminated' => result' # 0 \/ \E v \in Worker : pc'[v] = "answer"
  <2>1. CASE Answer(w)
    <3>1. pc'[w] = "answer"
      BY <1>0, <2>1 DEF Answer, Go, ControlTypes
    <3> QED
      BY <3>1
  <2>2. CASE RecordResult(w)
    BY <2>2, VerdictAssumption DEF RecordResult
  <2>3. CASE UNCHANGED <<terminated, result>> /\ ~RecordResult(w)
    <3>1. \A v \in Worker : pc[v] = "answer" => pc'[v] = "answer"
      BY <2>3, Answered, OnlyOwn DEF Untouched
    <3> QED
      BY <2>3, <3>1 DEF RaceDecided
  <2> QED
    BY <2>1, <2>2, <2>3, OtherSteps
<1>2. main' \in {"join", "done"} => terminated'
  BY OnlyOwn, OtherSteps DEF RaceDecided, Answer, RecordResult
<1>3. winner_id' # -1 => winner_period' # Inf
  <2>1. period[w] # Inf
    BY RaceNumbers
  <2> QED
    BY <2>1, Answered DEF RaceDecided, UpdateWinner
<1> QED
  BY <1>1, <1>2, <1>3 DEF RaceDecided

LEMMA EarliestNext ==
  ThreadTypeOK /\ EarliestInv /\ [Next]_vars => EarliestInv'
<1> SUFFICES ASSUME ThreadTypeOK, EarliestInv, [Next]_vars, NoCutoff'
             PROVE  ((\A w \in Worker : Standing(w)) /\ WinnerReal /\ RaceDecided)'
  BY CutoffNext DEF EarliestInv
<1>0. NoCutoff /\ (\A w \in Worker : Standing(w)) /\ WinnerReal /\ RaceDecided
  BY CutoffNext DEF EarliestInv
<1>1. ASSUME NEW w \in Worker, WorkerStep(w) \/ DrainAtLevelZero(w)
      PROVE  ((\A v \in Worker : Standing(v)) /\ WinnerReal /\ RaceDecided)'
  <2>1. ASSUME NEW v \in Worker PROVE Standing(v)'
    BY <1>0, <1>1, StandingOwn, StandingOthers
  <2>2. WinnerReal' /\ RaceDecided'
    BY <1>0, <1>1, WinnerRealNext, RaceDecidedNext
  <2> QED
    BY <2>1, <2>2
<1>2. CASE SeeTerminated \/ Join \/ UNCHANGED vars
  <2>1. /\ UNCHANGED <<fate, pc, period, terminate_period, stop, terminated, outcome>>
        /\ main' \in {"join", "done"} => main \in {"join", "done"} \/ terminated
    BY <1>2 DEF SeeTerminated, Join, vars, mainvars
  <2>2. /\ \A w \in Worker : Standing(w)'
        /\ WinnerReal'
    BY <1>0, <2>1 DEF Standing, Ending, Closing, Settled, Answering, WinnerReal, outcome
  <2>3. RaceDecided'
    BY <1>0, <2>1 DEF RaceDecided, outcome
  <2> QED
    BY <2>2, <2>3
<1>3. CASE Cutoff \/ ExternalTerminate
  <2>1. main' = "terminate"
    BY <1>3 DEF Cutoff, ExternalTerminate
  <2> QED
    BY <2>1 DEF NoCutoff
<1>4. CASE AllTerminated
  BY <1>0, <1>4 DEF AllTerminated, NoCutoff
<1> QED
  BY <1>1, <1>2, <1>3, <1>4 DEF Next, MainStep, Done

LEMMA EarliestInit == Init => EarliestInv
<1> SUFFICES ASSUME Init PROVE EarliestInv
  OBVIOUS
<1>1. ASSUME NEW w \in Worker PROVE Standing(w)
  <2>1. /\ period[w] = 0 /\ terminate_period[w] = Inf /\ stop[w] = FALSE /\ pc[w] = "unborn"
        /\ fate[w] \in Period \cup {Never}
    BY DEF Init, Fresh
  <2>2. ~(0 > fate[w])
    BY <2>1, PeriodAssumption DEF Period, Never
  <2> QED
    BY <2>1, <2>2 DEF Standing, Ending, Closing
<1>2. CutoffLeaves /\ WinnerReal /\ RaceDecided
  BY DEF Init, Fresh, CutoffLeaves, WinnerReal, RaceDecided
<1> QED
  BY <1>1, <1>2 DEF EarliestInv

(* For any number of workers and any margin, and whatever the scheduling:   *)
(* without a cutoff the winner's period is the earliest in which the search *)
(* of a worker that ran ends.                                               *)
THEOREM EarliestPeriod == Spec => []EarliestPeriodWins
<1>1. ThreadTypeOK /\ EarliestInv /\ WinnerInv => EarliestPeriodWins
  <2> SUFFICES ASSUME ThreadTypeOK, EarliestInv, WinnerInv, main = "done",
                      \A w \in Worker : ~ext_terminated[w]
               PROVE  /\ result = Verdict /\ winner_id \in Worker
                      /\ \A w \in Worker : Ran(w) => winner_period <= fate[w]
                      /\ \E w \in Worker : winner_period = fate[w]
    BY DEF EarliestPeriodWins
  <2>1. (\A w \in Worker : Standing(w)) /\ WinnerReal /\ RaceDecided
    BY DEF EarliestInv, NoCutoff
  <2>2. ASSUME NEW w \in Worker PROVE pc[w] = "exit"
    BY NAssumption DEF WinnerInv, Worker
  <2>3. ASSUME NEW p, Settled(p) PROVE winner_period <= p
    BY <2>2, <2>3 DEF Settled, Answering
  <2>4. result # 0
    BY <2>1, <2>2 DEF RaceDecided
  <2>5. result = Verdict /\ winner_id # -1 /\ winner_id \in Worker \cup {-1}
    BY <2>2, <2>4 DEF WinnerInv, ThreadTypeOK, OutcomeTypes
  <2>6. \E w \in Worker : winner_period = fate[w]
    BY <2>1, <2>2, <2>5 DEF RaceDecided, WinnerReal, Answering
  <2>7. ASSUME NEW w \in Worker, Ran(w) PROVE winner_period <= fate[w]
    <3>1. terminate_period[w] <= period[w] /\ winner_period <= terminate_period[w]
      BY <2>1, <2>3, <2>7 DEF Ran, Standing
    <3>2. period[w] > fate[w] => winner_period <= fate[w]
      BY <2>1, <2>3 DEF Standing
    <3> QED
      BY <3>1, <3>2, RaceNumbers
  <2> QED
    BY <2>5, <2>6, <2>7
<1>2. ThreadTypeOK /\ EarliestInv /\ [Next]_vars => EarliestInv'
  BY EarliestNext
<1> QED
  BY <1>1, <1>2, EarliestInit, WinnerCorrect, PTL DEF Spec

-------------------------------------------------------------------------------
HIDE DEF Worker, Period, Never

(* s has made the bundles 0 .. Made(s) - 1, of which those from Front(s) on *)
(* are in its queue.                                                        *)
Made(s)  == IF pc[s] = "inc" THEN period[s] + 1 ELSE period[s]
Front(s) == Made(s) - Len(pq[s])

(* Those about to pop a bundle of s. *)
Pending(s) == {w \in Worker : pc[w] = "pop" /\ peer[w] = s}

(* The first period whose bundles w has still to import. *)
NextDue(w) == IF pc[w] \in {"import", "wait"} THEN Due(w) ELSE Due(w) + 1

(* w has given back s's bundle of the period at the head of unfree. *)
GivenBack(w, s) == \/ pc[w] \in {"free", "pop"} /\ s < peer[w]
                   \/ pc[w] = "pop" /\ s = peer[w]

(* w may still ask for, use or give back s's bundle of period n. *)
Listed(w, s, n) == \E i \in DOMAIN unfree[w] : unfree[w][i] = n /\ (i = 1 => ~GivenBack(w, s))
Needs(w, s, n) == \/ Listed(w, s, n)
                  \/ <<s, n>> \in import_clause[w]
                  \/ n >= NextDue(w)

(* Those for whom the bundle of period k counts: they need it or an earlier one. *)
Holders(s, k) == {w \in Worker \ {s} : \E n \in 0 .. k : Needs(w, s, n)}

(* A queue holds the bundles of consecutive periods, up to the last made. *)
QueueInv ==
  \A s \in Worker :
    /\ Front(s) >= 0
    /\ \A i \in DOMAIN pq[s] : pq[s][i].period = Front(s) + i - 1

(* The periods in unfree ascend and are past; clauses are given back after  *)
(* the import queue has been emptied; nobody is a producer for itself.      *)
NotedOK(w) ==
  /\ \A i \in DOMAIN unfree[w] : unfree[w][i] < NextDue(w)
  /\ \A i, j \in DOMAIN unfree[w] : i < j => unfree[w][i] < unfree[w][j]
  /\ pc[w] \in {"free", "pop"} => import_clause[w] = {}
  /\ pc[w] \in {"import", "wait", "free", "pop"} => peer[w] # w

(* What w has noted or taken, its producer has made. *)
ImportedOK(w, s) ==
  /\ \A i \in DOMAIN unfree[w] : unfree[w][i] < period[s]
  /\ pc[w] \in {"import", "wait"} /\ s < peer[w] => Due(w) < period[s]
WaitingOK(w) == \A b \in import_clause[w] : b[1] # w /\ b[2] < period[b[1]]

LocalInv == \A w \in Worker : /\ NotedOK(w) /\ WaitingOK(w)
                              /\ \A s \in Worker \ {w} : ImportedOK(w, s)

(* Even after the pops under way everything that is needed is in the queue. *)
KeptInv ==
  \A s \in Worker :
    /\ Front(s) + Cardinality(Pending(s)) <= Made(s)
    /\ \A w \in Worker \ {s}, n \in Period :
         Needs(w, s, n) => Front(s) + Cardinality(Pending(s)) <= n

(* Every holder is counted.  (More may be: a worker that is stopped in the  *)
(* middle of import_clauses never gives back what it has not noted.)        *)
CountInv ==
  \A s \in Worker : \A i \in DOMAIN pq[s] :
    pq[s][i].refs >= Cardinality(Holders(s, pq[s][i].period))

BundleInv == QueueInv /\ LocalInv /\ KeptInv /\ CountInv

(* While the race is on no period is skipped: what is noted are the last    *)
(* periods imported, and what waits in the import queue is noted or due.    *)
Unbroken(w) ==
  /\ \A i \in DOMAIN unfree[w] : unfree[w][i] = NextDue(w) - Len(unfree[w]) + i - 1
  /\ \A b \in import_clause[w] : b[2] >= NextDue(w) \/ \E i \in DOMAIN unfree[w] : unfree[w][i] = b[2]
  /\ \A s \in Worker \ {w} : NextDue(w) <= period[s]

(* Nor is anything counted twice: the references of a bundle are those who  *)
(* hold it, and one with none is being popped, by one worker, at the front. *)
Exact(s) ==
  /\ \A i \in DOMAIN pq[s] :
       /\ pq[s][i].refs = Cardinality(Holders(s, pq[s][i].period))
       /\ pq[s][i].refs = 0 /\ N > 1 => \E w \in Pending(s) : Head(unfree[w]) = pq[s][i].period
  /\ \A v, w \in Pending(s) : v = w
  /\ \A w \in Pending(s) : Front(s) = Head(unfree[w])

OrderInv == ~terminated => \A w \in Worker : Unbroken(w) /\ Exact(w)

(* What w has imported: everything due, as long as nobody has stopped it. *)
Taken(w) ==
  IF pc[w] \in {"import", "wait"}
  THEN {b \in Bundle : b[1] # w /\ (b[2] < Due(w) \/ (b[2] = Due(w) /\ b[1] < peer[w]))}
  ELSE {b \in Bundle : b[1] # w /\ b[2] <= Due(w)}

Halted == {"kill", "answer", "commit", "copy", "exit"}
ImportsOK(w) == ~stop[w] /\ pc[w] \notin Halted => got[w] = Taken(w)
ImportsInv == \A w \in Worker : ImportsOK(w)

----------------------------------------------------------------------------
(* The loop over producers passes every one but w itself.                   *)
LEMMA LoopSteps ==
  ASSUME NEW w \in Worker, NEW p \in Nat
  PROVE  /\ First(w) # w /\ After(w, p) # w /\ After(w, p) > p
         /\ \A s \in Worker \ {w} : ~(s < First(w)) /\ (s < After(w, p) <=> s <= p)
BY NAssumption DEF Worker, First, After

(* What a step of another thread leaves of v: at most a wakeup. *)
SamePlace(v) == pc'[v] = pc[v] \/ (pc[v] \in {"import", "wait"} /\ pc'[v] \in {"import", "wait"})
Undisturbed(v) ==
  /\ SamePlace(v)
  /\ unfree'[v] = unfree[v] /\ import_clause'[v] = import_clause[v]
  /\ period'[v] = period[v] /\ peer'[v] = peer[v]

(* A step of one worker leaves what the others have, waking some at most.   *)
LEMMA OthersUndisturbed ==
  ASSUME TypeOK, NEW w \in Worker, WorkerStep(w) \/ DrainAtLevelZero(w)
  PROVE  \A v \in Worker \ {w} : Undisturbed(v)
<1>0. ControlTypes /\ CounterTypes /\ ExchangeTypeOK
  BY DEF TypeOK, ThreadTypeOK
<1> USE DEF Undisturbed, SamePlace, exchange, Go, GoNotify, Notified, ControlTypes, CounterTypes, ExchangeTypeOK
<1>1. CASE Start(w)
  BY <1>0, <1>1 DEF Start
<1>2. CASE NewPeriod(w)
  BY <1>0, <1>2 DEF NewPeriod
<1>3. CASE InternalTerminate(w)
  BY <1>0, <1>3 DEF InternalTerminate
<1>4. CASE SelectClauses(w)
  BY <1>0, <1>4 DEF SelectClauses
<1>5. CASE IncPeriod(w)
  BY <1>0, <1>5 DEF IncPeriod
<1>6. CASE ImportFrom(w)
  BY <1>0, <1>6 DEF ImportFrom
<1>7. CASE ImportDone(w)
  BY <1>0, <1>7 DEF ImportDone
<1>8. CASE DrainAtLevelZero(w)
  BY <1>0, <1>8 DEF DrainAtLevelZero
<1>9. CASE FreeClause(w)
  BY <1>0, <1>9 DEF FreeClause
<1>10. CASE PopFront(w)
  BY <1>0, <1>10 DEF PopFront
<1>11. CASE FreeNext(w)
  BY <1>0, <1>11 DEF FreeNext
<1>12. CASE Answer(w)
  BY <1>0, <1>12 DEF Answer
<1>13. CASE GiveUp(w)
  BY <1>0, <1>13 DEF GiveUp
<1>14. CASE RecordResult(w)
  BY <1>0, <1>14 DEF RecordResult
<1>15. CASE UpdateWinner(w)
  BY <1>0, <1>15 DEF UpdateWinner
<1>16. CASE CopyModel(w)
  BY <1>0, <1>16 DEF CopyModel
<1> QED
  BY <1>1, <1>2, <1>3, <1>4, <1>5, <1>6, <1>7, <1>8, <1>9, <1>10, <1>11, <1>12, <1>13, <1>14, <1>15, <1>16 DEF WorkerStep

(* The main thread touches no bundle.                                       *)
LEMMA MainDisturbsNobody ==
  ASSUME TypeOK, MainStep \/ UNCHANGED vars
  PROVE  /\ \A v \in Worker : Undisturbed(v)
         /\ UNCHANGED exchange
<1>0. ControlTypes
  BY DEF TypeOK, ThreadTypeOK
<1> QED
  BY <1>0 DEF MainStep, SeeTerminated, Cutoff, ExternalTerminate, AllTerminated, Join, vars,
     Undisturbed, SamePlace, exchange, GoNotify, Notified, ControlTypes

(* Who is undisturbed needs, has made and is about to pop what he did.      *)
LEMMA SameNeeds ==
  ASSUME NEW v \in Worker, Undisturbed(v)
  PROVE  /\ NextDue(v)' = NextDue(v) /\ Made(v)' = Made(v) /\ Due(v)' = Due(v)
         /\ \A s \in Worker : (GivenBack(v, s)' <=> GivenBack(v, s)) /\ (v \in Pending(s)' <=> v \in Pending(s))
         /\ \A s \in Worker, n \in Int : Needs(v, s, n)' <=> Needs(v, s, n)
<1>1. NextDue(v)' = NextDue(v) /\ Made(v)' = Made(v) /\ Due(v)' = Due(v)
  BY DEF Undisturbed, SamePlace, NextDue, Made, Due
<1>2. \A s \in Worker : (GivenBack(v, s)' <=> GivenBack(v, s)) /\ (v \in Pending(s)' <=> v \in Pending(s))
  BY DEF Undisturbed, SamePlace, GivenBack, Pending
<1>3. \A s \in Worker, n \in Int : Listed(v, s, n)' <=> Listed(v, s, n)
  BY <1>2 DEF Undisturbed, Listed
<1> QED
  BY <1>1, <1>2, <1>3 DEF Needs, Undisturbed

----------------------------------------------------------------------------
Rec == [period : Period, refs : 0 .. N - 1]

(* A bundle that has been made and not popped is where find looks for it. *)
LEMMA InQueue ==
  ASSUME TypeOK, QueueInv, NEW s \in Worker, NEW k \in Int, Front(s) <= k, k < Made(s)
  PROVE  /\ pq[s] # <<>> /\ Found(s, k)
         /\ Slot(s, k) = k - Front(s) + 1 /\ Slot(s, k) \in 1 .. Len(pq[s])
<1>1. pq[s] \in Seq(Rec) /\ period[s] \in Nat
  <2>1. period[s] \in Nat
    BY PeriodAssumption DEF TypeOK, ThreadTypeOK, CounterTypes, Period
  <2>2. pq[s] \in Seq(Rec)
    BY DEF TypeOK, ExchangeTypeOK, Rec
  <2> QED
    BY <2>1, <2>2
<1>2. Len(pq[s]) \in Nat /\ Made(s) \in Nat /\ Front(s) = Made(s) - Len(pq[s])
  BY <1>1 DEF Made, Front
<1>3. Len(pq[s]) > 0 /\ pq[s] # <<>> /\ DOMAIN pq[s] = 1 .. Len(pq[s])
  BY <1>1, <1>2, EmptySeq
<1>4. pq[s][1].period = Front(s)
  BY <1>2, <1>3 DEF QueueInv
<1>5. Slot(s, k) = k - Front(s) + 1 /\ Slot(s, k) \in 1 .. Len(pq[s])
  BY <1>2, <1>4 DEF Slot
<1>6. pq[s][Slot(s, k)].period = k
  BY <1>2, <1>3, <1>5 DEF QueueInv
<1> QED
  BY <1>3, <1>5, <1>6 DEF Found

(* Whoever imports or gives back finds. *)
LEMMA ImportFinds ==
  ASSUME TypeOK, BundleInv, NEW w \in Worker, pc[w] = "import", peer[w] \in Worker,
         ~MustWait(w, peer[w]), ~ext_terminated[peer[w]], terminate_period[peer[w]] > Due(w)
  PROVE  /\ Due(w) \in Period /\ peer[w] # w /\ Due(w) < period[peer[w]]
         /\ Found(peer[w], Due(w))
<1> DEFINE s == peer[w]
<1>1. period[w] \in Period /\ period[s] \in Period /\ period[w] > Margin
  BY DEF TypeOK, ThreadTypeOK, CounterTypes, LocalOK
<1>2. Due(w) \in Period
  BY <1>1, MarginAssumption, PeriodAssumption DEF Due, Period
<1>3. Due(w) < period[s]
  BY <1>1, <1>2, PeriodAssumption DEF MustWait, Period
<1>4. s \in Worker \ {w}
  BY DEF BundleInv, LocalInv, NotedOK
<1>5. Needs(w, s, Due(w))
  BY <1>2, PeriodAssumption DEF Needs, NextDue, Period
<1>6. Cardinality(Pending(s)) \in Nat
  <2>1. IsFiniteSet(Worker)
    BY NAssumption, FS_Interval DEF Worker
  <2> QED
    BY <2>1, FS_Subset, FS_CardinalityType DEF Pending
<1>7. Front(s) <= Due(w)
  <2>1. Front(s) + Cardinality(Pending(s)) <= Due(w)
    BY <1>2, <1>4, <1>5 DEF BundleInv, KeptInv
  <2>2. Front(s) \in Int /\ Due(w) \in Int
    <3>1. Len(pq[s]) \in Nat
      BY DEF TypeOK, ExchangeTypeOK
    <3>2. period[s] \in Nat
      BY <1>1, PeriodAssumption DEF Period
    <3>3. Made(s) \in Nat
      BY <3>2 DEF Made
    <3> QED
      BY <1>2, <3>1, <3>3, PeriodAssumption DEF Front, Period
  <2> QED
    BY <1>6, <2>1, <2>2
<1>8. Due(w) < Made(s) /\ Due(w) \in Int
  BY <1>1, <1>2, <1>3, PeriodAssumption DEF Made, Period
<1>9. Found(s, Due(w))
  BY <1>7, <1>8, InQueue DEF BundleInv
<1> QED
  BY <1>2, <1>3, <1>4, <1>9

(* The types of the derived counters, for the arithmetic below.             *)
LEMMA Numbers ==
  ASSUME TypeOK
  PROVE  /\ \A w \in Worker : /\ period[w] \in Nat /\ Made(w) \in Nat /\ Len(pq[w]) \in Nat
                              /\ Front(w) \in Int /\ Due(w) \in Int /\ NextDue(w) \in Int
                              /\ unfree[w] \in Seq(Nat) /\ peer[w] \in Nat \ {0}
                              /\ pq[w] \in Seq(Rec) /\ DOMAIN pq[w] = 1 .. Len(pq[w])
         /\ \A s \in Worker : IsFiniteSet(Pending(s)) /\ Cardinality(Pending(s)) \in Nat
         /\ \A s \in Worker, k \in Int : /\ IsFiniteSet(Holders(s, k))
                                        /\ Cardinality(Holders(s, k)) \in 0 .. N - 1
<1>1. /\ period \in [Worker -> Nat] /\ unfree \in [Worker -> Seq(Nat)] /\ peer \in [Worker -> Nat \ {0}]
  BY PeriodAssumption DEF TypeOK, ThreadTypeOK, CounterTypes, Period
<1>2. pq \in [Worker -> Seq(Rec)]
  BY DEF TypeOK, ExchangeTypeOK, Rec
<1>3. ASSUME NEW w \in Worker
      PROVE  /\ period[w] \in Nat /\ Made(w) \in Nat /\ Len(pq[w]) \in Nat
             /\ Front(w) \in Int /\ Due(w) \in Int /\ NextDue(w) \in Int
             /\ unfree[w] \in Seq(Nat) /\ peer[w] \in Nat \ {0}
             /\ pq[w] \in Seq(Rec) /\ DOMAIN pq[w] = 1 .. Len(pq[w])
  <2>1. period[w] \in Nat /\ Made(w) \in Nat /\ Due(w) \in Int /\ NextDue(w) \in Int
    BY <1>1, MarginAssumption DEF Made, Due, NextDue
  <2>2. pq[w] \in Seq(Rec) /\ Len(pq[w]) \in Nat /\ DOMAIN pq[w] = 1 .. Len(pq[w])
    BY <1>2
  <2>3. Front(w) \in Int
    BY <2>1, <2>2 DEF Front
  <2> QED
    BY <1>1, <2>1, <2>2, <2>3
<1>4. IsFiniteSet(Worker) /\ Cardinality(Worker) = N
  BY NAssumption, FS_Interval DEF Worker
<1>5. ASSUME NEW s \in Worker PROVE IsFiniteSet(Pending(s)) /\ Cardinality(Pending(s)) \in Nat
  BY <1>4, FS_Subset, FS_CardinalityType DEF Pending
<1>6. ASSUME NEW s \in Worker, NEW k \in Int
      PROVE  IsFiniteSet(Holders(s, k)) /\ Cardinality(Holders(s, k)) \in 0 .. N - 1
  <2>1. IsFiniteSet(Worker \ {s}) /\ Cardinality(Worker \ {s}) = N - 1
    BY <1>4, FS_RemoveElement
  <2>2. Holders(s, k) \in SUBSET (Worker \ {s})
    BY DEF Holders
  <2>3. IsFiniteSet(Holders(s, k)) /\ Cardinality(Holders(s, k)) <= N - 1
    BY <2>1, <2>2, FS_Subset
  <2> QED
    BY <2>3, FS_CardinalityType, NAssumption
<1> QED
  BY <1>3, <1>5, <1>6

(* What w is about to give back is in the queue.                            *)
LEMMA FreeFinds ==
  ASSUME TypeOK, BundleInv, NEW w \in Worker, pc[w] = "free", peer[w] \in Worker
  PROVE  LET s == peer[w] k == Head(unfree[w]) IN
         /\ s # w /\ k = unfree[w][1] /\ k \in Period /\ k < period[s] /\ k < NextDue(w)
         /\ Front(s) + Cardinality(Pending(s)) <= k
         /\ Front(s) <= k /\ k < Made(s) /\ Found(s, k)
<1> DEFINE s == peer[w]
           k == Head(unfree[w])
<1>1. unfree[w] \in Seq(Nat) /\ unfree[w] # <<>>
  BY Numbers DEF TypeOK, ThreadTypeOK, LocalOK
<1>2. k = unfree[w][1] /\ k \in Nat /\ 1 \in DOMAIN unfree[w]
  BY <1>1, HeadTailProperties, EmptySeq
<1>3. s \in Worker \ {w}
  BY DEF BundleInv, LocalInv, NotedOK
<1>4. k < period[s] /\ k < NextDue(w)
  BY <1>2, <1>3 DEF BundleInv, LocalInv, ImportedOK, NotedOK
<1>5. k \in Period /\ k < Made(s)
  <2>1. period[s] \in Period
    BY DEF TypeOK, ThreadTypeOK, CounterTypes
  <2> QED
    BY <1>2, <1>4, <2>1, PeriodAssumption DEF Period, Made
<1>6. Needs(w, s, k)
  <2>1. ~GivenBack(w, s)
    <3>1. peer[w] \in Nat
      BY Numbers
    <3> QED
      BY <3>1 DEF GivenBack
  <2> QED
    BY <1>2, <2>1 DEF Needs, Listed
<1>7. Front(s) + Cardinality(Pending(s)) <= k
  BY <1>3, <1>5, <1>6 DEF BundleInv, KeptInv
<1>8. Front(s) <= k /\ k \in Int
  <2>1. Front(s) \in Int /\ Cardinality(Pending(s)) \in Nat
    BY <1>3, Numbers
  <2> QED
    BY <1>2, <1>7, <2>1
<1>9. Found(s, k)
  BY <1>5, <1>8, InQueue DEF BundleInv
<1> QED
  BY <1>2, <1>3, <1>4, <1>5, <1>7, <1>8, <1>9

----------------------------------------------------------------------------
(* The steps by their effect on the exchange. *)
Aside == WorkerPc \ {"inc", "import", "wait", "free", "pop"}

RestStep(w) == \/ Start(w) \/ NewPeriod(w) \/ InternalTerminate(w) \/ Answer(w) \/ GiveUp(w)
               \/ RecordResult(w) \/ UpdateWinner(w) \/ CopyModel(w)

(* The steps around the search and the end of it leave the exchange alone.  *)
LEMMA RestEffect ==
  ASSUME TypeOK, NEW w \in Worker, RestStep(w)
  PROVE  UNCHANGED <<exchange, period, peer>> /\ pc[w] \in Aside /\ pc'[w] \in Aside
<1>0. ControlTypes /\ CounterTypes
  BY DEF TypeOK, ThreadTypeOK
<1> USE DEF Aside, WorkerPc, Go, GoNotify, ControlTypes, exchange
<1>1. CASE Start(w)
  BY <1>0, <1>1 DEF Start
<1>2. CASE NewPeriod(w)
  BY <1>0, <1>2 DEF NewPeriod
<1>3. CASE InternalTerminate(w)
  BY <1>0, <1>3 DEF InternalTerminate
<1>4. CASE Answer(w)
  BY <1>0, <1>4 DEF Answer
<1>5. CASE GiveUp(w)
  BY <1>0, <1>5 DEF GiveUp
<1>6. CASE RecordResult(w)
  BY <1>0, <1>6 DEF RecordResult
<1>7. CASE UpdateWinner(w)
  BY <1>0, <1>7 DEF UpdateWinner
<1>8. CASE CopyModel(w)
  BY <1>0, <1>8 DEF CopyModel
<1> QED
  BY <1>1, <1>2, <1>3, <1>4, <1>5, <1>6, <1>7, <1>8 DEF RestStep

TakeBundle(w) ==
  LET s == peer[w] k == Due(w) IN
  /\ pc[w] = "import" /\ pc' = pc
  /\ s \in Worker \ {w} /\ k \in Period /\ k < period[s]
  /\ import_clause' = [import_clause EXCEPT ![w] = @ \cup {<<s, k>>}]
  /\ got' = [got EXCEPT ![w] = @ \cup {<<s, k>>}]
  /\ peer' = [peer EXCEPT ![w] = After(w, s)]
  /\ UNCHANGED <<pq, unfree, period>>

(* A round of import_clauses waits, gives up, or takes the bundle due.      *)
LEMMA ImportEffect ==
  ASSUME TypeOK, BundleInv, NEW w \in Worker, ImportFrom(w)
  PROVE  \/ pc'[w] = "wait" /\ UNCHANGED <<exchange, peer, period>> /\ Undisturbed(w)
         \/ pc'[w] = "kill" /\ pc[w] = "import" /\ UNCHANGED <<exchange, peer, period>>
         \/ TakeBundle(w)
<1>0. ControlTypes /\ peer[w] \in Worker
  BY DEF TypeOK, ThreadTypeOK, ImportFrom
<1>1. CASE MustWait(w, peer[w])
  BY <1>0, <1>1 DEF ImportFrom, Go, ControlTypes, Undisturbed, SamePlace, exchange
<1>2. CASE ~MustWait(w, peer[w]) /\ (ext_terminated[peer[w]] \/ terminate_period[peer[w]] <= Due(w))
  <2>1. ~(~ext_terminated[peer[w]] /\ terminate_period[peer[w]] > Due(w))
    <3>1. terminate_period[peer[w]] \in Int /\ Due(w) \in Int
      BY <1>0, Numbers, PeriodAssumption DEF TypeOK, ThreadTypeOK, CounterTypes, Period
    <3> QED
      BY <1>2, <3>1
  <2> QED
    BY <1>0, <1>2, <2>1 DEF ImportFrom, Go, ControlTypes, exchange
<1>3. CASE ~MustWait(w, peer[w]) /\ ~(ext_terminated[peer[w]] \/ terminate_period[peer[w]] <= Due(w))
  <2>1. /\ pc[w] = "import" /\ ~ext_terminated[peer[w]] /\ terminate_period[peer[w]] > Due(w)
        /\ LET s == peer[w] b == <<s, pq[s][Slot(s, Due(w))].period>> IN
           /\ import_clause' = [import_clause EXCEPT ![w] = @ \cup {b}]
           /\ got' = [got EXCEPT ![w] = @ \cup {b}]
        /\ peer' = [peer EXCEPT ![w] = After(w, peer[w])]
        /\ UNCHANGED <<pc, pq, unfree, period>>
    BY <1>3 DEF ImportFrom
  <2>2. /\ Due(w) \in Period /\ peer[w] # w /\ Due(w) < period[peer[w]]
        /\ pq[peer[w]][Slot(peer[w], Due(w))].period = Due(w)
    BY <1>0, <1>3, <2>1, ImportFinds DEF Found
  <2> QED
    BY <1>0, <2>1, <2>2 DEF TakeBundle
<1> QED
  BY <1>1, <1>2, <1>3

(* No worker goes back to an earlier period.                                *)
LEMMA PeriodsGrow ==
  ASSUME TypeOK, [Next]_vars
  PROVE  \A s \in Worker : period[s] \in Nat /\ period'[s] \in Nat /\ period'[s] >= period[s]
<1>1. period \in [Worker -> Nat]
  BY PeriodAssumption DEF TypeOK, ThreadTypeOK, CounterTypes, Period
<1>2. CASE \E w \in Worker : IncPeriod(w)
  BY <1>1, <1>2 DEF IncPeriod
<1>3. CASE ~(\E w \in Worker : IncPeriod(w))
  <2>1. ASSUME NEW w \in Worker, WorkerStep(w) \/ DrainAtLevelZero(w) PROVE period' = period
    BY <1>3, <2>1 DEF WorkerStep, Start, NewPeriod, InternalTerminate, SelectClauses, ImportFrom, ImportDone,
       DrainAtLevelZero, FreeClause, PopFront, FreeNext, Answer, GiveUp, RecordResult, UpdateWinner, CopyModel
  <2>2. ASSUME MainStep \/ UNCHANGED vars PROVE period' = period
    BY <2>2 DEF MainStep, SeeTerminated, Cutoff, ExternalTerminate, AllTerminated, Join, vars
  <2>3. period' = period
    BY <1>3, <2>1, <2>2 DEF Next, Done
  <2> QED
    BY <1>1, <2>3
<1> QED
  BY <1>2, <1>3

----------------------------------------------------------------------------
(* What w knows of its own lists. *)
Local(w) == NotedOK(w) /\ WaitingOK(w) /\ \A s \in Worker \ {w} : ImportedOK(w, s)

(* The local part of the invariant: first for those who do not move.        *)
LEMMA LocalOthers ==
  ASSUME TypeOK, LocalInv, [Next]_vars, NEW v \in Worker, Undisturbed(v)
  PROVE  Local(v)'
<1>1. NotedOK(v) /\ WaitingOK(v) /\ \A s \in Worker \ {v} : ImportedOK(v, s)
  BY DEF LocalInv
<1>2. /\ NextDue(v)' = NextDue(v) /\ Due(v)' = Due(v)
      /\ unfree'[v] = unfree[v] /\ import_clause'[v] = import_clause[v] /\ peer'[v] = peer[v]
  BY SameNeeds DEF Undisturbed
<1>3. \A s \in Worker : period[s] \in Nat /\ period'[s] \in Nat /\ period'[s] >= period[s]
  BY PeriodsGrow
<1>4. NotedOK(v)'
  BY <1>1, <1>2 DEF NotedOK, Undisturbed, SamePlace
<1>5. import_clause[v] \subseteq Worker \X Period
  BY DEF TypeOK, ExchangeTypeOK, Bundle
<1>6. WaitingOK(v)'
  <2> SUFFICES ASSUME NEW b \in import_clause[v] PROVE b[1] # v /\ b[2] < period'[b[1]]
    BY <1>2 DEF WaitingOK
  <2>1. b[1] \in Worker /\ b[2] \in Nat
    BY <1>5, PeriodAssumption DEF Period
  <2> QED
    BY <1>1, <1>3, <2>1 DEF WaitingOK
<1>7. ASSUME NEW s \in Worker \ {v} PROVE ImportedOK(v, s)'
  <2>1. \A i \in DOMAIN unfree[v] : unfree[v][i] \in Nat
    <3>1. unfree[v] \in Seq(Nat)
      BY Numbers
    <3> QED
      BY <3>1
  <2>2. \A i \in DOMAIN unfree[v] : unfree[v][i] < period'[s]
    BY <1>1, <1>3, <2>1 DEF ImportedOK
  <2>3. Due(v) \in Int
    BY Numbers
  <2>4. pc'[v] \in {"import", "wait"} /\ s < peer[v] => Due(v) < period'[s]
    BY <1>1, <1>3, <2>3 DEF ImportedOK, Undisturbed, SamePlace
  <2> QED
    BY <1>2, <2>2, <2>4 DEF ImportedOK
<1> QED
  BY <1>4, <1>6, <1>7 DEF Local

(* Rests, and the import that is broken off. *)
LEMMA LocalAside ==
  ASSUME TypeOK, LocalInv, NEW w \in Worker, pc'[w] \in Aside, pc[w] \in Aside \cup {"import"},
         period' = period, unfree' = unfree, import_clause' = import_clause
  PROVE  Local(w)'
<1>1. NextDue(w)' >= NextDue(w) /\ NextDue(w)' \in Int /\ NextDue(w) \in Int
  <2>1. Due(w)' = Due(w) /\ Due(w) \in Int
    BY Numbers DEF Due
  <2> QED
    BY <2>1 DEF NextDue, Aside
<1>2. \A i \in DOMAIN unfree[w] : unfree[w][i] \in Nat
  BY Numbers
<1>3. NotedOK(w)'
  BY <1>1, <1>2 DEF NotedOK, LocalInv, Aside
<1>4. WaitingOK(w)' /\ \A s \in Worker \ {w} : ImportedOK(w, s)'
  BY DEF WaitingOK, ImportedOK, LocalInv, Aside
<1> QED
  BY <1>3, <1>4 DEF Local

(* w takes a bundle: it waits in the import queue of w.                     *)
LEMMA LocalTake ==
  ASSUME TypeOK, LocalInv, NEW w \in Worker, TakeBundle(w)
  PROVE  Local(w)'
<1> DEFINE s == peer[w]
<1>0. peer \in [Worker -> Nat \ {0}] /\ import_clause \in [Worker -> SUBSET Bundle]
  BY DEF TypeOK, ThreadTypeOK, CounterTypes, ExchangeTypeOK
<1>1. /\ NextDue(w)' = NextDue(w) /\ Due(w)' = Due(w)
      /\ unfree' = unfree /\ pc' = pc /\ period' = period
      /\ s \in Worker \ {w} /\ Due(w) < period[s]
      /\ peer'[w] = After(w, s) /\ import_clause'[w] = import_clause[w] \cup {<<s, Due(w)>>}
  BY <1>0 DEF TakeBundle, NextDue, Due
<1>2. s \in Nat /\ pc[w] = "import"
  BY <1>0 DEF TakeBundle
<1>3. After(w, s) # w /\ \A t \in Worker \ {w} : t < After(w, s) => t <= s
  BY <1>2, LoopSteps
<1>4. NotedOK(w)'
  BY <1>1, <1>2, <1>3 DEF NotedOK, LocalInv
<1>5. WaitingOK(w)'
  BY <1>1 DEF WaitingOK, LocalInv
<1>6. ASSUME NEW t \in Worker \ {w} PROVE ImportedOK(w, t)'
  <2>1. ImportedOK(w, t)
    BY DEF LocalInv
  <2>2. t < After(w, s) => t < s \/ t = s
    BY <1>2, <1>3, NAssumption DEF Worker
  <2> QED
    BY <1>1, <1>2, <2>1, <2>2 DEF ImportedOK
<1> QED
  BY <1>4, <1>5, <1>6 DEF Local

(* w ends its loop over the producers and notes the period.                 *)
LEMMA LocalDone ==
  ASSUME TypeOK, LocalInv, NEW w \in Worker, ImportDone(w)
  PROVE  Local(w)'
<1>0. pc \in [Worker -> WorkerPc] /\ unfree \in [Worker -> Seq(Nat)]
  BY DEF TypeOK, ThreadTypeOK, ControlTypes, CounterTypes
<1>1. /\ unfree'[w] = Append(unfree[w], Due(w)) /\ pc[w] = "import" /\ pc'[w] = "search"
      /\ UNCHANGED <<period, import_clause, peer>> /\ peer[w] \notin Worker
  BY <1>0 DEF ImportDone, Noted, Go
<1>2. Due(w) \in Nat
  BY <1>1, MarginAssumption, PeriodAssumption DEF TypeOK, ThreadTypeOK, CounterTypes, LocalOK, Due, Period
<1>3. NextDue(w)' = Due(w) + 1 /\ NextDue(w) = Due(w)
  BY <1>1 DEF NextDue, Due
<1> DEFINE u == unfree[w]
<1>4. /\ u \in Seq(Nat) /\ Len(u) \in Nat /\ DOMAIN u = 1 .. Len(u)
      /\ DOMAIN unfree'[w] = 1 .. Len(u) + 1
      /\ \A i \in 1 .. Len(u) : unfree'[w][i] = u[i] /\ u[i] \in Nat
      /\ unfree'[w][Len(u) + 1] = Due(w)
  BY <1>0, <1>1, <1>2, AppendProperties
<1>5. \A i \in 1 .. Len(u) : u[i] < Due(w)
  BY <1>3, <1>4 DEF LocalInv, NotedOK
<1>6. NotedOK(w)'
  <2>1. ASSUME NEW i \in DOMAIN unfree'[w] PROVE unfree'[w][i] < NextDue(w)'
    <3>1. CASE i \in 1 .. Len(u)
      BY <1>2, <1>3, <1>4, <1>5, <3>1
    <3>2. CASE i = Len(u) + 1
      BY <1>2, <1>3, <1>4, <3>2
    <3> QED
      BY <1>4, <3>1, <3>2
  <2>2. ASSUME NEW i \in DOMAIN unfree'[w], NEW j \in DOMAIN unfree'[w], i < j
        PROVE  unfree'[w][i] < unfree'[w][j]
    <3>1. i \in 1 .. Len(u) /\ unfree'[w][i] = u[i]
      BY <1>4, <2>2
    <3>2. CASE j \in 1 .. Len(u)
      BY <1>4, <2>2, <3>1, <3>2 DEF LocalInv, NotedOK
    <3>3. CASE j = Len(u) + 1
      BY <1>4, <1>5, <3>1, <3>3
    <3> QED
      BY <1>4, <3>2, <3>3
  <2> QED
    BY <1>1, <2>1, <2>2 DEF NotedOK
<1>7. WaitingOK(w)'
  BY <1>1 DEF WaitingOK, LocalInv
<1>8. ASSUME NEW s \in Worker \ {w} PROVE ImportedOK(w, s)'
  <2>1. s < peer[w]
    <3>1. peer[w] \in Nat \ {0}
      BY Numbers
    <3> QED
      BY <1>1, <3>1, NAssumption DEF Worker
  <2>2. Due(w) < period[s] /\ \A i \in 1 .. Len(u) : u[i] < period[s]
    BY <1>1, <1>4, <2>1 DEF LocalInv, ImportedOK
  <2>3. \A i \in DOMAIN unfree'[w] : unfree'[w][i] < period[s]
    BY <1>4, <2>2, SMTT(30)
  <2> QED
    BY <1>1, <2>3 DEF ImportedOK
<1> QED
  BY <1>6, <1>7, <1>8 DEF Local

(* w begins a period.                                                       *)
LEMMA LocalInc ==
  ASSUME TypeOK, LocalInv, [Next]_vars, NEW w \in Worker, IncPeriod(w)
  PROVE  Local(w)'
<1>0. pc \in [Worker -> WorkerPc] /\ period \in [Worker -> Period] /\ peer \in [Worker -> Nat \ {0}]
  BY DEF TypeOK, ThreadTypeOK, ControlTypes, CounterTypes
<1>1. /\ pc[w] = "inc" /\ pc'[w] \in {"search", "import"} /\ period'[w] = period[w] + 1
      /\ peer'[w] = First(w) /\ UNCHANGED <<unfree, import_clause>>
  BY <1>0 DEF IncPeriod, GoNotify, exchange
<1>2. First(w) # w /\ \A s \in Worker \ {w} : ~(s < First(w))
  BY LoopSteps
<1>3. NextDue(w)' >= NextDue(w) /\ NextDue(w) \in Int /\ NextDue(w)' \in Int
  <2>0. period[w] \in Nat
    BY Numbers
  <2>1. Due(w)' = Due(w) + 1 /\ Due(w) \in Int
    BY <1>1, <2>0, MarginAssumption DEF Due
  <2> QED
    BY <1>1, <2>1 DEF NextDue
<1>4. \A i \in DOMAIN unfree[w] : unfree[w][i] \in Nat
  <2>1. unfree[w] \in Seq(Nat)
    BY Numbers
  <2> QED
    BY <2>1
<1>5. NotedOK(w)'
  BY <1>1, <1>2, <1>3, <1>4 DEF NotedOK, LocalInv
<1>6. \A s \in Worker : period[s] \in Nat /\ period'[s] \in Nat /\ period'[s] >= period[s]
  BY PeriodsGrow
<1>7. WaitingOK(w)'
  <2> SUFFICES ASSUME NEW b \in import_clause[w] PROVE b[1] # w /\ b[2] < period'[b[1]]
    BY <1>1 DEF WaitingOK
  <2>1. b[1] \in Worker /\ b[2] \in Nat
    BY PeriodAssumption DEF Period, TypeOK, ExchangeTypeOK, Bundle
  <2> QED
    BY <1>6, <2>1 DEF WaitingOK, LocalInv
<1>8. ASSUME NEW s \in Worker \ {w} PROVE ImportedOK(w, s)'
  BY <1>1, <1>2, <1>4, <1>6 DEF ImportedOK, LocalInv
<1> QED
  BY <1>5, <1>7, <1>8 DEF Local

(* Steps of the loop over unfree. *)
LEMMA LocalFree ==
  ASSUME TypeOK, LocalInv, NEW w \in Worker, FreeClause(w) \/ PopFront(w)
  PROVE  Local(w)'
<1>0. pc \in [Worker -> WorkerPc] /\ peer \in [Worker -> Nat \ {0}]
  BY DEF TypeOK, ThreadTypeOK, ControlTypes, CounterTypes
<1>1. /\ pc[w] \in {"free", "pop"} /\ pc'[w] \in {"free", "pop"}
      /\ UNCHANGED <<unfree, import_clause, period>> /\ peer'[w] \in {peer[w], After(w, peer[w])}
  BY <1>0 DEF FreeClause, PopFront, Go
<1>2. After(w, peer[w]) # w
  BY <1>0, LoopSteps
<1>3. NextDue(w)' = NextDue(w)
  BY <1>1 DEF NextDue, Due
<1>4. NotedOK(w)'
  BY <1>1, <1>2, <1>3 DEF NotedOK, LocalInv
<1>5. WaitingOK(w)' /\ \A s \in Worker \ {w} : ImportedOK(w, s)'
  BY <1>1 DEF WaitingOK, ImportedOK, LocalInv
<1> QED
  BY <1>4, <1>5 DEF Local

(* w makes a bundle.                                                        *)
LEMMA LocalSelect ==
  ASSUME TypeOK, LocalInv, NEW w \in Worker, SelectClauses(w)
  PROVE  Local(w)'
<1>1. /\ pc[w] = "select" /\ pc'[w] = "inc" /\ UNCHANGED <<unfree, import_clause, period, peer>>
  BY DEF SelectClauses, Go, TypeOK, ThreadTypeOK, ControlTypes
<1>2. NextDue(w)' = NextDue(w)
  BY <1>1 DEF NextDue, Due
<1> QED
  BY <1>1, <1>2 DEF Local, NotedOK, WaitingOK, ImportedOK, LocalInv

(* w empties its import queue.                                              *)
LEMMA LocalDrain ==
  ASSUME TypeOK, LocalInv, NEW w \in Worker, DrainAtLevelZero(w)
  PROVE  Local(w)'
<1>0. pc \in [Worker -> WorkerPc] /\ peer \in [Worker -> Nat \ {0}] /\ import_clause \in [Worker -> SUBSET Bundle]
  BY DEF TypeOK, ThreadTypeOK, ControlTypes, CounterTypes, ExchangeTypeOK
<1>1. /\ pc[w] = "search" /\ pc'[w] \in {"search", "free"} /\ UNCHANGED <<unfree, period>>
      /\ import_clause'[w] = {} /\ peer'[w] = First(w)
  BY <1>0 DEF DrainAtLevelZero, Go, Left
<1>2. NextDue(w)' = NextDue(w) /\ First(w) # w
  BY <1>1, LoopSteps DEF NextDue, Due
<1> QED
  BY <1>1, <1>2 DEF Local, NotedOK, WaitingOK, ImportedOK, LocalInv

(* The head of unfree is done with. *)
LEMMA TailOf ==
  ASSUME NEW q \in Seq(Nat), q # <<>>
  PROVE  /\ Tail(q) \in Seq(Nat) /\ Len(q) \in Nat \ {0} /\ Len(Tail(q)) = Len(q) - 1
         /\ DOMAIN q = 1 .. Len(q) /\ DOMAIN Tail(q) = 1 .. Len(q) - 1
         /\ Head(q) = q[1] /\ \A i \in 1 .. Len(q) - 1 : Tail(q)[i] = q[i + 1]
<1>1. Len(q) \in Nat /\ Len(q) # 0 /\ DOMAIN q = 1 .. Len(q)
  BY EmptySeq
<1> QED
  BY <1>1, HeadTailProperties

(* w goes on to the next period in unfree.                                  *)
LEMMA LocalFreeNext ==
  ASSUME TypeOK, LocalInv, NEW w \in Worker, FreeNext(w)
  PROVE  Local(w)'
<1>0. pc \in [Worker -> WorkerPc] /\ peer \in [Worker -> Nat \ {0}] /\ unfree \in [Worker -> Seq(Nat)]
  BY DEF TypeOK, ThreadTypeOK, ControlTypes, CounterTypes
<1>1. /\ pc[w] = "free" /\ pc'[w] \in {"search", "free"} /\ UNCHANGED <<import_clause, period>>
      /\ unfree'[w] = Tail(unfree[w]) /\ peer'[w] = First(w) /\ unfree[w] # <<>>
  BY <1>0 DEF FreeNext, Go, TypeOK, ThreadTypeOK, LocalOK
<1> DEFINE u == unfree[w]
<1>2. /\ Len(u) \in Nat /\ DOMAIN u = 1 .. Len(u) /\ DOMAIN unfree'[w] = 1 .. Len(u) - 1
      /\ \A i \in 1 .. Len(u) - 1 : unfree'[w][i] = u[i + 1]
  BY <1>0, <1>1, TailOf
<1>3. NextDue(w)' = NextDue(w) /\ First(w) # w
  BY <1>1, LoopSteps DEF NextDue, Due
<1>4. NotedOK(w)'
  BY <1>1, <1>2, <1>3 DEF NotedOK, LocalInv
<1>5. WaitingOK(w)' /\ \A s \in Worker \ {w} : ImportedOK(w, s)'
  BY <1>1, <1>2 DEF WaitingOK, ImportedOK, LocalInv
<1> QED
  BY <1>4, <1>5 DEF Local

(* Together: every step keeps the local part.                               *)
LEMMA LocalNext ==
  ASSUME TypeOK, BundleInv, [Next]_vars
  PROVE  LocalInv'
<1>0. LocalInv
  BY DEF BundleInv
<1>1. ASSUME NEW w \in Worker, WorkerStep(w) \/ DrainAtLevelZero(w) PROVE LocalInv'
  <2>1. Local(w)'
    <3>1. CASE RestStep(w)
      BY <1>0, <3>1, RestEffect, LocalAside DEF exchange
    <3>2. CASE ImportFrom(w)
      BY <1>0, <3>2, ImportEffect, LocalOthers, LocalAside, LocalTake DEF exchange, Aside, WorkerPc
    <3>3. CASE ~RestStep(w) /\ ~ImportFrom(w)
      BY <1>0, <1>1, <3>3, LocalDone, LocalInc, LocalFree, LocalSelect, LocalDrain, LocalFreeNext
         DEF WorkerStep, RestStep
    <3> QED
      BY <3>1, <3>2, <3>3
  <2>2. \A v \in Worker \ {w} : Local(v)'
    BY <1>0, <1>1, OthersUndisturbed, LocalOthers
  <2> QED
    BY <2>1, <2>2 DEF LocalInv, Local
<1>2. CASE MainStep \/ UNCHANGED vars
  BY <1>0, <1>2, MainDisturbsNobody, LocalOthers DEF LocalInv, Local
<1> QED
  BY <1>1, <1>2 DEF Next, Done

----------------------------------------------------------------------------
(* What a step of w changes of what w needs: nothing, but for the places    *)
(* named below.                                                             *)
NeedsAlike(w) == \A s \in Worker \ {w}, n \in Period : Needs(w, s, n)' <=> Needs(w, s, n)
NeedsLess(w)  == \A s \in Worker \ {w}, n \in Period : Needs(w, s, n)' => Needs(w, s, n)

(* Around the search nothing changes; giving up an import needs less.       *)
LEMMA NeedsAside ==
  ASSUME TypeOK, NEW w \in Worker, pc'[w] \in Aside, pc[w] \in Aside \cup {"import"},
         period' = period, unfree' = unfree, import_clause' = import_clause
  PROVE  NeedsLess(w) /\ (pc[w] \in Aside => NeedsAlike(w))
<1>1. /\ NextDue(w)' >= NextDue(w) /\ NextDue(w)' \in Int /\ NextDue(w) \in Int
      /\ pc[w] \in Aside => NextDue(w)' = NextDue(w)
  <2>1. Due(w)' = Due(w) /\ Due(w) \in Int
    BY Numbers DEF Due
  <2> QED
    BY <2>1 DEF NextDue, Aside
<1>2. \A s \in Worker : ~GivenBack(w, s) /\ ~GivenBack(w, s)'
  BY DEF GivenBack, Aside
<1>3. \A s \in Worker, n \in Period : Listed(w, s, n)' <=> Listed(w, s, n)
  BY <1>2 DEF Listed
<1> QED
  BY <1>1, <1>3, PeriodAssumption DEF NeedsLess, NeedsAlike, Needs, Period

(* A bundle taken was due.                                                  *)
LEMMA NeedsTake ==
  ASSUME TypeOK, NEW w \in Worker, TakeBundle(w)
  PROVE  NeedsAlike(w)
<1>0. import_clause \in [Worker -> SUBSET Bundle]
  BY DEF TypeOK, ExchangeTypeOK
<1>1. /\ NextDue(w)' = NextDue(w) /\ NextDue(w) = Due(w) /\ Due(w) \in Int
      /\ unfree' = unfree /\ pc' = pc /\ pc[w] = "import"
      /\ import_clause'[w] = import_clause[w] \cup {<<peer[w], Due(w)>>}
  BY <1>0, Numbers DEF TakeBundle, NextDue, Due
<1>2. \A s \in Worker, n \in Period : Listed(w, s, n)' <=> Listed(w, s, n)
  BY <1>1 DEF Listed, GivenBack
<1> QED
  BY <1>1, <1>2 DEF NeedsAlike, Needs

(* The period noted was due.                                                *)
LEMMA NeedsDone ==
  ASSUME TypeOK, NEW w \in Worker, ImportDone(w)
  PROVE  NeedsAlike(w)
<1>0. pc \in [Worker -> WorkerPc] /\ unfree \in [Worker -> Seq(Nat)]
  BY DEF TypeOK, ThreadTypeOK, ControlTypes, CounterTypes
<1>1. /\ unfree'[w] = Append(unfree[w], Due(w)) /\ pc[w] = "import" /\ pc'[w] = "search"
      /\ UNCHANGED <<period, import_clause, peer>>
  BY <1>0 DEF ImportDone, Noted, Go
<1>2. Due(w) \in Nat
  BY <1>1, MarginAssumption, PeriodAssumption DEF TypeOK, ThreadTypeOK, CounterTypes, LocalOK, Due, Period
<1>3. NextDue(w)' = Due(w) + 1 /\ NextDue(w) = Due(w)
  BY <1>1 DEF NextDue, Due
<1> DEFINE u == unfree[w]
<1>4. /\ u \in Seq(Nat) /\ Len(u) \in Nat /\ DOMAIN u = 1 .. Len(u)
      /\ DOMAIN unfree'[w] = 1 .. Len(u) + 1
      /\ \A i \in 1 .. Len(u) : unfree'[w][i] = u[i]
      /\ unfree'[w][Len(u) + 1] = Due(w)
  BY <1>0, <1>1, <1>2, AppendProperties
<1>5. ASSUME NEW s \in Worker, NEW n \in Period
      PROVE  Listed(w, s, n)' <=> Listed(w, s, n) \/ n = Due(w)
  <2>1. ~GivenBack(w, s) /\ ~GivenBack(w, s)'
    BY <1>1 DEF GivenBack
  <2>2. Listed(w, s, n)' <=> \E i \in DOMAIN unfree'[w] : unfree'[w][i] = n
    BY <2>1 DEF Listed
  <2>3. Listed(w, s, n) <=> \E i \in DOMAIN u : u[i] = n
    BY <2>1 DEF Listed
  <2>4. Listed(w, s, n)' => Listed(w, s, n) \/ n = Due(w)
    <3> SUFFICES ASSUME NEW i \in DOMAIN unfree'[w], unfree'[w][i] = n
                 PROVE  Listed(w, s, n) \/ n = Due(w)
      BY <2>2
    <3>1. CASE i \in 1 .. Len(u)
      BY <1>4, <2>3, <3>1
    <3>2. CASE i = Len(u) + 1
      BY <1>4, <3>2
    <3> QED
      BY <1>4, <3>1, <3>2
  <2>5. Listed(w, s, n) => Listed(w, s, n)'
    BY <1>4, <2>2, <2>3
  <2>6. n = Due(w) => Listed(w, s, n)'
    <3>1. Len(u) + 1 \in DOMAIN unfree'[w]
      BY <1>4
    <3> QED
      BY <1>4, <2>2, <3>1
  <2> QED
    BY <2>4, <2>5, <2>6
<1>6. ASSUME NEW n \in Period PROVE n >= Due(w) <=> n = Due(w) \/ n >= Due(w) + 1
  BY <1>2, PeriodAssumption DEF Period
<1> QED
  BY <1>1, <1>3, <1>5, <1>6 DEF NeedsAlike, Needs

(* A new period makes due what was to come.                                 *)
LEMMA NeedsInc ==
  ASSUME TypeOK, NEW w \in Worker, IncPeriod(w)
  PROVE  NeedsAlike(w)
<1>0. pc \in [Worker -> WorkerPc] /\ period \in [Worker -> Period]
  BY DEF TypeOK, ThreadTypeOK, ControlTypes, CounterTypes
<1>1. /\ pc[w] = "inc" /\ pc'[w] = IF NothingDue(w) THEN "search" ELSE "import"
      /\ period'[w] = period[w] + 1 /\ UNCHANGED <<unfree, import_clause>>
  BY <1>0 DEF IncPeriod, GoNotify, exchange
<1>2. \A s \in Worker : ~GivenBack(w, s) /\ ~GivenBack(w, s)'
  BY <1>1 DEF GivenBack
<1>3. \A s \in Worker, n \in Period : Listed(w, s, n)' <=> Listed(w, s, n)
  BY <1>1, <1>2 DEF Listed
<1>4. ASSUME NEW n \in Period PROVE n >= NextDue(w)' <=> n >= NextDue(w)
  <2>1. period[w] \in Nat /\ n \in Nat /\ Margin \in Nat
    BY <1>0, MarginAssumption, PeriodAssumption DEF Period
  <2> QED
    BY <1>1, <2>1 DEF NextDue, Due, NothingDue
<1> QED
  BY <1>1, <1>3, <1>4 DEF NeedsAlike, Needs

(* Making a bundle needs no other.                                          *)
LEMMA NeedsSelect ==
  ASSUME TypeOK, NEW w \in Worker, SelectClauses(w)
  PROVE  NeedsAlike(w)
<1>1. /\ pc[w] = "select" /\ pc'[w] = "inc" /\ UNCHANGED <<unfree, import_clause, period, peer>>
  BY DEF SelectClauses, Go, TypeOK, ThreadTypeOK, ControlTypes
<1> QED
  BY <1>1 DEF NextDue, Due, NeedsAlike, Needs, Listed, GivenBack

(* After the import queue is emptied what is noted is still needed.         *)
LEMMA NeedsDrain ==
  ASSUME TypeOK, NEW w \in Worker, DrainAtLevelZero(w)
  PROVE  \A s \in Worker \ {w}, n \in Period :
           Needs(w, s, n)' <=> Listed(w, s, n) \/ n >= NextDue(w)
<1>0. pc \in [Worker -> WorkerPc] /\ peer \in [Worker -> Nat \ {0}] /\ import_clause \in [Worker -> SUBSET Bundle]
  BY DEF TypeOK, ThreadTypeOK, ControlTypes, CounterTypes, ExchangeTypeOK
<1>1. /\ pc[w] = "search" /\ pc'[w] \in {"search", "free"} /\ UNCHANGED <<unfree, period>>
      /\ import_clause'[w] = {} /\ peer'[w] = First(w)
  BY <1>0 DEF DrainAtLevelZero, Go, Left
<1>2. NextDue(w)' = NextDue(w)
  BY <1>1 DEF NextDue, Due
<1>3. \A s \in Worker \ {w} : ~GivenBack(w, s) /\ ~GivenBack(w, s)'
  BY <1>1, LoopSteps DEF GivenBack
<1>4. \A s \in Worker \ {w}, n \in Period : Listed(w, s, n)' <=> Listed(w, s, n)
  BY <1>1, <1>3 DEF Listed
<1> QED
  BY <1>1, <1>2, <1>4 DEF Needs

(* The only thing that ends a need: giving back. *)
LEMMA NeedsFree ==
  ASSUME TypeOK, BundleInv, NEW w \in Worker, FreeClause(w), NEW p, p = peer[w]
  PROVE  /\ NeedsLess(w)
         /\ \A s \in Worker \ {w}, n \in Period :
              s # p => (Needs(w, s, n)' <=> Needs(w, s, n))
         /\ \A n \in Period : Needs(w, p, n)' <=> Needs(w, p, n) /\ n # Head(unfree[w])
         /\ \A n \in Period : Needs(w, p, n) => n >= Head(unfree[w])
<1> DEFINE k == Head(unfree[w])
           u == unfree[w]
<1>0. pc \in [Worker -> WorkerPc] /\ peer \in [Worker -> Nat \ {0}]
  BY DEF TypeOK, ThreadTypeOK, ControlTypes, CounterTypes
<1>1. /\ pc[w] = "free" /\ p \in Worker /\ p \in Nat /\ UNCHANGED <<unfree, import_clause, period>>
      /\ \/ pc'[w] = "pop" /\ peer'[w] = p
         \/ pc'[w] = "free" /\ peer'[w] = After(w, p)
  BY <1>0 DEF FreeClause, Go
<1>2. /\ p # w /\ k = u[1] /\ k \in Period /\ k < NextDue(w)
  BY <1>1, FreeFinds
<1>3. /\ u \in Seq(Nat) /\ DOMAIN u = 1 .. Len(u) /\ Len(u) \in Nat \ {0}
  <2>1. u \in Seq(Nat) /\ u # <<>>
    BY <1>1, Numbers DEF TypeOK, ThreadTypeOK, LocalOK
  <2> QED
    BY <2>1, TailOf
<1>4. ~GivenBack(w, p) /\ GivenBack(w, p)'
  <2>1. ~GivenBack(w, p)
    BY <1>1 DEF GivenBack
  <2>2. After(w, p) > p
    BY <1>1, LoopSteps
  <2> QED
    BY <1>1, <2>1, <2>2 DEF GivenBack
<1>5. \A s \in Worker \ {w} : s # p => (GivenBack(w, s)' <=> GivenBack(w, s))
  <2>1. \A s \in Worker \ {w} : s < After(w, p) <=> s <= p
    BY <1>1, LoopSteps
  <2> QED
    BY <1>1, <2>1, NAssumption DEF GivenBack, Worker
<1>6. NextDue(w)' = NextDue(w) /\ import_clause[w] = {} /\ NextDue(w) \in Int
  BY <1>1, Numbers DEF NextDue, Due, BundleInv, LocalInv, NotedOK
<1>7. \A i \in DOMAIN u : u[i] >= k /\ (u[i] = k <=> i = 1)
  <2>1. \A i \in DOMAIN u : i > 1 => u[1] < u[i]
    BY <1>3 DEF BundleInv, LocalInv, NotedOK
  <2>2. \A i \in DOMAIN u : u[i] \in Nat
    BY <1>3
  <2> QED
    BY <1>2, <1>3, <2>1, <2>2
<1>8. \A n \in Period : Listed(w, p, n)' <=> Listed(w, p, n) /\ n # k
  BY <1>1, <1>4, <1>7 DEF Listed
<1>9. \A n \in Period : Listed(w, p, n) => n >= k
  BY <1>7 DEF Listed
<1>10. \A s \in Worker \ {w}, n \in Period : s # p => (Listed(w, s, n)' <=> Listed(w, s, n))
  BY <1>1, <1>5 DEF Listed
<1>11. \A n \in Period : n >= NextDue(w) => n # k /\ n >= k
  BY <1>2, <1>6, PeriodAssumption DEF Period
<1>12. \A n \in Period : Needs(w, p, n)' <=> Needs(w, p, n) /\ n # k
  BY <1>1, <1>6, <1>8, <1>11 DEF Needs
<1>13. \A n \in Period : Needs(w, p, n) => n >= k
  BY <1>6, <1>9, <1>11 DEF Needs
<1>14. \A s \in Worker \ {w}, n \in Period : s # p => (Needs(w, s, n)' <=> Needs(w, s, n))
  BY <1>1, <1>6, <1>10 DEF Needs
<1> QED
  BY <1>12, <1>13, <1>14 DEF NeedsLess

(* A bundle popped had been given back.                                     *)
LEMMA NeedsPop ==
  ASSUME TypeOK, NEW w \in Worker, PopFront(w)
  PROVE  NeedsAlike(w)
<1>0. pc \in [Worker -> WorkerPc] /\ peer \in [Worker -> Nat \ {0}]
  BY DEF TypeOK, ThreadTypeOK, ControlTypes, CounterTypes
<1>1. /\ pc[w] = "pop" /\ pc'[w] = "free" /\ UNCHANGED <<unfree, import_clause, period>>
      /\ peer[w] \in Nat /\ peer'[w] = After(w, peer[w])
  BY <1>0 DEF PopFront, Go
<1>2. \A s \in Worker \ {w} : s < After(w, peer[w]) <=> s <= peer[w]
  BY <1>1, LoopSteps
<1>3. \A s \in Worker \ {w} : GivenBack(w, s)' <=> GivenBack(w, s)
  BY <1>1, <1>2, NAssumption DEF GivenBack, Worker
<1>4. NextDue(w)' = NextDue(w)
  BY <1>1 DEF NextDue, Due
<1> QED
  BY <1>1, <1>3, <1>4 DEF NeedsAlike, Needs, Listed

(* A period given back to every producer is no longer needed of any.        *)
LEMMA NeedsNext ==
  ASSUME TypeOK, NEW w \in Worker, FreeNext(w)
  PROVE  NeedsAlike(w)
<1>0. pc \in [Worker -> WorkerPc] /\ peer \in [Worker -> Nat \ {0}] /\ unfree \in [Worker -> Seq(Nat)]
  BY DEF TypeOK, ThreadTypeOK, ControlTypes, CounterTypes
<1>1. /\ pc[w] = "free" /\ pc'[w] \in {"search", "free"} /\ UNCHANGED <<import_clause, period>>
      /\ unfree'[w] = Tail(unfree[w]) /\ peer'[w] = First(w) /\ unfree[w] # <<>>
      /\ peer[w] \notin Worker /\ peer[w] \in Nat \ {0}
  BY <1>0 DEF FreeNext, Go, TypeOK, ThreadTypeOK, LocalOK
<1> DEFINE u == unfree[w]
<1>2. /\ Len(u) \in Nat \ {0} /\ DOMAIN u = 1 .. Len(u) /\ DOMAIN unfree'[w] = 1 .. Len(u) - 1
      /\ \A i \in 1 .. Len(u) - 1 : unfree'[w][i] = u[i + 1]
  BY <1>0, <1>1, TailOf
<1>3. NextDue(w)' = NextDue(w)
  BY <1>1 DEF NextDue, Due
<1>4. ASSUME NEW s \in Worker \ {w}, NEW n \in Period PROVE Listed(w, s, n)' <=> Listed(w, s, n)
  <2>1. GivenBack(w, s)
    BY <1>1, NAssumption DEF GivenBack, Worker
  <2>2. ~GivenBack(w, s)'
    BY <1>1, LoopSteps DEF GivenBack
  <2>3. Listed(w, s, n) <=> \E i \in DOMAIN u : u[i] = n /\ i # 1
    BY <2>1 DEF Listed
  <2>4. Listed(w, s, n)' <=> \E i \in DOMAIN unfree'[w] : unfree'[w][i] = n
    BY <2>2 DEF Listed
  <2>5. Listed(w, s, n)' => Listed(w, s, n)
    BY <1>2, <2>3, <2>4
  <2>6. ASSUME NEW i \in DOMAIN u, u[i] = n, i # 1 PROVE Listed(w, s, n)'
    <3>1. i - 1 \in 1 .. Len(u) - 1 /\ (i - 1) + 1 = i
      BY <1>2, <2>6
    <3>2. unfree'[w][i - 1] = n
      BY <1>2, <2>6, <3>1
    <3> QED
      BY <1>2, <2>4, <3>1, <3>2
  <2> QED
    BY <2>3, <2>5, <2>6
<1> QED
  BY <1>1, <1>3, <1>4 DEF NeedsAlike, Needs

(* Others need what they did.                                               *)
LEMMA NeedsOthers ==
  ASSUME NEW v \in Worker, Undisturbed(v)
  PROVE  NeedsAlike(v)
BY SameNeeds, PeriodAssumption DEF NeedsAlike, Period

(* No step makes anybody need a bundle he did not.                          *)
LEMMA NeedsNeverGrow ==
  ASSUME TypeOK, BundleInv, NEW w \in Worker, WorkerStep(w) \/ DrainAtLevelZero(w)
  PROVE  \A v \in Worker : NeedsLess(v)
<1>1. \A v \in Worker \ {w} : NeedsLess(v)
  BY OthersUndisturbed, NeedsOthers DEF NeedsLess, NeedsAlike
<1>2. CASE RestStep(w)
  BY <1>1, <1>2, RestEffect, NeedsAside DEF exchange
<1>3. CASE ImportFrom(w)
  <2>1. CASE Undisturbed(w)
    BY <1>1, <2>1, NeedsOthers DEF NeedsLess, NeedsAlike
  <2>2. CASE pc'[w] = "kill" /\ pc[w] = "import" /\ UNCHANGED <<exchange, peer, period>>
    BY <1>1, <2>2, NeedsAside DEF exchange, Aside, WorkerPc
  <2>3. CASE TakeBundle(w)
    BY <1>1, <2>3, NeedsTake DEF NeedsLess, NeedsAlike
  <2> QED
    BY <1>3, <2>1, <2>2, <2>3, ImportEffect
<1>4. CASE DrainAtLevelZero(w)
  <2>1. NeedsLess(w)
    BY <1>4, NeedsDrain DEF NeedsLess, Needs
  <2> QED
    BY <1>1, <2>1
<1>5. CASE FreeClause(w)
  BY <1>1, <1>5, NeedsFree
<1>6. CASE ImportDone(w) \/ IncPeriod(w) \/ SelectClauses(w) \/ PopFront(w) \/ FreeNext(w)
  BY <1>1, <1>6, NeedsDone, NeedsInc, NeedsSelect, NeedsPop, NeedsNext DEF NeedsLess, NeedsAlike
<1> QED
  BY <1>2, <1>3, <1>4, <1>5, <1>6 DEF WorkerStep, RestStep

----------------------------------------------------------------------------
(* Steps that make no bundle, give none back and pop none. *)
QueuesAlike ==
  /\ pq' = pq
  /\ \A s \in Worker : Made(s)' = Made(s) /\ Pending(s)' = Pending(s) /\ Front(s)' = Front(s)

(* All steps but three leave the queues, and who is popping, alone.         *)
LEMMA CalmSteps ==
  ASSUME TypeOK, BundleInv, NEW w \in Worker, WorkerStep(w) \/ DrainAtLevelZero(w),
         ~SelectClauses(w), ~FreeClause(w), ~PopFront(w)
  PROVE  QueuesAlike
<1>0. pc \in [Worker -> WorkerPc] /\ period \in [Worker -> Period]
  BY DEF TypeOK, ThreadTypeOK, ControlTypes, CounterTypes
<1>1. pq' = pq /\ Made(w)' = Made(w) /\ pc[w] # "pop" /\ pc'[w] # "pop"
  <2>1. CASE RestStep(w)
    BY <2>1, RestEffect DEF exchange, Aside, Made
  <2>2. CASE ImportFrom(w)
    BY <1>0, <2>2, ImportEffect DEF exchange, Made, TakeBundle, Undisturbed, SamePlace, ImportFrom
  <2>3. CASE ImportDone(w) \/ DrainAtLevelZero(w) \/ FreeNext(w)
    BY <1>0, <2>3 DEF ImportDone, DrainAtLevelZero, FreeNext, Go, Made
  <2>4. CASE IncPeriod(w)
    BY <1>0, <2>4 DEF IncPeriod, GoNotify, Made, exchange
  <2> QED
    BY <2>1, <2>2, <2>3, <2>4 DEF WorkerStep, RestStep
<1>2. \A v \in Worker : Made(v)' = Made(v)
  BY <1>1, OthersUndisturbed, SameNeeds
<1>3. \A s \in Worker, v \in Worker : v \in Pending(s)' <=> v \in Pending(s)
  BY <1>1, OthersUndisturbed, SameNeeds DEF Pending
<1>4. \A s \in Worker : Pending(s)' = Pending(s)
  BY <1>3 DEF Pending
<1> QED
  BY <1>1, <1>2, <1>4 DEF QueuesAlike, Front

(* At most the other workers hold a bundle.                                 *)
LEMMA FewHolders ==
  ASSUME NEW s \in Worker, NEW T, T \subseteq Worker \ {s}
  PROVE  IsFiniteSet(T) /\ Cardinality(T) \in 0 .. N - 1
<1>0. IsFiniteSet(Worker) /\ Cardinality(Worker) = N
  BY NAssumption, FS_Interval DEF Worker
<1>1. IsFiniteSet(Worker \ {s}) /\ Cardinality(Worker \ {s}) = N - 1
  BY <1>0, FS_RemoveElement
<1>2. IsFiniteSet(T) /\ Cardinality(T) <= N - 1
  BY <1>1, FS_Subset
<1> QED
  BY <1>2, FS_CardinalityType, NAssumption

(* Nobody comes to need what he did not need. *)
LEMMA FewerHolders ==
  ASSUME \A v \in Worker : NeedsLess(v), NEW s \in Worker, NEW k \in Period
  PROVE  /\ Holders(s, k)' \subseteq Holders(s, k)
         /\ Cardinality(Holders(s, k)') <= Cardinality(Holders(s, k))
<1>1. Holders(s, k)' \subseteq Holders(s, k)
  BY PeriodAssumption DEF Holders, NeedsLess, Period
<1>2. IsFiniteSet(Holders(s, k))
  BY FewHolders DEF Holders
<1> QED
  BY <1>1, <1>2, FS_Subset

(* The types of a bundle.                                                   *)
LEMMA BundlePeriods ==
  ASSUME TypeOK, NEW s \in Worker, NEW i \in DOMAIN pq[s]
  PROVE  pq[s][i].period \in Period /\ pq[s][i].refs \in 0 .. N - 1 /\ pq[s][i] \in Rec
<1>1. pq[s] \in Seq(Rec)
  BY Numbers
<1>2. pq[s][i] \in Rec
  BY <1>1
<1> QED
  BY <1>2 DEF Rec

QueuesOK == QueueInv /\ KeptInv /\ CountInv

(* The queues, when no bundle comes, goes or loses a reference.             *)
LEMMA QueuesCalm ==
  ASSUME TypeOK, BundleInv, QueuesAlike, \A v \in Worker : NeedsLess(v)
  PROVE  QueuesOK'
<1>1. QueueInv'
  BY DEF QueuesAlike, QueueInv, BundleInv
<1>2. KeptInv'
  BY DEF QueuesAlike, KeptInv, BundleInv, NeedsLess
<1>3. CountInv'
  <2> SUFFICES ASSUME NEW s \in Worker, NEW i \in DOMAIN pq[s], NEW k \in Period, k = pq[s][i].period
               PROVE  pq[s][i].refs >= Cardinality(Holders(s, k)')
    BY BundlePeriods DEF QueuesAlike, CountInv
  <2>1. pq[s][i].refs >= Cardinality(Holders(s, k))
    BY DEF BundleInv, CountInv
  <2>2. pq[s][i].refs \in Int /\ Cardinality(Holders(s, k)) \in Int
    BY BundlePeriods, FewHolders DEF Holders
  <2>3. Cardinality(Holders(s, k)') <= Cardinality(Holders(s, k)) /\ Cardinality(Holders(s, k)') \in Int
    BY FewerHolders, FewHolders DEF Holders
  <2> QED
    BY <2>1, <2>2, <2>3
<1> QED
  BY <1>1, <1>2, <1>3 DEF QueuesOK

(* What the three other steps do to the queue. *)
NewBundle(w) == [period |-> period[w], refs |-> Shares]

AddsBundle(w) ==
  /\ pq'[w] \in Seq(Rec) /\ Len(pq'[w]) = Len(pq[w]) + 1 /\ DOMAIN pq'[w] = 1 .. Len(pq[w]) + 1
  /\ \A i \in 1 .. Len(pq[w]) : pq'[w][i] = pq[w][i]
  /\ pq'[w][Len(pq[w]) + 1] = NewBundle(w) /\ NewBundle(w) \in Rec
  /\ \A s \in Worker \ {w} : pq'[s] = pq[s] /\ Made(s)' = Made(s)
  /\ pq' \in [Worker -> Seq(Rec)]
  /\ Made(w) = period[w] /\ Made(w)' = Made(w) + 1
  /\ \A s \in Worker : Pending(s)' = Pending(s) /\ Front(s)' = Front(s)

(* select_clauses appends the bundle of the period.                         *)
LEMMA SelectEffect ==
  ASSUME TypeOK, NEW w \in Worker, SelectClauses(w)
  PROVE  AddsBundle(w)
<1>0. pc \in [Worker -> WorkerPc] /\ period \in [Worker -> Period] /\ pq \in [Worker -> Seq(Rec)]
  BY DEF TypeOK, ThreadTypeOK, ControlTypes, CounterTypes, ExchangeTypeOK, Rec
<1>1. NewBundle(w) \in Rec
  BY <1>0, NAssumption DEF NewBundle, Rec, Shares
<1>2. /\ pq' = [pq EXCEPT ![w] = Append(pq[w], NewBundle(w))]
      /\ pc[w] = "select" /\ pc' = [pc EXCEPT ![w] = "inc"] /\ UNCHANGED <<period, peer>>
  BY DEF SelectClauses, NewBundle, Go
<1>3. /\ pq[w] \in Seq(Rec) /\ Len(pq[w]) \in Nat
      /\ Append(pq[w], NewBundle(w)) \in Seq(Rec)
      /\ Len(Append(pq[w], NewBundle(w))) = Len(pq[w]) + 1
      /\ \A i \in 1 .. Len(pq[w]) : Append(pq[w], NewBundle(w))[i] = pq[w][i]
      /\ Append(pq[w], NewBundle(w))[Len(pq[w]) + 1] = NewBundle(w)
  BY <1>0, <1>1, AppendProperties
<1>4. pq'[w] = Append(pq[w], NewBundle(w)) /\ \A s \in Worker \ {w} : pq'[s] = pq[s]
  BY <1>0, <1>2
<1>5. pq' \in [Worker -> Seq(Rec)]
  BY <1>0, <1>2, <1>3
<1>6. DOMAIN pq'[w] = 1 .. Len(pq[w]) + 1
  BY <1>3, <1>4
<1>7. \A s \in Worker : Pending(s)' = Pending(s)
  BY <1>0, <1>2 DEF Pending
<1>8. /\ Made(w) = period[w] /\ Made(w)' = Made(w) + 1
      /\ \A s \in Worker \ {w} : Made(s)' = Made(s)
  BY <1>0, <1>2 DEF Made
<1>9. \A s \in Worker : Front(s)' = Front(s)
  <2>1. Front(w)' = Front(w)
    <3>1. period[w] \in Nat
      BY <1>0, PeriodAssumption DEF Period
    <3> QED
      BY <1>3, <1>4, <1>8, <3>1 DEF Front
  <2> QED
    BY <1>4, <1>8, <2>1 DEF Front
<1> QED
  BY <1>1, <1>3, <1>4, <1>5, <1>6, <1>7, <1>8, <1>9 DEF AddsBundle

(* The new bundle has a reference for every possible holder.                *)
LEMMA QueuesSelect ==
  ASSUME TypeOK, BundleInv, NEW w \in Worker, SelectClauses(w), \A v \in Worker : NeedsLess(v)
  PROVE  QueuesOK'
<1>0. \A s \in Worker : Made(s) \in Nat /\ Len(pq[s]) \in Nat /\ Front(s) \in Int /\ Cardinality(Pending(s)) \in Nat
                        /\ DOMAIN pq[s] = 1 .. Len(pq[s])
  BY Numbers
<1>e. AddsBundle(w)
  BY SelectEffect
<1>1. QueueInv'
  <2>1. ASSUME NEW i \in DOMAIN pq'[w] PROVE pq'[w][i].period = Front(w) + i - 1
    <3>1. CASE i \in 1 .. Len(pq[w])
      <4>1. pq'[w][i] = pq[w][i] /\ i \in DOMAIN pq[w]
        BY <1>0, <1>e, <3>1 DEF AddsBundle
      <4> QED
        BY <4>1 DEF BundleInv, QueueInv
    <3>2. CASE i = Len(pq[w]) + 1
      <4>1. pq'[w][i].period = Made(w)
        BY <1>e, <3>2 DEF NewBundle, AddsBundle
      <4> QED
        BY <1>0, <3>2, <4>1 DEF Front
    <3>3. DOMAIN pq'[w] = 1 .. Len(pq[w]) + 1
      BY <1>e DEF AddsBundle
    <3>4. Len(pq[w]) \in Nat
      BY <1>0
    <3>5. i \in 1 .. Len(pq[w]) \/ i = Len(pq[w]) + 1
      BY <3>3, <3>4
    <3> QED
      BY <3>1, <3>2, <3>5
  <2> QED
    BY <1>e, <2>1 DEF BundleInv, QueueInv, AddsBundle
<1>2. KeptInv'
  <2> SUFFICES ASSUME NEW s \in Worker
               PROVE  /\ Front(s) + Cardinality(Pending(s)) <= Made(s)'
                      /\ \A v \in Worker \ {s}, n \in Period :
                           Needs(v, s, n)' => Front(s) + Cardinality(Pending(s)) <= n
    BY <1>e DEF KeptInv, AddsBundle
  <2>1. Made(s)' \in Nat /\ Made(s)' >= Made(s)
    BY <1>0, <1>e DEF AddsBundle
  <2> QED
    BY <1>0, <2>1 DEF BundleInv, KeptInv, NeedsLess
<1>3. CountInv'
  <2> SUFFICES ASSUME NEW s \in Worker, NEW i \in DOMAIN pq'[s], NEW k, k = pq'[s][i].period
               PROVE  pq'[s][i].refs >= Cardinality(Holders(s, k)')
    BY DEF CountInv
  <2>1. CASE s = w /\ i = Len(pq[w]) + 1
    <3>1. pq'[s][i].refs = N - 1
      BY <1>e, <2>1 DEF NewBundle, Shares, AddsBundle
    <3>2. Cardinality(Holders(s, k)') \in 0 .. N - 1
      BY FewHolders DEF Holders
    <3> QED
      BY <3>1, <3>2, NAssumption
  <2>2. CASE ~(s = w /\ i = Len(pq[w]) + 1)
    <3>1. i \in DOMAIN pq[s] /\ pq'[s][i] = pq[s][i]
      <4>1. CASE s # w
        BY <1>e, <4>1 DEF AddsBundle
      <4>2. CASE s = w
        <5>1. i \in 1 .. Len(pq[w]) + 1 /\ i # Len(pq[w]) + 1 /\ Len(pq[w]) \in Nat
          BY <1>0, <1>e, <2>2, <4>2 DEF AddsBundle
        <5>2. i \in 1 .. Len(pq[w])
          BY <5>1
        <5> QED
          BY <1>0, <1>e, <4>2, <5>2 DEF AddsBundle
      <4> QED
        BY <4>1, <4>2
    <3>2. k \in Period /\ pq[s][i].refs \in Int
      BY <3>1, BundlePeriods
    <3>3. pq[s][i].refs >= Cardinality(Holders(s, k))
      BY <3>1 DEF BundleInv, CountInv
    <3>4. Cardinality(Holders(s, k)') <= Cardinality(Holders(s, k))
      BY <3>2, FewerHolders
    <3>5. Cardinality(Holders(s, k)) \in Int /\ Cardinality(Holders(s, k)') \in Int
      BY FewHolders DEF Holders
    <3> QED
      BY <3>1, <3>2, <3>3, <3>4, <3>5
  <2> QED
    BY <2>1, <2>2
<1> QED
  BY <1>1, <1>2, <1>3 DEF QueuesOK

----------------------------------------------------------------------------
(* A reference given back: the count of one bundle goes down by one, and    *)
(* whoever takes the last one is going to pop.                              *)
GivesBack(w, p, k, at) ==
  /\ p \in Worker \ {w} /\ k \in Period /\ k < period[p] /\ k < NextDue(w)
  /\ Front(p) + Cardinality(Pending(p)) <= k /\ k < Made(p) /\ k = unfree[w][1]
  /\ at \in DOMAIN pq[p] /\ pq[p][at].period = k /\ pq[p][at].refs \in 1 .. N - 1
  /\ Needs(w, p, k) /\ w \in Holders(p, k)
  /\ pq' \in [Worker -> Seq(Rec)]
  /\ \A s \in Worker : Len(pq'[s]) = Len(pq[s]) /\ DOMAIN pq'[s] = DOMAIN pq[s]
  /\ \A s \in Worker, i \in Nat : i \in DOMAIN pq[s] =>
       /\ pq'[s][i].period = pq[s][i].period
       /\ pq'[s][i].refs = IF s = p /\ i = at THEN pq[s][i].refs - 1 ELSE pq[s][i].refs
  /\ \A s \in Worker : Made(s)' = Made(s) /\ Front(s)' = Front(s)
  /\ IF pq[p][at].refs = 1
     THEN /\ Pending(p)' = Pending(p) \cup {w} /\ w \notin Pending(p)
          /\ \A s \in Worker \ {p} : Pending(s)' = Pending(s)
     ELSE \A s \in Worker : Pending(s)' = Pending(s)

(* free_clause finds its bundle and takes one reference from it.            *)
LEMMA FreeEffect ==
  ASSUME TypeOK, BundleInv, NEW w \in Worker, FreeClause(w),
         NEW p, p = peer[w], NEW k, k = Head(unfree[w]), NEW at, at = Slot(p, k)
  PROVE  GivesBack(w, p, k, at)
<1>0. pc \in [Worker -> WorkerPc] /\ period \in [Worker -> Period] /\ pq \in [Worker -> Seq(Rec)]
      /\ peer \in [Worker -> Nat \ {0}]
  BY DEF TypeOK, ThreadTypeOK, ControlTypes, CounterTypes, ExchangeTypeOK, Rec
<1>1. /\ pc[w] = "free" /\ p \in Worker /\ UNCHANGED <<period, unfree, import_clause>>
      /\ pq' = [pq EXCEPT ![p][at].refs = @ - 1]
      /\ IF pq[p][at].refs <= 1
         THEN pc' = [pc EXCEPT ![w] = "pop"] /\ UNCHANGED peer
         ELSE UNCHANGED pc /\ peer' = [peer EXCEPT ![w] = After(w, p)]
  BY DEF FreeClause, Go
<1>2. /\ p # w /\ k = unfree[w][1] /\ k \in Period /\ k < period[p] /\ k < NextDue(w)
      /\ Front(p) + Cardinality(Pending(p)) <= k
      /\ Front(p) <= k /\ k < Made(p) /\ Found(p, k)
  BY <1>1, FreeFinds
<1>3. at \in DOMAIN pq[p] /\ pq[p][at].period = k
  BY <1>2 DEF Found
<1>4. Needs(w, p, k)
  <2>1. ~GivenBack(w, p)
    <3>1. p \in Nat
      BY <1>0
    <3> QED
      BY <1>1, <3>1 DEF GivenBack
  <2>2. 1 \in DOMAIN unfree[w]
    <3>1. unfree[w] \in Seq(Nat) /\ unfree[w] # <<>>
      BY <1>1, Numbers DEF TypeOK, ThreadTypeOK, LocalOK
    <3> QED
      BY <3>1, TailOf
  <2> QED
    BY <1>2, <2>1, <2>2 DEF Needs, Listed
<1>5. w \in Holders(p, k)
  <2>1. k \in 0 .. k
    BY <1>2, PeriodAssumption DEF Period
  <2> QED
    BY <1>2, <1>4, <2>1 DEF Holders
<1>6. pq[p][at].refs \in 1 .. N - 1
  <2>1. pq[p][at].refs >= Cardinality(Holders(p, k)) /\ pq[p][at].refs \in 0 .. N - 1
    BY <1>1, <1>3, BundlePeriods DEF BundleInv, CountInv
  <2>2. IsFiniteSet(Holders(p, k)) /\ Cardinality(Holders(p, k)) \in Nat /\ Cardinality(Holders(p, k)) # 0
    <3>1. IsFiniteSet(Holders(p, k)) /\ Cardinality(Holders(p, k)) \in 0 .. N - 1
      BY <1>1, FewHolders DEF Holders
    <3> QED
      BY <1>5, <3>1, FS_EmptySet
  <2> QED
    BY <2>1, <2>2, NAssumption
<1>7. /\ pq' \in [Worker -> Seq(Rec)]
      /\ \A s \in Worker : Len(pq'[s]) = Len(pq[s]) /\ DOMAIN pq'[s] = DOMAIN pq[s]
      /\ \A s \in Worker, i \in Nat : i \in DOMAIN pq[s] =>
           /\ pq'[s][i].period = pq[s][i].period
           /\ pq'[s][i].refs = IF s = p /\ i = at THEN pq[s][i].refs - 1 ELSE pq[s][i].refs
  <2> DEFINE q == pq[p]
             e == [q[at] EXCEPT !.refs = @ - 1]
  <2>1. q \in Seq(Rec) /\ DOMAIN q = 1 .. Len(q) /\ q[at] \in Rec
    BY <1>0, <1>1, <1>3
  <2>2. e \in Rec /\ e.period = q[at].period /\ e.refs = q[at].refs - 1
    <3>1. q[at].refs - 1 \in 0 .. N - 1
      BY <1>6, NAssumption
    <3> QED
      BY <2>1, <3>1 DEF Rec
  <2>3. pq' = [pq EXCEPT ![p] = [q EXCEPT ![at] = e]]
    BY <1>1
  <2> HIDE DEF e
  <2>4. /\ [q EXCEPT ![at] = e] \in Seq(Rec) /\ Len([q EXCEPT ![at] = e]) = Len(q)
        /\ \A j \in 1 .. Len(q) : [q EXCEPT ![at] = e][j] = IF j = at THEN e ELSE q[j]
    BY <1>3, <2>1, <2>2, ExceptSeq
  <2>5. pq' \in [Worker -> Seq(Rec)]
    BY <1>0, <2>3, <2>4
  <2>6. pq'[p] = [q EXCEPT ![at] = e] /\ \A s \in Worker \ {p} : pq'[s] = pq[s]
    BY <1>0, <1>1, <2>3
  <2>7. Len(pq'[p]) = Len(q) /\ DOMAIN pq'[p] = DOMAIN q
    BY <2>4, <2>6
  <2>8. \A i \in DOMAIN q : /\ pq'[p][i].period = q[i].period
                            /\ pq'[p][i].refs = IF i = at THEN q[i].refs - 1 ELSE q[i].refs
    BY <2>1, <2>2, <2>4, <2>6
  <2>9. \A s \in Worker : Len(pq'[s]) = Len(pq[s]) /\ DOMAIN pq'[s] = DOMAIN pq[s]
    BY <2>6, <2>7
  <2>10. ASSUME NEW s \in Worker, NEW i \in DOMAIN pq[s]
         PROVE  /\ pq'[s][i].period = pq[s][i].period
                /\ pq'[s][i].refs = IF s = p /\ i = at THEN pq[s][i].refs - 1 ELSE pq[s][i].refs
    <3>1. CASE s = p
      BY <2>8, <3>1
    <3>2. CASE s # p
      BY <2>6, <3>2
    <3> QED
      BY <3>1, <3>2
  <2> QED
    BY <2>5, <2>9, <2>10
<1>8. \A s \in Worker : Made(s)' = Made(s)
  BY <1>0, <1>1 DEF Made
<1>9. \A s \in Worker : Front(s)' = Front(s)
  BY <1>7, <1>8 DEF Front
<1>10. IF pq[p][at].refs = 1
       THEN /\ Pending(p)' = Pending(p) \cup {w} /\ w \notin Pending(p)
            /\ \A s \in Worker \ {p} : Pending(s)' = Pending(s)
       ELSE \A s \in Worker : Pending(s)' = Pending(s)
  <2>1. pq[p][at].refs <= 1 <=> pq[p][at].refs = 1
    BY <1>6, NAssumption
  <2>2. CASE pq[p][at].refs = 1
    BY <1>0, <1>1, <2>1, <2>2 DEF Pending
  <2>3. CASE pq[p][at].refs # 1
    BY <1>0, <1>1, <2>1, <2>3 DEF Pending
  <2> QED
    BY <2>2, <2>3
<1> QED
  BY <1>1, <1>2, <1>3, <1>4, <1>5, <1>6, <1>7, <1>8, <1>9, <1>10
     DEF GivesBack

(* The reference that goes last is that of the last holder. *)
LEMMA LastHolder ==
  ASSUME TypeOK, BundleInv, NEW w \in Worker, NEW p, NEW k, NEW at, GivesBack(w, p, k, at),
         pq[p][at].refs = 1
  PROVE  Holders(p, k) = {w}
<1> USE DEF GivesBack
<1>1. pq[p][at].refs >= Cardinality(Holders(p, k))
  BY DEF BundleInv, CountInv
<1>2. IsFiniteSet(Holders(p, k)) /\ Cardinality(Holders(p, k)) \in Nat
  BY FewHolders DEF Holders
<1>3. IsFiniteSet(Holders(p, k) \ {w}) /\ Cardinality(Holders(p, k) \ {w}) = Cardinality(Holders(p, k)) - 1
  BY <1>2, FS_RemoveElement
<1>4. Cardinality(Holders(p, k) \ {w}) = 0
  BY <1>1, <1>2, <1>3, FS_CardinalityType
<1>5. Holders(p, k) \ {w} = {}
  BY <1>3, <1>4, FS_EmptySet
<1> QED
  BY <1>5

(* Whoever takes the last reference was the last to need the bundle.        *)
LEMMA QueuesFree ==
  ASSUME TypeOK, BundleInv, NEW w \in Worker, FreeClause(w), \A v \in Worker : NeedsLess(v)
  PROVE  QueuesOK'
<1>0. \A s \in Worker : /\ Made(s) \in Nat /\ Len(pq[s]) \in Nat /\ Front(s) \in Int
                        /\ IsFiniteSet(Pending(s)) /\ Cardinality(Pending(s)) \in Nat
                        /\ DOMAIN pq[s] = 1 .. Len(pq[s])
  <2> TAKE s \in Worker
  <2>1. /\ Made(s) \in Nat /\ Len(pq[s]) \in Nat /\ Front(s) \in Int /\ pq[s] \in Seq(Rec)
        /\ IsFiniteSet(Pending(s)) /\ Cardinality(Pending(s)) \in Nat
    BY Numbers
  <2> QED
    BY <2>1
<1>p. PICK p : p = peer[w]
  OBVIOUS
<1>k. PICK k : k = Head(unfree[w])
  OBVIOUS
<1>a. PICK at : at = Slot(p, k)
  OBVIOUS
<1>f. GivesBack(w, p, k, at)
  BY <1>p, <1>k, <1>a, FreeEffect
<1>h. pq[p][at].refs = 1 => Holders(p, k) = {w}
  BY <1>f, LastHolder
<1>n. /\ \A n \in Period : Needs(w, p, n)' => n > k
      /\ \A v \in Worker : \A s \in Worker \ {v}, n \in Period : Needs(v, s, n)' => Needs(v, s, n)
  <2>1. \A n \in Period : Needs(w, p, n)' => n >= k /\ n # k
    BY <1>p, <1>k, NeedsFree
  <2>2. k \in Nat /\ \A n \in Period : n \in Nat
    BY <1>f, PeriodAssumption DEF GivesBack, Period
  <2>3. \A n \in Period : Needs(w, p, n)' => n > k
    BY <2>1, <2>2
  <2> QED
    BY <2>3 DEF NeedsLess
<1>1. QueueInv'
  <2> SUFFICES ASSUME NEW s \in Worker, NEW i \in DOMAIN pq[s]
               PROVE  pq'[s][i].period = Front(s) + i - 1
    BY <1>f DEF GivesBack, QueueInv, BundleInv
  <2>1. i \in Nat
    BY <1>0
  <2>2. pq'[s][i].period = pq[s][i].period
    BY <1>f, <2>1 DEF GivesBack
  <2>3. pq[s][i].period = Front(s) + i - 1
    BY DEF QueueInv, BundleInv
  <2> QED
    BY <2>2, <2>3
<1>2. KeptInv'
  <2> SUFFICES ASSUME NEW s \in Worker
               PROVE  /\ Front(s) + Cardinality(Pending(s)') <= Made(s)
                      /\ \A v \in Worker \ {s}, n \in Period :
                           Needs(v, s, n)' => Front(s) + Cardinality(Pending(s)') <= n
    BY <1>f DEF GivesBack, KeptInv
  <2>1. CASE Pending(s)' = Pending(s)
    BY <1>n, <2>1 DEF BundleInv, KeptInv
  <2>2. CASE s = p /\ pq[p][at].refs = 1
    <3>0. /\ IsFiniteSet(Pending(s)) /\ w \notin Pending(s) /\ Pending(s)' = Pending(s) \cup {w}
          /\ Cardinality(Pending(s)) \in Nat /\ Front(s) \in Int /\ Made(s) \in Nat
          /\ Front(s) + Cardinality(Pending(s)) <= k /\ k < Made(s) /\ k \in Period
      BY <1>0, <1>f, <2>2 DEF GivesBack
    <3>1. Cardinality(Pending(s)') = Cardinality(Pending(s)) + 1
      BY <3>0, FS_AddElement
    <3>2. Front(s) + Cardinality(Pending(s)') <= k + 1 /\ k + 1 <= Made(s) /\ k \in Nat
      BY <3>0, <3>1, PeriodAssumption DEF Period
    <3>3. ASSUME NEW v \in Worker \ {s}, NEW n \in Period, Needs(v, s, n)' PROVE k + 1 <= n
      <4>1. CASE v = w
        BY <1>n, <2>2, <3>2, <3>3, <4>1, PeriodAssumption DEF Period
      <4>2. CASE v # w
        <5>1. v \notin Holders(p, k) /\ Needs(v, p, n)
          BY <1>h, <1>n, <2>2, <3>3, <4>2
        <5>2. n \notin 0 .. k
          BY <2>2, <3>3, <5>1 DEF Holders
        <5> QED
          BY <3>2, <5>2, PeriodAssumption DEF Period
      <4> QED
        BY <4>1, <4>2
    <3>4. Cardinality(Pending(s)') \in Nat /\ Front(s) \in Int /\ Made(s) \in Nat
      BY <3>0, <3>1
    <3>5. \A n \in Period : n \in Nat
      BY PeriodAssumption DEF Period
    <3>6. Front(s) + Cardinality(Pending(s)') <= Made(s)
      BY <3>2, <3>4
    <3>7. \A n \in Nat : k + 1 <= n => Front(s) + Cardinality(Pending(s)') <= n
      BY <3>2, <3>4
    <3> QED
      BY <3>3, <3>5, <3>6, <3>7
  <2>3. Pending(s)' = Pending(s) \/ (s = p /\ pq[p][at].refs = 1)
    BY <1>f DEF GivesBack
  <2> QED
    BY <2>1, <2>2, <2>3
<1>3. CountInv'
  <2> SUFFICES ASSUME NEW s \in Worker, NEW i \in DOMAIN pq'[s], NEW m, m = pq'[s][i].period
               PROVE  pq'[s][i].refs >= Cardinality(Holders(s, m)')
    BY DEF CountInv
  <2>i. i \in DOMAIN pq[s] /\ i \in Nat
    <3>1. DOMAIN pq'[s] = DOMAIN pq[s]
      BY <1>f DEF GivesBack
    <3> QED
      BY <1>0, <3>1
  <2>0. m = pq[s][i].period /\ m \in Period /\ pq[s][i].refs \in Int
    BY <1>f, <2>i, BundlePeriods DEF GivesBack
  <2>1. pq[s][i].refs >= Cardinality(Holders(s, m)) /\ Cardinality(Holders(s, m)) \in Int
    BY <2>i, <2>0, FewHolders DEF BundleInv, CountInv, Holders
  <2>2. /\ Holders(s, m)' \subseteq Holders(s, m)
        /\ Cardinality(Holders(s, m)') <= Cardinality(Holders(s, m)) /\ Cardinality(Holders(s, m)') \in Int
    <3>1. m \in Period
      BY <2>0
    <3>2. /\ Holders(s, m)' \subseteq Holders(s, m)
          /\ Cardinality(Holders(s, m)') <= Cardinality(Holders(s, m))
      BY <3>1, FewerHolders
    <3>3. Cardinality(Holders(s, m)') \in Int
      BY FewHolders DEF Holders
    <3> QED
      BY <3>2, <3>3
  <2>3. CASE ~(s = p /\ i = at)
    BY <1>f, <2>i, <2>0, <2>1, <2>2, <2>3 DEF GivesBack
  <2>4. CASE s = p /\ i = at
    <3>1. m = k /\ pq'[s][i].refs = pq[s][i].refs - 1
      BY <1>f, <2>i, <2>0, <2>4 DEF GivesBack
    <3>2. w \notin Holders(p, k)'
      <4>1. \A n \in 0 .. k : n \in Period /\ ~(n > k)
        BY <1>f, PeriodAssumption DEF GivesBack, Period
      <4> QED
        BY <1>n, <4>1 DEF Holders
    <3>3. Holders(p, k)' \subseteq Holders(p, k) \ {w}
      BY <2>2, <2>4, <3>1, <3>2
    <3>4. IsFiniteSet(Holders(p, k)) /\ w \in Holders(p, k)
      BY <1>f, FewHolders DEF GivesBack, Holders
    <3>5. /\ IsFiniteSet(Holders(p, k) \ {w})
          /\ Cardinality(Holders(p, k) \ {w}) = Cardinality(Holders(p, k)) - 1
      BY <3>4, FS_RemoveElement
    <3>6. Cardinality(Holders(p, k)') <= Cardinality(Holders(p, k)) - 1
      BY <3>3, <3>5, FS_Subset
    <3> QED
      BY <2>0, <2>1, <2>2, <2>4, <3>1, <3>6
  <2> QED
    BY <2>3, <2>4
<1> QED
  BY <1>1, <1>2, <1>3 DEF QueuesOK

----------------------------------------------------------------------------
(* The front bundle goes; one pop fewer is under way. *)
PopsBundle(w, p) ==
  /\ p \in Worker \ {w} /\ w \in Pending(p) /\ Len(pq[p]) \in Nat \ {0}
  /\ pq' \in [Worker -> Seq(Rec)]
  /\ Len(pq'[p]) = Len(pq[p]) - 1 /\ DOMAIN pq'[p] = 1 .. Len(pq[p]) - 1
  /\ \A i \in 1 .. Len(pq[p]) - 1 : pq'[p][i] = pq[p][i + 1]
  /\ \A s \in Worker \ {p} : pq'[s] = pq[s] /\ Front(s)' = Front(s) /\ Pending(s)' = Pending(s)
  /\ \A s \in Worker : Made(s)' = Made(s)
  /\ Front(p)' = Front(p) + 1
  /\ Pending(p)' = Pending(p) \ {w} /\ Cardinality(Pending(p)') = Cardinality(Pending(p)) - 1

(* TailOf, for a queue of bundles.                                          *)
LEMMA TailOfQueue ==
  ASSUME NEW q \in Seq(Rec), Len(q) # 0
  PROVE  /\ Tail(q) \in Seq(Rec) /\ Len(q) \in Nat \ {0} /\ Len(Tail(q)) = Len(q) - 1
         /\ DOMAIN Tail(q) = 1 .. Len(q) - 1 /\ DOMAIN q = 1 .. Len(q)
         /\ \A i \in 1 .. Len(q) - 1 : Tail(q)[i] = q[i + 1]
<1>1. Len(q) \in Nat /\ q # <<>> /\ DOMAIN q = 1 .. Len(q)
  BY EmptySeq
<1> QED
  BY <1>1, HeadTailProperties

(* There is a bundle to pop, and it is the front one that goes.             *)
LEMMA PopEffect ==
  ASSUME TypeOK, BundleInv, NEW w \in Worker, PopFront(w), NEW p, p = peer[w]
  PROVE  PopsBundle(w, p)
<1>0. pc \in [Worker -> WorkerPc] /\ period \in [Worker -> Period] /\ pq \in [Worker -> Seq(Rec)]
      /\ peer \in [Worker -> Nat \ {0}]
  BY DEF TypeOK, ThreadTypeOK, ControlTypes, CounterTypes, ExchangeTypeOK, Rec
<1>1. /\ pc[w] = "pop" /\ pc' = [pc EXCEPT ![w] = "free"] /\ UNCHANGED period
      /\ pq' = [pq EXCEPT ![p] = Tail(pq[p])] /\ peer' = [peer EXCEPT ![w] = After(w, p)]
  BY DEF PopFront, Go
<1>2. p \in Worker \ {w}
  BY <1>1 DEF TypeOK, ThreadTypeOK, LocalOK, BundleInv, LocalInv, NotedOK
<1>3. w \in Pending(p)
  BY <1>1 DEF Pending
<1>4. /\ Len(pq[p]) \in Nat /\ Made(p) \in Nat /\ pq[p] \in Seq(Rec)
      /\ IsFiniteSet(Pending(p)) /\ Cardinality(Pending(p)) \in Nat
  BY <1>2, Numbers
<1>5. Cardinality(Pending(p)) # 0
  BY <1>3, <1>4, FS_EmptySet
<1>6. Len(pq[p]) # 0
  <2>1. Front(p) + Cardinality(Pending(p)) <= Made(p)
    BY <1>2 DEF BundleInv, KeptInv
  <2> QED
    BY <1>4, <1>5, <2>1 DEF Front
<1>7. /\ Tail(pq[p]) \in Seq(Rec) /\ Len(pq[p]) \in Nat \ {0} /\ Len(Tail(pq[p])) = Len(pq[p]) - 1
      /\ DOMAIN Tail(pq[p]) = 1 .. Len(pq[p]) - 1
      /\ \A i \in 1 .. Len(pq[p]) - 1 : Tail(pq[p])[i] = pq[p][i + 1]
  BY <1>4, <1>6, TailOfQueue
<1>8. pq'[p] = Tail(pq[p]) /\ \A s \in Worker \ {p} : pq'[s] = pq[s]
  BY <1>0, <1>1, <1>2
<1>9. pq' \in [Worker -> Seq(Rec)]
  BY <1>0, <1>1, <1>2, <1>7
<1>10. \A s \in Worker : Made(s)' = Made(s)
  BY <1>0, <1>1 DEF Made
<1>11. Front(p)' = Front(p) + 1 /\ \A s \in Worker \ {p} : Front(s)' = Front(s)
  <2>1. Front(p)' = Front(p) + 1
    BY <1>2, <1>4, <1>7, <1>8, <1>10 DEF Front
  <2> QED
    BY <1>8, <1>10, <2>1 DEF Front
<1>12. Pending(p)' = Pending(p) \ {w} /\ \A s \in Worker \ {p} : Pending(s)' = Pending(s)
  BY <1>0, <1>1, <1>2 DEF Pending
<1>13. Cardinality(Pending(p)') = Cardinality(Pending(p)) - 1
  <2>1. Pending(p)' = Pending(p) \ {w} /\ IsFiniteSet(Pending(p)) /\ w \in Pending(p)
    BY <1>3, <1>4, <1>12
  <2> QED
    BY <2>1, FS_RemoveElement, SMTT(30)
<1> QED
  BY <1>2, <1>3, <1>7, <1>8, <1>9, <1>10, <1>11, <1>12, <1>13 DEF PopsBundle

(* The front moves on as the pops under way become one fewer.               *)
LEMMA QueuesPop ==
  ASSUME TypeOK, BundleInv, NEW w \in Worker, PopFront(w), \A v \in Worker : NeedsLess(v)
  PROVE  QueuesOK'
<1>p. PICK p : p = peer[w]
  OBVIOUS
<1>f. PopsBundle(w, p)
  BY <1>p, PopEffect
<1>0. ASSUME NEW s \in Worker
      PROVE  /\ Made(s) \in Nat /\ Len(pq[s]) \in Nat /\ Front(s) \in Int
             /\ Cardinality(Pending(s)) \in Nat /\ DOMAIN pq[s] = 1 .. Len(pq[s])
  <2>1. /\ Made(s) \in Nat /\ Len(pq[s]) \in Nat /\ Front(s) \in Int /\ pq[s] \in Seq(Rec)
        /\ Cardinality(Pending(s)) \in Nat
    BY Numbers
  <2> QED
    BY <2>1
<1>1. QueueInv'
  <2> SUFFICES ASSUME NEW s \in Worker
               PROVE  /\ Front(s)' >= 0
                      /\ \A i \in DOMAIN pq'[s] : pq'[s][i].period = Front(s)' + i - 1
    BY DEF QueueInv
  <2>0. Front(s) >= 0 /\ \A i \in DOMAIN pq[s] : pq[s][i].period = Front(s) + i - 1
    BY DEF BundleInv, QueueInv
  <2>1. CASE s # p
    BY <1>f, <2>0, <2>1 DEF PopsBundle
  <2>2. CASE s = p
    <3>1. Front(s)' >= 0
      BY <1>0, <1>f, <2>0, <2>2 DEF PopsBundle
    <3>2. ASSUME NEW i \in DOMAIN pq'[s] PROVE pq'[s][i].period = Front(s)' + i - 1
      <4>1. i \in 1 .. Len(pq[s]) - 1 /\ pq'[s][i] = pq[s][i + 1] /\ Len(pq[s]) \in Nat
        BY <1>0, <1>f, <2>2 DEF PopsBundle
      <4>2. i + 1 \in DOMAIN pq[s] /\ i \in Nat
        BY <1>0, <4>1
      <4>3. pq[s][i + 1].period = Front(s) + (i + 1) - 1
        BY <2>0, <4>2
      <4>4. Front(s)' = Front(s) + 1 /\ Front(s) \in Int
        BY <1>0, <1>f, <2>2 DEF PopsBundle
      <4> QED
        BY <4>1, <4>2, <4>3, <4>4
    <3> QED
      BY <3>1, <3>2
  <2> QED
    BY <2>1, <2>2
<1>2. KeptInv'
  <2> SUFFICES ASSUME NEW s \in Worker
               PROVE  /\ Front(s)' + Cardinality(Pending(s)') <= Made(s)'
                      /\ \A v \in Worker \ {s}, n \in Period :
                           Needs(v, s, n)' => Front(s)' + Cardinality(Pending(s)') <= n
    BY DEF KeptInv
  <2>1. Front(s)' + Cardinality(Pending(s)') = Front(s) + Cardinality(Pending(s)) /\ Made(s)' = Made(s)
    <3>1. Front(s) \in Int /\ Cardinality(Pending(s)) \in Nat
      BY <1>0
    <3>2. CASE s = p
      <4>1. /\ Front(p)' = Front(p) + 1 /\ Made(p)' = Made(p)
            /\ Cardinality(Pending(p)') = Cardinality(Pending(p)) - 1
        BY <1>f DEF PopsBundle
      <4> QED
        BY <3>1, <3>2, <4>1
    <3>3. CASE s # p
      BY <1>f, <3>3 DEF PopsBundle
    <3> QED
      BY <3>2, <3>3
  <2> QED
    BY <2>1 DEF BundleInv, KeptInv, NeedsLess
<1>3. CountInv'
  <2> SUFFICES ASSUME NEW s \in Worker, NEW i \in DOMAIN pq'[s], NEW m, m = pq'[s][i].period
               PROVE  pq'[s][i].refs >= Cardinality(Holders(s, m)')
    BY DEF CountInv
  <2>1. PICK j \in DOMAIN pq[s] : pq'[s][i] = pq[s][j]
    <3>1. CASE s # p
      BY <1>f, <3>1 DEF PopsBundle
    <3>2. CASE s = p
      <4>1. i \in 1 .. Len(pq[s]) - 1 /\ Len(pq[s]) \in Nat
        BY <1>0, <1>f, <3>2 DEF PopsBundle
      <4>2. i + 1 \in DOMAIN pq[s]
        BY <1>0, <4>1
      <4> QED
        BY <1>f, <3>2, <4>1, <4>2 DEF PopsBundle
    <3> QED
      BY <3>1, <3>2
  <2>2. m \in Period /\ m = pq[s][j].period /\ pq[s][j].refs \in Int
    BY <2>1, BundlePeriods
  <2>3. pq[s][j].refs >= Cardinality(Holders(s, m))
    BY <2>2 DEF BundleInv, CountInv
  <2>4. Cardinality(Holders(s, m)') <= Cardinality(Holders(s, m))
    BY <2>2, FewerHolders
  <2>5. Cardinality(Holders(s, m)') \in Int /\ Cardinality(Holders(s, m)) \in Int
    BY FewHolders DEF Holders
  <2> QED
    BY <2>1, <2>2, <2>3, <2>4, <2>5
<1> QED
  BY <1>1, <1>2, <1>3 DEF QueuesOK

----------------------------------------------------------------------------
(* The types of the exchange need the invariant: find must have hit.        *)
LEMMA ExchangeTypeNext ==
  ASSUME TypeOK, BundleInv, [Next]_vars
  PROVE  ExchangeTypeOK'
<1>0. /\ pq \in [Worker -> Seq(Rec)] /\ import_clause \in [Worker -> SUBSET Bundle]
      /\ got \in [Worker -> SUBSET Bundle]
  BY DEF TypeOK, ExchangeTypeOK, Rec
<1>1. ASSUME NEW w \in Worker, WorkerStep(w) \/ DrainAtLevelZero(w)
      PROVE  pq' \in [Worker -> Seq(Rec)]
  <2>1. CASE SelectClauses(w)
    BY <2>1, SelectEffect DEF AddsBundle
  <2>2. CASE FreeClause(w)
    BY <2>2, FreeEffect DEF GivesBack
  <2>3. CASE PopFront(w)
    BY <2>3, PopEffect DEF PopsBundle
  <2>4. CASE ~SelectClauses(w) /\ ~FreeClause(w) /\ ~PopFront(w)
    BY <1>0, <1>1, <2>4, CalmSteps DEF QueuesAlike
  <2> QED
    BY <2>1, <2>2, <2>3, <2>4
<1>2. ASSUME NEW w \in Worker, WorkerStep(w) \/ DrainAtLevelZero(w)
      PROVE  import_clause' \in [Worker -> SUBSET Bundle] /\ got' \in [Worker -> SUBSET Bundle]
  <2>1. CASE RestStep(w)
    BY <1>0, <2>1, RestEffect DEF exchange
  <2>2. CASE ImportFrom(w)
    <3>1. CASE UNCHANGED exchange
      BY <1>0, <3>1 DEF exchange
    <3>2. CASE TakeBundle(w)
      <4>1. <<peer[w], Due(w)>> \in Bundle
        BY <3>2 DEF TakeBundle, Bundle
      <4> QED
        BY <1>0, <3>2, <4>1 DEF TakeBundle
    <3> QED
      BY <2>2, <3>1, <3>2, ImportEffect
  <2>3. CASE DrainAtLevelZero(w)
    BY <1>0, <2>3 DEF DrainAtLevelZero, Left
  <2>4. CASE ~RestStep(w) /\ ~ImportFrom(w) /\ ~DrainAtLevelZero(w)
    <3>1. import_clause' = import_clause /\ got' = got
      BY <1>2, <2>4 DEF WorkerStep, RestStep, SelectClauses, IncPeriod, ImportDone, FreeClause,
         PopFront, FreeNext, exchange
    <3> QED
      BY <1>0, <3>1
  <2> QED
    BY <2>1, <2>2, <2>3, <2>4
<1>3. CASE MainStep \/ UNCHANGED vars
  BY <1>0, <1>3, MainDisturbsNobody DEF exchange, ExchangeTypeOK, Rec
<1> QED
  BY <1>1, <1>2, <1>3 DEF Next, Done, ExchangeTypeOK, Rec

(* Together: the invariant is inductive.                                    *)
LEMMA BundleNext ==
  ASSUME TypeOK, BundleInv, [Next]_vars
  PROVE  BundleInv'
<1>1. LocalInv'
  BY LocalNext
<1>2. ASSUME NEW w \in Worker, WorkerStep(w) \/ DrainAtLevelZero(w) PROVE QueuesOK'
  <2>1. \A v \in Worker : NeedsLess(v)
    BY <1>2, NeedsNeverGrow
  <2> QED
    BY <1>2, <2>1, QueuesSelect, QueuesFree, QueuesPop, CalmSteps, QueuesCalm
<1>3. ASSUME MainStep \/ UNCHANGED vars PROVE QueuesOK'
  <2>1. /\ \A v \in Worker : Undisturbed(v)
        /\ UNCHANGED exchange
    BY <1>3, MainDisturbsNobody
  <2>2. \A v \in Worker : NeedsLess(v) /\ Made(v)' = Made(v)
    BY <2>1, NeedsOthers, SameNeeds DEF NeedsLess, NeedsAlike
  <2>3. \A s \in Worker : Pending(s)' = Pending(s)
    BY <2>1, SameNeeds DEF Pending
  <2>4. QueuesAlike
    BY <2>1, <2>2, <2>3 DEF QueuesAlike, Front, exchange
  <2> QED
    BY <2>2, <2>4, QueuesCalm
<1>4. QueuesOK'
  BY <1>2, <1>3 DEF Next, Done
<1> QED
  BY <1>1, <1>4 DEF BundleInv, QueuesOK

(* No worker has made, noted or taken anything at the start.                *)
LEMMA BundleInit == Init => TypeOK /\ BundleInv
<1> SUFFICES ASSUME Init PROVE TypeOK /\ BundleInv
  OBVIOUS
<1>1. ThreadTypeOK
  BY ThreadTypeInit
<1>2. /\ pc = [w \in Worker |-> "unborn"] /\ period = [w \in Worker |-> 0]
      /\ pq = [w \in Worker |-> <<>>] /\ unfree = [w \in Worker |-> <<>>]
      /\ import_clause = [w \in Worker |-> {}] /\ got = [w \in Worker |-> {}]
  BY DEF Init, Fresh
<1>3. ExchangeTypeOK
  BY <1>2 DEF ExchangeTypeOK
<1>4. \A s \in Worker : Made(s) = 0 /\ Front(s) = 0 /\ Pending(s) = {} /\ pq[s] = <<>>
  BY <1>2 DEF Made, Front, Pending
<1>5. QueueInv
  BY <1>4 DEF QueueInv
<1>6. LocalInv
  BY <1>2 DEF LocalInv, NotedOK, WaitingOK, ImportedOK
<1>7. KeptInv
  <2>1. \A s \in Worker : Front(s) + Cardinality(Pending(s)) = 0 /\ Made(s) = 0
    <3> TAKE s \in Worker
    <3>1. Cardinality(Pending(s)) = 0
      BY <1>4, FS_EmptySet
    <3> QED
      BY <1>4, <3>1
  <2> QED
    BY <2>1, PeriodAssumption DEF KeptInv, Period
<1>8. CountInv
  BY <1>4 DEF CountInv
<1> QED
  BY <1>1, <1>3, <1>5, <1>6, <1>7, <1>8 DEF TypeOK, BundleInv

(* Every variable keeps its type: no period passes its bound, no reference  *)
(* count of a bundle falls below 0 or rises above that of the other workers. *)
THEOREM TypeCorrect == Spec => []TypeOK
<1>1. Init => TypeOK /\ BundleInv
  BY BundleInit
<1>2. TypeOK /\ BundleInv /\ [Next]_vars => (TypeOK /\ BundleInv)'
  BY BundleNext, ExchangeTypeNext, ThreadTypeNext DEF TypeOK
<1> QED
  BY <1>1, <1>2, PTL DEF Spec

(* The life of a bundle: queues hold consecutive periods, everything that   *)
(* is needed stays in its queue even after the pops under way, and every    *)
(* holder of a bundle is counted in its references.                         *)
THEOREM BundlesKept == Spec => []BundleInv
<1>1. Init => TypeOK /\ BundleInv
  BY BundleInit
<1>2. TypeOK /\ BundleInv /\ [Next]_vars => (TypeOK /\ BundleInv)'
  BY BundleNext, ExchangeTypeNext, ThreadTypeNext DEF TypeOK
<1> QED
  BY <1>1, <1>2, PTL DEF Spec

(* period_queue::find always finds: the bundle to be imported has been made *)
(* and that to be given back has not been popped.                           *)
THEOREM FindNeverMisses == Spec => []FindHits
<1>1. TypeOK /\ BundleInv => FindHits
  BY ImportFinds, FreeFinds DEF FindHits
<1> QED
  BY <1>1, TypeCorrect, BundlesKept, PTL

(* A clause in an import queue belongs to a bundle that has not been        *)
(* released, whatever the race's end has interrupted.                       *)
THEOREM ClausesLive == Spec => []NoUseAfterFree
<1>1. TypeOK /\ BundleInv => NoUseAfterFree
  <2> SUFFICES ASSUME TypeOK, BundleInv, NEW w \in Worker, NEW b \in import_clause[w]
               PROVE  \E i \in DOMAIN pq[b[1]] : pq[b[1]][i].period = b[2]
    BY DEF NoUseAfterFree
  <2> DEFINE s == b[1]
             k == b[2]
  <2>1. s \in Worker \ {w} /\ k \in Period /\ k < period[s] /\ <<s, k>> \in import_clause[w]
    <3>1. b \in Worker \X Period
      BY DEF TypeOK, ExchangeTypeOK, Bundle
    <3>2. b = <<s, k>> /\ s \in Worker /\ k \in Period
      BY <3>1
    <3>3. WaitingOK(w)
      BY DEF BundleInv, LocalInv
    <3> QED
      BY <3>2, <3>3 DEF WaitingOK
  <2>2. Front(s) + Cardinality(Pending(s)) <= k
    BY <2>1 DEF Needs, BundleInv, KeptInv
  <2>3. Front(s) \in Int /\ Cardinality(Pending(s)) \in Nat /\ period[s] \in Nat
    BY <2>1, Numbers
  <2>4. Front(s) <= k /\ k < Made(s) /\ k \in Int
    BY <2>1, <2>2, <2>3, PeriodAssumption DEF Made, Period
  <2>5. Found(s, k)
    BY <2>1, <2>4, InQueue DEF BundleInv
  <2> QED
    BY <2>5 DEF Found
<1> QED
  BY <1>1, TypeCorrect, BundlesKept, PTL

----------------------------------------------------------------------------
(* Nobody adds to what another worker has imported, or lets him go on.      *)
LEMMA ImportsUndisturbed ==
  ASSUME NEW v \in Worker, Undisturbed(v), got'[v] = got[v], stop'[v] = stop[v] \/ stop'[v], ImportsOK(v)
  PROVE  ImportsOK(v)'
<1>1. Due(v)' = Due(v)
  BY DEF Undisturbed, Due
<1>2. (pc'[v] \in {"import", "wait"} <=> pc[v] \in {"import", "wait"}) /\ (pc'[v] \in Halted <=> pc[v] \in Halted)
  BY DEF Undisturbed, SamePlace, Halted
<1>3. Taken(v)' = Taken(v)
  BY <1>1, <1>2 DEF Undisturbed, Taken
<1> QED
  BY <1>2, <1>3 DEF ImportsOK

(* A step of w leaves what others have imported, and their solvers' flags.  *)
LEMMA OthersImports ==
  ASSUME TypeOK, NEW w \in Worker, WorkerStep(w) \/ DrainAtLevelZero(w), NEW v \in Worker \ {w}
  PROVE  got'[v] = got[v] /\ stop'[v] = stop[v]
<1>1. got \in [Worker -> SUBSET Bundle] /\ stop \in [Worker -> BOOLEAN]
  BY DEF TypeOK, ThreadTypeOK, ExchangeTypeOK, ControlTypes
<1> QED
  BY <1>1 DEF WorkerStep, exchange, Start, NewPeriod, InternalTerminate, SelectClauses, IncPeriod, ImportFrom,
     ImportDone, DrainAtLevelZero, FreeClause, PopFront, FreeNext, Answer, GiveUp, RecordResult, UpdateWinner, CopyModel

(* A worker that stays aside imports nothing, and its period is the same;   *)
(* one that has been told to stop does not come back.                       *)
LEMMA ImportsAside ==
  ASSUME TypeOK, QuietUntilTerminated, NEW w \in Worker, RestStep(w), ImportsOK(w)
  PROVE  ImportsOK(w)'
<1>1. UNCHANGED <<exchange, period, peer>> /\ pc[w] \in Aside /\ pc'[w] \in Aside
  BY RestEffect
<1>2. Taken(w)' = Taken(w) /\ got'[w] = got[w]
  BY <1>1 DEF Taken, Aside, Due, exchange
<1>3. stop \in [Worker -> BOOLEAN] /\ pc \in [Worker -> WorkerPc]
  BY DEF TypeOK, ThreadTypeOK, ControlTypes
<1>4. stop'[w] \/ pc'[w] \in Halted \/ (stop'[w] = stop[w] /\ pc[w] \notin Halted)
  <2>1. CASE Start(w) \/ NewPeriod(w)
    BY <2>1 DEF Start, NewPeriod, Halted
  <2>2. CASE InternalTerminate(w)
    BY <1>3, <2>2 DEF InternalTerminate
  <2>3. CASE Answer(w) \/ RecordResult(w) \/ UpdateWinner(w)
    BY <1>3, <2>3 DEF Answer, RecordResult, UpdateWinner, Go, GoNotify, Halted
  <2>4. CASE GiveUp(w) \/ CopyModel(w)
    <3>1. terminated
      BY <2>4 DEF QuietUntilTerminated, GiveUp, CopyModel
    <3> QED
      BY <1>3, <2>4, <3>1 DEF GiveUp, CopyModel, Go, Halted
  <2> QED
    BY <2>1, <2>2, <2>3, <2>4 DEF RestStep
<1> QED
  BY <1>2, <1>4 DEF ImportsOK

(* One more bundle of those due has been taken.                             *)
LEMMA ImportsTake ==
  ASSUME TypeOK, BundleInv, NEW w \in Worker, ImportFrom(w), ImportsOK(w)
  PROVE  ImportsOK(w)'
<1>1. stop' = stop
  BY DEF ImportFrom
<1>2. CASE pc'[w] = "wait" /\ UNCHANGED <<exchange, peer, period>> /\ Undisturbed(w)
  BY <1>1, <1>2, ImportsUndisturbed DEF exchange
<1>3. CASE pc'[w] = "kill"
  BY <1>3 DEF ImportsOK, Halted
<1>4. CASE TakeBundle(w)
  <2> SUFFICES ASSUME ~stop[w], pc[w] \notin Halted PROVE got'[w] = Taken(w)'
    BY <1>1, <1>4 DEF TakeBundle, ImportsOK
  <2>1. PICK s \in Worker \ {w} : s = peer[w]
    BY <1>4 DEF TakeBundle
  <2>2. PICK k \in Period : k = Due(w)
    BY <1>4 DEF TakeBundle
  <2>3. Due(w)' = k
    BY <1>4, <2>2 DEF TakeBundle, Due
  <2>4. got \in [Worker -> SUBSET Bundle] /\ peer \in [Worker -> Nat \ {0}]
    BY DEF TypeOK, ThreadTypeOK, ExchangeTypeOK, CounterTypes
  <2>5. got'[w] = got[w] \cup {<<s, k>>} /\ peer'[w] = After(w, s) /\ pc[w] = "import" /\ pc'[w] = "import"
    BY <1>4, <2>1, <2>2, <2>4 DEF TakeBundle
  <2>6. got[w] = {b \in Bundle : b[1] # w /\ (b[2] < k \/ (b[2] = k /\ b[1] < s))}
    BY <2>1, <2>2, <2>5 DEF ImportsOK, Taken
  <2>7. Taken(w)' = {b \in Bundle : b[1] # w /\ (b[2] < k \/ (b[2] = k /\ b[1] < After(w, s)))}
    BY <2>3, <2>5 DEF Taken
  <2>8. \A b \in Bundle : b[1] # w => (b[1] < After(w, s) <=> b[1] < s \/ b[1] = s)
    <3> TAKE b \in Bundle
    <3>1. b[1] \in Worker /\ s \in Nat
      BY <2>1 DEF Bundle, Worker
    <3>2. b[1] # w => (b[1] < After(w, s) <=> b[1] <= s)
      BY <3>1, LoopSteps
    <3> QED
      BY <3>1, <3>2 DEF Worker
  <2>9. <<s, k>> \in Bundle /\ \A b \in Bundle : b = <<b[1], b[2]>>
    BY <2>1, <2>2 DEF Bundle
  <2>10. \A b \in Bundle : b \in got'[w] <=> b \in Taken(w)'
    <3> TAKE b \in Bundle
    <3>1. b \in got'[w] <=> (b \in got[w] \/ (b[1] = s /\ b[2] = k))
      BY <2>5, <2>9
    <3>2. b \in got[w] <=> b[1] # w /\ (b[2] < k \/ (b[2] = k /\ b[1] < s))
      BY <2>6
    <3>3. b \in Taken(w)' <=> b[1] # w /\ (b[2] < k \/ (b[2] = k /\ b[1] < After(w, s)))
      BY <2>7
    <3> QED
      BY <2>1, <2>8, <3>1, <3>2, <3>3
  <2>11. got'[w] \subseteq Bundle /\ Taken(w)' \subseteq Bundle
    BY <2>4, <2>5, <2>7, <2>9
  <2> QED
    BY <2>10, <2>11
<1> QED
  BY <1>2, <1>3, <1>4, ImportEffect

(* The loop ends when every other producer's bundle has been taken.         *)
LEMMA ImportsDone ==
  ASSUME TypeOK, NEW w \in Worker, ImportDone(w), ImportsOK(w)
  PROVE  ImportsOK(w)'
<1>1. /\ stop' = stop /\ got' = got /\ pc[w] = "import" /\ pc'[w] = "search" /\ Due(w)' = Due(w)
      /\ peer[w] \in Nat \ {0} /\ peer[w] \notin Worker
  BY DEF ImportDone, Go, TypeOK, ThreadTypeOK, ControlTypes, CounterTypes, Due
<1>2. \A b \in Bundle : b[1] < peer[w] /\ b[2] \in Int
  BY <1>1, NAssumption, PeriodAssumption DEF Bundle, Worker, Period
<1>3. Due(w) \in Int
  BY Numbers
<1>4. Taken(w)' = {b \in Bundle : b[1] # w /\ b[2] <= Due(w)}
  BY <1>1 DEF Taken
<1>5. Taken(w) = {b \in Bundle : b[1] # w /\ (b[2] < Due(w) \/ (b[2] = Due(w) /\ b[1] < peer[w]))}
  BY <1>1 DEF Taken
<1>6. Taken(w)' = Taken(w)
  BY <1>2, <1>3, <1>4, <1>5
<1> QED
  BY <1>1, <1>6 DEF ImportsOK, Halted

(* The new period makes one more bundle of every producer due, the first    *)
(* ones excepted.                                                           *)
LEMMA ImportsInc ==
  ASSUME TypeOK, NEW w \in Worker, IncPeriod(w), ImportsOK(w)
  PROVE  ImportsOK(w)'
<1>1. /\ stop' = stop /\ got' = got /\ pc[w] = "inc" /\ period[w] \in Nat
      /\ period'[w] = period[w] + 1 /\ peer'[w] = First(w)
      /\ pc'[w] = IF NothingDue(w) THEN "search" ELSE "import"
  BY Numbers DEF IncPeriod, GoNotify, exchange, TypeOK, ThreadTypeOK, ControlTypes, CounterTypes
<1>2. Due(w) \in Int /\ Due(w)' = Due(w) + 1 /\ (NothingDue(w) <=> Due(w) + 1 < 0)
  BY <1>1, MarginAssumption DEF Due, NothingDue
<1>3. \A b \in Bundle : b[1] \in Worker /\ b[2] \in Nat
  BY PeriodAssumption DEF Bundle, Period
<1>4. Taken(w) = {b \in Bundle : b[1] # w /\ b[2] <= Due(w)}
  BY <1>1 DEF Taken
<1>5. Taken(w)' = Taken(w)
  <2>1. CASE NothingDue(w)
    <3>1. Taken(w)' = {b \in Bundle : b[1] # w /\ b[2] <= Due(w) + 1}
      BY <1>1, <1>2, <2>1 DEF Taken
    <3>2. \A b \in Bundle : ~(b[2] <= Due(w)) /\ ~(b[2] <= Due(w) + 1)
      BY <1>2, <1>3, <2>1
    <3> QED
      BY <1>4, <3>1, <3>2
  <2>2. CASE ~NothingDue(w)
    <3>1. Taken(w)' = {b \in Bundle : b[1] # w /\ (b[2] < Due(w) + 1 \/ (b[2] = Due(w) + 1 /\ b[1] < First(w)))}
      BY <1>1, <1>2, <2>2 DEF Taken
    <3>2. \A b \in Bundle : b[1] # w => ~(b[1] < First(w))
      BY <1>3, LoopSteps
    <3>3. \A b \in Bundle : b[2] < Due(w) + 1 <=> b[2] <= Due(w)
      BY <1>2, <1>3
    <3> QED
      BY <1>4, <3>1, <3>2, <3>3
  <2> QED
    BY <2>1, <2>2
<1> QED
  BY <1>1, <1>5 DEF ImportsOK, Halted

(* The other steps of the exchange leave what has been imported.            *)
LEMMA ImportsFree ==
  ASSUME TypeOK, NEW w \in Worker, ImportsOK(w),
         SelectClauses(w) \/ DrainAtLevelZero(w) \/ FreeClause(w) \/ PopFront(w) \/ FreeNext(w)
  PROVE  ImportsOK(w)'
<1>1. pc \in [Worker -> WorkerPc]
  BY DEF TypeOK, ThreadTypeOK, ControlTypes
<1>2. /\ stop' = stop /\ got' = got /\ period' = period
      /\ pc[w] \notin {"import", "wait"} \cup Halted /\ pc'[w] \notin {"import", "wait"} \cup Halted
  BY <1>1 DEF SelectClauses, DrainAtLevelZero, FreeClause, PopFront, FreeNext, Go, Halted
<1>3. Taken(w)' = Taken(w)
  BY <1>2 DEF Taken, Due
<1> QED
  BY <1>2, <1>3 DEF ImportsOK

(* Together: what has been imported follows from the place in the loop.     *)
LEMMA ImportsNext ==
  ASSUME TypeOK, BundleInv, QuietUntilTerminated, ImportsInv, [Next]_vars
  PROVE  ImportsInv'
<1>1. ASSUME NEW w \in Worker, WorkerStep(w) \/ DrainAtLevelZero(w) PROVE ImportsInv'
  <2>1. ASSUME NEW v \in Worker \ {w} PROVE ImportsOK(v)'
    BY <1>1, <2>1, OthersUndisturbed, OthersImports, ImportsUndisturbed DEF ImportsInv
  <2>2. ImportsOK(w)'
    BY <1>1, ImportsAside, ImportsTake, ImportsDone, ImportsInc, ImportsFree DEF ImportsInv, WorkerStep, RestStep
  <2> QED
    BY <2>1, <2>2 DEF ImportsInv
<1>2. CASE MainStep \/ UNCHANGED vars
  <2>1. stop \in [Worker -> BOOLEAN]
    BY DEF TypeOK, ThreadTypeOK, ControlTypes
  <2>2. got' = got /\ \A v \in Worker : Undisturbed(v)
    BY <1>2, MainDisturbsNobody DEF exchange
  <2>3. \A v \in Worker : stop'[v] = stop[v] \/ stop'[v]
    BY <1>2, <2>1 DEF MainStep, SeeTerminated, Cutoff, ExternalTerminate, AllTerminated, Join, vars
  <2> QED
    BY <2>2, <2>3, ImportsUndisturbed DEF ImportsInv
<1> QED
  BY <1>1, <1>2 DEF Next, Done

(* Determinism: what a worker that has not been told to stop knows in its   *)
(* period p does not depend on the scheduling.                              *)
THEOREM ImportsDetermined == Spec => []SameImports
<1>1. Init => ImportsInv /\ QuietUntilTerminated
  <2> SUFFICES ASSUME Init PROVE ImportsInv /\ QuietUntilTerminated
    OBVIOUS
  <2>1. \A w \in Worker : pc[w] = "unborn" /\ period[w] = 0 /\ got[w] = {}
    BY DEF Init, Fresh
  <2>2. \A b \in Bundle : b[2] \in Nat
    BY PeriodAssumption DEF Bundle, Period
  <2>3. \A w \in Worker : Taken(w) = {}
    BY <2>1, <2>2, MarginAssumption DEF Taken, Due
  <2> QED
    BY <2>1, <2>3 DEF Init, Fresh, ImportsInv, ImportsOK, QuietUntilTerminated
<1>2. ThreadTypeOK /\ QuietUntilTerminated /\ [Next]_vars => QuietUntilTerminated'
  BY QuietNext
<1>3. TypeOK /\ BundleInv /\ QuietUntilTerminated /\ ImportsInv /\ [Next]_vars => ImportsInv'
  BY ImportsNext
<1>4. TypeOK /\ ImportsInv => SameImports
  <2> SUFFICES ASSUME TypeOK, ImportsInv, NEW w \in Worker, pc[w] = "search", ~stop[w]
               PROVE  got[w] = (Worker \ {w}) \X (0 .. Due(w))
    BY DEF SameImports
  <2>1. got[w] = {b \in Bundle : b[1] # w /\ b[2] <= Due(w)}
    BY DEF ImportsInv, ImportsOK, Halted, Taken
  <2>2. Due(w) \in Int /\ Due(w) <= MaxPeriod
    BY PeriodAssumption, MarginAssumption DEF TypeOK, ThreadTypeOK, CounterTypes, Due, Period
  <2>3. \A n : n \in Period /\ n <= Due(w) <=> n \in 0 .. Due(w)
    BY <2>2, PeriodAssumption DEF Period
  <2> QED
    BY <2>1, <2>3 DEF Bundle
<1> QED
  BY <1>1, <1>2, <1>3, <1>4, TypeCorrect, BundlesKept, ThreadTypeCorrect, PTL DEF Spec

----------------------------------------------------------------------------
(* While the race is on: first what a worker has noted.                     *)
Grown == \A s \in Worker : period[s] \in Nat /\ period'[s] \in Nat /\ period'[s] >= period[s]

(* Steps that neither note a period nor make one due.                       *)
LEMMA UnbrokenSame ==
  ASSUME TypeOK, Grown, NEW w \in Worker, Unbroken(w), NextDue(w)' = NextDue(w), unfree'[w] = unfree[w],
         \A b \in import_clause'[w] : b \in import_clause[w] \/ b[2] >= NextDue(w)
  PROVE  Unbroken(w)'
<1>1. NextDue(w) \in Int
  BY Numbers
<1> QED
  BY <1>1 DEF Unbroken, Grown

(* Others are as unbroken as before.                                        *)
LEMMA UnbrokenOthers ==
  ASSUME TypeOK, Grown, NEW v \in Worker, Undisturbed(v), Unbroken(v)
  PROVE  Unbroken(v)'
BY UnbrokenSame, SameNeeds DEF Undisturbed

(* The period noted is the next.                                            *)
LEMMA UnbrokenDone ==
  ASSUME TypeOK, BundleInv, Grown, NEW w \in Worker, ImportDone(w), Unbroken(w)
  PROVE  Unbroken(w)'
<1>0. pc \in [Worker -> WorkerPc] /\ unfree \in [Worker -> Seq(Nat)] /\ peer \in [Worker -> Nat \ {0}]
      /\ import_clause \in [Worker -> SUBSET Bundle]
  BY DEF TypeOK, ThreadTypeOK, ExchangeTypeOK, ControlTypes, CounterTypes
<1> DEFINE u == unfree[w]
<1>1. /\ unfree'[w] = Append(u, Due(w)) /\ pc[w] = "import" /\ pc'[w] = "search"
      /\ UNCHANGED <<period, import_clause, peer>> /\ peer[w] \notin Worker /\ peer[w] \in Nat \ {0}
  BY <1>0 DEF ImportDone, Noted, Go
<1>2. Due(w) \in Nat
  BY <1>1, MarginAssumption, PeriodAssumption DEF TypeOK, ThreadTypeOK, CounterTypes, LocalOK, Due, Period
<1>3. NextDue(w)' = Due(w) + 1 /\ NextDue(w) = Due(w)
  BY <1>1 DEF NextDue, Due
<1>4. /\ u \in Seq(Nat) /\ Len(u) \in Nat /\ DOMAIN u = 1 .. Len(u)
      /\ DOMAIN unfree'[w] = 1 .. Len(u) + 1 /\ Len(unfree'[w]) = Len(u) + 1
      /\ \A i \in 1 .. Len(u) : unfree'[w][i] = u[i]
      /\ unfree'[w][Len(u) + 1] = Due(w)
  BY <1>0, <1>1, <1>2, AppendProperties
<1>5. ASSUME NEW i \in DOMAIN unfree'[w]
      PROVE  unfree'[w][i] = NextDue(w)' - Len(unfree'[w]) + i - 1
  <2>0. /\ NextDue(w)' = Due(w) + 1 /\ Due(w) \in Nat /\ Len(u) \in Nat
        /\ Len(unfree'[w]) = Len(u) + 1 /\ i \in 1 .. Len(u) + 1
    BY <1>2, <1>3, <1>4
  <2>1. CASE i \in 1 .. Len(u)
    <3>1. unfree'[w][i] = u[i] /\ u[i] = Due(w) - Len(u) + i - 1
      BY <1>3, <1>4, <2>1 DEF Unbroken
    <3>2. Due(w) - Len(u) + i - 1 = (Due(w) + 1) - (Len(u) + 1) + i - 1
      BY <2>0
    <3> QED
      BY <2>0, <3>1, <3>2
  <2>2. CASE i = Len(u) + 1
    <3>1. unfree'[w][i] = Due(w)
      BY <1>4, <2>2
    <3>2. Due(w) = (Due(w) + 1) - (Len(u) + 1) + i - 1
      BY <2>0, <2>2
    <3> QED
      BY <2>0, <3>1, <3>2
  <2> QED
    BY <2>0, <2>1, <2>2
<1>6. ASSUME NEW b \in import_clause[w]
      PROVE  b[2] >= NextDue(w)' \/ \E i \in DOMAIN unfree'[w] : unfree'[w][i] = b[2]
  <2>1. b[2] \in Nat
    BY <1>0, PeriodAssumption DEF Bundle, Period
  <2>2. b[2] >= Due(w) => b[2] >= Due(w) + 1 \/ b[2] = Due(w)
    BY <1>2, <2>1
  <2>3. Len(u) + 1 \in DOMAIN unfree'[w] /\ \A i \in DOMAIN u : i \in DOMAIN unfree'[w]
    BY <1>4
  <2> QED
    BY <1>3, <1>4, <2>2, <2>3 DEF Unbroken
<1>7. \A s \in Worker \ {w} : NextDue(w)' <= period'[s]
  <2>1. \A s \in Worker \ {w} : s < peer[w]
    BY <1>1, NAssumption DEF Worker
  <2>2. \A s \in Worker \ {w} : Due(w) < period[s]
    BY <1>1, <2>1 DEF BundleInv, LocalInv, ImportedOK
  <2> QED
    BY <1>1, <1>2, <1>3, <2>2 DEF Grown
<1> QED
  BY <1>1, <1>5, <1>6, <1>7 DEF Unbroken

(* While no bundle is due, nothing is noted.                                *)
LEMMA UnbrokenInc ==
  ASSUME TypeOK, BundleInv, Grown, NEW w \in Worker, IncPeriod(w), Unbroken(w)
  PROVE  Unbroken(w)'
<1>1. /\ pc[w] = "inc" /\ pc'[w] = IF NothingDue(w) THEN "search" ELSE "import"
      /\ period'[w] = period[w] + 1 /\ UNCHANGED <<unfree, import_clause>> /\ period[w] \in Nat
  BY Numbers DEF IncPeriod, GoNotify, exchange, TypeOK, ThreadTypeOK, ControlTypes, CounterTypes
<1>2. CASE NothingDue(w)
  <2>1. NextDue(w) < 0 /\ NextDue(w)' <= 0 /\ NextDue(w) \in Int /\ NextDue(w)' \in Int
    BY <1>1, <1>2, MarginAssumption DEF NothingDue, NextDue, Due
  <2>2. DOMAIN unfree[w] = {}
    <3>1. \A i \in DOMAIN unfree[w] : unfree[w][i] < NextDue(w)
      BY DEF BundleInv, LocalInv, NotedOK
    <3>2. unfree[w] \in Seq(Nat)
      BY Numbers
    <3>3. \A i \in DOMAIN unfree[w] : unfree[w][i] \in Nat
      BY <3>2
    <3> QED
      BY <2>1, <3>1, <3>3
  <2>3. \A b \in import_clause[w] : b[2] >= NextDue(w)'
    <3>1. \A b \in import_clause[w] : b[2] \in Nat
      BY PeriodAssumption DEF TypeOK, ExchangeTypeOK, Bundle, Period
    <3> QED
      BY <2>1, <3>1
  <2>4. \A s \in Worker : NextDue(w)' <= period'[s]
    BY <2>1 DEF Grown
  <2> QED
    BY <1>1, <2>2, <2>3, <2>4 DEF Unbroken
<1>3. CASE ~NothingDue(w)
  <2>1. NextDue(w)' = NextDue(w)
    BY <1>1, <1>3, MarginAssumption DEF NextDue, Due
  <2> QED
    BY <1>1, <2>1, UnbrokenSame
<1> QED
  BY <1>2, <1>3

(* The earliest period goes.                                                *)
LEMMA UnbrokenFreeNext ==
  ASSUME TypeOK, BundleInv, Grown, NEW w \in Worker, FreeNext(w), Unbroken(w)
  PROVE  Unbroken(w)'
<1>0. pc \in [Worker -> WorkerPc] /\ unfree \in [Worker -> Seq(Nat)]
  BY DEF TypeOK, ThreadTypeOK, ControlTypes, CounterTypes
<1>1. /\ pc[w] = "free" /\ pc'[w] \in {"search", "free"} /\ UNCHANGED <<import_clause, period>>
      /\ unfree'[w] = Tail(unfree[w]) /\ unfree[w] # <<>>
  BY <1>0 DEF FreeNext, Go, TypeOK, ThreadTypeOK, LocalOK
<1> DEFINE u == unfree[w]
<1>2. /\ Len(u) \in Nat \ {0} /\ DOMAIN u = 1 .. Len(u) /\ DOMAIN unfree'[w] = 1 .. Len(u) - 1
      /\ Len(unfree'[w]) = Len(u) - 1
      /\ \A i \in 1 .. Len(u) - 1 : unfree'[w][i] = u[i + 1]
  BY <1>0, <1>1, TailOf
<1>3. NextDue(w)' = NextDue(w) /\ NextDue(w) \in Int /\ import_clause[w] = {}
  BY <1>1, Numbers DEF NextDue, Due, BundleInv, LocalInv, NotedOK
<1>4. ASSUME NEW i \in DOMAIN unfree'[w]
      PROVE  unfree'[w][i] = NextDue(w) - Len(unfree'[w]) + i - 1
  <2>1. i + 1 \in DOMAIN u /\ i \in Nat /\ unfree'[w][i] = u[i + 1]
    BY <1>2
  <2>2. u[i + 1] = NextDue(w) - Len(u) + (i + 1) - 1
    BY <2>1 DEF Unbroken
  <2> QED
    BY <1>2, <1>3, <2>1, <2>2
<1> QED
  BY <1>1, <1>3, <1>4 DEF Unbroken, Grown

(* Together: no period is skipped while the race is on.                     *)
LEMMA UnbrokenNext ==
  ASSUME TypeOK, BundleInv, NEW w \in Worker, WorkerStep(w) \/ DrainAtLevelZero(w), Grown,
         \A v \in Worker : Unbroken(v), pc'[w] # "kill" \/ RestStep(w)
  PROVE  \A v \in Worker : Unbroken(v)'
<1>0. pc \in [Worker -> WorkerPc] /\ import_clause \in [Worker -> SUBSET Bundle]
  BY DEF TypeOK, ThreadTypeOK, ControlTypes, ExchangeTypeOK
<1>1. \A v \in Worker \ {w} : Unbroken(v)'
  BY OthersUndisturbed, UnbrokenOthers
<1>2. CASE RestStep(w)
  <2>1. NextDue(w)' = NextDue(w) /\ unfree' = unfree /\ import_clause' = import_clause
    BY <1>2, RestEffect DEF NextDue, Due, Aside, exchange
  <2> QED
    BY <1>1, <2>1, UnbrokenSame
<1>3. CASE ImportFrom(w)
  <2>1. Undisturbed(w) \/ TakeBundle(w)
    BY <1>3, ImportEffect DEF RestStep, Start, NewPeriod, InternalTerminate, Answer, GiveUp,
       RecordResult, UpdateWinner, CopyModel, ImportFrom
  <2>2. CASE TakeBundle(w)
    <3>1. NextDue(w)' = NextDue(w) /\ NextDue(w) = Due(w) /\ unfree' = unfree /\ Due(w) \in Int
      BY <2>2, Numbers DEF TakeBundle, NextDue, Due
    <3>2. \A b \in import_clause'[w] : b \in import_clause[w] \/ b[2] >= Due(w)
      BY <1>0, <2>2, <3>1 DEF TakeBundle
    <3> QED
      BY <1>1, <3>1, <3>2, UnbrokenSame
  <2> QED
    BY <1>1, <2>1, <2>2, UnbrokenOthers
<1>4. CASE SelectClauses(w) \/ DrainAtLevelZero(w) \/ FreeClause(w) \/ PopFront(w)
  <2>1. /\ pc[w] \notin {"import", "wait"} /\ pc'[w] \notin {"import", "wait"} /\ period' = period
        /\ unfree' = unfree /\ import_clause'[w] \subseteq import_clause[w]
    BY <1>0, <1>4 DEF SelectClauses, DrainAtLevelZero, FreeClause, PopFront, Go, Left
  <2>2. NextDue(w)' = NextDue(w)
    BY <2>1 DEF NextDue, Due
  <2> QED
    BY <1>1, <2>1, <2>2, UnbrokenSame
<1>5. CASE ImportDone(w) \/ IncPeriod(w) \/ FreeNext(w)
  BY <1>1, <1>5, UnbrokenDone, UnbrokenInc, UnbrokenFreeNext
<1> QED
  BY <1>2, <1>3, <1>4, <1>5 DEF WorkerStep, RestStep

----------------------------------------------------------------------------
(* Then the references.                                                     *)
LEMMA SameHolders ==
  ASSUME \A v \in Worker : NeedsAlike(v), NEW s \in Worker, NEW k \in Period
  PROVE  Holders(s, k)' = Holders(s, k)
<1>1. \A n \in 0 .. k : n \in Period
  BY PeriodAssumption DEF Period
<1>2. \A v \in Worker \ {s} : (\E n \in 0 .. k : Needs(v, s, n)') <=> (\E n \in 0 .. k : Needs(v, s, n))
  BY <1>1 DEF NeedsAlike
<1> QED
  BY <1>2 DEF Holders

(* Apart from giving back, no step changes what is needed: nothing waits in *)
(* the import queue that is not noted, so that emptying it frees nothing.   *)
LEMMA NeedsKept ==
  ASSUME TypeOK, BundleInv, NEW w \in Worker, WorkerStep(w) \/ DrainAtLevelZero(w), ~FreeClause(w),
         Unbroken(w), pc'[w] # "kill" \/ RestStep(w)
  PROVE  \A v \in Worker : NeedsAlike(v)
<1>1. \A v \in Worker \ {w} : NeedsAlike(v)
  BY OthersUndisturbed, NeedsOthers
<1>2. CASE RestStep(w)
  BY <1>1, <1>2, RestEffect, NeedsAside DEF exchange
<1>3. CASE ImportFrom(w)
  <2>1. Undisturbed(w) \/ TakeBundle(w)
    BY <1>3, ImportEffect DEF RestStep, Start, NewPeriod, InternalTerminate, Answer, GiveUp,
       RecordResult, UpdateWinner, CopyModel, ImportFrom
  <2> QED
    BY <1>1, <2>1, NeedsOthers, NeedsTake
<1>4. CASE DrainAtLevelZero(w)
  <2>1. \A s \in Worker : ~GivenBack(w, s)
    BY <1>4 DEF DrainAtLevelZero, GivenBack
  <2>2. \A s \in Worker, n \in Period : <<s, n>> \in import_clause[w] => Listed(w, s, n) \/ n >= NextDue(w)
    BY <2>1 DEF Unbroken, Listed
  <2>3. NeedsAlike(w)
    BY <1>4, <2>2, NeedsDrain DEF NeedsAlike, Needs
  <2> QED
    BY <1>1, <2>3
<1>5. CASE ImportDone(w) \/ IncPeriod(w) \/ SelectClauses(w) \/ PopFront(w) \/ FreeNext(w)
  BY <1>1, <1>5, NeedsDone, NeedsInc, NeedsSelect, NeedsPop, NeedsNext
<1> QED
  BY <1>2, <1>3, <1>4, <1>5 DEF WorkerStep, RestStep

(* Whoever is giving back a period still needs the next. *)
LEMMA NextNeeded ==
  ASSUME TypeOK, NEW w \in Worker, Unbroken(w), pc[w] \in {"free", "pop"}, NEW s \in Worker \ {w},
         NEW k, k = Head(unfree[w])
  PROVE  k \in Nat /\ Needs(w, s, k + 1)
<1> DEFINE u == unfree[w]
<1>1. u \in Seq(Nat) /\ u # <<>>
  BY Numbers DEF TypeOK, ThreadTypeOK, LocalOK
<1>2. Len(u) \in Nat \ {0} /\ DOMAIN u = 1 .. Len(u) /\ k = u[1]
  BY <1>1, TailOf
<1> HIDE DEF u
<1>3. NextDue(w) \in Int /\ 1 \in DOMAIN u /\ k \in Nat
  <2>1. NextDue(w) \in Int
    BY Numbers
  <2>2. 1 \in DOMAIN u
    BY <1>2
  <2>3. u[1] \in Nat
    BY <1>1, <2>2
  <2> QED
    BY <1>2, <2>1, <2>2, <2>3
<1>4. k = NextDue(w) - Len(u)
  BY <1>2, <1>3 DEF Unbroken, u
<1>5. CASE Len(u) = 1
  <2>1. k + 1 = NextDue(w)
    BY <1>2, <1>3, <1>4, <1>5
  <2> QED
    BY <1>3, <2>1 DEF Needs
<1>6. CASE Len(u) # 1
  <2>1. 2 \in DOMAIN u
    BY <1>2, <1>6
  <2>2. u[2] = k + 1
    <3>1. u[2] = NextDue(w) - Len(u) + 2 - 1
      BY <2>1 DEF Unbroken, u
    <3> QED
      BY <1>2, <1>3, <1>4, <3>1
  <2>3. Listed(w, s, k + 1)
    BY <2>1, <2>2 DEF Listed, u
  <2> QED
    BY <1>3, <2>3 DEF Needs
<1> QED
  BY <1>5, <1>6

(* References stay exact where nothing happens to the queue.                *)
LEMMA ExactCalm ==
  ASSUME TypeOK, NEW s \in Worker, Exact(s), \A v \in Worker : NeedsAlike(v),
         pq'[s] = pq[s], Pending(s)' = Pending(s), Front(s)' = Front(s),
         \A v \in Pending(s) : unfree'[v] = unfree[v]
  PROVE  Exact(s)'
<1>1. \A i \in DOMAIN pq[s] : Holders(s, pq[s][i].period)' = Holders(s, pq[s][i].period)
  <2> TAKE i \in DOMAIN pq[s]
  <2> DEFINE k == pq[s][i].period
  <2>1. k \in Period
    BY BundlePeriods
  <2>2. k' = k
    OBVIOUS
  <2> HIDE DEF k
  <2>3. PICK m \in Period : m = k
    BY <2>1
  <2>4. Holders(s, m)' = Holders(s, m)
    BY SameHolders
  <2> QED
    BY <2>2, <2>3, <2>4 DEF k
<1> QED
  BY <1>1 DEF Exact

(* A new bundle is due to every other worker: nobody has got ahead of its   *)
(* maker.                                                                   *)
LEMMA ExactSelect ==
  ASSUME TypeOK, BundleInv, NEW w \in Worker, SelectClauses(w), \A s \in Worker : Unbroken(s) /\ Exact(s),
         \A v \in Worker : NeedsAlike(v)
  PROVE  \A s \in Worker : Exact(s)'
<1>e. AddsBundle(w)
  BY SelectEffect
<1>u. unfree' = unfree
  BY DEF SelectClauses
<1>1. \A s \in Worker \ {w} : Exact(s)'
  BY <1>e, <1>u, ExactCalm DEF AddsBundle
<1>2. Len(pq[w]) \in Nat /\ DOMAIN pq[w] = 1 .. Len(pq[w]) /\ period[w] \in Period
  <2>1. Len(pq[w]) \in Nat /\ pq[w] \in Seq(Rec)
    BY Numbers
  <2> QED
    BY <2>1 DEF TypeOK, ThreadTypeOK, CounterTypes
<1>3. Pending(w)' = Pending(w) /\ Front(w)' = Front(w)
  BY <1>e DEF AddsBundle
<1>4. ASSUME NEW i \in DOMAIN pq'[w], NEW k, k = pq'[w][i].period
      PROVE  /\ pq'[w][i].refs = Cardinality(Holders(w, k)')
             /\ pq'[w][i].refs = 0 /\ N > 1 => \E v \in Pending(w) : Head(unfree[v]) = k
  <2>1. CASE i \in 1 .. Len(pq[w])
    <3>1. pq'[w][i] = pq[w][i] /\ i \in DOMAIN pq[w]
      BY <1>2, <1>e, <2>1 DEF AddsBundle
    <3>2. k \in Period /\ k = pq[w][i].period
      BY <1>4, <3>1, BundlePeriods
    <3>3. Holders(w, k)' = Holders(w, k)
      BY <3>2, SameHolders
    <3> QED
      BY <3>1, <3>2, <3>3 DEF Exact
  <2>2. CASE i = Len(pq[w]) + 1
    <3>1. pq'[w][i].refs = N - 1 /\ k = period[w]
      BY <1>4, <1>e, <2>2 DEF AddsBundle, NewBundle, Shares
    <3>2. \A v \in Worker \ {w} : Needs(v, w, k)
      BY <1>2, <3>1, Numbers, PeriodAssumption DEF Unbroken, Needs, Period
    <3>3. k \in Period /\ k \in 0 .. k
      BY <1>2, <3>1, PeriodAssumption DEF Period
    <3>4. Holders(w, k) = Worker \ {w}
      BY <3>2, <3>3 DEF Holders
    <3>5. Holders(w, k)' = Worker \ {w}
      BY <3>3, <3>4, SameHolders
    <3>6. Cardinality(Worker \ {w}) = N - 1
      <4>1. IsFiniteSet(Worker) /\ Cardinality(Worker) = N
        BY NAssumption, FS_Interval DEF Worker
      <4> QED
        BY <4>1, FS_RemoveElement
    <3> QED
      BY <3>1, <3>5, <3>6, NAssumption
  <2> QED
    BY <1>2, <1>e, <2>1, <2>2 DEF AddsBundle
<1>5. Exact(w)'
  BY <1>3, <1>4, <1>u DEF Exact
<1> QED
  BY <1>1, <1>5

(* A bundle popped was the one without references, and there was no other.  *)
LEMMA ExactPop ==
  ASSUME TypeOK, BundleInv, NEW w \in Worker, PopFront(w), \A s \in Worker : Exact(s),
         \A v \in Worker : NeedsAlike(v)
  PROVE  \A s \in Worker : Exact(s)'
<1>p. PICK p : p = peer[w]
  OBVIOUS
<1>f. PopsBundle(w, p)
  BY <1>p, PopEffect
<1>u. unfree' = unfree
  BY DEF PopFront
<1>1. \A s \in Worker \ {p} : Exact(s)'
  BY <1>f, <1>u, ExactCalm DEF PopsBundle
<1>2. p \in Worker /\ w \in Pending(p) /\ Pending(p) = {w} /\ Pending(p)' = {}
  BY <1>f DEF PopsBundle, Exact
<1>3. Front(p) = Head(unfree[w]) /\ Front(p) \in Int
  BY <1>2, Numbers DEF Exact
<1>4. ASSUME NEW i \in DOMAIN pq'[p], NEW k, k = pq'[p][i].period
      PROVE  /\ pq'[p][i].refs = Cardinality(Holders(p, k)')
             /\ ~(pq'[p][i].refs = 0 /\ N > 1)
  <2>1. /\ i \in 1 .. Len(pq[p]) - 1 /\ pq'[p][i] = pq[p][i + 1] /\ Len(pq[p]) \in Nat
        /\ pq[p] \in Seq(Rec)
    BY <1>2, <1>f, Numbers DEF PopsBundle
  <2>2. i + 1 \in DOMAIN pq[p] /\ i \in Nat \ {0}
    BY <2>1
  <2>3. k \in Period /\ k = pq[p][i + 1].period
    BY <1>2, <1>4, <2>1, <2>2, BundlePeriods
  <2>4. Holders(p, k)' = Holders(p, k)
    BY <1>2, <2>3, SameHolders
  <2>5. k = Front(p) + (i + 1) - 1
    BY <1>2, <2>2, <2>3 DEF BundleInv, QueueInv
  <2>6. k # Head(unfree[w])
    BY <1>3, <2>2, <2>5
  <2> QED
    BY <1>2, <2>1, <2>2, <2>3, <2>4, <2>6 DEF Exact
<1>5. Exact(p)'
  BY <1>2, <1>4 DEF Exact
<1> QED
  BY <1>1, <1>5

(* Who holds p's bundles after w has given back that of period k. *)
LEMMA HoldersFree ==
  ASSUME TypeOK, BundleInv, NEW w \in Worker, FreeClause(w), Unbroken(w),
         NEW p, p = peer[w], NEW k, k = Head(unfree[w]), NEW at, GivesBack(w, p, k, at)
  PROVE  /\ \A m \in Period : m # k => Holders(p, m)' = Holders(p, m)
         /\ \A m \in Period : m < k => w \notin Holders(p, m)
         /\ Holders(p, k)' = Holders(p, k) \ {w}
         /\ \A s \in Worker \ {p}, m \in Period : Holders(s, m)' = Holders(s, m)
<1>0. p \in Worker \ {w} /\ k \in Period /\ w \in Holders(p, k) /\ Needs(w, p, k) /\ k \in Nat
  BY PeriodAssumption DEF GivesBack, Period
<1>1. \A v \in Worker \ {w} : NeedsAlike(v)
  BY OthersUndisturbed, NeedsOthers DEF WorkerStep
<1>2. /\ \A s \in Worker \ {w}, n \in Period : s # p => (Needs(w, s, n)' <=> Needs(w, s, n))
      /\ \A n \in Period : Needs(w, p, n)' <=> Needs(w, p, n) /\ n # k
      /\ \A n \in Period : Needs(w, p, n) => n >= k
  BY NeedsFree
<1>3. pc[w] = "free"
  BY DEF FreeClause
<1>4. Needs(w, p, k + 1)
  BY <1>0, <1>3, NextNeeded
<1>5. \A m \in Period : m \in Nat /\ \A n \in 0 .. m : n \in Period /\ n \in Nat /\ n <= m
  BY PeriodAssumption DEF Period
<1>6. ASSUME NEW s \in Worker, NEW m \in Period, NEW v \in Worker, v # w
      PROVE  v \in Holders(s, m)' <=> v \in Holders(s, m)
  BY <1>1, <1>5, <1>6 DEF Holders, NeedsAlike
<1>7. ASSUME NEW s \in Worker \ {p}, NEW m \in Period
      PROVE  w \in Holders(s, m)' <=> w \in Holders(s, m)
  BY <1>2, <1>5 DEF Holders
<1>8. ASSUME NEW m \in Period, m < k PROVE w \notin Holders(p, m) /\ w \notin Holders(p, m)'
  <2>1. \A n \in 0 .. m : ~Needs(w, p, n) /\ ~Needs(w, p, n)'
    BY <1>0, <1>2, <1>5, <1>8
  <2> QED
    BY <2>1 DEF Holders
<1>9. w \notin Holders(p, k)'
  <2>1. \A n \in 0 .. k : ~Needs(w, p, n)'
    BY <1>0, <1>2, <1>5
  <2> QED
    BY <2>1 DEF Holders
<1>10. ASSUME NEW m \in Period, m > k PROVE w \in Holders(p, m) /\ w \in Holders(p, m)'
  <2>1. k \in 0 .. m /\ k + 1 \in 0 .. m /\ k + 1 # k
    <3>1. m \in Nat /\ k \in Nat /\ m > k
      BY <1>0, <1>5, <1>10
    <3> QED
      BY <3>1
  <2>2. Needs(w, p, k + 1)'
    BY <1>2, <1>4, <1>5, <2>1
  <2> QED
    BY <1>0, <2>1, <2>2 DEF Holders
<1>11. \A s \in Worker, m \in Period : Holders(s, m) \subseteq Worker /\ Holders(s, m)' \subseteq Worker
  BY DEF Holders
<1>12. ASSUME NEW m \in Period, m # k PROVE Holders(p, m)' = Holders(p, m)
  <2>1. m < k \/ m > k
    <3>1. m \in Nat /\ k \in Nat /\ m # k
      BY <1>0, <1>5, <1>12
    <3> QED
      BY <3>1
  <2>2. w \in Holders(p, m)' <=> w \in Holders(p, m)
    BY <1>8, <1>10, <2>1
  <2>3. \A v \in Worker : v \in Holders(p, m)' <=> v \in Holders(p, m)
    BY <1>0, <1>6, <2>2
  <2>4. Holders(p, m) \subseteq Worker /\ Holders(p, m)' \subseteq Worker
    BY <1>0, <1>11
  <2> QED
    BY <2>3, <2>4
<1>13. Holders(p, k)' = Holders(p, k) \ {w}
  BY <1>0, <1>6, <1>9, <1>11
<1>14. ASSUME NEW s \in Worker \ {p}, NEW m \in Period PROVE Holders(s, m)' = Holders(s, m)
  <2>1. \A v \in Worker : v \in Holders(s, m)' <=> v \in Holders(s, m)
    BY <1>6, <1>7
  <2>2. Holders(s, m) \subseteq Worker /\ Holders(s, m)' \subseteq Worker
    BY <1>11
  <2> QED
    BY <2>1, <2>2
<1> QED
  BY <1>8, <1>12, <1>13, <1>14

(* The last reference of a period is given back when no earlier bundle is   *)
(* left and nobody is popping.                                              *)
LEMMA LastIsFront ==
  ASSUME TypeOK, BundleInv, NEW w \in Worker, FreeClause(w), \A v \in Worker : Unbroken(v),
         NEW p, p = peer[w], NEW k, k = Head(unfree[w]), NEW at, GivesBack(w, p, k, at),
         Exact(p), pq[p][at].refs = 1
  PROVE  Pending(p) = {} /\ Front(p) = k
<1>0. /\ p \in Worker \ {w} /\ k \in Period /\ k \in Nat /\ w \notin Pending(p)
      /\ Front(p) + Cardinality(Pending(p)) <= k /\ k < Made(p)
  BY PeriodAssumption DEF GivesBack, Period
<1>1. Holders(p, k) = {w}
  BY LastHolder
<1>2. /\ Front(p) \in Int /\ IsFiniteSet(Pending(p)) /\ Cardinality(Pending(p)) \in Nat
      /\ Made(p) \in Nat /\ Len(pq[p]) \in Nat /\ pq[p] \in Seq(Rec)
  BY <1>0, Numbers
<1>3. Pending(p) = {}
  <2> SUFFICES ASSUME NEW v \in Pending(p) PROVE FALSE
    OBVIOUS
  <2>1. v \in Worker /\ v # w /\ pc[v] = "pop" /\ peer[v] = p /\ v # p
    BY <1>0 DEF Pending, BundleInv, LocalInv, NotedOK
  <2>2. Cardinality(Pending(p)) # 0
    BY <1>2, FS_EmptySet
  <2>3. PICK n : n = Head(unfree[v])
    OBVIOUS
  <2>4. Front(p) = n
    BY <2>3 DEF Exact
  <2>5. n \in Nat /\ Needs(v, p, n + 1)
    BY <1>0, <2>1, <2>3, NextNeeded
  <2>6. n + 1 \in 0 .. k
    BY <1>0, <1>2, <2>2, <2>4, <2>5
  <2>7. v \in Holders(p, k)
    BY <2>1, <2>5, <2>6 DEF Holders
  <2> QED
    BY <1>1, <2>1, <2>7
<1>4. Front(p) = k
  <2> SUFFICES ASSUME Front(p) # k PROVE FALSE
    OBVIOUS
  <2>1. Front(p) < k
    BY <1>0, <1>2
  <2>2. 1 \in DOMAIN pq[p]
    BY <1>0, <1>2, <2>1 DEF Front
  <2>3. PICK m \in Period : m = pq[p][1].period
    BY <1>0, <2>2, BundlePeriods
  <2>4. m = Front(p) + 1 - 1
    BY <1>0, <2>2, <2>3 DEF BundleInv, QueueInv
  <2>5. m < k /\ m \in Nat
    BY <1>2, <2>1, <2>3, <2>4, PeriodAssumption DEF Period
  <2>6. Holders(p, m) \subseteq Holders(p, k)
    <3>1. \A n \in 0 .. m : n \in 0 .. k
      BY <1>0, <2>5
    <3> QED
      BY <3>1 DEF Holders
  <2>7. w \notin Holders(p, m)
    BY <2>5, HoldersFree
  <2>8. Holders(p, m) = {}
    BY <1>1, <2>6, <2>7
  <2>9. pq[p][1].refs = 0
    BY <2>2, <2>3, <2>8, FS_EmptySet DEF Exact
  <2>10. N > 1
    BY <1>0, NAssumption DEF Worker
  <2> QED
    BY <1>3, <2>2, <2>9, <2>10 DEF Exact
<1> QED
  BY <1>3, <1>4

(* One reference fewer, one holder fewer.                                   *)
LEMMA ExactFree ==
  ASSUME TypeOK, BundleInv, NEW w \in Worker, FreeClause(w), \A s \in Worker : Unbroken(s) /\ Exact(s)
  PROVE  \A s \in Worker : Exact(s)'
<1>p. PICK p : p = peer[w]
  OBVIOUS
<1>k. PICK k : k = Head(unfree[w])
  OBVIOUS
<1>a. PICK at : at = Slot(p, k)
  OBVIOUS
<1>f. GivesBack(w, p, k, at)
  BY <1>p, <1>k, <1>a, FreeEffect
<1>u. unfree' = unfree
  BY DEF FreeClause
<1>h. /\ \A m \in Period : m # k => Holders(p, m)' = Holders(p, m)
      /\ Holders(p, k)' = Holders(p, k) \ {w}
      /\ \A s \in Worker \ {p}, m \in Period : Holders(s, m)' = Holders(s, m)
  BY <1>f, <1>p, <1>k, HoldersFree
<1>l. pq[p][at].refs = 1 => Pending(p) = {} /\ Front(p) = k
  <2>1. p \in Worker /\ Exact(p) /\ \A v \in Worker : Unbroken(v)
    BY <1>f DEF GivesBack
  <2> QED
    BY <1>f, <1>p, <1>k, <2>1, LastIsFront
<1>0. ASSUME NEW s \in Worker, NEW i \in DOMAIN pq[s] PROVE i \in Nat
  <2>1. DOMAIN pq[s] = 1 .. Len(pq[s])
    BY Numbers
  <2> QED
    BY <2>1
<1>1. ASSUME NEW s \in Worker PROVE Front(s)' = Front(s) /\ DOMAIN pq'[s] = DOMAIN pq[s]
  BY <1>f DEF GivesBack
<1>2. ASSUME NEW s \in Worker \ {p} PROVE Exact(s)'
  <2>1. Pending(s)' = Pending(s)
    BY <1>f DEF GivesBack
  <2>2. ASSUME NEW i \in DOMAIN pq'[s], NEW m, m = pq'[s][i].period
        PROVE  /\ pq'[s][i].refs = Cardinality(Holders(s, m)')
               /\ pq'[s][i].refs = 0 /\ N > 1 => \E v \in Pending(s) : Head(unfree[v]) = m
    <3>1. i \in DOMAIN pq[s] /\ i \in Nat
      BY <1>0, <1>1
    <3>2. pq'[s][i].refs = pq[s][i].refs /\ pq[s][i].period = m
      BY <1>f, <2>2, <3>1 DEF GivesBack
    <3>3. m \in Period
      BY <3>1, <3>2, BundlePeriods
    <3>4. Holders(s, m)' = Holders(s, m)
      BY <1>h, <3>3
    <3> QED
      BY <3>1, <3>2, <3>4 DEF Exact
  <2>3. /\ \A v, x \in Pending(s) : v = x
        /\ \A v \in Pending(s) : Front(s) = Head(unfree[v])
    BY DEF Exact
  <2> QED
    BY <1>1, <1>u, <2>1, <2>2, <2>3 DEF Exact
<1>3. Exact(p)'
  <2>0. /\ p \in Worker \ {w} /\ at \in DOMAIN pq[p] /\ pq[p][at].period = k /\ pq[p][at].refs \in 1 .. N - 1
        /\ w \in Holders(p, k)
    BY <1>f DEF GivesBack
  <2>1. \A v \in Pending(p) : v \in Pending(p)'
    BY <1>f DEF GivesBack
  <2>2. ASSUME NEW i \in DOMAIN pq[p], i # at, NEW m, m = pq[p][i].period
        PROVE  /\ pq'[p][i].refs = Cardinality(Holders(p, m)') /\ pq'[p][i].period = m
               /\ pq'[p][i].refs = 0 /\ N > 1 => \E v \in Pending(p)' : Head(unfree[v]) = m
    <3>1. m \in Period
      BY <2>0, <2>2, BundlePeriods
    <3>2. m # k
      <4>1. m = Front(p) + i - 1 /\ k = Front(p) + at - 1
        BY <2>0, <2>2 DEF BundleInv, QueueInv
      <4>2. Front(p) \in Int /\ i \in Nat /\ at \in Nat
        BY <1>0, <2>0, Numbers
      <4> QED
        BY <2>2, <4>1, <4>2
    <3>3. pq'[p][i].refs = pq[p][i].refs /\ pq'[p][i].period = m
      BY <1>0, <1>f, <2>0, <2>2 DEF GivesBack
    <3> QED
      BY <1>h, <2>0, <2>1, <2>2, <3>1, <3>2, <3>3 DEF Exact
  <2>3. /\ pq'[p][at].refs = Cardinality(Holders(p, k)') /\ pq'[p][at].period = k
        /\ pq'[p][at].refs = 0 => \E v \in Pending(p)' : Head(unfree[v]) = k
    <3>1. pq'[p][at].refs = pq[p][at].refs - 1 /\ pq'[p][at].period = k
      BY <1>0, <1>f, <2>0 DEF GivesBack
    <3>2. pq[p][at].refs = Cardinality(Holders(p, k)) /\ IsFiniteSet(Holders(p, k))
      <4>1. pq[p][at].refs = Cardinality(Holders(p, k))
        BY <2>0 DEF Exact
      <4>2. IsFiniteSet(Holders(p, k))
        BY <2>0, FewHolders DEF Holders
      <4> QED
        BY <4>1, <4>2
    <3>3. Cardinality(Holders(p, k) \ {w}) = Cardinality(Holders(p, k)) - 1
      BY <2>0, <3>2, FS_RemoveElement
    <3>4. pq[p][at].refs = 1 => w \in Pending(p)'
      BY <1>f DEF GivesBack
    <3>5. pq'[p][at].refs = 0 => pq[p][at].refs = 1
      BY <2>0, <3>1, NAssumption
    <3> QED
      BY <1>h, <1>k, <3>1, <3>2, <3>3, <3>4, <3>5
  <2>4. ASSUME NEW i \in DOMAIN pq'[p], NEW m, m = pq'[p][i].period
        PROVE  /\ pq'[p][i].refs = Cardinality(Holders(p, m)')
               /\ pq'[p][i].refs = 0 /\ N > 1 => \E v \in Pending(p)' : Head(unfree[v]) = m
    <3>1. i \in DOMAIN pq[p] /\ i \in Nat
      BY <1>0, <1>1, <2>0
    <3>2. CASE i = at
      BY <2>3, <2>4, <3>2
    <3>3. CASE i # at
      <4>1. pq[p][i].period = m
        BY <1>f, <2>0, <2>4, <3>1 DEF GivesBack
      <4> QED
        BY <2>2, <3>1, <3>3, <4>1
    <3> QED
      BY <3>2, <3>3
  <2>5. /\ \A v, x \in Pending(p)' : v = x
        /\ \A v \in Pending(p)' : Front(p)' = Head(unfree[v])
    <3>1. CASE pq[p][at].refs = 1
      <4>1. Pending(p)' = {w}
        BY <1>f, <1>l, <3>1 DEF GivesBack
      <4> QED
        BY <1>1, <1>k, <1>l, <2>0, <3>1, <4>1
    <3>2. CASE pq[p][at].refs # 1
      <4>1. Pending(p)' = Pending(p)
        BY <1>f, <2>0, <3>2 DEF GivesBack
      <4> QED
        BY <1>1, <2>0, <4>1 DEF Exact
    <3> QED
      BY <3>1, <3>2
  <2> QED
    BY <1>1, <1>u, <2>4, <2>5 DEF Exact
<1> QED
  BY <1>2, <1>3

(* The steps that are not about bundles.                                    *)
LEMMA ExactOthers ==
  ASSUME TypeOK, BundleInv, NEW w \in Worker, WorkerStep(w) \/ DrainAtLevelZero(w),
         ~SelectClauses(w), ~FreeClause(w), ~PopFront(w), \A s \in Worker : Exact(s),
         \A v \in Worker : NeedsAlike(v)
  PROVE  \A s \in Worker : Exact(s)'
<1>1. QueuesAlike
  BY CalmSteps
<1>2. \A v \in Worker : pc[v] = "pop" => unfree'[v] = unfree[v]
  <2>1. \A v \in Worker \ {w} : unfree'[v] = unfree[v]
    BY OthersUndisturbed DEF Undisturbed
  <2>2. pc[w] # "pop"
    BY DEF WorkerStep, Start, NewPeriod, InternalTerminate, IncPeriod, ImportFrom, ImportDone, DrainAtLevelZero,
       FreeNext, Answer, GiveUp, RecordResult, UpdateWinner, CopyModel
  <2> QED
    BY <2>1, <2>2
<1>3. \A s \in Worker : \A v \in Pending(s) : unfree'[v] = unfree[v]
  BY <1>2 DEF Pending
<1> QED
  BY <1>1, <1>3, ExactCalm DEF QueuesAlike

(* Together: while the race is on, no count is off and nobody overtakes.    *)
LEMMA OrderNext ==
  ASSUME TypeOK, BundleInv, QuietUntilTerminated, QuietUntilTerminated', OrderInv, [Next]_vars
  PROVE  OrderInv'
<1> SUFFICES ASSUME ~terminated' PROVE \A s \in Worker : Unbroken(s)' /\ Exact(s)'
  BY DEF OrderInv
<1>1. ~terminated
  <2>1. ASSUME NEW w \in Worker, WorkerStep(w) \/ DrainAtLevelZero(w) PROVE terminated => terminated'
    <3>1. terminated' = terminated \/ Answer(w)
      BY <2>1 DEF WorkerStep, Start, NewPeriod, InternalTerminate, SelectClauses, IncPeriod, ImportFrom, ImportDone,
         DrainAtLevelZero, FreeClause, PopFront, FreeNext, GiveUp, RecordResult, UpdateWinner, CopyModel
    <3> QED
      BY <3>1 DEF Answer
  <2>2. ASSUME MainStep \/ UNCHANGED vars PROVE terminated => terminated'
    BY <2>2 DEF MainStep, SeeTerminated, Cutoff, ExternalTerminate, AllTerminated, Join, vars
  <2> QED
    BY <2>1, <2>2 DEF Next, Done
<1>2. Grown /\ \A s \in Worker : Unbroken(s) /\ Exact(s)
  BY <1>1, PeriodsGrow DEF OrderInv, Grown
<1>3. ASSUME NEW w \in Worker, WorkerStep(w) \/ DrainAtLevelZero(w)
      PROVE  \A s \in Worker : Unbroken(s)' /\ Exact(s)'
  <2>1. pc'[w] # "kill"
    BY DEF QuietUntilTerminated
  <2>2. \A s \in Worker : Unbroken(s)'
    BY <1>2, <1>3, <2>1, UnbrokenNext
  <2>3. CASE FreeClause(w)
    BY <1>2, <2>2, <2>3, ExactFree
  <2>4. CASE ~FreeClause(w)
    <3>1. \A v \in Worker : NeedsAlike(v)
      BY <1>2, <1>3, <2>1, <2>4, NeedsKept
    <3> QED
      BY <1>2, <1>3, <2>2, <2>4, <3>1, ExactSelect, ExactPop, ExactOthers
  <2> QED
    BY <2>3, <2>4
<1>4. CASE MainStep \/ UNCHANGED vars
  <2>1. /\ \A v \in Worker : Undisturbed(v)
        /\ UNCHANGED exchange
    BY <1>4, MainDisturbsNobody
  <2>2. \A v \in Worker : NeedsAlike(v) /\ Made(v)' = Made(v)
    BY <2>1, NeedsOthers, SameNeeds
  <2>3. \A s \in Worker : Pending(s)' = Pending(s)
    BY <2>1, SameNeeds DEF Pending
  <2>4. \A s \in Worker : Front(s)' = Front(s) /\ pq'[s] = pq[s]
    BY <2>1, <2>2 DEF exchange, Front
  <2>5. unfree' = unfree
    BY <2>1 DEF exchange
  <2> QED
    BY <1>2, <2>1, <2>2, <2>3, <2>4, <2>5, ExactCalm, UnbrokenOthers
<1> QED
  BY <1>3, <1>4 DEF Next, Done

(* While the race is on bundles leave their queue in the order in which     *)
(* they were made: who takes the last reference of a bundle pops that one.  *)
THEOREM PopsKeepOrder == Spec => []PopsInOrder
<1>1. Init => OrderInv /\ QuietUntilTerminated
  <2> SUFFICES ASSUME Init PROVE OrderInv /\ QuietUntilTerminated
    OBVIOUS
  <2>1. /\ \A s \in Worker : pc[s] = "unborn" /\ period[s] = 0 /\ pq[s] = <<>> /\ unfree[s] = <<>>
        /\ import_clause = [s \in Worker |-> {}]
    BY DEF Init, Fresh
  <2>2. \A s \in Worker : Unbroken(s)
    BY <2>1, MarginAssumption DEF Unbroken, NextDue, Due
  <2>3. \A s \in Worker : Pending(s) = {} /\ DOMAIN pq[s] = {}
    BY <2>1 DEF Pending
  <2>4. \A s \in Worker : Exact(s)
    BY <2>3 DEF Exact
  <2> QED
    BY <2>2, <2>4 DEF OrderInv, Init, Fresh, QuietUntilTerminated
<1>2. ThreadTypeOK /\ QuietUntilTerminated /\ [Next]_vars => QuietUntilTerminated'
  BY QuietNext
<1>3. TypeOK /\ BundleInv /\ QuietUntilTerminated /\ QuietUntilTerminated' /\ OrderInv /\ [Next]_vars => OrderInv'
  BY OrderNext
<1>4. TypeOK /\ BundleInv /\ OrderInv => PopsInOrder
  <2> SUFFICES ASSUME TypeOK, BundleInv, OrderInv, ~terminated, NEW w \in Worker, pc[w] = "pop",
                      NEW p, p = peer[w]
               PROVE  pq[p][1].period = Head(unfree[w])
    BY DEF PopsInOrder
  <2>1. p \in Worker /\ w \in Pending(p)
    BY DEF TypeOK, ThreadTypeOK, LocalOK, Pending
  <2>2. Front(p) = Head(unfree[w])
    BY <2>1 DEF OrderInv, Exact
  <2>3. /\ Front(p) \in Int /\ Made(p) \in Nat /\ Len(pq[p]) \in Nat /\ pq[p] \in Seq(Rec)
        /\ IsFiniteSet(Pending(p)) /\ Cardinality(Pending(p)) \in Nat
    BY <2>1, Numbers
  <2>4. Cardinality(Pending(p)) # 0
    BY <2>1, <2>3, FS_EmptySet
  <2>5. Front(p) + Cardinality(Pending(p)) <= Made(p)
    BY <2>1 DEF BundleInv, KeptInv
  <2>6. 1 \in DOMAIN pq[p]
    BY <2>3, <2>4, <2>5 DEF Front
  <2>7. pq[p][1].period = Front(p) + 1 - 1
    BY <2>1, <2>6 DEF BundleInv, QueueInv
  <2> QED
    BY <2>2, <2>3, <2>7
<1> QED
  BY <1>1, <1>2, <1>3, <1>4, TypeCorrect, BundlesKept, ThreadTypeCorrect, PTL DEF Spec
==============================================================================
