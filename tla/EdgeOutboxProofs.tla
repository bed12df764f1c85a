-------------------------- MODULE EdgeOutboxProofs --------------------------
(***************************************************************************)
(* Proofs about EdgeOutbox for every set of trades and every bound.        *)
(*                                                                         *)
(* The safety properties are not inductive: a row may leave the outbox     *)
(* only because the in-memory set settled says so, and what settled,       *)
(* offered, queued and pending may hold depends on where the engine is.    *)
(* IInv adds exactly that: what each in-memory set proves about the four   *)
(* durable stores, and in which phases it is empty.                        *)
(***************************************************************************)
EXTENDS EdgeOutbox, TLAPS

(* Where the engine is determines which in-memory sets are in use.         *)
PhaseInv ==
    /\ pc # "booking" => gone = {} /\ booked = {}
    /\ pc \notin {"draining", "guarding"} => queued = {} /\ settled = {}
    /\ pc # "guarding" => offered = {}

(* Only opened trades close or are managed; what this pass books is still
   managed, closed, and already journaled when its outcome is pending.     *)
BookingInv ==
    /\ active_trades \subseteq opened
    /\ closed \subseteq opened
    /\ gone \subseteq active_trades \cap closed
    /\ booked \subseteq active_trades \cap pending
    /\ pending \subseteq closed
    /\ \A t \in pending : journal[t] > 0

(* Every queued row speaks of a journaled close, and a row is only settled
   when the ledger holds the observation or refuses it for good.           *)
OutboxInv ==
    /\ \A t \in Trades : edge_outbox[t] > 0 => t \in closed /\ journal[t] > 0
    /\ queued \cup offered \cup settled \subseteq {t \in Trades : edge_outbox[t] > 0}
    /\ \A t \in settled : AlreadyRecorded(t) \/ t \in Refused
    /\ \A t \in offered : AlreadyRecorded(t)

IInv ==
    /\ TypeOK
    /\ PhaseInv
    /\ BookingInv
    /\ OutboxInv
    /\ ObservedAtMostOnce
    /\ NoOutcomeLost
    /\ LearnedFromJournaledClose

-----------------------------------------------------------------------------
(* Every variable keeps its type (all of reconcile() and the drain).       *)
THEOREM Typing == Spec => []TypeOK
<1>1. Init => TypeOK
  BY EdgeOutboxAssumption DEF EdgeOutboxAssumption, Init, TypeOK, Phases
<1>2. TypeOK /\ [Next]_vars => TypeOK'
  <2> SUFFICES ASSUME TypeOK, [Next]_vars PROVE TypeOK'
    OBVIOUS
  <2> USE EdgeOutboxAssumption DEF EdgeOutboxAssumption, TypeOK, Phases,
        broker, runtime, ledger, memory, Fault
  <2>1. CASE StartReconcile
    BY <2>1 DEF StartReconcile, Visible
  <2>2. CASE CommitReconcile
    BY <2>2 DEF CommitReconcile, QueuedEdgeOutbox
  <2>3. CASE EvaluateGuard
    BY <2>3 DEF EvaluateGuard
  <2>4. CASE PruneOutbox
    BY <2>4 DEF PruneOutbox, Prune
  <2>5. CASE Restart
    BY <2>5 DEF Restart
  <2>6. ASSUME NEW t \in Trades, BookClose(t) PROVE TypeOK'
    BY <2>6 DEF BookClose, LogTrade
  <2>7. ASSUME NEW t \in Trades, RefuseOutcome(t) PROVE TypeOK'
    BY <2>7 DEF RefuseOutcome
  <2>8. ASSUME NEW t \in Trades, DuplicateOutcome(t) PROVE TypeOK'
    BY <2>8 DEF DuplicateOutcome
  <2>9. ASSUME NEW t \in Trades, InsertOutcome(t) PROVE TypeOK'
    BY <2>9 DEF InsertOutcome
  <2>10. CASE ReconcileFails
    BY <2>10 DEF ReconcileFails
  <2>11. CASE GuardFails
    BY <2>11 DEF GuardFails
  <2>12. CASE PruneFails
    BY <2>12 DEF PruneFails
  <2>13. CASE Crash
    BY <2>13 DEF Crash
  <2>14. ASSUME NEW t \in Trades, ActivateFilledTrade(t) PROVE TypeOK'
    BY <2>14 DEF ActivateFilledTrade
  <2>15. ASSUME NEW t \in Trades, BrokerClose(t) PROVE TypeOK'
    BY <2>15 DEF BrokerClose
  <2>16. ASSUME NEW t \in Trades, DeferOutcome(t) PROVE TypeOK'
    BY <2>16 DEF DeferOutcome
  <2>17. CASE UNCHANGED vars
    BY <2>17 DEF vars
  <2> QED
    BY <2>1, <2>2, <2>3, <2>4, <2>5, <2>6, <2>7, <2>8, <2>9, <2>10, <2>11,
       <2>12, <2>13, <2>14, <2>15, <2>16, <2>17
    DEF Next, Step, Environment
<1> QED
  BY <1>1, <1>2, PTL DEF Spec

-----------------------------------------------------------------------------
(* The strengthened invariant holds initially and every step preserves it. *)
LEMMA Inductive == Spec => []IInv
<1> USE DEF broker, runtime, ledger, memory, Fault, AlreadyRecorded
<1> DEFINE Facts == PhaseInv /\ BookingInv /\ OutboxInv
                    /\ ObservedAtMostOnce /\ NoOutcomeLost
                    /\ LearnedFromJournaledClose
<1>1. Init => Facts
  BY DEF Init, PhaseInv, BookingInv, OutboxInv, ObservedAtMostOnce,
     NoOutcomeLost, LearnedFromJournaledClose
<1>2. TypeOK /\ TypeOK' /\ Facts /\ [Next]_vars => Facts'
  <2> SUFFICES ASSUME TypeOK, TypeOK', Facts, [Next]_vars PROVE Facts'
    OBVIOUS
  <2> USE DEF TypeOK, Phases, PhaseInv, BookingInv, OutboxInv,
        ObservedAtMostOnce, NoOutcomeLost, LearnedFromJournaledClose
  <2>1. CASE StartReconcile
    BY <2>1 DEF StartReconcile, Visible
  <2>2. CASE CommitReconcile
    BY <2>2 DEF CommitReconcile, QueuedEdgeOutbox
  <2>3. CASE EvaluateGuard
    BY <2>3 DEF EvaluateGuard
  <2>4. CASE PruneOutbox
    BY <2>4 DEF PruneOutbox, Prune
  <2>5. CASE Restart
    BY <2>5 DEF Restart
  <2>6. ASSUME NEW t \in Trades, BookClose(t) PROVE Facts'
    BY <2>6 DEF BookClose, LogTrade
  <2>7. ASSUME NEW t \in Trades, RefuseOutcome(t) PROVE Facts'
    BY <2>7 DEF RefuseOutcome
  <2>8. ASSUME NEW t \in Trades, DuplicateOutcome(t) PROVE Facts'
    BY <2>8 DEF DuplicateOutcome
  <2>9. ASSUME NEW t \in Trades, InsertOutcome(t) PROVE Facts'
    BY <2>9 DEF InsertOutcome
  <2>10. CASE ReconcileFails
    BY <2>10 DEF ReconcileFails
  <2>11. CASE GuardFails
    BY <2>11 DEF GuardFails
  <2>12. CASE PruneFails
    BY <2>12 DEF PruneFails
  <2>13. CASE Crash
    BY <2>13 DEF Crash
  <2>14. ASSUME NEW t \in Trades, ActivateFilledTrade(t) PROVE Facts'
    BY <2>14 DEF ActivateFilledTrade
  <2>15. ASSUME NEW t \in Trades, BrokerClose(t) PROVE Facts'
    BY <2>15 DEF BrokerClose
  <2>16. ASSUME NEW t \in Trades, DeferOutcome(t) PROVE Facts'
    BY <2>16 DEF DeferOutcome
  <2>17. CASE UNCHANGED vars
    BY <2>17 DEF vars
  <2> QED
    BY <2>1, <2>2, <2>3, <2>4, <2>5, <2>6, <2>7, <2>8, <2>9, <2>10, <2>11,
       <2>12, <2>13, <2>14, <2>15, <2>16, <2>17
    DEF Next, Step, Environment
<1>3. TypeOK /\ Facts => IInv
  BY DEF IInv
<1> QED
  BY <1>1, <1>2, <1>3, Typing, PTL DEF Spec

-----------------------------------------------------------------------------
(* No crash, failed write or refused row separates the removal of a trade
   from its journaled close and its queued or learned outcome.             *)
THEOREM OutcomesKept == Spec => []NoOutcomeLost
BY Inductive, PTL DEF IInv

(* The ledger learns only from closes the broker filled and the journal
   holds.                                                                  *)
THEOREM LearningGrounded == Spec => []LearnedFromJournaledClose
BY Inductive, PTL DEF IInv

(* Replays after crashes never duplicate a journal row, an outbox row or an
   observation.                                                            *)
THEOREM AtMostOnce == Spec => []ObservedAtMostOnce
BY Inductive, PTL DEF IInv

(* Only a settled row leaves the outbox: the replacement that ends a pass
   adds rows, and the pruning one removes what the ledger has decided.     *)
THEOREM PruneAfterSettling == Spec => RowsLeaveSettled
<1> DEFINE Leaves(t) == edge_outbox[t] > 0 /\ edge_outbox'[t] = 0
<1>1. IInv /\ [Next]_vars
        => \A t \in Trades : Leaves(t) => AlreadyRecorded(t) \/ t \in Refused
  <2> SUFFICES ASSUME IInv, [Next]_vars, NEW t \in Trades, Leaves(t)
               PROVE AlreadyRecorded(t) \/ t \in Refused
    OBVIOUS
  <2>1. TypeOK
    BY DEF IInv
  <2>2. PruneOutbox
    <3>1. edge_outbox' # edge_outbox
      BY <2>1 DEF TypeOK
    <3>2. ~CommitReconcile
      BY <2>1 DEF TypeOK, CommitReconcile, QueuedEdgeOutbox
    <3> QED
      BY <3>1, <3>2 DEF Next, Step, Environment, vars, runtime, ledger, broker,
         memory, StartReconcile, EvaluateGuard, Restart, BookClose,
         RefuseOutcome, DuplicateOutcome, InsertOutcome, ReconcileFails,
         GuardFails, PruneFails, Crash, ActivateFilledTrade, BrokerClose,
         DeferOutcome
  <2>3. t \in settled
    BY <2>1, <2>2 DEF TypeOK, PruneOutbox, Prune
  <2> QED
    BY <2>3 DEF IInv, OutboxInv
<1> QED
  BY <1>1, Inductive, PTL DEF Spec, RowsLeaveSettled

-----------------------------------------------------------------------------
(* The refinement.  It needs position snapshots that do not lag: otherwise a
   pending outcome of a failed pass can be queued, and learned, while a
   later snapshot still shows the position.                                *)

(* What is pending was booked in this pass or is still to be booked in it,
   and nothing of a managed trade is queued or learned.                    *)
FreshInv ==
    /\ pending \subseteq active_trades
    /\ pc = "booking" => pending \subseteq gone \cup booked
    /\ \A t \in active_trades : edge_outbox[t] = 0 /\ ~AlreadyRecorded(t)

LEMMA Fresh ==
    ASSUME LaggingPositions = FALSE
    PROVE  Spec => []FreshInv
<1> USE DEF broker, runtime, ledger, memory, Fault, AlreadyRecorded
<1>1. Init => FreshInv
  BY DEF Init, FreshInv
<1>2. IInv /\ FreshInv /\ [Next]_vars => FreshInv'
  <2> SUFFICES ASSUME IInv, FreshInv, [Next]_vars PROVE FreshInv'
    OBVIOUS
  <2> USE DEF IInv, TypeOK, PhaseInv, BookingInv, OutboxInv, FreshInv
  <2>1. CASE StartReconcile
    BY <2>1 DEF StartReconcile, Visible
  <2>2. CASE CommitReconcile
    BY <2>2 DEF CommitReconcile, QueuedEdgeOutbox
  <2>3. CASE EvaluateGuard
    BY <2>3 DEF EvaluateGuard
  <2>4. CASE PruneOutbox
    BY <2>4 DEF PruneOutbox, Prune
  <2>5. CASE Restart
    BY <2>5 DEF Restart
  <2>6. ASSUME NEW t \in Trades, BookClose(t) PROVE FreshInv'
    BY <2>6 DEF BookClose
  <2>7. ASSUME NEW t \in Trades, RefuseOutcome(t) PROVE FreshInv'
    BY <2>7 DEF RefuseOutcome
  <2>8. ASSUME NEW t \in Trades, DuplicateOutcome(t) PROVE FreshInv'
    BY <2>8 DEF DuplicateOutcome
  <2>9. ASSUME NEW t \in Trades, InsertOutcome(t) PROVE FreshInv'
    BY <2>9 DEF InsertOutcome
  <2>10. CASE ReconcileFails
    BY <2>10 DEF ReconcileFails
  <2>11. CASE GuardFails
    BY <2>11 DEF GuardFails
  <2>12. CASE PruneFails
    BY <2>12 DEF PruneFails
  <2>13. CASE Crash
    BY <2>13 DEF Crash
  <2>14. ASSUME NEW t \in Trades, ActivateFilledTrade(t) PROVE FreshInv'
    BY <2>14 DEF ActivateFilledTrade, NoOutcomeLost, LearnedFromJournaledClose
  <2>15. ASSUME NEW t \in Trades, BrokerClose(t) PROVE FreshInv'
    BY <2>15 DEF BrokerClose
  <2>16. ASSUME NEW t \in Trades, DeferOutcome(t) PROVE FreshInv'
    BY <2>16 DEF DeferOutcome
  <2>17. CASE UNCHANGED vars
    BY <2>17 DEF vars
  <2> QED
    BY <2>1, <2>2, <2>3, <2>4, <2>5, <2>6, <2>7, <2>8, <2>9, <2>10, <2>11,
       <2>12, <2>13, <2>14, <2>15, <2>16, <2>17
    DEF Next, Step, Environment
<1> QED
  BY <1>1, <1>2, Inductive, PTL DEF Spec

(* With snapshots that do not lag, every step of the outbox is a step of the
   outcome ledger or leaves every stage as it was.                         *)
THEOREM Refinement ==
    ASSUME LaggingPositions = FALSE
    PROVE  Spec => ImplementsOutcomeLedger
<1> USE DEF broker, runtime, ledger, memory, Fault
<1>1. Init => Outcomes!Init
  BY DEF Init, Outcomes!Init, stage
<1>2. IInv /\ FreshInv /\ FreshInv' /\ [Next]_vars => [Outcomes!Next]_stage
  <2> SUFFICES ASSUME IInv, FreshInv, FreshInv', [Next]_vars
               PROVE [Outcomes!Next]_stage
    OBVIOUS
  <2> USE DEF IInv, TypeOK, PhaseInv, BookingInv, OutboxInv, FreshInv
  <2> USE DEF stage, BookedStage, AlreadyRecorded
  <2>1. CASE UNCHANGED <<opened, active_trades, edge_outbox, paper_outcomes>>
    BY <2>1
  <2>2. CASE CommitReconcile
    <3>1. pending = booked
      BY <2>2 DEF CommitReconcile
    <3>2. \A t \in booked : edge_outbox[t] = 0 /\ edge_outbox'[t] = 1
      BY <2>2, <3>1 DEF CommitReconcile, QueuedEdgeOutbox
    <3>3. \A t \in Trades \ booked : edge_outbox'[t] = edge_outbox[t]
      BY <2>2, <3>1 DEF CommitReconcile, QueuedEdgeOutbox
    <3>4. active_trades' = active_trades \ booked /\ UNCHANGED <<opened, paper_outcomes>>
      BY <2>2 DEF CommitReconcile
    <3>5. stage' = [t \in Trades |-> IF t \in booked THEN "booked" ELSE stage[t]]
      BY <3>2, <3>3, <3>4
    <3>6. \A t \in booked : stage[t] = "open"
      OBVIOUS
    <3>7. CASE booked = {}
      BY <3>5, <3>7
    <3>8. CASE booked # {}
      BY <3>5, <3>6, <3>8 DEF Outcomes!Next, Outcomes!Book, Outcomes!Advance
    <3> QED
      BY <3>7, <3>8
  <2>3. CASE PruneOutbox
    <3> DEFINE S == {t \in settled : ~AlreadyRecorded(t)}
    <3>1. \A t \in settled : t \notin active_trades /\ t \in opened
                             /\ edge_outbox'[t] = 0
      BY <2>3 DEF PruneOutbox, Prune
    <3>2. \A t \in Trades \ settled : edge_outbox'[t] = edge_outbox[t]
      BY <2>3 DEF PruneOutbox, Prune
    <3>3. UNCHANGED <<active_trades, opened, paper_outcomes>>
      BY <2>3 DEF PruneOutbox
    <3>4. stage' = [t \in Trades |-> IF t \in S THEN "refused" ELSE stage[t]]
      BY <3>1, <3>2, <3>3
    <3>5. S \in SUBSET Refused /\ \A t \in S : stage[t] = "booked"
      BY <3>1
    <3>6. CASE S = {}
      BY <3>4, <3>6
    <3>7. CASE S # {}
      BY <3>4, <3>5, <3>7 DEF Outcomes!Next, Outcomes!Refuse, Outcomes!Advance
    <3> QED
      BY <3>6, <3>7
  <2>4. ASSUME NEW t \in Trades, InsertOutcome(t) PROVE [Outcomes!Next]_stage
    <3>1. t \notin active_trades /\ t \in opened /\ t \notin Refused
      BY <2>4 DEF InsertOutcome
    <3>2. stage[t] = "booked"
      BY <2>4, <3>1 DEF InsertOutcome
    <3>3. stage' = [u \in Trades |-> IF u \in {t} THEN "learned" ELSE stage[u]]
      BY <2>4, <3>1 DEF InsertOutcome
    <3>4. Outcomes!Advance({t}, "booked", "learned")
      BY <3>2, <3>3 DEF Outcomes!Advance
    <3>5. {t} \in SUBSET (Trades \ Refused)
      BY <3>1
    <3> QED
      BY <3>4, <3>5 DEF Outcomes!Next, Outcomes!Learn
  <2>5. ASSUME NEW t \in Trades, ActivateFilledTrade(t)
        PROVE [Outcomes!Next]_stage
    <3>1. stage[t] = "new"
      BY <2>5 DEF ActivateFilledTrade
    <3>2. stage' = [u \in Trades |-> IF u \in {t} THEN "open" ELSE stage[u]]
      BY <2>5 DEF ActivateFilledTrade
    <3>3. Outcomes!Advance({t}, "new", "open")
      BY <3>1, <3>2 DEF Outcomes!Advance
    <3>4. {t} \in SUBSET Trades
      OBVIOUS
    <3> QED
      BY <3>3, <3>4 DEF Outcomes!Next, Outcomes!Open
  <2> QED
    BY <2>1, <2>2, <2>3, <2>4, <2>5 DEF Next, Step, Environment, vars,
       StartReconcile, EvaluateGuard, Restart, BookClose, RefuseOutcome,
       DuplicateOutcome, ReconcileFails, GuardFails, PruneFails, Crash,
       BrokerClose, DeferOutcome
<1> QED
  BY <1>1, <1>2, Inductive, Fresh, PTL
     DEF Spec, ImplementsOutcomeLedger, Outcomes!Spec
=============================================================================
