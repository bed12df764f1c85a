----------------------------- MODULE EdgeOutbox -----------------------------
(***************************************************************************)
(* How the close of a paper trade becomes one observation in the research  *)
(* edge ledger (agent/execution_lifecycle.py, research/edge_ledger.py).    *)
(*                                                                         *)
(* Four stores that cannot be written together take part: the broker, the  *)
(* SQLite trade journal, the JSON runtime state (one atomic replacement),  *)
(* and the research ledger's SQLite database.  reconcile() journals each   *)
(* close, keeps its outcome in memory, and then removes the trades and     *)
(* queues the outcomes in one replacement; _drain_edge_outbox() offers the *)
(* queued rows to the ledger and prunes the ones it settled in a second    *)
(* replacement.  The process may die between any two of these steps, and   *)
(* any of the writes may fail without killing it.                          *)
(***************************************************************************)
EXTENDS Integers, FiniteSets

CONSTANTS
    Trades,             \* trades the runtime opens, one opportunity each
    Refused,            \* trades whose outcome ingestion refuses (ValueError)
    Losers,             \* trades whose R multiple speaks against the edge
    MinOutcomes,        \* PAPER_DRIFT_MIN_OUTCOMES
    DriftThreshold,     \* PAPER_DRIFT_THRESHOLD, in losses above wins
    LaggingPositions,   \* may a snapshot show a position already closed?
    MaxFaults           \* bound: crashes and failed writes in a behaviour

ASSUME EdgeOutboxAssumption ==
    /\ IsFiniteSet(Trades)
    /\ Refused \subseteq Trades
    /\ Losers \subseteq Trades
    /\ MinOutcomes \in Nat
    /\ DriftThreshold \in Int
    /\ LaggingPositions \in BOOLEAN
    /\ MaxFaults \in Nat

VARIABLES
    opened,         \* trades whose entry was filled and activated
    closed,         \* trades whose close the broker has filled in full
    active_trades,  \* runtime state: trades still managed
    edge_outbox,    \* runtime state: queued rows per trade
    journal,        \* trade journal: close rows per trade
    paper_outcomes, \* research ledger: observations per trade
    status,         \* research ledger: lifecycle status of the candidate
    pc,             \* where the engine is inside reconcile()
    gone,           \* closes this pass has evidence for and has not booked
    booked,         \* closes this pass has journaled
    pending,        \* _pending_edge_outcome_rows, in memory
    queued,         \* rows of the drained snapshot not yet offered
    offered,        \* the row whose ingestion is in progress, as a set
    settled,        \* rows this drain will prune
    faults          \* faults so far

broker   == <<opened, closed>>
runtime  == <<active_trades, edge_outbox>>
ledger   == <<paper_outcomes, status>>
memory   == <<gone, booked, pending, queued, offered, settled>>
vars     == <<opened, closed, active_trades, edge_outbox, journal,
              paper_outcomes, status, pc, gone, booked, pending, queued,
              offered, settled, faults>>

Phases == {"down", "idle", "booking", "draining", "guarding"}

TypeOK ==
    /\ opened \subseteq Trades
    /\ closed \subseteq Trades
    /\ active_trades \subseteq Trades
    /\ edge_outbox \in [Trades -> Nat]
    /\ journal \in [Trades -> Nat]
    /\ paper_outcomes \in [Trades -> Nat]
    /\ status \in {"validated", "demoted"}
    /\ pc \in Phases
    /\ gone \subseteq Trades
    /\ booked \subseteq Trades
    /\ pending \subseteq Trades
    /\ queued \subseteq Trades
    /\ offered \subseteq Trades
    /\ settled \subseteq Trades
    /\ faults \in 0 .. MaxFaults

Init ==
    /\ opened = {}
    /\ closed = {}
    /\ active_trades = {}
    /\ edge_outbox = [t \in Trades |-> 0]
    /\ journal = [t \in Trades |-> 0]
    /\ paper_outcomes = [t \in Trades |-> 0]
    /\ status = "validated"
    /\ pc = "idle"
    /\ gone = {}
    /\ booked = {}
    /\ pending = {}
    /\ queued = {}
    /\ offered = {}
    /\ settled = {}
    /\ faults = 0

-----------------------------------------------------------------------------
(* The stores' own rules.                                                  *)

(* log_trade: the unique index on trade_id turns a re-derived close into a
   no-op.                                                                  *)
LogTrade(rows, t) == [rows EXCEPT ![t] = IF @ = 0 THEN 1 ELSE @]

(* Mutant: the merge starts from an empty list and drops deferred rows.     *)
QueuedEdgeOutboxReplacing(rows, new) ==
    [t \in Trades |-> IF t \in new THEN 1 ELSE 0]

(* _queued_edge_outbox: append the pending rows whose entry id the durable
   outbox does not hold yet.                                               *)
QueuedEdgeOutbox(rows, new) ==
    [t \in Trades |-> IF t \in new /\ rows[t] = 0 THEN 1 ELSE rows[t]]

(* Mutant: the pruned list is built and never written back.                *)
PruneNothing(rows, done) == rows

(* prune: drop every row with a settled entry id.                          *)
Prune(rows, done) == [t \in Trades |-> IF t \in done THEN 0 ELSE rows[t]]

(* Mutant: the opportunity lookup misses the row of an earlier delivery.    *)
AlreadyRecordedNever(t) == FALSE

(* ingest_paper_outcome finds an earlier row of the same opportunity.      *)
AlreadyRecorded(t) == paper_outcomes[t] > 0

(* paper_drift: the sequential test over every recorded outcome.           *)
Observed(outcomes) == {t \in Trades : outcomes[t] > 0}
Degraded(outcomes) ==
    /\ Cardinality(Observed(outcomes)) >= MinOutcomes
    /\ Cardinality(Observed(outcomes) \cap Losers)
         - Cardinality(Observed(outcomes) \ Losers) >= DriftThreshold

-----------------------------------------------------------------------------
(* The broker.                                                             *)

(* An entry fills and _activate_filled_trade makes it an active trade.     *)
ActivateFilledTrade(t) ==
    /\ pc = "idle"
    /\ t \notin opened
    /\ opened' = opened \cup {t}
    /\ active_trades' = active_trades \cup {t}
    /\ UNCHANGED <<closed, edge_outbox, journal, ledger, pc, memory, faults>>

(* The broker fills a close: a protective leg or a submitted close order.  *)
BrokerClose(t) ==
    /\ t \in opened \ closed
    /\ closed' = closed \cup {t}
    /\ UNCHANGED <<opened, runtime, journal, ledger, pc, memory, faults>>

-----------------------------------------------------------------------------
(* reconcile().                                                            *)

(* The closes a snapshot proves: all of them, or any part of them when the
   position endpoint may still report what was sold.                       *)
Visible ==
    IF LaggingPositions
    THEN SUBSET (active_trades \cap closed)
    ELSE {active_trades \cap closed}

(* The provider snapshot is taken and the active trades are loaded.        *)
StartReconcile ==
    /\ pc = "idle"
    /\ \E g \in Visible : gone' = g
    /\ booked' = {}
    /\ pc' = "booking"
    /\ UNCHANGED <<broker, runtime, journal, ledger, pending, queued,
                   offered, settled, faults>>

(* Mutant: the outcome is ingested in line, before the trade has left.      *)
BookCloseLearns(t) ==
    /\ pc = "booking"
    /\ t \in gone
    /\ journal' = LogTrade(journal, t)
    /\ paper_outcomes' = IF t \in Refused THEN paper_outcomes
                         ELSE [paper_outcomes EXCEPT ![t] = 1]
    /\ pending' = pending \cup {t}
    /\ gone' = gone \ {t}
    /\ booked' = booked \cup {t}
    /\ UNCHANGED <<broker, runtime, status, pc, queued, offered, settled,
                   faults>>

(* One disappeared trade: journal its close, then keep its outcome in
   memory for the replacement that ends the pass.                          *)
BookClose(t) ==
    /\ pc = "booking"
    /\ t \in gone
    /\ journal' = LogTrade(journal, t)
    /\ pending' = pending \cup {t}
    /\ gone' = gone \ {t}
    /\ booked' = booked \cup {t}
    /\ UNCHANGED <<broker, runtime, ledger, pc, queued, offered, settled,
                   faults>>

(* The replacement that ends the pass: the booked trades leave, and every
   pending outcome enters the outbox, in one write.                        *)
CommitReconcile ==
    /\ pc = "booking"
    /\ gone = {}
    /\ active_trades' = active_trades \ booked
    /\ edge_outbox' = QueuedEdgeOutbox(edge_outbox, pending)
    /\ pending' = {}
    /\ booked' = {}
    /\ queued' = {t \in Trades : edge_outbox'[t] > 0}
    /\ settled' = {}
    /\ pc' = "draining"
    /\ UNCHANGED <<broker, journal, ledger, gone, offered, faults>>

-----------------------------------------------------------------------------
(* _drain_edge_outbox().                                                   *)

(* Ingestion raises ValueError or KeyError: the row is given up.           *)
RefuseOutcome(t) ==
    /\ pc = "draining"
    /\ t \in queued \cap Refused
    /\ queued' = queued \ {t}
    /\ settled' = settled \cup {t}
    /\ UNCHANGED <<broker, runtime, journal, ledger, pc, gone, booked,
                   pending, offered, faults>>

(* The ledger already holds this opportunity: nothing is written and the
   lifecycle guard is not evaluated again.                                 *)
DuplicateOutcome(t) ==
    /\ pc = "draining"
    /\ t \in queued \ Refused
    /\ AlreadyRecorded(t)
    /\ queued' = queued \ {t}
    /\ settled' = settled \cup {t}
    /\ UNCHANGED <<broker, runtime, journal, ledger, pc, gone, booked,
                   pending, offered, faults>>

(* The observation is committed; the lifecycle guard follows in a second
   transaction.                                                            *)
InsertOutcome(t) ==
    /\ pc = "draining"
    /\ t \in queued \ Refused
    /\ ~AlreadyRecorded(t)
    /\ paper_outcomes' = [paper_outcomes EXCEPT ![t] = @ + 1]
    /\ queued' = queued \ {t}
    /\ offered' = {t}
    /\ pc' = "guarding"
    /\ UNCHANGED <<broker, runtime, journal, status, gone, booked, pending,
                   settled, faults>>

(* The held-out drift guard over the ledger with the new observation.      *)
EvaluateGuard ==
    /\ pc = "guarding"
    /\ status' = IF Degraded(paper_outcomes) THEN "demoted" ELSE status
    /\ settled' = settled \cup offered
    /\ offered' = {}
    /\ pc' = "draining"
    /\ UNCHANGED <<broker, runtime, journal, paper_outcomes, gone, booked,
                   pending, queued, faults>>

(* Every row was offered: prune the settled ones in one replacement.       *)
PruneOutbox ==
    /\ pc = "draining"
    /\ queued = {}
    /\ edge_outbox' = Prune(edge_outbox, settled)
    /\ settled' = {}
    /\ pc' = "idle"
    /\ UNCHANGED <<broker, active_trades, journal, ledger, gone, booked,
                   pending, queued, offered, faults>>

-----------------------------------------------------------------------------
(* Faults.  Each uses up one of MaxFaults.                                 *)

Fault == faults < MaxFaults /\ faults' = faults + 1

(* log_trade, or the replacement itself, raises: the pass is abandoned, the
   engine lives on, and the rows it kept in memory stay there.             *)
ReconcileFails ==
    /\ Fault
    /\ pc = "booking"
    /\ gone' = {}
    /\ booked' = {}
    /\ pc' = "idle"
    /\ UNCHANGED <<broker, runtime, journal, ledger, pending, queued,
                   offered, settled>>

(* The ledger cannot be written (locked, unavailable): keep the row.       *)
DeferOutcome(t) ==
    /\ Fault
    /\ pc = "draining"
    /\ t \in queued
    /\ queued' = queued \ {t}
    /\ UNCHANGED <<broker, runtime, journal, ledger, pc, gone, booked,
                   pending, offered, settled>>

(* The demotion transaction fails after the observation was committed: the
   row is deferred although the ledger holds it.                           *)
GuardFails ==
    /\ Fault
    /\ pc = "guarding"
    /\ offered' = {}
    /\ pc' = "draining"
    /\ UNCHANGED <<broker, runtime, journal, ledger, gone, booked, pending,
                   queued, settled>>

(* The pruning replacement fails: reconcile() raises with the rows queued. *)
PruneFails ==
    /\ Fault
    /\ pc = "draining"
    /\ queued = {}
    /\ settled' = {}
    /\ pc' = "idle"
    /\ UNCHANGED <<broker, runtime, journal, ledger, gone, booked, pending,
                   queued, offered>>

(* The process dies; only the four stores survive.                         *)
Crash ==
    /\ Fault
    /\ pc # "down"
    /\ pc' = "down"
    /\ gone' = {}
    /\ booked' = {}
    /\ pending' = {}
    /\ queued' = {}
    /\ offered' = {}
    /\ settled' = {}
    /\ UNCHANGED <<broker, runtime, journal, ledger>>

(* The supervisor starts a new engine on the same stores.                  *)
Restart ==
    /\ pc = "down"
    /\ pc' = "idle"
    /\ UNCHANGED <<broker, runtime, journal, ledger, memory, faults>>

-----------------------------------------------------------------------------
Step ==
    \/ StartReconcile
    \/ CommitReconcile
    \/ EvaluateGuard
    \/ PruneOutbox
    \/ Restart
    \/ \E t \in Trades :
          \/ BookClose(t)
          \/ RefuseOutcome(t)
          \/ DuplicateOutcome(t)
          \/ InsertOutcome(t)

Environment ==
    \/ ReconcileFails
    \/ GuardFails
    \/ PruneFails
    \/ Crash
    \/ \E t \in Trades :
          \/ ActivateFilledTrade(t)
          \/ BrokerClose(t)
          \/ DeferOutcome(t)

Next == Step \/ Environment

Spec == Init /\ [][Next]_vars

(* The run loop polls: an engine that is up keeps reconciling, and a dead
   one is restarted.                                                       *)
FairSpec == Spec /\ WF_vars(Step)

-----------------------------------------------------------------------------
(* Properties.                                                             *)

(* Re-deriving a close after a crash, or replaying a queued row, never adds
   a second journal row, a second outbox row or a second observation of the
   same trade (log_trade's unique index, the entry-id merge, the opportunity
   lookup of ingest_paper_outcome).                                        *)
ObservedAtMostOnce ==
    \A t \in Trades :
        journal[t] <= 1 /\ edge_outbox[t] <= 1 /\ paper_outcomes[t] <= 1

(* A trade that has left the runtime state has its close in the journal, and
   its outcome is still queued or has reached the ledger, whatever crashed
   or failed in between (the replacement at the end of reconcile()).       *)
NoOutcomeLost ==
    \A t \in opened \ active_trades :
        /\ journal[t] > 0
        /\ (edge_outbox[t] > 0 \/ AlreadyRecorded(t) \/ t \in Refused)

(* The ledger never holds an observation of a trade whose close the broker
   did not fill or the journal does not show.                              *)
LearnedFromJournaledClose ==
    \A t \in Trades : AlreadyRecorded(t) => t \in closed /\ journal[t] > 0

(* A row that leaves the outbox was settled by the ledger: pruning follows
   the commit of the observation or its refusal, never the other way round
   (_drain_edge_outbox).                                                   *)
RowsLeaveSettled ==
    [][\A t \in Trades :
          edge_outbox[t] > 0 /\ edge_outbox'[t] = 0
             => AlreadyRecorded(t) \/ t \in Refused]_vars

(* Once faults stop, every close is booked and its outcome settled, and the
   outbox row is gone.                                                     *)
EveryCloseSettles ==
    \A t \in Trades :
        t \in closed ~> /\ t \notin active_trades
                       /\ edge_outbox[t] = 0
                       /\ (AlreadyRecorded(t) \/ t \in Refused)

-----------------------------------------------------------------------------
(* The abstract specification this one implements.                         *)

BookedStage(t) ==
    IF AlreadyRecorded(t) THEN "learned"
    ELSE IF t \in Refused /\ edge_outbox[t] = 0 THEN "refused"
    ELSE "booked"

stage == [t \in Trades |->
    IF t \in active_trades THEN "open"
    ELSE IF t \in opened THEN BookedStage(t)
    ELSE "new"]

Outcomes == INSTANCE OutcomeLedger WITH stage <- stage

ImplementsOutcomeLedger == Outcomes!Spec

=============================================================================
