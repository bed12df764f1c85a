--------------------------- MODULE PaperTrialProofs ---------------------------
(***************************************************************************)
(* Proofs about PaperTrial for every set of incumbents and orders and every *)
(* bound.                                                                  *)
(*                                                                         *)
(* The slot has many writers but one way to change its owner: the refresh  *)
(* of an engine whose configuration is another incumbent's, over a flat    *)
(* book. IInv says why nothing is lost there: an engine under another      *)
(* configuration exists only over a trial that has ended and stays ended,  *)
(* so what it journaled before the refresh is still what the slot holds,   *)
(* and no row, queued outcome or unrecorded order carries the old tag.     *)
(***************************************************************************)
EXTENDS PaperTrial, TLAPS

Runs == {"RUNNING", "PAUSED"}
Prestates == [was : Trials, run : Runs]

SlotType ==
  /\ trial \in Trials \cup {NoTrial} /\ cancellation \in Prestates \cup {NoAudit}
  /\ run \in Runs /\ operatorPause \in BOOLEAN
JournalType ==
  audits \subseteq Trials /\ cancels \in Seq(Prestates)
BookType ==
  /\ row \in [Parents -> {"none", "pending", "open", "done"}]
  /\ broker \in [Parents -> {"none", "working", "held", "closed", "dead"}]
  /\ tag \in [Parents -> Incumbents \cup {NoTrial}]
ProcessType ==
  /\ pc \in {"down", "top", "orders", "book", "audit", "refresh", "entry", "record"}
  /\ cfg \in Incumbents /\ pending \in BOOLEAN /\ current \in Incumbents \cup {NoTrial}
  /\ queued \subseteq Parents /\ snapshot \in {"none", "flat", "exposed"}
  /\ seen \in [held : SUBSET Parents, working : SUBSET Parents, gone : SUBSET Parents]
WorldType ==
  /\ mounted \in Incumbents /\ day \in Days /\ reports \subseteq Days
  /\ stops \in 0 .. MaxStops /\ mounts \in 0 .. MaxMounts /\ faults \in 0 .. MaxFaults

\* An order that has a row, or was seen gone, has been where it says.
BookInv ==
  \A p \in Parents :
    /\ row[p] # "none" => broker[p] # "none"
    /\ row[p] = "done" \/ p \in seen.gone => broker[p] \in {"closed", "dead"}

\* Orders are used in order.
OrderInv == \A p, q \in Parents : q < p /\ broker[p] # "none" => broker[q] # "none"

\* Whose outcomes the book still owes.
Owned ==
  \A p \in Parents : row[p] \in {"pending", "open"} \/ p \in queued =>
    trial # NoTrial /\ tag[p] = trial.who

\* An engine runs under the slot's incumbent, or waits for one that has ended.
EngineInv ==
  /\ trial = NoTrial => pc = "down" /\ \A p \in Parents : row[p] = "none"
  /\ pc # "down" /\ trial.who # cfg => pending /\ trial.state \in Terminal
  /\ pc \in {"orders", "book"} /\ pending => LocalFlat
  /\ pc \in {"audit", "refresh", "entry", "record"} => queued = {}
  /\ pc \in {"entry", "record"} => current = trial.who /\ trial.who = cfg

\* The order that is being recorded carries the identity of the engine.
RecordInv ==
  pc = "record" => \A p \in Parents :
    broker[p] # "none" /\ (\A q \in Parents : q > p => broker[q] = "none") => tag[p] = current

\* What a refresh may replace is in the journal.
AuditInv ==
  pc = "refresh" /\ trial.who # cfg /\ BookFlat =>
    \E a \in audits : a.who = trial.who /\ a.outcomes = trial.outcomes

IInv ==
  /\ SlotType /\ JournalType /\ BookType /\ ProcessType /\ WorldType
  /\ BookInv /\ OrderInv /\ Owned /\ EngineInv /\ RecordInv /\ AuditInv /\ EvidenceKept

-----------------------------------------------------------------------------
\* Lemmas about the operators of the model.

\* The constants are numbers, and the first incumbent is one.
LEMMA Constants ==
  /\ MaxDays \in Nat /\ MaxDays >= 1 /\ 1 \in Days /\ Days \subseteq Nat /\ Parents \subseteq Nat
  /\ MaxStops \in Nat /\ MaxMounts \in Nat /\ MaxFaults \in Nat
  /\ First \in Incumbents /\ NoTrial \notin Trials
BY TrialAssumption, SlotAssumption DEF TrialAssumption, SlotAssumption, Days

\* A refresh counts sessions and judges; whose trial it is, its outcomes and the
\* end of an ended trial stay (Refreshed, Lifecycle).
LEMMA Refreshing ==
  ASSUME NEW t \in Trials, NEW u \in Refreshed(t)
  PROVE  /\ u \in Trials /\ u.who = t.who /\ u.outcomes = t.outcomes
         /\ t.state \in Terminal => u.state = t.state
<1>1. CASE t.state = "operator_cancelled"
  BY <1>1 DEF Refreshed
<1>2. CASE t.state # "operator_cancelled"
  <2>1. PICK v \in Verdicts(Counted(t), t.outcomes) :
          u = [t EXCEPT !.sessions = Counted(t),
                        !.blocked  = ~(t.sessions \subseteq Counted(t)),
                        !.state    = Lifecycle(t, Counted(t), v)]
    BY <1>2 DEF Refreshed
  <2>2. Counted(t) \in SUBSET Days
    BY DEF Counted
  <2>3. Lifecycle(t, Counted(t), v) \in Active \cup Terminal
    BY DEF Lifecycle, Trials, Active, Terminal
  <2>4. (~(t.sessions \subseteq Counted(t))) \in BOOLEAN
    OBVIOUS
  <2>5. t.state \in Terminal => Lifecycle(t, Counted(t), v) = t.state
    BY DEF Lifecycle
  <2> QED
    BY <2>1, <2>2, <2>3, <2>4, <2>5 DEF Trials
<1> QED
  BY <1>1, <1>2

\* What update_runtime may leave in the slot: the trial it had, refreshed; a new
\* one, when there was none; or a new one in place of another incumbent's, which
\* has ended over a flat book (UpdateRuntime).
LEMMA Updating ==
  ASSUME NEW c \in Incumbents, NEW flat \in BOOLEAN, NEW t \in UpdateRuntime(c, flat),
         trial \in Trials \cup {NoTrial}, day \in Days
  PROVE  /\ t \in Trials
         /\ \/ /\ trial # NoTrial /\ t.who = trial.who /\ t.outcomes = trial.outcomes
               /\ trial.state \in Terminal => t.state = trial.state
            \/ trial = NoTrial /\ t.who = c
            \/ flat /\ trial # NoTrial /\ trial.who # c /\ trial.state \in Terminal /\ t.who = c
         /\ t.who = c \/ (Pending(c, flat) /\ t = trial /\ trial.state \in Terminal)
<1> DEFINE kept == IF trial = NoTrial \/ (Replaces(c) /\ flat) THEN NewTrial(c) ELSE trial
           on   == IF kept.active \/ ~flat THEN kept
                   ELSE [kept EXCEPT !.active = TRUE, !.since = day]
<1>1. ~Refused(c)
  BY DEF UpdateRuntime
<1>2. CASE Pending(c, flat)
  <2>1. t = trial
    BY <1>1, <1>2 DEF UpdateRuntime
  <2> QED
    BY <1>1, <1>2, <2>1 DEF Pending, Replaces, Refused
<1>3. CASE ~Pending(c, flat)
  <2>1. NewTrial(c) \in Trials /\ NewTrial(c).who = c /\ NewTrial(c).state = "running"
    BY Constants DEF NewTrial, Trials, Active
  <2>2. /\ kept \in Trials
        /\ kept = trial \/ kept = NewTrial(c)
        /\ kept = trial => trial # NoTrial /\ trial.who = c
        /\ kept # trial => trial = NoTrial \/ (Replaces(c) /\ flat)
    BY <1>1, <1>3, <2>1, Constants DEF Pending, Replaces, Refused
  <2>3. /\ on \in Trials /\ on.who = kept.who /\ on.outcomes = kept.outcomes
        /\ on.state = kept.state
    <3> HIDE DEF kept
    <3>1. day \in 0 .. MaxDays
      BY Constants DEF Days
    <3> QED
      BY <2>2, <3>1 DEF Trials
  <2>4. t \in IF on.active THEN Refreshed(on) ELSE {on}
    BY <1>1, <1>3 DEF UpdateRuntime
  <2> HIDE DEF on, kept
  <2>5. /\ t \in Trials /\ t.who = on.who /\ t.outcomes = on.outcomes
        /\ on.state \in Terminal => t.state = on.state
    <3>1. CASE on.active
      BY <2>3, <2>4, <3>1, Refreshing
    <3>2. CASE ~on.active
      BY <2>3, <2>4, <3>2
    <3> QED
      BY <3>1, <3>2
  <2> QED
    BY <1>1, <2>1, <2>2, <2>3, <2>5 DEF Replaces, Refused
<1> QED
  BY <1>2, <1>3

\* The record of a cancellation stays with its trial (CancellationAfter).
LEMMA Cancellations ==
  ASSUME NEW t, cancellation \in Prestates \cup {NoAudit}
  PROVE  CancellationAfter(t) \in Prestates \cup {NoAudit}
BY DEF CancellationAfter

\* An outcome is added to the slot and nothing else of it changes (Merged).
LEMMA Merging ==
  ASSUME NEW t \in Trials, NEW rows \in SUBSET Parents
  PROVE  /\ Merged(t, rows) \in Trials
         /\ Merged(t, rows).who = t.who /\ Merged(t, rows).state = t.state
         /\ Merged(t, rows).outcomes = t.outcomes \cup rows
BY DEF Merged, Trials

\* What a part of the invariant does not mention may change without it.
LEMMA Frames ==
  /\ SlotType /\ UNCHANGED <<trial, cancellation, run, operatorPause>> => SlotType'
  /\ JournalType /\ UNCHANGED <<audits, cancels>> => JournalType'
  /\ BookType /\ UNCHANGED <<row, broker, tag>> => BookType'
  /\ ProcessType /\ UNCHANGED <<pc, cfg, pending, current, queued, snapshot, seen>> => ProcessType'
  /\ WorldType /\ UNCHANGED <<mounted, day, reports, stops, mounts, faults>> => WorldType'
  /\ BookInv /\ UNCHANGED <<row, broker, seen>> => BookInv'
  /\ OrderInv /\ UNCHANGED broker => OrderInv'
  /\ Owned /\ UNCHANGED <<row, queued, trial, tag>> => Owned'
  /\ EngineInv /\ UNCHANGED <<trial, pc, row, cfg, pending, queued, current>> => EngineInv'
  /\ RecordInv /\ UNCHANGED <<pc, broker, tag, current>> => RecordInv'
  /\ AuditInv /\ UNCHANGED <<pc, trial, cfg, row, snapshot, audits>> => AuditInv'
  /\ EvidenceKept /\ UNCHANGED <<row, broker, trial, tag, audits>> => EvidenceKept'
BY DEF SlotType, JournalType, BookType, ProcessType, WorldType, BookInv, OrderInv, Owned,
   EngineInv, RecordInv, AuditInv, EvidenceKept, LocalFlat, BookFlat

-----------------------------------------------------------------------------
\* The invariant is inductive.

\* A new runtime has no trial, no order and no evidence.
LEMMA Initially == Init => IInv
<1> SUFFICES ASSUME Init PROVE IInv
  OBVIOUS
<1> USE Constants
<1>1. SlotType /\ BookType
  BY DEF Init, SlotType, BookType, Runs
<1>6. JournalType
  BY DEF Init, JournalType
<1>2. ProcessType
  BY DEF Init, ProcessType, Unread
<1>3. WorldType
  BY DEF Init, WorldType
<1>4. BookInv /\ OrderInv /\ Owned /\ EngineInv
  BY DEF Init, BookInv, OrderInv, Owned, EngineInv, Unread
<1>5. RecordInv /\ AuditInv /\ EvidenceKept
  BY DEF Init, RecordInv, AuditInv, EvidenceKept
<1> QED
  BY <1>1, <1>2, <1>3, <1>4, <1>5, <1>6 DEF IInv

\* Every step keeps it.
LEMMA Inductive == IInv /\ [Next]_vars => IInv'
<1> SUFFICES ASSUME SlotType, JournalType, BookType, ProcessType, WorldType, BookInv, OrderInv,
                    Owned, EngineInv, RecordInv, AuditInv, EvidenceKept, [Next]_vars
             PROVE  IInv'
  BY DEF IInv
<1> USE DEF durable, venue, process, world
<1>1. CASE StartEngine
  <2>1. /\ trial' \in UpdateRuntime(mounted, FALSE) /\ current' = trial'.who
        /\ cancellation' = CancellationAfter(trial') /\ pending' = Pending(mounted, FALSE)
        /\ pc = "down" /\ pc' = "top" /\ cfg' = mounted /\ queued' = {} /\ seen' = Unread
        /\ UNCHANGED <<row, broker, tag, audits>>
    BY <1>1 DEF StartEngine
  <2>2. /\ trial' \in Trials /\ trial' # NoTrial
        /\ \/ /\ trial # NoTrial /\ trial'.who = trial.who /\ trial'.outcomes = trial.outcomes
              /\ trial.state \in Terminal => trial'.state = trial.state
           \/ trial = NoTrial /\ pc = "down" /\ \A p \in Parents : row[p] = "none"
    BY <2>1, Updating, Constants DEF SlotType, WorldType, EngineInv
  <2>3. trial'.who = cfg' \/ (pending' /\ trial'.state \in Terminal)
    BY <2>1, Updating DEF SlotType, WorldType
  <2>4. cancellation' \in Prestates \cup {NoAudit}
    BY <2>1, Cancellations DEF SlotType
  <2>5. JournalType' /\ BookType' /\ WorldType' /\ OrderInv'
    BY <1>1, Frames DEF StartEngine
  <2>6. SlotType'
    BY <1>1, <2>1, <2>2, <2>3, <2>4 DEF StartEngine, SlotType, Runs
  <2>7. ProcessType'
    BY <1>1, <2>2
    DEF StartEngine, ProcessType, WorldType, Unread, Pending, Replaces, Trials
  <2>8. BookInv'
    BY <2>1, <2>2, <2>3, <2>4 DEF BookInv, Unread
  <2>9. Owned'
    BY <2>1, <2>2, <2>3, <2>4 DEF Owned
  <2>10. EngineInv'
    BY <2>1, <2>2, <2>3, <2>4 DEF EngineInv
  <2>11. RecordInv'
    BY <2>1, <2>2, <2>3, <2>4 DEF RecordInv
  <2>12. AuditInv'
    BY <2>1, <2>2, <2>3, <2>4 DEF AuditInv
  <2>13. EvidenceKept'
    BY <2>1, <2>2, <2>3, <2>4 DEF EvidenceKept
  <2> QED
    BY <2>5, <2>6, <2>7, <2>8, <2>9, <2>10, <2>11, <2>12, <2>13 DEF IInv
<1>2. CASE LightEngine
  <2>1. /\ trial' \in UpdateRuntime(mounted, FALSE) /\ cancellation' = CancellationAfter(trial')
        /\ UNCHANGED <<row, broker, tag, audits, pc, cfg, pending, current, queued, snapshot>>
    BY <1>2 DEF LightEngine
  <2>2. /\ trial' \in Trials /\ trial' # NoTrial
        /\ \/ /\ trial # NoTrial /\ trial'.who = trial.who /\ trial'.outcomes = trial.outcomes
              /\ trial.state \in Terminal => trial'.state = trial.state
           \/ trial = NoTrial /\ pc = "down" /\ \A p \in Parents : row[p] = "none"
    BY <2>1, Updating, Constants DEF SlotType, WorldType, EngineInv
  <2>3. cancellation' \in Prestates \cup {NoAudit}
    BY <2>1, Cancellations DEF SlotType
  <2>4. /\ JournalType' /\ BookType' /\ ProcessType' /\ WorldType' /\ BookInv' /\ OrderInv'
        /\ RecordInv'
    BY <1>2, Frames DEF LightEngine
  <2>5. SlotType'
    BY <1>2, <2>1, <2>2, <2>3 DEF LightEngine, SlotType, Runs
  <2>6. Owned'
    BY <2>1, <2>2, <2>3 DEF Owned
  <2>7. EngineInv'
    BY <2>1, <2>2, <2>3 DEF EngineInv, LocalFlat
  <2>8. AuditInv'
    BY <2>1, <2>2 DEF AuditInv, EngineInv, BookFlat, LocalFlat
  <2>9. EvidenceKept'
    BY <2>1, <2>2, <2>3 DEF EvidenceKept
  <2> QED
    BY <2>4, <2>5, <2>6, <2>7, <2>8, <2>9 DEF IInv
<1>3. CASE ReadPositions
  <2>1. /\ SlotType' /\ JournalType' /\ BookType' /\ WorldType' /\ OrderInv' /\ Owned'
        /\ EvidenceKept'
    BY <1>3, Frames DEF ReadPositions, Ready
  <2>2. ProcessType'
    BY <1>3 DEF ReadPositions, Ready, ProcessType, Unread
  <2>3. BookInv'
    BY <1>3 DEF ReadPositions, Ready, BookInv, Unread
  <2>4. EngineInv'
    BY <1>3 DEF ReadPositions, Ready, EngineInv, LocalFlat
  <2>5. RecordInv'
    BY <1>3 DEF ReadPositions, Ready, RecordInv
  <2>6. AuditInv'
    BY <1>3 DEF ReadPositions, Ready, AuditInv
  <2> QED
    BY <2>1, <2>2, <2>3, <2>4, <2>5, <2>6 DEF IInv
<1>4. CASE ReadOrders
  <2>1. \A p \in seen'.gone : broker[p] \in {"closed", "dead"}
    BY <1>4 DEF ReadOrders, ProcessType
  <2>2. /\ SlotType' /\ JournalType' /\ BookType' /\ WorldType' /\ OrderInv' /\ Owned'
        /\ EvidenceKept'
    BY <1>4, Frames DEF ReadOrders
  <2>3. ProcessType'
    BY <1>4, <2>1 DEF ReadOrders, ProcessType
  <2>4. BookInv'
    BY <1>4, <2>1 DEF ReadOrders, BookInv
  <2>5. EngineInv'
    BY <1>4, <2>1 DEF ReadOrders, EngineInv, LocalFlat
  <2>6. RecordInv'
    BY <1>4, <2>1 DEF ReadOrders, RecordInv
  <2>7. AuditInv'
    BY <1>4, <2>1 DEF ReadOrders, AuditInv
  <2> QED
    BY <2>2, <2>3, <2>4, <2>5, <2>6, <2>7 DEF IInv
<1>5. CASE Book
  <2>1. /\ pc = "book" /\ pc' = "audit" /\ queued' = {} /\ seen' = Unread /\ snapshot' = SnapshotSeen
        /\ \A p \in queued \cup Closes : tag[p] = trial.who
        /\ trial' = Merged(trial, queued \cup Closes) /\ row' = Rebooked /\ trial # NoTrial
        /\ UNCHANGED <<broker, tag, audits, cfg, pending, current>>
    BY <1>5 DEF Book, EngineInv
  <2>2. /\ trial' \in Trials /\ trial'.who = trial.who /\ trial'.state = trial.state
        /\ trial'.outcomes = trial.outcomes \cup queued \cup Closes
    <3>1. queued \cup Closes \in SUBSET Parents
      BY DEF ProcessType, Closes
    <3>2. trial \in Trials
      BY <2>1 DEF SlotType
    <3> QED
      BY <2>1, <3>1, <3>2, Merging
  <2>3. /\ row' \in [Parents -> {"none", "pending", "open", "done"}]
        /\ \A p \in Parents :
             /\ row'[p] \in {"pending", "open"} => row[p] \in {"pending", "open"}
             /\ row'[p] = "none" <=> row[p] = "none"
             /\ row'[p] = "done" => row[p] = "done" \/ p \in Closes \/ broker[p] = "dead"
    BY <2>1 DEF Rebooked, BookType, Closes
  <2>4. \A p \in Closes : p \in Parents /\ broker[p] \in {"closed", "dead"}
    BY <2>1 DEF Closes, BookInv
  <2>5. JournalType' /\ WorldType' /\ OrderInv'
    BY <1>5, Frames DEF Book
  <2>6. SlotType'
    BY <1>5, <2>1, <2>2, <2>3, <2>4 DEF Book, SlotType, Runs
  <2>7. BookType'
    BY <2>1, <2>2, <2>3, <2>4 DEF BookType
  <2>8. ProcessType'
    BY <2>1 DEF ProcessType, SnapshotSeen, Unread
  <2>9. BookInv'
    BY <2>1, <2>2, <2>3, <2>4 DEF BookInv, Unread
  <2>10. Owned'
    BY Constants, <2>1, <2>2, <2>3, <2>4 DEF Owned
  <2>11. EngineInv'
    BY <2>1, <2>2, Constants DEF EngineInv
  <2>12. RecordInv'
    BY <2>1, <2>2, <2>3, <2>4 DEF RecordInv
  <2>13. AuditInv'
    BY <2>1, <2>2, <2>3, <2>4 DEF AuditInv
  <2>14. EvidenceKept'
    BY <2>1, <2>2, <2>3, <2>4 DEF EvidenceKept
  <2> QED
    BY <2>5, <2>6, <2>7, <2>8, <2>9, <2>10, <2>11, <2>12, <2>13, <2>14 DEF IInv
<1>6. CASE ReconcileFails
  <2>1. \A p \in Closes : p \in Parents /\ row[p] = "open"
    BY DEF Closes
  <2>2. SlotType' /\ JournalType' /\ BookType' /\ OrderInv' /\ EvidenceKept'
    BY <1>6, Frames DEF ReconcileFails
  <2>3. ProcessType'
    BY <1>6, <2>1 DEF ReconcileFails, ProcessType, Unread
  <2>4. WorldType'
    BY <1>6, Constants, <2>1 DEF ReconcileFails, WorldType
  <2>5. BookInv'
    BY <1>6, <2>1 DEF ReconcileFails, BookInv, Unread
  <2>6. Owned'
    BY <1>6, <2>1 DEF ReconcileFails, Owned
  <2>7. EngineInv'
    BY <1>6, <2>1 DEF ReconcileFails, EngineInv
  <2>8. RecordInv'
    BY <1>6, <2>1 DEF ReconcileFails, RecordInv
  <2>9. AuditInv'
    BY <1>6, <2>1 DEF ReconcileFails, AuditInv
  <2> QED
    BY <2>2, <2>3, <2>4, <2>5, <2>6, <2>7, <2>8, <2>9 DEF IInv
<1>7. CASE AuditTerminal
  <2>1. /\ pc = "audit" /\ pc' = "refresh"
        /\ audits \subseteq audits' /\ audits' \subseteq audits \cup {trial} /\ trial # NoTrial /\ trial \in Trials
        /\ trial.who # cfg /\ BookFlat => trial \in audits'
        /\ UNCHANGED <<trial, row, cfg, snapshot, broker, tag>>
    BY <1>7 DEF AuditTerminal, EngineInv, Replaces, SlotType
  <2>2. SlotType' /\ BookType' /\ WorldType' /\ BookInv' /\ OrderInv' /\ Owned'
    BY <1>7, Frames DEF AuditTerminal
  <2>3. JournalType'
    BY <1>7, <2>1 DEF AuditTerminal, JournalType
  <2>4. ProcessType'
    BY <1>7, <2>1 DEF AuditTerminal, ProcessType
  <2>5. EngineInv'
    BY <1>7, <2>1 DEF AuditTerminal, EngineInv
  <2>6. RecordInv'
    BY <2>1 DEF RecordInv
  <2>7. AuditInv'
    BY <2>1 DEF AuditInv, BookFlat, LocalFlat
  <2>8. EvidenceKept'
    BY <2>1 DEF EvidenceKept
  <2> QED
    BY <2>2, <2>3, <2>4, <2>5, <2>6, <2>7, <2>8 DEF IInv
<1>8. CASE AuditFails
  <2>1. /\ SlotType' /\ JournalType' /\ BookType' /\ BookInv' /\ OrderInv' /\ Owned'
        /\ EvidenceKept'
    BY <1>8, Frames DEF AuditFails
  <2>2. ProcessType'
    BY <1>8 DEF AuditFails, ProcessType
  <2>3. WorldType'
    BY <1>8, Constants DEF AuditFails, WorldType
  <2>4. EngineInv'
    BY <1>8 DEF AuditFails, EngineInv
  <2>5. RecordInv'
    BY <1>8 DEF AuditFails, RecordInv
  <2>6. AuditInv'
    BY <1>8 DEF AuditFails, AuditInv
  <2> QED
    BY <2>1, <2>2, <2>3, <2>4, <2>5, <2>6 DEF IInv
<1>9. CASE RefreshTrial
  <2>1. /\ trial' \in UpdateRuntime(cfg, BookFlat) /\ current' = trial'.who
        /\ cancellation' = CancellationAfter(trial') /\ pending' = Pending(cfg, BookFlat)
        /\ pc = "refresh" /\ pc' \in {"entry", "top"} /\ (pc' = "entry" => ~pending') /\ run' \in {"PAUSED", "RUNNING", run}
        /\ UNCHANGED <<row, broker, tag, audits, cfg, queued, snapshot>>
    BY <1>9 DEF RefreshTrial, Eligible
  <2>2. BookFlat \in BOOLEAN
    BY DEF BookFlat, LocalFlat
  <2>3. /\ trial' \in Trials /\ trial # NoTrial /\ trial' # NoTrial
        /\ \/ /\ trial'.who = trial.who /\ trial'.outcomes = trial.outcomes
              /\ trial.state \in Terminal => trial'.state = trial.state
           \/ BookFlat /\ trial.who # cfg
        /\ trial'.who = cfg \/ (pending' /\ trial'.state \in Terminal)
    BY <2>1, <2>2, Updating, Constants DEF SlotType, WorldType, ProcessType, EngineInv
  <2>4. cancellation' \in Prestates \cup {NoAudit}
    BY <2>1, Cancellations DEF SlotType
  <2>5. BookFlat => LocalFlat
    BY DEF BookFlat
  <2>6. JournalType' /\ BookType' /\ WorldType' /\ BookInv' /\ OrderInv'
    BY <1>9, Frames DEF RefreshTrial
  <2>7. SlotType'
    BY <1>9, <2>1, <2>2, <2>3, <2>4, <2>5 DEF RefreshTrial, SlotType, Runs
  <2>8. ProcessType'
    BY <1>9, <2>1, <2>3 DEF RefreshTrial, ProcessType, Pending, Replaces, Trials
  <2>9. Owned'
    BY <2>1, <2>3, <2>5 DEF Owned, EngineInv, LocalFlat
  <2>10. EngineInv'
    BY <2>1, <2>2, <2>3, <2>4, <2>5 DEF EngineInv
  <2>11. RecordInv'
    BY <2>1, <2>2, <2>3, <2>4, <2>5 DEF RecordInv
  <2>12. AuditInv'
    BY <2>1, <2>2, <2>3, <2>4, <2>5 DEF AuditInv
  <2>13. EvidenceKept'
    <3>1. CASE trial'.who = trial.who /\ trial'.outcomes = trial.outcomes
      BY <2>1, <3>1 DEF EvidenceKept
    <3>2. CASE BookFlat /\ trial.who # cfg
      <4>1. PICK a \in audits : a.who = trial.who /\ a.outcomes = trial.outcomes
        BY <2>1, <3>2 DEF AuditInv
      <4> QED
        BY <2>1, <4>1 DEF EvidenceKept
    <3> QED
      BY <2>3, <3>1, <3>2
  <2> QED
    BY <2>6, <2>7, <2>8, <2>9, <2>10, <2>11, <2>12, <2>13 DEF IInv
<1>10. CASE RefreshRaises
  <2>1. /\ SlotType' /\ JournalType' /\ BookType' /\ WorldType' /\ BookInv' /\ OrderInv'
        /\ Owned' /\ EvidenceKept'
    BY <1>10, Frames DEF RefreshRaises
  <2>2. ProcessType'
    BY <1>10 DEF RefreshRaises, ProcessType
  <2>3. EngineInv'
    BY <1>10 DEF RefreshRaises, EngineInv
  <2>4. RecordInv'
    BY <1>10 DEF RefreshRaises, RecordInv
  <2>5. AuditInv'
    BY <1>10 DEF RefreshRaises, AuditInv
  <2> QED
    BY <2>1, <2>2, <2>3, <2>4, <2>5 DEF IInv
<1>11. ASSUME Submit PROVE IInv'
  <2>1. PICK p \in Parents : /\ broker[p] = "none" /\ \A q \in Parents : q < p => broker[q] # "none"
                             /\ broker' = [broker EXCEPT ![p] = "working"]
                             /\ tag' = [tag EXCEPT ![p] = current]
    BY <1>11 DEF Submit
  <2>2. /\ pc = "entry" /\ pc' = "record" /\ queued = {} /\ row[p] = "none" /\ p \notin seen.gone
        /\ UNCHANGED <<trial, row, audits, current, queued, cfg, pending, seen>>
    BY <1>11, <2>1 DEF Submit, EngineInv, BookInv
  <2>3. /\ broker'[p] = "working" /\ tag'[p] = current
        /\ \A q \in Parents \ {p} : broker'[q] = broker[q] /\ tag'[q] = tag[q]
    BY <2>1 DEF BookType
  <2>4. \A q \in Parents : q > p => broker[q] = "none"
    BY <2>1 DEF OrderInv
  <2>5. SlotType' /\ JournalType' /\ WorldType'
    BY <1>11, Frames DEF Submit
  <2>6. BookType'
    BY <2>1, <2>2 DEF BookType, ProcessType
  <2>7. ProcessType'
    BY <1>11, <2>1, <2>2, <2>3, <2>4 DEF Submit, ProcessType
  <2>8. BookInv'
    BY <2>1, <2>2, <2>3, <2>4 DEF BookInv
  <2>9. OrderInv'
    BY <2>1, <2>3, Constants DEF OrderInv
  <2>10. Owned'
    BY <2>1, <2>2, <2>3, <2>4 DEF Owned
  <2>11. EngineInv'
    BY <2>1, <2>2, <2>3, <2>4 DEF EngineInv
  <2>12. RecordInv'
    <3>1. \A q \in Parents : q # p /\ broker'[q] # "none" => q < p
      BY <2>3, <2>4, Constants
    <3> QED
      BY <2>2, <2>3, <3>1, Constants DEF RecordInv
  <2>13. AuditInv'
    BY <2>1, <2>2, <2>3, <2>4 DEF AuditInv
  <2>14. EvidenceKept'
    BY <2>1, <2>2, <2>3, <2>4 DEF EvidenceKept
  <2> QED
    BY <2>5, <2>6, <2>7, <2>8, <2>9, <2>10, <2>11, <2>12, <2>13, <2>14 DEF IInv
<1>12. CASE NoEntry
  <2>1. /\ SlotType' /\ JournalType' /\ BookType' /\ WorldType' /\ BookInv' /\ OrderInv'
        /\ Owned' /\ EvidenceKept'
    BY <1>12, Frames DEF NoEntry
  <2>2. ProcessType'
    BY <1>12 DEF NoEntry, ProcessType
  <2>3. EngineInv'
    BY <1>12 DEF NoEntry, EngineInv
  <2>4. RecordInv'
    BY <1>12 DEF NoEntry, RecordInv
  <2>5. AuditInv'
    BY <1>12 DEF NoEntry, AuditInv
  <2> QED
    BY <2>1, <2>2, <2>3, <2>4, <2>5 DEF IInv
<1>13. CASE Record
  <2>1. /\ row' \in [Parents -> {"none", "pending", "open", "done"}]
        /\ \A p \in Parents :
             \/ row'[p] = row[p]
             \/ /\ row'[p] = "pending" /\ broker[p] # "none"
                /\ \A q \in Parents : q > p => broker[q] = "none"
    BY <1>13 DEF Record, BookType
  <2>2. /\ pc = "record" /\ pc' = "top" /\ trial # NoTrial /\ current = trial.who /\ trial.who = cfg
        /\ UNCHANGED <<trial, queued, tag, broker, audits, seen, cfg, pending, current>>
    BY <1>13 DEF Record, EngineInv
  <2>3. SlotType' /\ JournalType' /\ WorldType' /\ OrderInv'
    BY <1>13, Frames DEF Record
  <2>4. BookType'
    BY <2>1, <2>2 DEF BookType
  <2>5. ProcessType'
    BY <1>13, <2>1, <2>2 DEF Record, ProcessType
  <2>6. BookInv'
    BY <2>1, <2>2 DEF BookInv
  <2>7. Owned'
    BY <2>1, <2>2 DEF Owned, RecordInv
  <2>8. EngineInv'
    BY <2>1, <2>2 DEF EngineInv
  <2>9. RecordInv'
    BY <2>1, <2>2 DEF RecordInv
  <2>10. AuditInv'
    BY <2>1, <2>2 DEF AuditInv
  <2>11. EvidenceKept'
    BY <2>1, <2>2 DEF EvidenceKept
  <2> QED
    BY <2>3, <2>4, <2>5, <2>6, <2>7, <2>8, <2>9, <2>10, <2>11 DEF IInv
<1>14. CASE Stop
  <2>1. SlotType' /\ JournalType' /\ BookType' /\ OrderInv' /\ EvidenceKept'
    BY <1>14, Frames DEF Stop
  <2>2. ProcessType'
    BY <1>14, Constants DEF Stop, ProcessType, Unread
  <2>3. WorldType'
    BY <1>14, Constants DEF Stop, WorldType
  <2>4. BookInv'
    BY <1>14 DEF Stop, BookInv, Unread
  <2>5. Owned'
    BY <1>14 DEF Stop, Owned
  <2>6. EngineInv'
    BY <1>14 DEF Stop, EngineInv
  <2>7. RecordInv'
    BY <1>14 DEF Stop, RecordInv
  <2>8. AuditInv'
    BY <1>14 DEF Stop, AuditInv
  <2> QED
    BY <2>1, <2>2, <2>3, <2>4, <2>5, <2>6, <2>7, <2>8 DEF IInv
<1>15. ASSUME NEW p \in Parents, Fill(p) PROVE IInv'
  <2>1. broker[p] = "working" /\ broker' = [broker EXCEPT ![p] = "held"]
    BY <1>15 DEF Fill, Entry
  <2>2. \A q \in Parents : /\ broker'[q] # "none" <=> broker[q] # "none"
                           /\ broker[q] \in {"closed", "dead"} => broker'[q] = broker[q]
                           /\ broker'[q] = "closed" /\ broker[q] # "closed" => row[q] # "done"
    BY <2>1 DEF BookType, BookInv
  <2>3. /\ SlotType' /\ JournalType' /\ ProcessType' /\ WorldType' /\ Owned' /\ EngineInv'
        /\ AuditInv'
    BY <1>15, Frames DEF Fill, Entry
  <2>4. BookType'
    BY <1>15, <2>1, <2>2 DEF Fill, Entry, BookType
  <2>5. BookInv'
    BY <1>15, <2>1, <2>2 DEF Fill, Entry, BookInv
  <2>6. OrderInv'
    BY <2>1, <2>2 DEF OrderInv
  <2>7. RecordInv'
    BY <1>15, <2>1, <2>2 DEF Fill, Entry, RecordInv
  <2>8. EvidenceKept'
    BY <1>15, <2>1, <2>2 DEF Fill, Entry, EvidenceKept
  <2> QED
    BY <2>3, <2>4, <2>5, <2>6, <2>7, <2>8 DEF IInv
<1>16. ASSUME NEW p \in Parents, Die(p) PROVE IInv'
  <2>1. broker[p] = "working" /\ broker' = [broker EXCEPT ![p] = "dead"]
    BY <1>16 DEF Die, Entry
  <2>2. \A q \in Parents : /\ broker'[q] # "none" <=> broker[q] # "none"
                           /\ broker[q] \in {"closed", "dead"} => broker'[q] = broker[q]
                           /\ broker'[q] = "closed" /\ broker[q] # "closed" => row[q] # "done"
    BY <2>1 DEF BookType, BookInv
  <2>3. /\ SlotType' /\ JournalType' /\ ProcessType' /\ WorldType' /\ Owned' /\ EngineInv'
        /\ AuditInv'
    BY <1>16, Frames DEF Die, Entry
  <2>4. BookType'
    BY <1>16, <2>1, <2>2 DEF Die, Entry, BookType
  <2>5. BookInv'
    BY <1>16, <2>1, <2>2 DEF Die, Entry, BookInv
  <2>6. OrderInv'
    BY <2>1, <2>2 DEF OrderInv
  <2>7. RecordInv'
    BY <1>16, <2>1, <2>2 DEF Die, Entry, RecordInv
  <2>8. EvidenceKept'
    BY <1>16, <2>1, <2>2 DEF Die, Entry, EvidenceKept
  <2> QED
    BY <2>3, <2>4, <2>5, <2>6, <2>7, <2>8 DEF IInv
<1>17. ASSUME NEW p \in Parents, Close(p) PROVE IInv'
  <2>1. broker[p] = "held" /\ broker' = [broker EXCEPT ![p] = "closed"]
    BY <1>17 DEF Close, Entry
  <2>2. \A q \in Parents : /\ broker'[q] # "none" <=> broker[q] # "none"
                           /\ broker[q] \in {"closed", "dead"} => broker'[q] = broker[q]
                           /\ broker'[q] = "closed" /\ broker[q] # "closed" => row[q] # "done"
    BY <2>1 DEF BookType, BookInv
  <2>3. /\ SlotType' /\ JournalType' /\ ProcessType' /\ WorldType' /\ Owned' /\ EngineInv'
        /\ AuditInv'
    BY <1>17, Frames DEF Close, Entry
  <2>4. BookType'
    BY <1>17, <2>1, <2>2 DEF Close, Entry, BookType
  <2>5. BookInv'
    BY <1>17, <2>1, <2>2 DEF Close, Entry, BookInv
  <2>6. OrderInv'
    BY <2>1, <2>2 DEF OrderInv
  <2>7. RecordInv'
    BY <1>17, <2>1, <2>2 DEF Close, Entry, RecordInv
  <2>8. EvidenceKept'
    BY <1>17, <2>1, <2>2 DEF Close, Entry, EvidenceKept, BookInv
  <2> QED
    BY <2>3, <2>4, <2>5, <2>6, <2>7, <2>8 DEF IInv
<1>18. CASE Pause
  <2>1. /\ JournalType' /\ BookType' /\ ProcessType' /\ WorldType' /\ BookInv' /\ OrderInv'
        /\ Owned' /\ EngineInv' /\ RecordInv' /\ AuditInv' /\ EvidenceKept'
    BY <1>18, Frames DEF Pause
  <2>2. SlotType'
    BY <1>18 DEF Pause, SlotType, Runs
  <2> QED
    BY <2>1, <2>2 DEF IInv
<1>19. CASE Resume
  <2>1. /\ JournalType' /\ BookType' /\ ProcessType' /\ WorldType' /\ BookInv' /\ OrderInv'
        /\ Owned' /\ EngineInv' /\ RecordInv' /\ AuditInv' /\ EvidenceKept'
    BY <1>19, Frames DEF Resume
  <2>2. SlotType'
    BY <1>19 DEF Resume, SlotType, Runs
  <2> QED
    BY <2>1, <2>2 DEF IInv
<1>20. CASE CancelTrial
  <2>1. /\ trial' = [trial EXCEPT !.state = "operator_cancelled"] /\ trial # NoTrial /\ pc = "down"
        /\ cancels' = WriteOrReuseAudit(Prestate) /\ cancellation' = Prestate
        /\ UNCHANGED <<row, broker, tag, audits, pc, cfg, pending, current, queued, snapshot>>
    BY <1>20 DEF CancelTrial, Cancellable
  <2>2. /\ trial \in Trials /\ trial' \in Trials /\ trial'.who = trial.who
        /\ trial'.outcomes = trial.outcomes
    BY <2>1 DEF SlotType, Trials, Terminal
  <2>3. Prestate \in Prestates
    BY <2>2 DEF Prestate, Prestates, SlotType
  <2>4. BookType' /\ ProcessType' /\ WorldType' /\ BookInv' /\ OrderInv' /\ RecordInv'
    BY <1>20, Frames DEF CancelTrial, Cancellable
  <2>5. SlotType'
    BY <1>20, <2>1, <2>2, <2>3 DEF CancelTrial, Cancellable, SlotType, Runs
  <2>6. JournalType'
    BY <2>1, <2>3 DEF JournalType, WriteOrReuseAudit
  <2>7. Owned'
    BY Constants, <2>1, <2>2, <2>3 DEF Owned
  <2>8. EngineInv'
    BY <2>1, <2>2, Constants DEF EngineInv
  <2>9. AuditInv'
    BY <2>1, <2>2, <2>3 DEF AuditInv
  <2>10. EvidenceKept'
    BY <2>1, <2>2, <2>3 DEF EvidenceKept
  <2> QED
    BY <2>4, <2>5, <2>6, <2>7, <2>8, <2>9, <2>10 DEF IInv
<1>21. CASE CancelInterrupted
  <2>1. Prestate \in Prestates
    BY <1>21 DEF CancelInterrupted, Cancellable, Prestate, Prestates, SlotType
  <2>2. /\ SlotType' /\ BookType' /\ ProcessType' /\ BookInv' /\ OrderInv' /\ Owned'
        /\ EngineInv' /\ RecordInv' /\ AuditInv' /\ EvidenceKept'
    BY <1>21, Frames DEF CancelInterrupted, Cancellable
  <2>3. JournalType'
    BY <1>21, <2>1 DEF CancelInterrupted, JournalType, WriteOrReuseAudit
  <2>4. WorldType'
    BY <1>21, Constants, <2>1 DEF CancelInterrupted, Cancellable, WorldType
  <2> QED
    BY <2>2, <2>3, <2>4 DEF IInv
<1>22. ASSUME NEW c \in Incumbents, Mount(c) PROVE IInv'
  <2>1. /\ SlotType' /\ JournalType' /\ BookType' /\ ProcessType' /\ BookInv' /\ OrderInv'
        /\ Owned' /\ EngineInv' /\ RecordInv' /\ AuditInv' /\ EvidenceKept'
    BY <1>22, Frames DEF Mount
  <2>2. WorldType'
    BY <1>22, Constants DEF Mount, WorldType
  <2> QED
    BY <2>1, <2>2 DEF IInv
<1>23. CASE Report
  <2>1. /\ SlotType' /\ JournalType' /\ BookType' /\ ProcessType' /\ BookInv' /\ OrderInv'
        /\ Owned' /\ EngineInv' /\ RecordInv' /\ AuditInv' /\ EvidenceKept'
    BY <1>23, Frames DEF Report
  <2>2. WorldType'
    BY <1>23 DEF Report, WorldType
  <2> QED
    BY <2>1, <2>2 DEF IInv
<1>24. ASSUME NEW d \in Days, LoseReport(d) PROVE IInv'
  <2>1. /\ SlotType' /\ JournalType' /\ BookType' /\ ProcessType' /\ BookInv' /\ OrderInv'
        /\ Owned' /\ EngineInv' /\ RecordInv' /\ AuditInv' /\ EvidenceKept'
    BY <1>24, Frames DEF LoseReport
  <2>2. WorldType'
    BY <1>24, Constants DEF LoseReport, WorldType
  <2> QED
    BY <2>1, <2>2 DEF IInv
<1>25. CASE NextDay
  <2>1. /\ SlotType' /\ JournalType' /\ BookType' /\ ProcessType' /\ BookInv' /\ OrderInv'
        /\ Owned' /\ EngineInv' /\ RecordInv' /\ AuditInv' /\ EvidenceKept'
    BY <1>25, Frames DEF NextDay
  <2>2. WorldType'
    BY <1>25, Constants DEF NextDay, WorldType, Days
  <2> QED
    BY <2>1, <2>2 DEF IInv
<1>26. CASE UNCHANGED vars
  <2>1. /\ SlotType' /\ JournalType' /\ BookType' /\ ProcessType' /\ WorldType' /\ BookInv'
        /\ OrderInv' /\ Owned' /\ EngineInv' /\ RecordInv' /\ AuditInv' /\ EvidenceKept'
    BY <1>26, Frames DEF vars
  <2> QED
    BY <2>1 DEF IInv
<1> QED
  BY <1>1, <1>2, <1>3, <1>4, <1>5, <1>6, <1>7, <1>8, <1>9, <1>10, <1>11, <1>12, <1>13,
     <1>14, <1>15, <1>16, <1>17, <1>18, <1>19, <1>20, <1>21, <1>22, <1>23, <1>24, <1>25,
     <1>26
  DEF Next, Trader

-----------------------------------------------------------------------------
\* The theorems.

\* In every reachable state the slot, the local book, the broker's orders and
\* the engine relate as IInv says.
THEOREM Invariance == Spec => []IInv
BY Initially, Inductive, PTL DEF Spec

\* Every reachable state is typed (TypeOK), for every number of incumbents,
\* orders, faults and restarts.
THEOREM Typing == Spec => []TypeOK
<1>1. IInv => TypeOK
  <2> SUFFICES ASSUME SlotType, JournalType, BookType, ProcessType, WorldType PROVE TypeOK
    BY DEF IInv
  <2>1. /\ trial \in Trials \cup {NoTrial} /\ run \in {"RUNNING", "PAUSED"}
        /\ cancellation \in [was : Trials, run : {"RUNNING", "PAUSED"}] \cup {NoAudit}
        /\ operatorPause \in BOOLEAN
    BY DEF SlotType, Prestates, Runs
  <2>2. audits \subseteq Trials /\ cancels \in Seq([was : Trials, run : {"RUNNING", "PAUSED"}])
    BY DEF JournalType, Prestates, Runs
  <2> QED
    BY <2>1, <2>2 DEF TypeOK, BookType, ProcessType, WorldType
<1> QED
  BY <1>1, Invariance, PTL

\* Every row, and every outcome still queued, belongs to the incumbent in the
\* slot, and a close is booked under that incumbent's configuration
\* (SettledByItsIncumbent): a replacement never pays for its predecessor.
THEOREM Settled == Spec => []SettledByItsIncumbent
<1>1. IInv => SettledByItsIncumbent
  <2> SUFFICES ASSUME IInv, NEW p \in Parents
               PROVE  /\ row[p] \in {"pending", "open"} \/ p \in queued =>
                           trial # NoTrial /\ tag[p] = trial.who
                      /\ pc = "book" /\ p \in Closes => tag[p] = cfg
    BY DEF SettledByItsIncumbent
  <2>1. row[p] \in {"pending", "open"} \/ p \in queued => trial # NoTrial /\ tag[p] = trial.who
    BY DEF IInv, Owned
  <2>2. ASSUME pc = "book", p \in Closes PROVE tag[p] = cfg
    <3>1. row[p] = "open" /\ ~LocalFlat
      BY <2>2 DEF Closes, LocalFlat
    <3>2. trial.who = cfg
      BY <2>2, <3>1 DEF IInv, EngineInv
    <3> QED
      BY <2>1, <3>1, <3>2
  <2> QED
    BY <2>1, <2>2
<1> QED
  BY <1>1, Invariance, PTL

\* No outcome is lost when the slot changes hands (EvidenceKept): each booked
\* close is in the slot of its incumbent or in the journaled snapshot of it.
THEOREM Evidence == Spec => []EvidenceKept
<1>1. IInv => EvidenceKept
  BY DEF IInv
<1> QED
  BY <1>1, Invariance, PTL

\* An incumbent that ended never trades again (EndedStaysEnded), whatever
\* reports come and go and whichever engine looks at the slot.
THEOREM StaysEnded == Spec => EndedStaysEnded
<1> DEFINE Ended == trial # NoTrial /\ trial.state \in Terminal /\ trial'.who = trial.who =>
                      trial'.state = trial.state
<1>1. IInv /\ [Next]_vars => Ended
  <2> SUFFICES ASSUME SlotType, WorldType, ProcessType, EngineInv, [Next]_vars,
                      trial # NoTrial, trial.state \in Terminal, trial'.who = trial.who
               PROVE  trial'.state = trial.state
    BY DEF IInv
  <2> USE DEF durable, venue, process, world
  <2>1. CASE UNCHANGED trial
    BY <2>1
  <2>2. CASE \E c \in Incumbents, flat \in BOOLEAN : trial' \in UpdateRuntime(c, flat)
    <3>1. PICK c \in Incumbents, flat \in BOOLEAN : trial' \in UpdateRuntime(c, flat)
      BY <2>2
    <3> QED
      BY <3>1, Updating DEF SlotType, WorldType
  <2>3. CASE Book
    <3>1. trial' = Merged(trial, queued \cup Closes) /\ trial \in Trials
      BY <2>3 DEF Book, SlotType
    <3>2. queued \cup Closes \in SUBSET Parents
      BY DEF ProcessType, Closes
    <3> QED
      BY <3>1, <3>2, Merging
  <2>4. CASE CancelTrial
    BY <2>4 DEF CancelTrial, Cancellable, Terminal
  <2>5. /\ StartEngine => trial' \in UpdateRuntime(mounted, FALSE)
        /\ LightEngine => trial' \in UpdateRuntime(mounted, FALSE)
        /\ RefreshTrial => trial' \in UpdateRuntime(cfg, BookFlat)
    BY DEF StartEngine, LightEngine, RefreshTrial
  <2>6. mounted \in Incumbents /\ cfg \in Incumbents /\ BookFlat \in BOOLEAN
    BY DEF WorldType, ProcessType, BookFlat, LocalFlat
  <2>7. \/ UNCHANGED trial
        \/ StartEngine \/ LightEngine \/ RefreshTrial \/ Book \/ CancelTrial
    <3>1. CASE Trader
      BY <3>1 DEF Trader, ReadPositions, ReadOrders, AuditTerminal, RefreshRaises, Submit,
             NoEntry, Record
    <3>2. CASE ReconcileFails \/ AuditFails \/ Stop \/ Pause \/ Resume \/ CancelInterrupted
               \/ Report \/ NextDay
      BY <3>2 DEF ReconcileFails, AuditFails, Stop, Pause, Resume, CancelInterrupted, Report,
             NextDay
    <3>3. CASE \E p \in Parents : Fill(p) \/ Die(p) \/ Close(p)
      BY <3>3 DEF Fill, Die, Close, Entry
    <3>4. CASE (\E c \in Incumbents : Mount(c)) \/ \E d \in Days : LoseReport(d)
      BY <3>4 DEF Mount, LoseReport
    <3>5. CASE UNCHANGED vars
      BY <3>5 DEF vars
    <3> QED
      BY <3>1, <3>2, <3>3, <3>4, <3>5 DEF Next
  <2> QED
    BY <2>1, <2>2, <2>3, <2>4, <2>5, <2>6, <2>7
<1> QED
  BY <1>1, Invariance, PTL DEF Spec, EndedStaysEnded
=============================================================================
