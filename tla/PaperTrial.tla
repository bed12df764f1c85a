----------------------------- MODULE PaperTrial -----------------------------
(***************************************************************************)
(* The paper incumbent trial: one durable slot of the runtime state names  *)
(* the incumbent whose entries the trader may submit.  It starts on a flat *)
(* book, counts accepted sessions and closed outcomes, ends by verdict, by *)
(* review or by an audited operator cancellation, and is replaced only     *)
(* when it has ended, its book is flat and its evidence is journaled.      *)
(*                                                                         *)
(* One trader process at a time runs the cycle (agent/engine.py,           *)
(* engine_cycle.py); the check and status commands build a light engine    *)
(* without the run lock; the operator cancels with the trader stopped      *)
(* (agent/paper_trial_operator.py).  The broker fills and closes entries   *)
(* at any moment, and a process may stop between any two steps.            *)
(***************************************************************************)
EXTENDS Naturals, Sequences, FiniteSets, SequencesExt

CONSTANTS
    Incumbents,      \* descriptor identities a mounted configuration names
    First,           \* the one mounted when the runtime is new
    NoTrial,         \* the slot of a runtime that never ran a trial
    NoAudit,         \* a trial without an operator cancellation
    Parents,         \* entry orders the broker can see, used in order
    MinSessions,     \* required_sessions
    MinTrades,       \* required_trades
    MaxReview,       \* max_review_sessions
    MaxDays,         \* bound: calendar days
    MaxStops,        \* bound: process ends
    MaxMounts,       \* bound: configuration changes
    MaxFaults        \* bound: failed writes and lost reports

ASSUME TrialAssumption ==
    /\ First \in Incumbents /\ NoTrial \notin Incumbents
    /\ MinSessions \in Nat \ {0} /\ MinTrades \in Nat \ {0}
    /\ MaxReview \in Nat /\ MaxReview >= MinSessions
    /\ MaxDays \in Nat \ {0} /\ Parents \subseteq Nat
    /\ {MaxStops, MaxMounts, MaxFaults} \subseteq Nat

VARIABLES
    trial,           \* runtime["paper_trial"]
    cancellation,    \* its operator_cancellation record
    row,             \* the local book: the row of each entry order
    run,             \* runtime["state"], RUNNING or PAUSED
    operatorPause,   \* runtime["operator_pause"]
    audits,          \* journaled paper_trial_terminal_snapshot events
    cancels,         \* journaled paper_trial_operator_cancelled events
    broker, tag,     \* each entry at the broker, the incumbent it carries
    pc, cfg,         \* the trader's step and the descriptor it was built with
    pending,         \* PaperTrialRuntime.pending_replacement
    current,         \* PaperTrialRuntime.current, the identity it tags with
    queued,          \* _pending_paper_trial_outcome_rows
    seen, snapshot,  \* the broker read being built, and the last one booked
    mounted, day, reports, stops, mounts, faults

durable == <<trial, cancellation, row, run, operatorPause, audits, cancels>>
venue   == <<broker, tag>>
process == <<pc, cfg, pending, current, queued, seen, snapshot>>
world   == <<mounted, day, reports, stops, mounts, faults>>
vars    == <<durable, venue, process, world>>

Days      == 1 .. MaxDays
Active    == {"running", "passed"}
Terminal  == {"failed", "review_required", "operator_cancelled"}
Unread    == [held |-> {}, working |-> {}, gone |-> {}]

Trials ==
    [who : Incumbents, state : Active \cup Terminal, active : BOOLEAN,
     since : 0 .. MaxDays, sessions : SUBSET Days, outcomes : SUBSET Parents,
     blocked : BOOLEAN]

ASSUME SlotAssumption == NoTrial \notin Trials

TypeOK ==
    /\ trial \in Trials \cup {NoTrial}
    /\ cancellation \in [was : Trials, run : {"RUNNING", "PAUSED"}] \cup {NoAudit}
    /\ row \in [Parents -> {"none", "pending", "open", "done"}]
    /\ run \in {"RUNNING", "PAUSED"} /\ operatorPause \in BOOLEAN
    /\ audits \subseteq Trials
    /\ cancels \in Seq([was : Trials, run : {"RUNNING", "PAUSED"}])
    /\ broker \in [Parents -> {"none", "working", "held", "closed", "dead"}]
    /\ tag \in [Parents -> Incumbents \cup {NoTrial}]
    /\ pc \in {"down", "top", "orders", "book", "audit", "refresh", "entry", "record"}
    /\ cfg \in Incumbents /\ mounted \in Incumbents /\ pending \in BOOLEAN
    /\ current \in Incumbents \cup {NoTrial}
    /\ queued \subseteq Parents
    /\ seen \in [held : SUBSET Parents, working : SUBSET Parents, gone : SUBSET Parents]
    /\ snapshot \in {"none", "flat", "exposed"}
    /\ day \in Days /\ reports \subseteq Days
    /\ stops \in 0 .. MaxStops /\ mounts \in 0 .. MaxMounts /\ faults \in 0 .. MaxFaults

-----------------------------------------------------------------------------
(* The evidence of a trial *)

\* The sessions counted from the accepted reports on disk: those after the
\* activation day, the already counted ones always, new ones up to the limit.
Counted(t) ==
    LET counts[d \in Days] ==
            /\ d \in reports /\ d > t.since /\ d <= day
            /\ d \in t.sessions \/ Cardinality({e \in 1 .. d - 1 : counts[e]}) < MaxReview
    IN  {d \in Days : counts[d]}

\* Below the floors the verdict is running; above them it is what the
\* session-clustered interval says, any of the three.
Verdicts(sessions, outcomes) ==
    IF Cardinality(sessions) < MinSessions \/ Cardinality(outcomes) < MinTrades
    THEN {"running"} ELSE {"inconclusive", "passed", "failed"}

\* A mutant: an ended trial is judged again from the evidence it has now.
LifecycleReopens(t, sessions, verdict) ==
    IF verdict = "failed" THEN "failed"
    ELSE IF Cardinality(sessions) >= MaxReview THEN "review_required"
    ELSE IF verdict = "passed" THEN "passed" ELSE "running"

Lifecycle(t, sessions, verdict) ==
    IF t.state \in Terminal THEN t.state
    ELSE IF verdict = "failed" THEN "failed"
    ELSE IF Cardinality(sessions) >= MaxReview THEN "review_required"
    ELSE IF verdict = "passed" THEN "passed" ELSE "running"

\* refresh_state: a cancelled trial keeps its evidence byte for byte.
Refreshed(t) ==
    IF t.state = "operator_cancelled" THEN {t}
    ELSE {[t EXCEPT !.sessions = Counted(t),
                    !.blocked  = ~(t.sessions \subseteq Counted(t)),
                    !.state    = Lifecycle(t, Counted(t), v)]
            : v \in Verdicts(Counted(t), t.outcomes)}

NewTrial(c) ==
    [who |-> c, state |-> "running", active |-> FALSE, since |-> 0,
     sessions |-> {}, outcomes |-> {}, blocked |-> FALSE]

-----------------------------------------------------------------------------
(* The flat book, and the one writer of the slot *)

LocalFlat == \A p \in Parents : row[p] \in {"none", "done"}

BookFlat == LocalFlat /\ snapshot = "flat"

Replaces(c)  == trial # NoTrial /\ trial.who # c
Refused(c)   == Replaces(c) /\ trial.state \notin Terminal
Pending(c, flat) == Replaces(c) /\ ~flat

\* update_runtime: the slots the mutator may return for descriptor c.  The
\* set is empty when validate_state rejects the result: activation would
\* change a cancelled trial, which its audit does not allow.
UpdateRuntime(c, flat) ==
    LET kept == IF trial = NoTrial \/ (Replaces(c) /\ flat) THEN NewTrial(c) ELSE trial
        on   == IF kept.active \/ ~flat THEN kept
                ELSE [kept EXCEPT !.active = TRUE, !.since = day]
    IN  IF Refused(c) THEN {}
        ELSE IF Pending(c, flat) THEN {trial}
        ELSE {t \in IF on.active THEN Refreshed(on) ELSE {on} :
                 t.state = "operator_cancelled" => t = trial}

\* public_status.entry_eligible
Eligible(t, waits) == t.active /\ t.state \in Active /\ ~t.blocked /\ ~waits

\* A replacement starts without the cancellation record of the old trial.
CancellationAfter(t) == IF t.state = "operator_cancelled" THEN cancellation ELSE NoAudit

Init ==
    /\ trial = NoTrial /\ cancellation = NoAudit
    /\ row = [p \in Parents |-> "none"] /\ run = "RUNNING" /\ operatorPause = FALSE
    /\ audits = {} /\ cancels = <<>>
    /\ broker = [p \in Parents |-> "none"] /\ tag = [p \in Parents |-> NoTrial]
    /\ pc = "down" /\ mounted = First /\ cfg = First
    /\ pending = FALSE /\ current = NoTrial /\ queued = {}
    /\ seen = Unread /\ snapshot = "none"
    /\ day = 1 /\ reports = {} /\ stops = 0 /\ mounts = 0 /\ faults = 0

-----------------------------------------------------------------------------
(* The trader *)

\* Engine.__init__: the slot is updated before any broker read.  A changed
\* descriptor over a trial that has not ended raises, and no engine exists.
StartEngine ==
    /\ pc = "down"
    /\ \E t \in UpdateRuntime(mounted, FALSE) :
         /\ trial' = t /\ current' = t.who
         /\ cancellation' = CancellationAfter(t)
    /\ pending' = Pending(mounted, FALSE)
    /\ cfg' = mounted /\ pc' = "top"
    /\ queued' = {} /\ seen' = Unread /\ snapshot' = "none"
    /\ UNCHANGED <<row, run, operatorPause, audits, cancels, venue, world>>

\* Engine(light=True), by check, status and the recovery commands: the same
\* update in a process that holds no lock.
LightEngine ==
    /\ \E t \in UpdateRuntime(mounted, FALSE) :
         /\ trial' = t /\ t # trial
         /\ cancellation' = CancellationAfter(t)
    /\ UNCHANGED <<row, run, operatorPause, audits, cancels, venue, process, world>>

\* A mutant: a waiting replacement reconciles the book of its predecessor.
ReadyAnyBook == pc = "top" /\ ~operatorPause

\* _ensure_order_ready, and the refusal at the head of reconcile.
Ready == pc = "top" /\ ~operatorPause /\ (pending => LocalFlat)

\* The first read of reconcile: the positions.
ReadPositions ==
    /\ Ready
    /\ seen' = [Unread EXCEPT !.held = {p \in Parents : broker[p] = "held"}]
    /\ pc' = "orders"
    /\ UNCHANGED <<durable, venue, cfg, pending, current, queued, snapshot, world>>

\* ... and the second: the orders.
ReadOrders ==
    /\ pc = "orders"
    /\ seen' = [seen EXCEPT !.working = {p \in Parents : broker[p] = "working"},
                            !.gone = {p \in Parents : broker[p] \in {"closed", "dead"}}]
    /\ pc' = "book"
    /\ UNCHANGED <<durable, venue, cfg, pending, current, queued, snapshot, world>>

\* The trades whose close this read shows.
Closes == {p \in Parents : row[p] = "open" /\ p \in seen.gone \ seen.held}

Rebooked ==
    [p \in Parents |->
        IF p \in Closes THEN "done"
        ELSE IF row[p] # "pending" \/ p \in seen.working THEN row[p]
        ELSE IF broker[p] = "dead" /\ p \in seen.gone THEN "done" ELSE "open"]

\* A mutant: a replacement keeps the snapshot it was first refused with.
SnapshotOnce ==
    IF pending /\ snapshot # "none" THEN snapshot
    ELSE IF seen.held = {} /\ seen.working = {} THEN "flat" ELSE "exposed"

SnapshotSeen == IF seen.held = {} /\ seen.working = {} THEN "flat" ELSE "exposed"

\* A mutant: the close is committed and its outcome left to the next cycle.
MergedLater(t, rows) == t

\* merge_outcomes, one row per entry order whatever the retries.
Merged(t, rows) == [t EXCEPT !.outcomes = @ \cup rows]

\* The last step of reconcile: one state write books the closes and merges
\* their outcomes into the slot.  An outcome of another incumbent, or of a
\* cancelled trial, is rejected and the write with it.
Book ==
    /\ pc = "book"
    /\ \A p \in queued \cup Closes : tag[p] = trial.who /\ trial.state # "operator_cancelled"
    /\ row' = Rebooked
    /\ trial' = Merged(trial, queued \cup Closes)
    /\ queued' = {} /\ snapshot' = SnapshotSeen /\ seen' = Unread
    /\ pc' = "audit"
    /\ UNCHANGED <<cancellation, run, operatorPause, audits, cancels, venue,
                   cfg, pending, current, world>>

\* The write fails after the outcomes were queued in memory.
ReconcileFails ==
    /\ pc = "book" /\ faults < MaxFaults /\ faults' = faults + 1
    /\ queued' = queued \cup Closes /\ seen' = Unread
    /\ pc' = "top"
    /\ UNCHANGED <<durable, venue, cfg, pending, current, snapshot,
                   mounted, day, reports, stops, mounts>>

\* _refresh_edge, first half: the ended incumbent is journaled before its
\* slot may be replaced.
AuditTerminal ==
    /\ pc = "audit"
    /\ audits' = IF Replaces(cfg) /\ trial.state \in Terminal /\ BookFlat
                 THEN audits \cup {trial} ELSE audits
    /\ pc' = "refresh"
    /\ UNCHANGED <<trial, cancellation, row, run, operatorPause, cancels, venue,
                   cfg, pending, current, queued, seen, snapshot, world>>

\* A failed audit write leaves the slot as it is.
AuditFails ==
    /\ pc = "audit" /\ faults < MaxFaults /\ faults' = faults + 1
    /\ pc' = "top"
    /\ UNCHANGED <<durable, venue, cfg, pending, current, queued, seen, snapshot,
                   mounted, day, reports, stops, mounts>>

\* _refresh_edge, second half: the slot is updated and the runtime paused or
\* resumed by what it says.
RefreshTrial ==
    /\ pc = "refresh"
    /\ \E t \in UpdateRuntime(cfg, BookFlat) :
         LET waits == Pending(cfg, BookFlat) IN
         /\ trial' = t /\ current' = t.who /\ pending' = waits
         /\ cancellation' = CancellationAfter(t)
         /\ run' = IF ~Eligible(t, waits) THEN "PAUSED"
                   ELSE IF operatorPause THEN run ELSE "RUNNING"
         /\ pc' = IF Eligible(t, waits) THEN "entry" ELSE "top"
    /\ UNCHANGED <<row, operatorPause, audits, cancels, venue, cfg, queued, seen,
                   snapshot, world>>

\* update_runtime raises and no entry is considered this cycle.
RefreshRaises ==
    /\ pc = "refresh" /\ UpdateRuntime(cfg, BookFlat) = {}
    /\ pc' = "top"
    /\ UNCHANGED <<durable, venue, cfg, pending, current, queued, seen, snapshot, world>>

\* An entry, annotated with the incumbent's identity, reaches the broker ...
Submit ==
    /\ pc = "entry"
    /\ \E p \in Parents :
         /\ broker[p] = "none" /\ \A q \in Parents : q < p => broker[q] # "none"
         /\ broker' = [broker EXCEPT ![p] = "working"]
         /\ tag' = [tag EXCEPT ![p] = current]
    /\ pc' = "record"
    /\ UNCHANGED <<durable, cfg, pending, current, queued, seen, snapshot, world>>

NoEntry ==
    /\ pc = "entry" /\ pc' = "top"
    /\ UNCHANGED <<durable, venue, cfg, pending, current, queued, seen, snapshot, world>>

\* ... and then its row is written.
Record ==
    /\ pc = "record"
    /\ row' = [p \in Parents |-> IF broker[p] # "none" /\ row[p] = "none" /\
                                    \A q \in Parents : q > p => broker[q] = "none"
                                 THEN "pending" ELSE row[p]]
    /\ pc' = "top"
    /\ UNCHANGED <<trial, cancellation, run, operatorPause, audits, cancels, venue,
                   cfg, pending, current, queued, seen, snapshot, world>>

\* The process ends: its memory is gone.
Stop ==
    /\ pc # "down" /\ stops < MaxStops /\ stops' = stops + 1
    /\ pc' = "down" /\ pending' = FALSE /\ current' = NoTrial /\ queued' = {}
    /\ seen' = Unread /\ snapshot' = "none" /\ cfg' = First
    /\ UNCHANGED <<durable, venue, mounted, day, reports, mounts, faults>>

-----------------------------------------------------------------------------
(* The broker *)

Entry(p, from, to) ==
    /\ broker[p] = from /\ broker' = [broker EXCEPT ![p] = to]
    /\ UNCHANGED <<durable, tag, process, world>>

Fill(p)  == Entry(p, "working", "held")
Die(p)   == Entry(p, "working", "dead")
Close(p) == Entry(p, "held", "closed")

-----------------------------------------------------------------------------
(* The operator and the calendar *)

Pause ==
    /\ ~operatorPause /\ operatorPause' = TRUE /\ run' = "PAUSED"
    /\ UNCHANGED <<trial, cancellation, row, audits, cancels, venue, process, world>>

Resume ==
    /\ operatorPause /\ pc = "down"
    /\ operatorPause' = FALSE /\ run' = "RUNNING"
    /\ UNCHANGED <<trial, cancellation, row, audits, cancels, venue, process, world>>

\* What cancel_paper_trial demands, with the run lock it holds (pc = "down").
Cancellable ==
    /\ pc = "down" /\ operatorPause
    /\ trial # NoTrial /\ trial.state = "running"
    /\ trial.sessions = {} /\ trial.outcomes = {}
    /\ LocalFlat
    /\ \A p \in Parents : broker[p] \notin {"working", "held"}

\* The audit is identified by the state it was taken from.
Prestate == [was |-> trial, run |-> run]

\* _write_or_reuse_audit
WriteOrReuseAudit(id) == IF id \in Range(cancels) THEN cancels ELSE Append(cancels, id)

CancelTrial ==
    /\ Cancellable
    /\ cancels' = WriteOrReuseAudit(Prestate)
    /\ cancellation' = Prestate
    /\ trial' = [trial EXCEPT !.state = "operator_cancelled"]
    /\ UNCHANGED <<row, run, operatorPause, audits, venue, process, world>>

\* The audit is durable and the state write is not.
CancelInterrupted ==
    /\ Cancellable /\ faults < MaxFaults /\ faults' = faults + 1
    /\ cancels' = WriteOrReuseAudit(Prestate)
    /\ UNCHANGED <<trial, cancellation, row, run, operatorPause, audits, venue, process,
                   mounted, day, reports, stops, mounts>>

\* The operator mounts another configuration.
Mount(c) ==
    /\ c # mounted /\ mounts < MaxMounts /\ mounts' = mounts + 1
    /\ mounted' = c
    /\ UNCHANGED <<durable, venue, process, day, reports, stops, faults>>

\* The shadow service writes the acceptance report of today's session.
Report ==
    /\ day \notin reports /\ reports' = reports \cup {day}
    /\ UNCHANGED <<durable, venue, process, mounted, day, stops, mounts, faults>>

LoseReport(d) ==
    /\ d \in reports /\ faults < MaxFaults /\ faults' = faults + 1
    /\ reports' = reports \ {d}
    /\ UNCHANGED <<durable, venue, process, mounted, day, stops, mounts>>

NextDay ==
    /\ day < MaxDays /\ day' = day + 1
    /\ UNCHANGED <<durable, venue, process, mounted, reports, stops, mounts, faults>>

Trader ==
    \/ ReadPositions \/ ReadOrders \/ Book \/ AuditTerminal
    \/ RefreshTrial \/ RefreshRaises \/ Submit \/ NoEntry \/ Record

Next ==
    \/ Trader \/ StartEngine \/ LightEngine \/ ReconcileFails \/ AuditFails \/ Stop
    \/ \E p \in Parents : Fill(p) \/ Die(p) \/ Close(p)
    \/ Pause \/ Resume \/ CancelTrial \/ CancelInterrupted
    \/ \E c \in Incumbents : Mount(c)
    \/ Report \/ NextDay
    \/ \E d \in Days : LoseReport(d)

Spec == Init /\ [][Next]_vars

\* The cycle runs again every interval, and the broker finishes every order.
Fairness ==
    /\ WF_vars(Trader)
    /\ \A p \in Parents : WF_vars(Fill(p) \/ Die(p)) /\ WF_vars(Close(p))

FairSpec == Spec /\ Fairness

-----------------------------------------------------------------------------
(* Properties *)

\* An open row of the local book always belongs to the incumbent in the slot,
\* so no reconcile is refused forever because its outcome belongs to another
\* trial, and a close is booked by a process that carries that incumbent's
\* configuration, never with the costs and policy of a replacement.
SettledByItsIncumbent ==
    \A p \in Parents :
        /\ row[p] \in {"pending", "open"} \/ p \in queued =>
              trial # NoTrial /\ tag[p] = trial.who
        /\ pc = "book" /\ p \in Closes => tag[p] = cfg

\* The outcome of every booked close is in the slot of its incumbent or in
\* the terminal snapshot journaled before that incumbent was replaced.
EvidenceKept ==
    \A p \in Parents : row[p] = "done" /\ broker[p] = "closed" =>
        \/ trial.who = tag[p] /\ p \in trial.outcomes
        \/ \E a \in audits : a.who = tag[p] /\ p \in a.outcomes

\* An incumbent that ended never trades again: its state is final until
\* another incumbent takes the slot, whatever reports appear or disappear.
EndedStaysEnded ==
    [][trial # NoTrial /\ trial.state \in Terminal /\ trial'.who = trial.who
         => trial'.state = trial.state]_vars

\* A replacement that waits with a flat local book is completed once the
\* broker is flat too, unless the process stops or the operator pauses it.
ReplacementCompletes ==
    pending /\ LocalFlat ~> ~pending \/ operatorPause
=============================================================================
