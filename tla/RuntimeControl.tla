--------------------------- MODULE RuntimeControl ---------------------------
(***************************************************************************)
(* Who may touch the broker, and when (agent/runtime_control.py,           *)
(* agent/engine.py, agent/engine_cycle.py, agent/startup_edge_policy.py,   *)
(* agent/market_entry_risk.py, deploy/trader_supervisor.py,                *)
(* deploy/watchdog.py).                                                    *)
(*                                                                         *)
(* Trader processes, the supervisor that owns one of them, the watchdog    *)
(* and the operator's commands share one run lock (an OS file lock), one   *)
(* durable runtime state and one heartbeat file.  Any of them may die      *)
(* between two steps; the OS then drops its lock.                          *)
(*                                                                         *)
(* The broker is abstracted to one exposure and one opening order; the     *)
(* detail of a close is the subject of ExitLifecycle.                      *)
(***************************************************************************)
EXTENDS Integers, FiniteSets

CONSTANTS
    Traders,        \* trader processes that may exist at the same time
    None,           \* no process
    MaxDays,        \* bound: trading days after the first
    MaxMoves,       \* bound: crossings of the daily loss limit
    MaxFaults,      \* bound: deaths and failed broker calls
    MaxCommands     \* bound: operator commands

ASSUME RuntimeControlAssumption ==
    /\ IsFiniteSet(Traders)
    /\ None \notin Traders
    /\ {"watchdog", "recovery", "operator"} \cap (Traders \cup {None}) = {}
    /\ MaxDays \in Nat /\ MaxMoves \in Nat
    /\ MaxFaults \in Nat /\ MaxCommands \in Nat

Procs == Traders \cup {"watchdog", "recovery", "operator"}

VARIABLES
    state,           \* runtime state: lifecycle state
    operator_pause,  \* runtime state: entries need an operator's resume
    risk_day,        \* runtime state: date, whether the recorded baseline
                     \* already contains the loss, limit_hit
    heartbeat,       \* what the heartbeat file says to the watchdog
    lock,            \* holder of the run lock
    pos,             \* broker: is there exposure?
    order,           \* broker: an opening order
    under,           \* is equity at the loss limit of the day's first cycle?
    day,             \* the session date
    trader,          \* where each trader process is
    running,         \* Engine.running, per trader
    cleaned,         \* _startup_cleanup_checked, per trader
    owner,           \* _heartbeat_owner, per trader
    term,            \* a SIGTERM is pending, per trader
    code,            \* exit code of each dead trader
    flat,            \* progress of each process's _flatten_all_impl
    child,           \* the trader the supervisor launched
    sup,             \* where the supervisor is
    why,             \* what ended the supervisor's monitor()
    wd,              \* where the watchdog is
    op,              \* where the operator's command is
    moves,           \* crossings so far
    faults,          \* faults so far
    commands         \* operator commands so far

durable  == <<state, operator_pause, risk_day>>
broker   == <<pos, order, under, day>>
engine   == <<trader, running, cleaned, owner, term, code>>
watchers == <<child, sup, why, wd, op>>
bounds   == <<moves, faults, commands>>
vars     == <<durable, heartbeat, lock, broker, engine, flat, watchers, bounds>>

Polling   == {"begin", "poll", "saw_flat", "saw_pos"}
Finished  == {"complete", "incomplete"}

TypeOK ==
    /\ state \in {"RUNNING", "PAUSED", "DAY_STOPPED"}
    /\ operator_pause \in BOOLEAN
    /\ risk_day \in [date : -1 .. MaxDays, low : BOOLEAN, limit_hit : BOOLEAN]
    /\ heartbeat \in {"fresh", "parked", "stale"}
    /\ lock \in Procs \cup {None}
    /\ pos \in BOOLEAN
    /\ order \in {"none", "working", "canceling"}
    /\ under \in BOOLEAN
    /\ day \in 0 .. MaxDays
    /\ trader \in [Traders -> {"off", "construct", "cleanup", "ready", "boot",
                               "boot_cleanup", "loop", "risk", "enter",
                               "cycle_flatten", "final"}]
    /\ running \in [Traders -> BOOLEAN]
    /\ cleaned \in [Traders -> BOOLEAN]
    /\ owner \in [Traders -> BOOLEAN]
    /\ term \in [Traders -> BOOLEAN]
    /\ code \in [Traders -> 0 .. 1]
    /\ flat \in [Procs -> {"idle"} \cup Polling \cup Finished]
    /\ child \in Traders \cup {None}
    /\ sup \in {"ended", "crashed", "parked", "watch", "term", "recover",
                "first", "second", "flatten"}
    /\ why \in {"exit", "shutdown", "unresponsive"}
    /\ wd \in {"idle", "first", "second", "flatten"}
    /\ op \in {"idle", "flatten", "preflight", "positions", "orders",
               "confirm_positions", "confirm_orders", "clear"}
    /\ moves \in 0 .. MaxMoves
    /\ faults \in 0 .. MaxFaults
    /\ commands \in 0 .. MaxCommands

Init ==
    /\ state = "RUNNING"
    /\ operator_pause = FALSE
    /\ risk_day = [date |-> -1, low |-> FALSE, limit_hit |-> FALSE]
    /\ heartbeat = "stale"
    /\ lock = None
    /\ pos = FALSE
    /\ order = "none"
    /\ under = FALSE
    /\ day = 0
    /\ trader = [t \in Traders |-> "off"]
    /\ running = [t \in Traders |-> FALSE]
    /\ cleaned = [t \in Traders |-> FALSE]
    /\ owner = [t \in Traders |-> FALSE]
    /\ term = [t \in Traders |-> FALSE]
    /\ code = [t \in Traders |-> 0]
    /\ flat = [p \in Procs |-> "idle"]
    /\ child = None
    /\ sup = "ended"
    /\ why = "exit"
    /\ wd = "idle"
    /\ op = "idle"
    /\ moves = 0
    /\ faults = 0
    /\ commands = 0

-----------------------------------------------------------------------------
(* Helpers.                                                                *)

Fault ==
    /\ faults < MaxFaults
    /\ faults' = faults + 1
    /\ UNCHANGED <<moves, commands>>
Alive(t) == trader[t] # "off"

(* acquire_run_lock: LOCK_EX | LOCK_NB.                                    *)
Acquire(p) == lock = None /\ lock' = p

(* release_run_lock, and what the OS does for a dead holder.               *)
LockWithout(p) == IF lock = p THEN None ELSE lock

(* commit(.., transition=(RUNNING, PAUSED)).                               *)
Paused == IF state = "RUNNING" THEN "PAUSED" ELSE state

(* commit({"operator_pause": True}, transition=(RUNNING, PAUSED)).         *)
CommitPause ==
    /\ operator_pause' = TRUE
    /\ state' = Paused
    /\ UNCHANGED risk_day

(* A process leaves: exit code, lock dropped, nothing of its memory kept.  *)
Gone(t, c) ==
    /\ trader' = [trader EXCEPT ![t] = "off"]
    /\ code' = [code EXCEPT ![t] = c]
    /\ running' = [running EXCEPT ![t] = FALSE]
    /\ cleaned' = [cleaned EXCEPT ![t] = FALSE]
    /\ owner' = [owner EXCEPT ![t] = FALSE]
    /\ term' = [term EXCEPT ![t] = FALSE]
    /\ flat' = [flat EXCEPT ![t] = "idle"]
    /\ lock' = LockWithout(t)

Goto(t, phase) == trader' = [trader EXCEPT ![t] = phase]
Flattening(p, phase) == flat' = [flat EXCEPT ![p] = phase]

-----------------------------------------------------------------------------
(* The broker and the clock.                                               *)

(* A working order fills, also while its cancellation is in flight.        *)
Fill ==
    /\ order # "none"
    /\ order' = "none"
    /\ pos' = TRUE
    /\ UNCHANGED <<under, day, durable, heartbeat, lock, engine, flat,
                   watchers, bounds>>

(* The broker confirms a cancellation.                                     *)
CancelDone ==
    /\ order = "canceling"
    /\ order' = "none"
    /\ UNCHANGED <<pos, under, day, durable, heartbeat, lock, engine, flat,
                   watchers, bounds>>

(* A protective leg resting at the broker closes the exposure.             *)
LegFills ==
    /\ pos
    /\ pos' = FALSE
    /\ UNCHANGED <<order, under, day, durable, heartbeat, lock, engine, flat,
                   watchers, bounds>>

(* Equity crosses the loss limit, in either direction, only on exposure and
   relative to the day's first measurement.                                *)
EquityMoves ==
    /\ pos
    /\ risk_day.date = day
    /\ moves < MaxMoves
    /\ moves' = moves + 1
    /\ under' = ~under
    /\ UNCHANGED <<pos, order, day, durable, heartbeat, lock, engine, flat,
                   watchers, faults, commands>>

NewDay ==
    /\ day < MaxDays
    /\ day' = day + 1
    /\ under' = FALSE
    /\ UNCHANGED <<pos, order, durable, heartbeat, lock, engine, flat,
                   watchers, bounds>>

(* max_age passes without a write of the heartbeat file.                   *)
HeartbeatAges ==
    /\ heartbeat = "fresh"
    /\ heartbeat' = "stale"
    /\ UNCHANGED <<durable, lock, broker, engine, flat, watchers, bounds>>

-----------------------------------------------------------------------------
(* _flatten_all_impl, run by whichever process p is in it.                 *)

(* Every exit of the flatten leaves the broker as it is.                   *)
FlattenFails(p) ==
    /\ flat[p] \in Polling
    /\ Fault
    /\ Flattening(p, "incomplete")
    /\ UNCHANGED <<durable, heartbeat, lock, broker, engine, watchers>>

Swept == IF order = "working" THEN "canceling" ELSE order

(* The bulk cancel comes first only when no position has protective legs.  *)
FlattenBegin(p) ==
    /\ flat[p] = "begin"
    /\ order' = IF pos THEN order ELSE Swept
    /\ Flattening(p, "poll")
    /\ UNCHANGED <<pos, under, day, durable, heartbeat, lock, engine,
                   watchers, bounds>>

(* provider.positions().                                                   *)
PollPositions(p) ==
    /\ flat[p] = "poll"
    /\ Flattening(p, IF pos THEN "saw_pos" ELSE "saw_flat")
    /\ UNCHANGED <<durable, heartbeat, lock, broker, engine, watchers, bounds>>

(* provider.orders(), the deferred sweep, and the close of what was seen.
   The last of the polls ends incomplete.                                  *)
PollOrders(p) ==
    /\ \/ /\ flat[p] = "saw_flat"
          /\ order = "none"
          /\ Flattening(p, "complete")
          /\ UNCHANGED <<pos, order>>
       \/ /\ flat[p] = "saw_flat"
          /\ order # "none"
          /\ order' = Swept
          /\ \E next \in {"poll", "incomplete"} : Flattening(p, next)
          /\ UNCHANGED pos
       \/ /\ flat[p] = "saw_pos"
          /\ pos' = FALSE
          /\ Flattening(p, "poll")
          /\ UNCHANGED order
    /\ UNCHANGED <<under, day, durable, heartbeat, lock, engine, watchers,
                   bounds>>

-----------------------------------------------------------------------------
(* A trader process: Engine.__init__, run(), run_once(), close().          *)

(* Engine.__init__ with light=False reconciles and flattens under a lock it
   then releases; without the lock it goes on unreconciled.                *)
Construct(t) ==
    /\ trader[t] = "construct"
    /\ \/ /\ Acquire(t)
          /\ heartbeat' = "fresh"
          /\ owner' = [owner EXCEPT ![t] = TRUE]
          /\ Goto(t, "cleanup")
          /\ Flattening(t, "begin")
       \/ /\ lock # None
          /\ Goto(t, "ready")
          /\ UNCHANGED <<heartbeat, owner, lock, flat>>
    /\ UNCHANGED <<durable, broker, running, cleaned, term, code, watchers,
                   bounds>>

(* _enforce_intraday_cleanup's end: an incomplete flatten commits a pause. *)
CleanupDone(t) ==
    /\ trader[t] \in {"cleanup", "boot_cleanup"}
    /\ flat[t] \in Finished
    /\ cleaned' = [cleaned EXCEPT ![t] = flat[t] = "complete"]
    /\ Flattening(t, "idle")
    /\ IF flat[t] = "complete" THEN UNCHANGED <<durable, heartbeat>>
       ELSE CommitPause /\ heartbeat' = "fresh"
    /\ IF trader[t] = "cleanup"
       THEN Goto(t, "ready") /\ lock' = LockWithout(t)
       ELSE Goto(t, "boot") /\ UNCHANGED lock
    /\ UNCHANGED <<broker, running, owner, term, code, watchers, bounds>>

(* close(): only an engine that owned the runtime writes.                  *)
CloseRuntime(t, paused) ==
    /\ operator_pause' = (operator_pause \/ paused)
    /\ state' = Paused
    /\ heartbeat' = "fresh"
    /\ UNCHANGED risk_day

(* Mutant: a start opens a new risk day.                                   *)
StartRuntimeNewDay(recorded) == [recorded EXCEPT !.date = -1]

(* start_runtime keeps the daily-risk record it finds.                     *)
StartRuntime(recorded) == recorded

(* run() takes the lock for the life of the process, or raises.            *)
RunLock(t) ==
    /\ trader[t] = "ready"
    /\ \/ /\ Acquire(t)
          /\ state' = "RUNNING"
          /\ risk_day' = StartRuntime(risk_day)
          /\ Goto(t, "boot")
          /\ UNCHANGED <<operator_pause, heartbeat, running, cleaned, owner,
                         term, code, flat>>
       \/ /\ lock # None
          /\ IF owner[t] THEN CloseRuntime(t, FALSE)
             ELSE UNCHANGED <<durable, heartbeat>>
          /\ Gone(t, 1)
    /\ UNCHANGED <<broker, watchers, bounds>>

(* The readiness test of run(): a pause ends the process; a startup cleanup
   that did not finish is tried again.  running is set afterwards, over a
   signal that arrived meanwhile.                                          *)
Boot(t) ==
    /\ trader[t] = "boot"
    /\ \/ /\ operator_pause
          /\ CloseRuntime(t, FALSE)
          /\ Gone(t, 1)
       \/ /\ ~operator_pause
          /\ ~cleaned[t]
          /\ Goto(t, "boot_cleanup")
          /\ Flattening(t, "begin")
          /\ UNCHANGED <<durable, heartbeat, lock, running, cleaned, owner,
                         term, code>>
       \/ /\ ~operator_pause
          /\ cleaned[t]
          /\ Goto(t, "loop")
          /\ running' = [running EXCEPT ![t] = TRUE]
          /\ UNCHANGED <<durable, heartbeat, lock, cleaned, owner, term, code,
                         flat>>
    /\ UNCHANGED <<broker, watchers, bounds>>

(* A cycle that is not ready holds and writes a degraded heartbeat.        *)
CycleHold(t) ==
    /\ trader[t] = "loop" /\ running[t]
    /\ operator_pause
    /\ heartbeat' = "fresh"
    /\ UNCHANGED <<durable, lock, broker, engine, flat, watchers, bounds>>

(* A cycle that flattens: the force-flat window, ready or not, and a
   fail-closed path.                                                       *)
CycleFlatten(t) ==
    /\ trader[t] = "loop" /\ running[t]
    /\ Goto(t, "cycle_flatten")
    /\ Flattening(t, "begin")
    /\ UNCHANGED <<durable, heartbeat, lock, broker, running, cleaned, owner,
                   term, code, watchers, bounds>>

CycleFlattened(t) ==
    /\ trader[t] = "cycle_flatten"
    /\ flat[t] \in Finished
    /\ Goto(t, "loop")
    /\ Flattening(t, "idle")
    /\ heartbeat' = "fresh"
    /\ \/ UNCHANGED durable
       \/ flat[t] = "incomplete" /\ CommitPause
    /\ UNCHANGED <<lock, broker, running, cleaned, owner, term, code, watchers,
                   bounds>>

(* _update_daily_risk's record: the day's first measurement is the baseline,
   every later one of the same date is compared with it.                   *)
RiskDay ==
    LET low == IF risk_day.date = day THEN risk_day.low ELSE under
    IN  [date |-> day, low |-> low, limit_hit |-> under /\ ~low]

(* _ensure_order_ready lets a cycle begin; nothing reads the pause again.   *)
CycleStart(t) ==
    /\ trader[t] = "loop" /\ running[t]
    /\ ~operator_pause
    /\ Goto(t, "risk")
    /\ UNCHANGED <<durable, heartbeat, lock, broker, running, cleaned, owner,
                   term, code, flat, watchers, bounds>>

(* The cycle measures the daily loss before it may enter.                  *)
CycleRisk(t) ==
    /\ trader[t] = "risk"
    /\ risk_day' = RiskDay
    /\ heartbeat' = "fresh"
    /\ \/ /\ RiskDay.limit_hit
          /\ state' = "DAY_STOPPED"
          /\ Goto(t, "cycle_flatten")
          /\ Flattening(t, "begin")
       \/ /\ ~RiskDay.limit_hit
          /\ state' = CASE state # "DAY_STOPPED" -> state
                         [] state = "DAY_STOPPED" /\ running[t] -> "RUNNING"
                         [] OTHER                 -> "PAUSED"
          /\ Goto(t, "enter")
          /\ UNCHANGED flat
    /\ UNCHANGED <<operator_pause, lock, broker, running, cleaned, owner, term,
                   code, watchers, bounds>>

(* submit_order of an entry, or a cycle without a signal.  Neither running
   nor operator_pause is read again here.                                  *)
Enter(t) ==
    /\ trader[t] = "enter"
    /\ Goto(t, "loop")
    /\ heartbeat' = "fresh"
    /\ \/ order = "none" /\ order' = "working"
       \/ UNCHANGED order
    /\ UNCHANGED <<pos, under, day, durable, lock, running, cleaned, owner,
                   term, code, flat, watchers, bounds>>

(* The finally clause of run().                                            *)
FinalFlatten(t) ==
    /\ trader[t] = "loop" /\ ~running[t]
    /\ Goto(t, "final")
    /\ Flattening(t, "begin")
    /\ UNCHANGED <<durable, heartbeat, lock, broker, running, cleaned, owner,
                   term, code, watchers, bounds>>

FinalDone(t) ==
    /\ trader[t] = "final"
    /\ flat[t] \in Finished
    /\ CloseRuntime(t, flat[t] = "incomplete")
    /\ Gone(t, IF flat[t] = "complete" THEN 0 ELSE 1)
    /\ UNCHANGED <<broker, watchers, bounds>>

(* request_shutdown, run as a signal handler between any two steps.  Before
   cmd_run installs it, the signal kills the process.                      *)
HandleSigterm(t) ==
    /\ term[t]
    /\ \/ /\ trader[t] \in {"construct", "cleanup"}
          /\ Gone(t, 1)
          /\ UNCHANGED <<durable, heartbeat>>
       \/ /\ trader[t] \notin {"off", "construct", "cleanup"}
          /\ running' = [running EXCEPT ![t] = FALSE]
          /\ term' = [term EXCEPT ![t] = FALSE]
          /\ CommitPause
          /\ heartbeat' = "fresh"
          /\ UNCHANGED <<lock, trader, cleaned, owner, code, flat>>
    /\ UNCHANGED <<broker, watchers, bounds>>

(* The process dies: out of memory, an unhandled error, a host's SIGKILL.  *)
TraderDies(t) ==
    /\ Alive(t)
    /\ Fault
    /\ Gone(t, 1)
    /\ UNCHANGED <<durable, heartbeat, broker, watchers>>

-----------------------------------------------------------------------------
(* The supervisor: supervise().                                            *)

(* The service manager starts it, again after every end.                   *)
SupervisorStarts ==
    /\ sup \in {"ended", "crashed"}
    /\ sup' = "parked"
    /\ child' = None
    /\ UNCHANGED <<durable, heartbeat, lock, broker, engine, flat, why, wd, op,
                   bounds>>

(* wait_until_resumed: park on a pause, launch without one.                *)
Park ==
    /\ sup = "parked"
    /\ operator_pause
    /\ heartbeat' = "parked"
    /\ UNCHANGED <<durable, lock, broker, engine, flat, watchers, bounds>>

Launch(t) ==
    /\ sup = "parked"
    /\ ~operator_pause
    /\ ~Alive(t)
    /\ sup' = "watch"
    /\ child' = t
    /\ Goto(t, "construct")
    /\ UNCHANGED <<durable, heartbeat, lock, broker, running, cleaned, owner,
                   term, code, flat, why, wd, op, bounds>>

(* monitor() ends: the child exited, the supervisor was told to stop, or no
   progress for max_age; terminate_child then signals the child.           *)
MonitorEnds ==
    /\ sup = "watch"
    /\ \/ /\ ~Alive(child)
          /\ why' = "exit"
          /\ UNCHANGED <<term, commands>>
       \/ /\ Alive(child)
          /\ commands < MaxCommands
          /\ commands' = commands + 1
          /\ why' = "shutdown"
          /\ term' = [term EXCEPT ![child] = TRUE]
       \/ /\ Alive(child)
          /\ heartbeat = "stale"
          /\ why' = "unresponsive"
          /\ term' = [term EXCEPT ![child] = TRUE]
          /\ UNCHANGED commands
    /\ sup' = "term"
    /\ UNCHANGED <<durable, heartbeat, lock, broker, trader, running, cleaned,
                   owner, code, flat, child, wd, op, moves, faults>>

(* The grace passes: SIGKILL.                                              *)
KillChild ==
    /\ sup = "term"
    /\ Alive(child)
    /\ Gone(child, 1)
    /\ UNCHANGED <<durable, heartbeat, broker, watchers, bounds>>

(* The child is reaped.  Exit code 0 ends the supervisor, except after a
   timeout; everything else is recovered.                                  *)
Reaped ==
    /\ sup = "term"
    /\ ~Alive(child)
    /\ sup' = IF code[child] = 0 /\ why # "unresponsive"
              THEN "ended" ELSE "recover"
    /\ UNCHANGED <<durable, heartbeat, lock, broker, engine, flat, child, why,
                   wd, op, bounds>>

(* run_once(terminated_child=True): the lock, then the pause; without the
   lock it reports a live trader and changes nothing.                      *)
RecoverLock ==
    /\ sup = "recover"
    /\ \/ /\ Acquire("recovery")
          /\ CommitPause
          /\ sup' = "first"
       \/ /\ lock # None
          /\ sup' = "ended"
          /\ UNCHANGED <<durable, lock>>
    /\ UNCHANGED <<heartbeat, broker, engine, flat, child, why, wd, op, bounds>>

(* Two position reads; exposure in both is flattened under the same lock.  *)
RecoverReads ==
    /\ sup \in {"first", "second"}
    /\ \/ /\ ~pos
          /\ sup' = "ended"
          /\ lock' = LockWithout("recovery")
          /\ UNCHANGED flat
       \/ /\ pos
          /\ sup' = IF sup = "first" THEN "second" ELSE "flatten"
          /\ IF sup = "first" THEN UNCHANGED flat
             ELSE Flattening("recovery", "begin")
          /\ UNCHANGED lock
    /\ UNCHANGED <<durable, heartbeat, broker, engine, child, why, wd, op,
                   bounds>>

RecoverDone ==
    /\ sup = "flatten"
    /\ flat["recovery"] \in Finished
    /\ sup' = "ended"
    /\ Flattening("recovery", "idle")
    /\ lock' = LockWithout("recovery")
    /\ UNCHANGED <<durable, heartbeat, broker, engine, child, why, wd, op,
                   bounds>>

(* The supervisor is killed; its child lives on in its own session.        *)
SupervisorDies ==
    /\ sup \notin {"ended", "crashed"}
    /\ Fault
    /\ sup' = "crashed"
    /\ child' = None
    /\ Flattening("recovery", "idle")
    /\ lock' = LockWithout("recovery")
    /\ UNCHANGED <<durable, heartbeat, broker, engine, why, wd, op>>

-----------------------------------------------------------------------------
(* The watchdog: run_once(terminated_child=False).                         *)

(* Mutant: any fresh heartbeat is taken for a live trader.                 *)
DecideAnyFresh == pos /\ heartbeat = "stale"

(* decide(): a parked supervisor's heartbeat protects no exposure.         *)
Decide == pos /\ heartbeat # "fresh"

WatchdogLocks ==
    /\ wd = "idle"
    /\ Acquire("watchdog")
    /\ wd' = "first"
    /\ UNCHANGED <<durable, heartbeat, broker, engine, flat, child, sup, why,
                   op, bounds>>

(* Mutant: the engine of the flatten is not given the watchdog's lock.     *)
TransferNothing == None

(* engine._lock_handle = handle: the lock is kept over the flatten.        *)
Transfer == lock

WatchdogReads ==
    /\ wd \in {"first", "second"}
    /\ \/ /\ ~Decide
          /\ wd' = "idle"
          /\ lock' = LockWithout("watchdog")
          /\ UNCHANGED flat
       \/ /\ Decide
          /\ wd = "first"
          /\ wd' = "second"
          /\ UNCHANGED <<lock, flat>>
       \/ /\ Decide
          /\ wd = "second"
          /\ wd' = "flatten"
          /\ lock' = Transfer
          /\ Flattening("watchdog", "begin")
    /\ UNCHANGED <<durable, heartbeat, broker, engine, child, sup, why, op,
                   bounds>>

WatchdogDone ==
    /\ wd = "flatten"
    /\ flat["watchdog"] \in Finished
    /\ wd' = "idle"
    /\ Flattening("watchdog", "idle")
    /\ lock' = LockWithout("watchdog")
    /\ UNCHANGED <<durable, heartbeat, broker, engine, child, sup, why, op,
                   bounds>>

(* A failed broker call, or its death and restart.                         *)
WatchdogFails ==
    /\ wd # "idle"
    /\ Fault
    /\ wd' = "idle"
    /\ Flattening("watchdog", "idle")
    /\ lock' = LockWithout("watchdog")
    /\ UNCHANGED <<durable, heartbeat, broker, engine, child, sup, why, op>>

-----------------------------------------------------------------------------
(* The operator's commands: main.py flatten and main.py resume.            *)

(* _resume_pause_invariants.                                               *)
ResumePauseInvariants ==
    /\ state = "PAUSED"
    /\ operator_pause
    /\ ~risk_day.limit_hit

Command(phase) ==
    /\ op = "idle"
    /\ commands < MaxCommands
    /\ commands' = commands + 1
    /\ Acquire("operator")
    /\ op' = phase
    /\ UNCHANGED <<durable, heartbeat, broker, engine, child, sup, why, wd,
                   moves, faults>>

OperatorFlattens == Command("flatten") /\ Flattening("operator", "begin")

OperatorResumes == Command("preflight") /\ UNCHANGED flat

FlattenDone ==
    /\ op = "flatten"
    /\ flat["operator"] \in Finished
    /\ op' = "idle"
    /\ Flattening("operator", "idle")
    /\ lock' = LockWithout("operator")
    /\ UNCHANGED <<durable, heartbeat, broker, engine, child, sup, why, wd,
                   bounds>>

(* What resume() asks at each of its steps.                                *)
ResumeGuard ==
    CASE op \in {"preflight", "clear"}              -> ResumePauseInvariants
      [] op \in {"positions", "confirm_positions"}  -> ~pos
      [] op \in {"orders", "confirm_orders"}        -> order = "none"

(* Mutant: no read-only confirmation after the reconciliation.             *)
ResumeNextUnconfirmed ==
    CASE op = "preflight" -> "positions"
      [] op = "positions" -> "orders"
      [] op = "orders"    -> "clear"

(* resume(): reconciliation's positions, then its orders, then both again,
   then the pause is cleared.                                              *)
ResumeNext ==
    CASE op = "preflight"         -> "positions"
      [] op = "positions"         -> "orders"
      [] op = "orders"            -> "confirm_positions"
      [] op = "confirm_positions" -> "confirm_orders"
      [] op = "confirm_orders"    -> "clear"

ResumeStep ==
    /\ op \notin {"idle", "flatten", "clear"}
    /\ ResumeGuard
    /\ op' = ResumeNext
    /\ heartbeat' = IF ResumeNext = "clear" THEN "fresh" ELSE heartbeat
    /\ UNCHANGED <<durable, lock, broker, engine, flat, child, sup, why, wd,
                   bounds>>

ClearPause ==
    /\ op = "clear"
    /\ ResumeGuard
    /\ operator_pause' = FALSE
    /\ op' = "idle"
    /\ lock' = LockWithout("operator")
    /\ UNCHANGED <<state, risk_day, heartbeat, broker, engine, flat, child,
                   sup, why, wd, bounds>>

(* A refused resume leaves everything as it was.                           *)
ResumeBlocked ==
    /\ op \notin {"idle", "flatten"}
    /\ ~ResumeGuard
    /\ op' = "idle"
    /\ lock' = LockWithout("operator")
    /\ UNCHANGED <<durable, heartbeat, broker, engine, flat, child, sup, why,
                   wd, bounds>>

-----------------------------------------------------------------------------
Broker == Fill \/ CancelDone \/ LegFills \/ EquityMoves \/ NewDay

Flatten(p) ==
    FlattenFails(p) \/ FlattenBegin(p) \/ PollPositions(p) \/ PollOrders(p)

Trade(t) ==
    \/ Construct(t) \/ CleanupDone(t) \/ RunLock(t) \/ Boot(t)
    \/ CycleHold(t) \/ CycleFlatten(t) \/ CycleFlattened(t)
    \/ CycleStart(t) \/ CycleRisk(t) \/ Enter(t) \/ FinalFlatten(t) \/ FinalDone(t)
    \/ HandleSigterm(t) \/ TraderDies(t)

Supervise ==
    \/ SupervisorStarts \/ Park \/ MonitorEnds \/ KillChild \/ Reaped
    \/ RecoverLock \/ RecoverReads \/ RecoverDone \/ SupervisorDies
    \/ \E t \in Traders : Launch(t)

Watch == WatchdogLocks \/ WatchdogReads \/ WatchdogDone \/ WatchdogFails

Operate ==
    \/ OperatorFlattens \/ OperatorResumes \/ FlattenDone \/ ResumeStep
    \/ ClearPause \/ ResumeBlocked

Next ==
    \/ Broker \/ HeartbeatAges \/ Supervise \/ Watch \/ Operate
    \/ \E p \in Procs : Flatten(p)
    \/ \E t \in Traders : Trade(t)

Spec == Init /\ [][Next]_vars

(* The broker answers a cancellation, time passes, and every process but a
   trader keeps going: a trader may hang anywhere.                         *)
Fairness ==
    /\ WF_vars(CancelDone) /\ WF_vars(HeartbeatAges)
    /\ WF_vars(MonitorEnds) /\ WF_vars(KillChild) /\ WF_vars(Reaped)
    /\ WF_vars(RecoverLock) /\ WF_vars(RecoverReads) /\ WF_vars(RecoverDone)
    /\ WF_vars(WatchdogLocks) /\ WF_vars(WatchdogReads) /\ WF_vars(WatchdogDone)
    /\ WF_vars(FlattenDone) /\ WF_vars(ResumeStep) /\ WF_vars(ClearPause)
    /\ WF_vars(ResumeBlocked)
    /\ \A p \in Procs \ Traders :
          /\ WF_vars(FlattenBegin(p)) /\ WF_vars(PollPositions(p))
          /\ WF_vars(PollOrders(p))

FairSpec == Spec /\ Fairness

-----------------------------------------------------------------------------
(* Properties.                                                             *)

(* A process that may send the broker an order or a cancellation.          *)
Mutating(p) == flat[p] \in Polling \/ (p \in Traders /\ trader[p] = "enter")

(* At every moment at most one process is inside an entry or a flatten: no
   two of the traders, the supervisor's recovery, the watchdog and the
   operator's flatten ever close, cancel or open against each other, over
   deaths, restarts, an orphaned trader, and the watchdog's hand-over of its
   lock to the flatten engine.                                             *)
OneMutator ==
    \A p, q \in Procs : Mutating(p) /\ Mutating(q) => p = q

(* resume() clears the pause only in a moment in which the account holds no
   exposure and no order works, although it reads the two one after the
   other and an order may fill in between.                                 *)
ResumeOnlyFlat ==
    [][operator_pause /\ ~operator_pause' => ~pos /\ order = "none"]_vars

(* A cycle goes on to entries only if equity is above the loss limit of the
   day's first cycle, whatever deaths, restarts and resumes came between.  *)
NoEntryPastLossLimit ==
    [][\A t \in Traders :
          trader[t] = "risk" /\ trader'[t] = "enter" => ~under]_vars

(* Exposure does not stay for ever under a heartbeat that shows no trader
   at work: a hung child is killed and recovered, a dead trader's exposure
   is flattened by the watchdog, also while a parked supervisor keeps the
   heartbeat new.  The exception is a hung trader whose supervisor died.   *)
ExposureIsAttended ==
    ~<>[](pos /\ heartbeat # "fresh"
              /\ \A t \in Traders : Alive(t) => t = child)

=============================================================================
