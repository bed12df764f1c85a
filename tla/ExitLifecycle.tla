--------------------------- MODULE ExitLifecycle ---------------------------
(***************************************************************************)
(* How the trader takes one bracketed equity exposure off the book, and    *)
(* how it accounts for that exit (agent/execution_lifecycle.py,            *)
(* agent/runtime_control.py, agent/engine_cycle.py).                       *)
(*                                                                         *)
(* The exposure is an entry of Qty shares, filled and activated, with the  *)
(* stop and target legs of its bracket resting at the broker; a position   *)
(* snapshot has confirmed it, or has yet to (the positions are read before *)
(* the orders).  Three routines take turns inside one thread:              *)
(* reconcile() refreshes the durable rows from the broker and books what   *)
(* the fills prove; _monitor_positions() cancels the legs and closes when  *)
(* a deadline is due or the protection is gone; _flatten_all_impl() does   *)
(* the same in the force-flat window and after a restart.  Both restore a  *)
(* stop when their close fails.  The broker acts between any two of their  *)
(* steps: legs and closes fill in parts, cancels take effect late, and the *)
(* position endpoint may lag the fills.  The process may die anywhere.     *)
(***************************************************************************)
EXTENDS Integers, FiniteSets, FiniteSetsExt

CONSTANTS
    Qty,            \* filled quantity of the entry
    LaggingFills,   \* kinds of order whose fills the position endpoint may lag
    FirstSeen,      \* may a position snapshot still have to confirm the entry
    Halts,          \* may a market order rest beyond the cycle that sent it
    FaultKinds,     \* which of the faults below may happen
    MaxFaults,      \* bound: faults in a behaviour
    MaxAttempts,    \* bound: attempt numbers used in exit client order ids
    MaxPolls        \* polls of one flatten call (6 in the code)

ASSUME ExitLifecycleAssumption ==
    /\ Qty \in Nat \ {0}
    /\ LaggingFills \subseteq {"leg", "rearm", "close", "flatten"}
    /\ {FirstSeen, Halts} \subseteq BOOLEAN
    /\ FaultKinds \subseteq {"submit", "journal", "state", "crash", "die"}
    /\ MaxFaults \in Nat
    /\ MaxAttempts \in Nat
    /\ MaxPolls \in Nat \ {0}

-----------------------------------------------------------------------------
(* Orders.  An exit order is known by its client order id: the action, the
   reason and the attempt number (_exit_client_id; the exposure token is the
   same for every exit of this exposure).                                  *)
Attempts == 0 .. MaxAttempts
StopLeg   == <<"leg", "stop", 0>>
TargetLeg == <<"leg", "target", 0>>
Bracket   == {StopLeg, TargetLeg}
Rearms    == {"rearm"} \X {"stop"} \X Attempts
Closes    == {"close"} \X {"deadline", "missing"} \X Attempts
FlattenReasons == {"before_close", "startup", "failed", "exit"}
Flattens  == {"flatten"} \X FlattenReasons \X Attempts
Orders    == Bracket \cup Rearms \cup Closes \cup Flattens
NoOrder   == <<"none", "none", 0>>

Kind(o)    == o[1]
Attempt(o) == o[3]

VARIABLES
    held,       \* broker: shares held (negative is a short position)
    shown,      \* broker: shares the position endpoint reports
    ord,        \* broker: every exit order
    trade,      \* runtime state: the row of active_trades
    legs,       \* runtime state: protective_legs of that row
    rows,       \* runtime state: the exit rows of orders
    paused,     \* runtime state: operator_pause
    journal,    \* trade journal: close rows <<order, trade_id, quantity>>
    pc,         \* where the engine is
    snap,       \* the position quantity the current routine works from
    asked,      \* legs whose cancel is being confirmed
    job,        \* why and with which client id the engine is closing
    call,       \* the flatten_all call in progress
    memo,       \* provider: request quantity and response of each client id
    startup,    \* the startup cleanup has not completed yet
    clock,      \* session time as the exits see it
    faults      \* faults so far

broker   == <<held, shown, ord>>
durable  == <<trade, legs, rows, paused, journal>>
volatile == <<pc, snap, asked, job, call, memo, startup>>
vars     == <<held, shown, ord, trade, legs, rows, paused, journal, pc, snap,
              asked, job, call, memo, startup, clock, faults>>

Terminal == {"filled", "canceled", "not_found"}
Working  == {"working", "canceling"}

BrokerOrder == [status : {"none", "filled", "canceled"} \cup Working,
                qty : 0 .. Qty, filled : 0 .. Qty]
OrderRow == [status : {"none", "working"} \cup Terminal,
             filled : 0 .. Qty, logged : 0 .. Qty, marked : BOOLEAN]
Request  == [qty : 0 .. Qty, status : {"none", "working", "filled", "canceled"}]

NoRow     == [status |-> "none", filled |-> 0, logged |-> 0, marked |-> FALSE]
NoRequest == [qty |-> 0, status |-> "none"]
NoRequests == [o \in Orders |-> NoRequest]
NoJob     == [why |-> "none", id |-> NoOrder]
NoCall    == [reason |-> "none", polls |-> 0, listed |-> {}, swept |-> FALSE,
              prior |-> NoOrder, tried |-> {}, failed |-> FALSE,
              stripped |-> FALSE, error |-> FALSE, confirming |-> FALSE]

TypeOK ==
    /\ held \in -(3 * Qty) .. Qty
    /\ shown \in -(3 * Qty) .. Qty
    /\ ord \in [Orders -> BrokerOrder]
    /\ trade \in [active : BOOLEAN, confirmed : BOOLEAN,
                  closing : Orders \cup {NoOrder},
                  attempt : {-1} \cup Attempts,
                  rearms : 0 .. MaxAttempts + 1]
    /\ legs \in [Bracket \cup Rearms -> {"absent", "live", "filled", "canceled"}]
    /\ rows \in [Orders -> OrderRow]
    /\ paused \in BOOLEAN
    /\ journal \subseteq (Orders \X (0 .. Qty) \X (1 .. Qty))
    /\ pc \in {"down", "idle", "reconcile", "snapped", "monitor", "begin",
               "poll", "polled", "cancelling", "submit", "record", "rearm",
               "end", "return"}
    /\ snap \in 0 .. Qty
    /\ asked \subseteq Bracket \cup Rearms
    /\ job \in [why : {"none", "deadline", "missing"}, id : Orders \cup {NoOrder}]
    /\ call.reason \in {"none"} \cup FlattenReasons
    /\ call.polls \in 0 .. MaxPolls
    /\ call.prior \in Flattens \cup {NoOrder}
    /\ call.tried \subseteq Flattens
    /\ call.listed \subseteq Bracket \cup Rearms
    /\ memo \in [Orders -> Request]
    /\ startup \in BOOLEAN
    /\ clock \in {"open", "due", "flat"}
    /\ faults \in 0 .. MaxFaults

Init ==
    /\ held = Qty
    /\ shown = Qty
    /\ ord = [o \in Orders |->
                 IF o \in Bracket
                 THEN [status |-> "working", qty |-> Qty, filled |-> 0]
                 ELSE [status |-> "none", qty |-> 0, filled |-> 0]]
    /\ \E confirmed \in {TRUE, ~FirstSeen} :
          trade = [active |-> TRUE, confirmed |-> confirmed, closing |-> NoOrder,
                   attempt |-> -1, rearms |-> 0]
    /\ legs = [o \in Bracket \cup Rearms |->
                  IF o \in Bracket THEN "live" ELSE "absent"]
    /\ rows = [o \in Orders |-> NoRow]
    /\ paused = FALSE
    /\ journal = {}
    /\ pc = "idle"
    /\ snap = 0
    /\ asked = {}
    /\ job = NoJob
    /\ call = NoCall
    /\ memo = NoRequests
    /\ startup = FALSE
    /\ clock = "open"
    /\ faults = 0

-----------------------------------------------------------------------------
(* The broker and the session clock.                                       *)

WorkingOrders == {o \in Orders : ord[o].status \in Working}

(* Shares of the orders S that are filled by the records e, and left by them. *)
Filled(e, S) == MapThenSumSet(LAMBDA o : e[o].filled, S)
Left(e, S)   == MapThenSumSet(LAMBDA o : e[o].qty - e[o].filled, S)

(* Shares that working sells have reserved; the bracket reserves them all. *)
Reserved ==
    (IF WorkingOrders \cap Bracket = {} THEN 0 ELSE held)
      + Left(ord, WorkingOrders \ Bracket)

(* A sell needs unreserved shares; on a flat book it opens a short.        *)
Accepts(q) == held <= 0 \/ held - Reserved >= q

(* k more shares of o fill.  The fill that takes the last share completes a
   bracket leg and cancels its sibling.                                    *)
Fill(o, k) ==
    LET left == held - k
        done == ord[o].filled + k = ord[o].qty \/ (o \in Bracket /\ left = 0)
    IN  /\ ord[o].status \in Working
        /\ ord[o].filled + k <= ord[o].qty
        /\ o \in Bracket => k <= held
        /\ held' = left
        /\ shown' = IF Kind(o) \in LaggingFills THEN shown ELSE left
        /\ ord' = [p \in Orders |->
              IF p = o
              THEN [ord[o] EXCEPT !.filled = @ + k,
                                  !.status = IF done THEN "filled" ELSE @]
              ELSE IF {o, p} = Bracket /\ left = 0 /\ p \in WorkingOrders
                   THEN [ord[p] EXCEPT !.status = "canceled"]
                   ELSE ord[p]]
        /\ UNCHANGED <<durable, volatile, clock, faults>>

(* A requested cancel takes effect.                                        *)
BrokerCancels(o) ==
    /\ ord[o].status = "canceling"
    /\ ord' = [ord EXCEPT ![o].status = "canceled"]
    /\ UNCHANGED <<held, shown, durable, volatile, clock, faults>>

(* The position endpoint catches up with the fills.                        *)
PositionsSettle ==
    /\ shown # held
    /\ shown' = held
    /\ UNCHANGED <<held, ord, durable, volatile, clock, faults>>

(* A hold deadline falls due (in time, or together with the force-flat
   window); the window opens and stays open until the session ends.        *)
DeadlineDue ==
    /\ clock = "open"
    /\ clock' = "due"
    /\ UNCHANGED <<broker, durable, volatile, faults>>

WindowOpens ==
    /\ clock # "flat"
    /\ clock' = "flat"
    /\ UNCHANGED <<broker, durable, volatile, faults>>

Fault(kind) ==
    /\ kind \in FaultKinds
    /\ faults < MaxFaults
    /\ faults' = faults + 1

(* The venue rejects, expires or cancels an order nobody asked it to; the
   legs of a bracket go together.                                          *)
OrderDies(o) ==
    /\ Fault("die")
    /\ o \in WorkingOrders
    /\ ord' = [p \in Orders |->
          IF p \in WorkingOrders /\ (p = o \/ {o, p} = Bracket)
          THEN [ord[p] EXCEPT !.status = "canceled"] ELSE ord[p]]
    /\ UNCHANGED <<held, shown, durable, volatile, clock>>

-----------------------------------------------------------------------------
(* What the provider does with one exit order.                             *)

(* cancel_all_orders, and cancel_order on each of a set of legs.           *)
RequestCancel(S) ==
    [o \in Orders |-> IF o \in S /\ ord[o].status = "working"
                      THEN [ord[o] EXCEPT !.status = "canceling"] ELSE ord[o]]

BrokerStatus(o) == IF ord[o].status \in Working THEN "working" ELSE ord[o].status

(* submit_order.  A client id is bound to its first request for the life of
   the process, and its first response is returned from then on.  An id the
   broker knows returns that order if the quantity is the same.            *)
SubmitOrder(o, q) ==
    CASE memo[o].qty \notin {0, q}                       -> "conflict"
      [] memo[o].qty \in {0, q} /\ memo[o].status # "none" -> "cached"
      [] memo[o].qty \in {0, q} /\ memo[o].status = "none" /\ ord[o].status # "none"
                          -> IF ord[o].qty = q THEN "existing" ELSE "conflict"
      [] OTHER -> IF Accepts(q) THEN "new" ELSE "refused"

(* close_position reads the position endpoint first.                       *)
ClosePosition(o, q) ==
    IF shown = 0 THEN "nothing" ELSE IF q > shown THEN "exceeds" ELSE SubmitOrder(o, q)

Answered == {"new", "cached", "existing", "nothing"}

(* The broker's orders and the provider's memory after that outcome.       *)
Placed(o, q) == [ord EXCEPT ![o] = [status |-> "working", qty |-> q, filled |-> 0]]

OrdAfter(outcome, o, q) == IF outcome = "new" THEN Placed(o, q) ELSE ord

MemoAfter(outcome, o, q) ==
    CASE outcome = "new"      -> [memo EXCEPT ![o] = [qty |-> q, status |-> "working"]]
      [] outcome = "existing" -> [memo EXCEPT ![o] = [qty |-> q, status |-> BrokerStatus(o)]]
      [] outcome \in {"refused", "conflict"} ->
             [memo EXCEPT ![o].qty = IF @ = 0 THEN q ELSE @]
      [] OTHER -> memo

-----------------------------------------------------------------------------
(* What the durable rows say about the exposure.                           *)

Recorded == {o \in DOMAIN legs : legs[o] # "absent"}
LiveLegs == {o \in DOMAIN legs : legs[o] = "live"}

(* Mutant: a recorded leg counts as protection whatever became of it.      *)
BrokerProtectedRecorded == Recorded # {}

(* _broker_protected: a live stop and a live target.                       *)
BrokerProtected ==
    TargetLeg \in LiveLegs /\ LiveLegs \cap ({StopLeg} \cup Rearms) # {}

(* _exposure_exit_fills: fills of the legs, of the recorded close, of every
   bound close row, and of the client ids a caller passes in.              *)
ExitFills(clients) ==
    Filled(ord, {o \in Orders : \/ o \in Recorded
                                \/ o = trade.closing
                                \/ rows[o].status # "none"
                                \/ o \in clients})

-----------------------------------------------------------------------------
(* reconcile().  The provider reads the positions first and the orders
   second; everything after that is one durable replacement, except the
   journal rows, which are written before it.                              *)

CycleStarts == pc = "idle" /\ (Halts \/ WorkingOrders \cap (Closes \cup Flattens) = {})

SnapPositions ==
    /\ \/ CycleStarts /\ ~paused
       \/ pc = "reconcile"
    /\ shown >= 0
    /\ snap' = shown
    /\ pc' = "snapped"
    /\ UNCHANGED <<broker, durable, asked, job, call, memo, startup, clock, faults>>

RefreshedLegs ==
    [o \in DOMAIN legs |->
        IF o \notin Recorded THEN "absent"
        ELSE IF ord[o].status \in Working THEN "live" ELSE ord[o].status]

(* The first leg with a fill becomes the closing order, unless an exit is
   already booked against the trade.  The order of the legs is left open.  *)
ClosingChoices ==
    LET hit == {o \in Recorded : ord[o].filled > 0}
    IN  IF trade.closing = NoOrder /\ hit # {} THEN hit ELSE {trade.closing}

(* The row of an order: terminal evidence is absorbing and fills never
   shrink; an id the broker has no order for ends as not_found (three
   misses in the code).                                                    *)
RefreshedRow(o) ==
    [rows[o] EXCEPT
        !.status = IF @ \in Terminal THEN @
                   ELSE IF ord[o].status = "none" THEN "not_found" ELSE BrokerStatus(o),
        !.filled = Max({@, ord[o].filled})]

(* close_entries: the rows there are, plus one for the closing order; only a
   row made for an already recorded closing order carries an attempt.      *)
Entries(closing) ==
    [o \in Orders |->
        IF rows[o].status # "none" THEN RefreshedRow(o)
        ELSE IF o = closing /\ ord[o].status # "none"
             THEN [status |-> BrokerStatus(o), filled |-> ord[o].filled,
                   logged |-> 0, marked |-> closing = trade.closing]
             ELSE NoRow]

(* Fills that may be journaled now.  A leg's wait while the trade is in the
   new book: its position is visible, or was never confirmed.              *)
Settled(e) ==
    {o \in Orders : /\ e[o].status \in Terminal
                    /\ e[o].filled > 0
                    /\ e[o].marked \/ (snap = 0 /\ trade.confirmed)}

RowAttempt(o) == IF o \in Closes \cup Flattens THEN Attempt(o) ELSE 0

(* Quantity of o still to journal, with earlier attempts served first.     *)
Unjournaled(e, o) ==
    LET earlier == {p \in Settled(e) : RowAttempt(p) < RowAttempt(o)}
        room    == Qty - Filled(e, earlier)
    IN  Min({e[o].filled - Min({e[o].filled, e[o].logged}), Max({0, room})})

(* The trade id of a close row: the base id, or one per later increment.   *)
TradeId(e, o) == <<o, IF e[o].logged = 0 THEN 0 ELSE e[o].filled>>

JournalAfter(e) ==
    journal \cup
      {<<o, TradeId(e, o)[2], Unjournaled(e, o)>> :
          o \in {p \in Settled(e) : /\ Unjournaled(e, p) > 0
                                    /\ \A j \in journal : <<j[1], j[2]>> # TradeId(e, p)}}

RowsAfter(e) ==
    [o \in Orders |-> IF o \in Settled(e) /\ Unjournaled(e, o) > 0
                      THEN [e[o] EXCEPT !.logged = e[o].filled] ELSE e[o]]

Exited(e) == Filled(e, Orders)

(* Shares that close rows of the journal account for. *)
Shares(closes) == MapThenSumSet(LAMBDA j : j[3], closes)

(* Mutant: any exit fill ends a trade whose position is gone.              *)
TradeAfterAnyFill(e, closing) ==
    LET exits   == \E o \in Orders : e[o].status # "none"
        visible == snap > 0 /\ (trade.confirmed \/ ~exits)
    IN  CASE visible -> [trade EXCEPT !.closing = closing, !.confirmed = TRUE]
          [] ~visible /\ Exited(e) > 0 ->
                 [trade EXCEPT !.active = FALSE, !.closing = NoOrder]
          [] OTHER -> [trade EXCEPT !.closing = closing,
                                    !.confirmed = @ /\ Exited(e) = 0]

(* Mutant: the exits have to exceed the entry before the trade ends.       *)
TradeAfterMore(e, closing) ==
    LET exits   == \E o \in Orders : e[o].status # "none"
        visible == snap > 0 /\ (trade.confirmed \/ ~exits)
    IN  CASE visible -> [trade EXCEPT !.closing = closing, !.confirmed = TRUE]
          [] ~visible /\ Exited(e) > Qty ->
                 [trade EXCEPT !.active = FALSE, !.closing = NoOrder]
          [] OTHER -> [trade EXCEPT !.closing = closing,
                                    !.confirmed = @ /\ Exited(e) = 0]

(* A visible position keeps the trade (unless it was never confirmed and
   has exit rows); otherwise the rows end it only when they prove the whole
   quantity, and anything less is kept as an unconfirmed residual.         *)
TradeAfter(e, closing) ==
    LET exits   == \E o \in Orders : e[o].status # "none"
        visible == snap > 0 /\ (trade.confirmed \/ ~exits)
    IN  CASE visible -> [trade EXCEPT !.closing = closing, !.confirmed = TRUE]
          [] ~visible /\ Exited(e) >= Qty ->
                 [trade EXCEPT !.active = FALSE, !.closing = NoOrder]
          [] OTHER -> [trade EXCEPT !.closing = closing,
                                    !.confirmed = @ /\ Exited(e) = 0]

(* run_once after its reconcile: the startup cleanup, the force-flat window
   or the monitor.  Inside a flatten: its confirmation, or its next poll.  *)
ReconcileReturns ==
    IF call.reason = "none"
    THEN /\ call' = [NoCall EXCEPT !.reason = IF startup THEN "startup"
                                              ELSE IF clock = "flat" THEN "before_close"
                                              ELSE "none"]
         /\ pc' = IF startup \/ clock = "flat" THEN "begin" ELSE "monitor"
    ELSE /\ call' = [call EXCEPT !.polls = @ + 1]
         /\ pc' = IF call.confirming \/ call.polls + 1 = MaxPolls THEN "end" ELSE "poll"

Reconcile ==
    /\ pc = "snapped"
    /\ \E closing \in ClosingChoices :
          LET e == Entries(closing)
          IN  IF trade.active
              THEN /\ journal' = JournalAfter(e)
                   /\ rows' = RowsAfter(e)
                   /\ trade' = TradeAfter(e, closing)
                   /\ legs' = IF TradeAfter(e, closing).active THEN RefreshedLegs
                              ELSE [o \in DOMAIN legs |-> "absent"]
              ELSE UNCHANGED <<journal, rows, trade, legs>>
    /\ ReconcileReturns
    /\ UNCHANGED <<broker, paused, snap, asked, job, memo, startup, clock, faults>>

(* A failed write aborts the pass.  The journal keeps what it got; nothing
   else is durable.  Inside a flatten the failure ends its loop.           *)
ReconcileFails ==
    /\ pc = "snapped"
    /\ Fault("journal") \/ Fault("state")
    /\ journal' \in {journal} \cup
          IF trade.active THEN {JournalAfter(Entries(c)) : c \in ClosingChoices} ELSE {}
    /\ IF call.reason # "none"
       THEN /\ call' = [call EXCEPT !.error = TRUE]
            /\ pc' = "end"
       ELSE /\ call' = [NoCall EXCEPT !.reason = IF clock = "flat" /\ ~startup
                                                      THEN "failed" ELSE "none"]
            /\ pc' = IF startup THEN "down" ELSE IF clock = "flat" THEN "begin" ELSE "idle"
    /\ memo' = IF pc' = "down" THEN NoRequests ELSE memo
    /\ UNCHANGED <<broker, trade, legs, rows, paused, snap, asked, job, startup, clock>>

-----------------------------------------------------------------------------
(* _monitor_positions(): whether to take the position off the book.        *)

MonitorDecides ==
    LET reason == CASE clock # "open" -> "deadline"
                    [] clock = "open" /\ ~BrokerProtected -> "missing"
                    [] OTHER -> "none"
        leave == \/ snap = 0
                 \/ trade.closing # NoOrder /\ rows[trade.closing].status = "working"
                 \/ \E o \in Recorded : legs[o] = "filled"
                 \/ reason = "none"
    IN  /\ pc = "monitor"
        /\ job' = IF leave THEN NoJob ELSE [NoJob EXCEPT !.why = reason]
        /\ asked' = IF leave THEN {} ELSE LiveLegs
        /\ pc' = IF leave THEN "idle" ELSE IF LiveLegs = {} THEN "submit" ELSE "cancelling"
        /\ ord' = IF leave THEN ord ELSE RequestCancel(LiveLegs)
        /\ UNCHANGED <<held, shown, durable, snap, call, memo, startup, clock, faults>>

(* _cancel_protective_legs(): the last poll of the order endpoint.  A leg
   with a fill is marked as the close, a terminal one as canceled, and the
   close goes ahead only when every leg asked for is canceled unfilled.  A
   monitor pass that also closed another symbol ends by writing its own copy
   of the book, which has the leg marks but not the closing order.         *)
LegsAfter ==
    [o \in DOMAIN legs |->
        IF o \notin asked THEN legs[o]
        ELSE IF ord[o].filled > 0 THEN "filled"
        ELSE IF ord[o].status = "canceled" THEN "canceled" ELSE legs[o]]

HitLegs == {o \in asked : ord[o].filled > 0}
(* Mutant: a leg that filled while its cancel was pending is gone as well. *)
SafeWhenGone == \A o \in asked : ord[o].status \notin Working

Safe    == \A o \in asked : ord[o].status = "canceled" /\ ord[o].filled = 0

ConfirmCancel ==
    /\ pc = "cancelling"
    /\ legs' = LegsAfter
    /\ \E closing \in (IF trade.closing = NoOrder /\ HitLegs # {} THEN HitLegs ELSE {trade.closing})
                      \cup (IF call.reason = "none" THEN {trade.closing} ELSE {}) :
          trade' = [trade EXCEPT !.closing = closing]
    /\ call' = [call EXCEPT !.listed = @ \ {o \in asked : ord[o].filled > 0 \/ ord[o].status = "canceled"}]
    /\ pc' = CASE Safe -> "submit"
               [] ~Safe /\ call.reason = "none" -> "idle"
               [] OTHER -> "reconcile"
    /\ asked' = {}
    /\ job' = IF Safe THEN job ELSE NoJob
    /\ UNCHANGED <<broker, rows, paused, journal, snap, memo, startup, clock, faults>>

(* The marks could not be written: no close.                               *)
ConfirmCancelFails ==
    /\ pc = "cancelling"
    /\ Fault("state")
    /\ pc' = IF call.reason = "none" THEN "idle" ELSE "reconcile"
    /\ asked' = {}
    /\ job' = NoJob
    /\ UNCHANGED <<broker, durable, snap, call, memo, startup, clock>>

-----------------------------------------------------------------------------
(* _close_position() and the close of _flatten_all_impl().                 *)

(* The monitor counts on from the attempt the trade records; a flatten call
   counts from zero, past the closes of its own that failed.               *)
CloseId ==
    IF call.reason = "none"
    THEN <<"close", job.why, trade.attempt + 1>>
    ELSE <<"flatten", call.reason,
           IF call.prior = NoOrder THEN 0 ELSE Attempt(call.prior) + 1>>

CallTries == IF call.reason = "none" THEN call ELSE [call EXCEPT !.tried = @ \cup {CloseId}]

(* A flatten whose submit failed leaves the symbol until its re-arm.       *)
SubmitRefused ==
    /\ call' = IF call.reason = "none" THEN call ELSE [CallTries EXCEPT !.failed = TRUE]
    /\ pc' = IF call.reason = "none" THEN "rearm" ELSE "reconcile"

SubmitClose ==
    LET outcome == ClosePosition(CloseId, snap)
    IN  /\ pc = "submit"
        /\ Attempt(CloseId) <= MaxAttempts
        /\ job' = [job EXCEPT !.id = CloseId]
        /\ ord' = OrdAfter(outcome, CloseId, snap)
        /\ memo' = MemoAfter(outcome, CloseId, snap)
        /\ IF outcome \in Answered THEN call' = CallTries /\ pc' = "record" ELSE SubmitRefused
        /\ UNCHANGED <<held, shown, durable, snap, asked, startup, clock, faults>>

(* The request fails after the broker took the order, or before it.        *)
SubmitFails ==
    /\ pc = "submit"
    /\ Attempt(CloseId) <= MaxAttempts
    /\ ClosePosition(CloseId, snap) = "new"
    /\ Fault("submit")
    /\ job' = [job EXCEPT !.id = CloseId]
    /\ ord' \in {ord, Placed(CloseId, snap)}
    /\ memo' = [memo EXCEPT ![CloseId].qty = snap]
    /\ SubmitRefused
    /\ UNCHANGED <<held, shown, durable, snap, asked, startup, clock>>

(* The close is bound to the exposure with a fresh row of its own.         *)
RecordClose ==
    /\ pc = "record"
    /\ rows' = [rows EXCEPT ![job.id] =
          [status |-> IF memo[job.id].status \in Terminal THEN memo[job.id].status ELSE "working",
           filled |-> 0, logged |-> 0, marked |-> TRUE]]
    /\ trade' = [trade EXCEPT !.closing = job.id, !.attempt = Attempt(job.id)]
    /\ call' = IF call.reason = "none" THEN call ELSE [call EXCEPT !.prior = job.id]
    /\ pc' = IF call.reason = "none" THEN "idle" ELSE "reconcile"
    /\ job' = NoJob
    /\ UNCHANGED <<broker, legs, paused, journal, snap, asked, memo, startup, clock, faults>>

(* The process stops: what it held in memory is gone.                      *)
Stops ==
    /\ pc' = "down"
    /\ snap' = 0
    /\ asked' = {}
    /\ job' = NoJob
    /\ call' = NoCall
    /\ memo' = NoRequests
    /\ startup' = TRUE

(* The end of a flatten call, for each caller: the startup cleanup must be
   complete before a cycle runs, a failed cycle pauses when it is not, and
   the process ends after its exit flatten.                                *)
Finish(complete) ==
    /\ paused' = (paused \/ (~complete /\ call.reason # "before_close"))
    /\ IF call.reason = "exit" \/ (call.reason = "startup" /\ ~complete)
       THEN Stops
       ELSE /\ pc' = "idle"
            /\ call' = NoCall
            /\ job' = NoJob
            /\ startup' = (startup /\ call.reason # "startup")
            /\ UNCHANGED <<snap, asked, memo>>

(* run() ends on an AlpacaError: one last flatten, then the process stops. *)
RunExits ==
    /\ call' = [NoCall EXCEPT !.reason = "exit"]
    /\ pc' = "begin"
    /\ job' = NoJob
    /\ UNCHANGED <<snap, asked, memo, startup>>

(* The journal row of the close cannot be written.  The runtime is paused;
   the monitor goes on to the re-arm, a flatten ends with the error.       *)
JournalCloseFails ==
    /\ pc = "record"
    /\ Fault("journal")
    /\ paused' = TRUE
    /\ CASE call.reason = "none" ->
              pc' = "rearm" /\ UNCHANGED <<snap, asked, job, call, memo, startup>>
         [] call.reason = "before_close" /\ ~paused -> RunExits
         [] call.reason = "failed" \/ (call.reason = "before_close" /\ paused) ->
              /\ pc' = "idle"
              /\ call' = NoCall
              /\ job' = NoJob
              /\ UNCHANGED <<snap, asked, memo, startup>>
         [] OTHER -> Stops
    /\ UNCHANGED <<broker, trade, legs, rows, journal, clock>>

(* The state write that binds the close fails, and so may the pause.       *)
BindCloseFails ==
    /\ pc = "record"
    /\ Fault("state")
    /\ paused' \in {paused, TRUE}
    /\ CASE call.reason = "none" \/ (call.reason = "before_close" /\ ~paused) -> RunExits
         [] call.reason = "failed" \/ (call.reason = "before_close" /\ paused) ->
              /\ pc' = "idle"
              /\ call' = NoCall
              /\ job' = NoJob
              /\ UNCHANGED <<snap, asked, memo, startup>>
         [] OTHER -> Stops
    /\ UNCHANGED <<broker, trade, legs, rows, journal, clock>>

-----------------------------------------------------------------------------
(* _rearm_protective_stop(): a stop for what the exits' fills leave.       *)

Tried == IF call.reason = "none" THEN {job.id} ELSE call.tried

RearmDue ==
    LET remaining == Qty - ExitFills(Tried)
    IN  /\ \A o \in Tried : ord[o].status \notin Working /\ ord[o].filled = 0
        /\ WorkingOrders = {}
        /\ remaining > 0
        /\ shown = remaining

(* The first of three attempt numbers whose order is not already terminal. *)
Spent(o) == \/ memo[o].status \in Terminal
            \/ memo[o] = NoRequest /\ ord[o].status \in Terminal /\ ord[o].qty = shown

RearmIds ==
    LET ids  == {<<"rearm", "stop", n>> : n \in (trade.rearms .. trade.rearms + 2) \cap Attempts}
        open == {o \in ids : ~Spent(o)}
    IN  {o \in open : \A p \in open : Attempt(o) <= Attempt(p)}

RearmReturns ==
    /\ pc = "rearm"
    /\ pc' = IF call.reason = "none" THEN "idle" ELSE "return"
    /\ job' = NoJob
    /\ UNCHANGED <<held, shown, rows, paused, journal, snap, asked, call, startup, clock>>

RearmSkipped ==
    /\ RearmReturns
    /\ ~RearmDue \/ RearmIds = {}
    /\ UNCHANGED <<ord, trade, legs, memo, faults>>

(* The stop is placed, or an answer to the same request is returned; it is
   recorded as a leg, and the exposure has no closing order any more.      *)
Rearm ==
    /\ RearmReturns
    /\ RearmDue
    /\ \E o \in RearmIds :
          LET outcome == SubmitOrder(o, shown)
          IN  /\ ord' = OrdAfter(outcome, o, shown)
              /\ memo' = MemoAfter(outcome, o, shown)
              /\ IF outcome \in Answered
                 THEN /\ legs' = [legs EXCEPT ![o] = "live"]
                      /\ trade' = [trade EXCEPT !.closing = NoOrder, !.rearms = Attempt(o) + 1]
                 ELSE UNCHANGED <<trade, legs>>
    /\ UNCHANGED faults

(* The stop reaches the broker but not the book, or its request fails.     *)
RearmUnrecorded ==
    /\ RearmReturns
    /\ RearmDue
    /\ \E o \in RearmIds :
          /\ SubmitOrder(o, shown) = "new"
          /\ \/ Fault("state") /\ ord' = Placed(o, shown) /\ memo' = MemoAfter("new", o, shown)
             \/ Fault("submit") /\ ord' \in {ord, Placed(o, shown)}
                                /\ memo' = [memo EXCEPT ![o].qty = shown]
    /\ UNCHANGED <<trade, legs>>

-----------------------------------------------------------------------------
(* _flatten_all_impl().                                                    *)

(* A paused trader only looks after the force-flat window.                 *)
PausedForceFlat ==
    /\ CycleStarts
    /\ paused
    /\ clock = "flat"
    /\ shown > 0
    /\ call' = [NoCall EXCEPT !.reason = "before_close"]
    /\ pc' = "begin"
    /\ UNCHANGED <<broker, durable, snap, asked, job, memo, startup, clock, faults>>

(* Without live legs on the book every working order is canceled at once.  *)
FlattenBegins ==
    /\ pc = "begin"
    /\ call' = [call EXCEPT !.listed = LiveLegs,
                            !.swept = (LiveLegs = {}),
                            !.stripped = (Recorded # {} /\ LiveLegs = {})]
    /\ ord' = IF LiveLegs = {} THEN RequestCancel(Orders) ELSE ord
    /\ pc' = "poll"
    /\ UNCHANGED <<held, shown, durable, snap, asked, job, memo, startup, clock, faults>>

PollPositions ==
    /\ pc = "poll"
    /\ shown >= 0
    /\ snap' = shown
    /\ pc' = "polled"
    /\ UNCHANGED <<broker, durable, asked, job, call, memo, startup, clock, faults>>

(* No position: sweep once, then confirm by a reconcile when nothing works. *)
PollFlat ==
    /\ pc = "polled"
    /\ snap = 0
    /\ ord' = IF call.swept THEN ord ELSE RequestCancel(Orders)
    /\ call' = [call EXCEPT !.swept = TRUE, !.confirming = (WorkingOrders = {})]
    /\ pc' = "reconcile"
    /\ UNCHANGED <<held, shown, durable, snap, asked, job, memo, startup, clock, faults>>

(* Mutant: a close of this call that died is waited for as well.           *)
LeaveToLaterPollOnce ==
    \/ call.failed
    \/ /\ call.prior # NoOrder
       /\ rows[call.prior].status # "not_found"
    \/ /\ call.prior = NoOrder
       /\ trade.closing \in WorkingOrders \ Recorded
    \/ /\ ExitFills(call.tried) > 0
       /\ Qty - ExitFills(call.tried) # snap

(* Reasons to leave the position to a later poll: its submit failed in this
   call, a close of this call is live or filled, another exit is working, or
   the fills of its exits and the snapshot disagree.                       *)
LeaveToLaterPoll ==
    \/ call.failed
    \/ /\ call.prior # NoOrder
       /\ rows[call.prior].status \notin {"canceled", "not_found"}
    \/ /\ call.prior = NoOrder
       /\ trade.closing \in WorkingOrders \ Recorded
    \/ /\ ExitFills(call.tried) > 0
       /\ Qty - ExitFills(call.tried) # snap

PollHeld ==
    LET owned == call.listed \cup LiveLegs \cup (Recorded \cap WorkingOrders)
    IN  /\ pc = "polled"
        /\ snap > 0
        /\ IF LeaveToLaterPoll
           THEN /\ pc' = "reconcile"
                /\ UNCHANGED <<ord, asked, call>>
           ELSE /\ call' = [call EXCEPT !.stripped = @ \/ Recorded # {}]
                /\ asked' = owned
                /\ ord' = RequestCancel(owned)
                /\ pc' = IF owned = {} THEN "submit" ELSE "cancelling"
        /\ UNCHANGED <<held, shown, durable, snap, job, memo, startup, clock, faults>>

(* After the last poll, or after a reconcile that failed or confirmed.  An
   exposure this call stripped gets its stop back if nothing is working.   *)
FlattenEnds ==
    LET flat == shown = 0 /\ WorkingOrders = {}
    IN  /\ pc = "end"
        /\ IF call.stripped /\ ~call.confirming /\ shown > 0 /\ WorkingOrders = {}
           THEN /\ pc' = "rearm"
                /\ UNCHANGED <<paused, snap, asked, job, call, memo, startup>>
           ELSE Finish(~call.error /\ (call.confirming \/ flat))
        /\ UNCHANGED <<broker, trade, legs, rows, journal, clock, faults>>

FlattenReturns ==
    /\ pc = "return"
    /\ Finish(FALSE)
    /\ UNCHANGED <<broker, trade, legs, rows, journal, clock, faults>>

-----------------------------------------------------------------------------
(* The process dies between any two steps, and is started again unless the
   operator pause keeps it down.                                           *)

Crash ==
    /\ pc # "down"
    /\ Fault("crash")
    /\ Stops
    /\ UNCHANGED <<broker, durable, clock>>

Restart ==
    /\ pc = "down"
    /\ ~paused
    /\ pc' = "idle"
    /\ UNCHANGED <<broker, durable, snap, asked, job, call, memo, startup, clock, faults>>

Engine ==
    \/ SnapPositions \/ Reconcile \/ MonitorDecides \/ ConfirmCancel
    \/ SubmitClose \/ RecordClose \/ Rearm \/ RearmSkipped
    \/ PausedForceFlat \/ FlattenBegins \/ PollPositions \/ PollFlat \/ PollHeld
    \/ FlattenEnds \/ FlattenReturns \/ Restart

EngineFaults ==
    \/ ReconcileFails \/ ConfirmCancelFails \/ SubmitFails
    \/ JournalCloseFails \/ BindCloseFails \/ RearmUnrecorded \/ Crash

Next ==
    \/ Engine
    \/ EngineFaults
    \/ \E o \in Orders : OrderDies(o) \/ BrokerCancels(o)
    \/ \E o \in Orders, k \in 1 .. Qty : Fill(o, k)
    \/ PositionsSettle
    \/ DeadlineDue
    \/ WindowOpens

Spec == Init /\ [][Next]_vars

(* The engine keeps running its cycle and is restarted; the broker carries
   out cancels, market orders fill and the position endpoint catches up.
   Nothing makes a stop or target fill, a deadline fall due or a fault
   happen.                                                                 *)
MarketFill == \E o \in Closes \cup Flattens, k \in 1 .. Qty : Fill(o, k)
Cancels    == \E o \in Orders : BrokerCancels(o)

FairSpec ==
    /\ Spec
    /\ WF_vars(Engine)
    /\ WF_vars(MarketFill)
    /\ WF_vars(Cancels)
    /\ WF_vars(PositionsSettle)

-----------------------------------------------------------------------------
(* Properties.                                                             *)

(* The exits other than the bracket never rest for more than is held, so no
   interleaving of fills, cancels and retries turns a close or a re-armed
   stop into a short position ("A second close would either be refused for
   reserved quantity or overfill into a reversal", _flatten_all_impl).     *)
Outstanding == Left(ord, WorkingOrders \ Bracket)

NeverOversold == Outstanding <= held

(* A trade leaves the runtime state only when the position is gone and the
   journal accounts for every share of it ("there is no interleaving that
   books one without the other", reconcile()).                             *)
BookedInFull == ~trade.active => held = 0 /\ Shares(journal) = Qty

(* An attempt number of an exit that did not complete is bound to another
   quantity than the one that is left.                                     *)
IdSpent ==
    \E o \in Closes \cup Flattens :
        ord[o].status \notin Working /\ {memo[o].qty, ord[o].qty} \ {0, held} # {}

Naked  == held > 0 /\ WorkingOrders = {}
Parked == paused \/ pc = "down"

(* A position without a working order gets a stop or a close again, however
   its orders died, unless the operator pause has parked the trader or the
   id of the next close is spent.                                          *)
StopComesBack == Naked ~> (~Naked \/ Parked \/ IdSpent)

(* A position that one recorded exit took off the book is booked and its
   trade ends (reconcile()).                                               *)
Known  == {o \in Orders : rows[o].status # "none" \/ o = trade.closing}
Wholly == \E o \in Known : ord[o].filled = Qty

EveryKnownExitBooked == (held = 0 /\ Wholly) ~> (~trade.active \/ Parked)

(* Once the force-flat window is open the position goes, paused or not,
   unless the process is down or the id of the next close is spent
   (_not_ready_force_flat: "it must never carry exposure past the session
   close").                                                                *)
FlatByTheClose == (clock = "flat") ~> (held <= 0 \/ pc = "down" \/ IdSpent)
=============================================================================
