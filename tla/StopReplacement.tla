---------------------------- MODULE StopReplacement ----------------------------
(***************************************************************************)
(* How the trader tightens the stop of a filled bracket                    *)
(* (agent/execution_lifecycle.py): completed bars move the stop of a rule  *)
(* to break-even or along a trail, the intent is written, the broker       *)
(* replaces the order by a successor, and the successor is written as the  *)
(* leg of the trade. A request may fail after the broker took it, a leg    *)
(* may fill before it, the listing may lag the successor, and the process  *)
(* may die between any two writes; reconcile() recovers from the chain.    *)
(* A peer, a second trade, shares the monitor's pass and its last write.   *)
(*                                                                         *)
(* Abstractions: one long position, bought at Entry, whose legs fill at    *)
(* once; prices are ticks. reconcile() reads and commits in one step, and  *)
(* the close of an unprotected position is one step: ExitLifecycle has     *)
(* theirs. Deadlines, gaps between bars and the entry bar are left out.    *)
(***************************************************************************)
EXTENDS Integers, Sequences

CONSTANTS
  Entry, FirstStop, Target,  \* prices of the bracket
  Rules,     \* rules: trigger of break-even and trailing distance, 0 for none
  Bars,      \* completed bars that may come: records of low, high and close
  MaxBars,   \* bound: bars of the session
  MaxUnseen, \* bound: bars one pass may find
  MaxFaults  \* bound: deaths and failed requests

ASSUME GeometryAssumption ==
  /\ {Entry, FirstStop, Target} \subseteq Nat /\ FirstStop < Entry /\ Entry < Target
  /\ \A r \in Rules : r.trigger \in Nat /\ r.trail \in Nat
  /\ \A b \in Bars : {b.low, b.high, b.close} \subseteq Nat /\ b.low <= b.close /\ b.close <= b.high
ASSUME BoundAssumption == {MaxBars, MaxUnseen, MaxFaults} \subseteq Nat

\* The chain of stops: each successor replaces the one before it.
Stops == 0..MaxBars

VARIABLES
  held,     \* broker: the position is there
  stops,    \* broker: the chain of stop orders
  target,   \* broker: the target leg
  listed,   \* broker: the stops its listing shows
  peerHeld, \* broker: the peer's position is there
  rule,     \* the exit rule of the trade
  bars,     \* market data: the completed bars the written row has not seen
  came,     \* market data: how many bars there have been
  row,      \* runtime state: the row of active_trades
  peerRow,  \* runtime state: the peer has a row
  pc,       \* where the engine is
  copy,     \* the monitor's copy of the row
  copyPeer, \* the monitor's copy of the peer's row
  changed,  \* the monitor has something to write
  applied,  \* unseen bars this pass has applied to the copy
  want,     \* the stop price it is about to request, 0 for none
  retry,    \* the request repeats a pending one
  faults
broker == <<held, stops, target, listed, peerHeld>>
volatile == <<pc, copy, copyPeer, changed, applied, want, retry>>
market == <<rule, bars, came>>
vars == <<broker, market, row, peerRow, volatile, faults>>

NotPending == [old |-> 0, price |-> 0]

Init ==
  /\ held = TRUE /\ target = "working" /\ listed = {0} /\ peerHeld = TRUE
  /\ stops = [k \in Stops |-> IF k = 0 THEN [status |-> "working", price |-> FirstStop]
                              ELSE [status |-> "none", price |-> 0]]
  /\ rule \in Rules /\ bars = <<>> /\ came = 0
  /\ row = [in |-> TRUE, stop |-> FirstStop, leg |-> 0, legSeen |-> "working",
            targetSeen |-> "working", closing |-> FALSE, pending |-> NotPending,
            armed |-> FALSE, exited |-> FALSE]
  /\ peerRow = TRUE
  /\ pc = "idle" /\ copy = row /\ copyPeer = TRUE /\ changed = FALSE
  /\ applied = 0 /\ want = 0 /\ retry = FALSE /\ faults = 0

-----------------------------------------------------------------------------
\* The broker and the market.

NewBar ==
  /\ row.in /\ came < MaxBars /\ Len(bars) < MaxUnseen /\ came' = came + 1
  /\ \E b \in Bars : bars' = Append(bars, b)
  /\ UNCHANGED <<broker, rule, row, peerRow, volatile, faults>>

\* A leg fills and cancels the other.
StopFills(k) ==
  /\ stops[k].status = "working"
  /\ stops' = [stops EXCEPT ![k].status = "filled"] /\ target' = "canceled" /\ held' = FALSE
  /\ UNCHANGED <<listed, peerHeld, market, row, peerRow, volatile, faults>>
TargetFills ==
  /\ target = "working" /\ target' = "filled" /\ held' = FALSE
  /\ stops' = [k \in Stops |-> IF stops[k].status = "working"
                               THEN [stops[k] EXCEPT !.status = "canceled"] ELSE stops[k]]
  /\ UNCHANGED <<listed, peerHeld, market, row, peerRow, volatile, faults>>

\* The listing catches up with a successor.
Lists ==
  /\ \E k \in Stops : stops[k].status # "none" /\ k \notin listed /\ listed' = listed \cup {k}
  /\ UNCHANGED <<held, stops, target, peerHeld, market, row, peerRow, volatile, faults>>

PeerExits ==
  /\ peerHeld /\ peerHeld' = FALSE
  /\ UNCHANGED <<held, stops, target, listed, market, row, peerRow, volatile, faults>>

-----------------------------------------------------------------------------
\* What one completed bar does to the exit of a row (contracts/rule.py).

Lowest(a, b) == IF a < b THEN a ELSE b

\* A mutant: the trail follows the close down as well.
TightenedBothWays(r, bar) ==
  LET breaks == rule.trigger # 0 /\ ~r.armed /\ bar.close >= rule.trigger
      base == IF breaks THEN Entry ELSE r.stop
      trail == Lowest(bar.close - rule.trail, Target - 1)
      trails == rule.trail # 0 /\ trail # base
  IN [stop |-> IF trails THEN trail ELSE base, armed |-> r.armed \/ breaks,
      moved |-> base # r.stop \/ trails]
\* Break-even is armed once, by a close at its trigger; the trail follows the
\* close upwards, below the target.
Tightened(r, bar) ==
  LET breaks == rule.trigger # 0 /\ ~r.armed /\ bar.close >= rule.trigger
      base == IF breaks THEN Entry ELSE r.stop
      trail == Lowest(bar.close - rule.trail, Target - 1)
      trails == rule.trail # 0 /\ trail > base
  IN [stop |-> IF trails THEN trail ELSE base, armed |-> r.armed \/ breaks,
      moved |-> base # r.stop \/ trails]

\* The exits win over the stop's next price, which counts from the next bar on.
IsExit(r, bar) == bar.low <= r.stop \/ bar.high >= Target

-----------------------------------------------------------------------------
\* reconcile().

Pending(r) == r.pending # NotPending
Attached(r, k, price) ==
  [r EXCEPT !.leg = k, !.legSeen = "working", !.stop = price, !.pending = NotPending]

\* A pending request is recovered from its predecessor: the successor the broker
\* names must be listed and rest at the requested price.
Replaced(r) == Pending(r) /\ stops[r.pending.old].status = "replaced"
Successor(r) == r.pending.old + 1
Unrecoverable ==
  /\ row.in /\ Replaced(row)
  /\ Successor(row) \notin listed \/ stops[Successor(row)].price # row.pending.price
\* A mutant: the successor is adopted with the price the row had.
RecoveredOldPrice(r) == IF Replaced(r) THEN Attached(r, Successor(r), r.stop) ELSE r
Recovered(r) == IF Replaced(r) THEN Attached(r, Successor(r), r.pending.price) ELSE r

Refreshed(r) ==
  LET leg == IF r.leg \in listed THEN stops[r.leg].status ELSE "not_found"
  IN [r EXCEPT !.legSeen = leg, !.targetSeen = target,
               !.closing = @ \/ leg = "filled" \/ target = "filled"]

\* A trade whose position is gone and whose exit is known ends.
Reconciled ==
  LET r == Refreshed(Recovered(row))
  IN /\ row' = IF row.in THEN [r EXCEPT !.in = held \/ ~r.closing] ELSE row
     /\ peerRow' = (peerRow /\ peerHeld)

\* The reconcile that opens a cycle; the monitor goes on from what it wrote.
Reconcile ==
  /\ pc = "idle" /\ ~Unrecoverable
  /\ Reconciled
  /\ copy' = row' /\ copyPeer' = peerRow' /\ changed' = FALSE
  /\ pc' = IF row'.in /\ held THEN "monitor" ELSE "end"
  /\ UNCHANGED <<broker, market, applied, want, retry, faults>>

-----------------------------------------------------------------------------
\* _monitor_positions().

BrokerProtected(r) == r.legSeen = "working" /\ r.targetSeen = "working"

\* A pending request comes first.
RetryPending ==
  /\ pc = "monitor" /\ BrokerProtected(copy) /\ Pending(copy)
  /\ want' = copy.pending.price /\ retry' = TRUE /\ pc' = "mark"
  /\ UNCHANGED <<broker, market, row, peerRow, copy, copyPeer, changed, applied, faults>>

Evaluating ==
  \/ pc = "monitor" /\ BrokerProtected(copy) /\ ~Pending(copy)
  \/ pc = "bars"
\* The unseen bars, one after another.
ApplyBar ==
  /\ Evaluating /\ applied < Len(bars) /\ ~IsExit(copy, bars[applied + 1])
  /\ LET next == Tightened(copy, bars[applied + 1])
     IN /\ copy' = [copy EXCEPT !.stop = next.stop, !.armed = next.armed]
        /\ want' = IF next.moved THEN next.stop ELSE want
  /\ applied' = applied + 1 /\ pc' = "bars"
  /\ UNCHANGED <<broker, market, row, peerRow, copyPeer, changed, retry, faults>>
\* An exit ends the evaluation; under live legs it is only noted, and no stop is
\* requested in its pass.
NoteExit ==
  /\ Evaluating /\ applied < Len(bars) /\ IsExit(copy, bars[applied + 1])
  /\ copy' = [copy EXCEPT !.exited = TRUE]
  /\ applied' = applied + 1 /\ changed' = TRUE /\ want' = 0 /\ pc' = "end"
  /\ UNCHANGED <<broker, market, row, peerRow, copyPeer, retry, faults>>
\* A stop that moved is requested; until it is attached the copy keeps the price
\* that rests.
BarsDone ==
  /\ Evaluating /\ applied = Len(bars)
  /\ copy' = IF want = 0 THEN copy ELSE [copy EXCEPT !.stop = row.stop]
  /\ changed' = (changed \/ (want = 0 /\ applied > 0))
  /\ pc' = IF want = 0 THEN "end" ELSE "mark"
  /\ UNCHANGED <<broker, market, row, peerRow, copyPeer, applied, want, retry, faults>>

\* A leg that is not live at the broker: the legs are canceled and the position
\* is closed.
CloseUnprotected ==
  /\ pc = "monitor" /\ ~BrokerProtected(copy) /\ held
  /\ held' = FALSE /\ target' = "canceled"
  /\ stops' = [k \in Stops |-> IF stops[k].status = "working"
                               THEN [stops[k] EXCEPT !.status = "canceled"] ELSE stops[k]]
  /\ row' = [row EXCEPT !.closing = TRUE] /\ copy' = [copy EXCEPT !.closing = TRUE]
  /\ changed' = TRUE /\ pc' = "end"
  /\ UNCHANGED <<listed, peerHeld, market, peerRow, copyPeer, applied, want, retry, faults>>
\* The broker has nothing left to close.
CloseFails ==
  /\ pc = "monitor" /\ ~BrokerProtected(copy) /\ ~held
  /\ pc' = "end"
  /\ UNCHANGED <<broker, market, row, peerRow, copy, copyPeer, changed, applied, want, retry,
                 faults>>

Unseen == SubSeq(bars, applied + 1, Len(bars))
Intent == [old |-> copy.leg, price |-> want]
\* A mutant: the intent is kept in memory only.
MarkPendingInMemory ==
  /\ pc = "mark" /\ pc' = "replace"
  /\ copy' = [copy EXCEPT !.pending = Intent]
  /\ UNCHANGED <<broker, market, row, peerRow, copyPeer, changed, applied, want, retry, faults>>
\* The intent is written before the request, with the bars it comes from.
MarkPending ==
  /\ pc = "mark" /\ pc' = "replace"
  /\ copy' = [copy EXCEPT !.pending = Intent]
  /\ row' = IF row.in THEN [row EXCEPT !.pending = Intent, !.armed = copy.armed] ELSE row
  /\ bars' = Unseen /\ applied' = 0
  /\ UNCHANGED <<broker, rule, came, peerRow, copyPeer, changed, want, retry, faults>>

\* The broker replaces a working stop, and may list the successor later.
Place ==
  /\ stops[copy.leg].status = "working"
  /\ stops' = [stops EXCEPT ![copy.leg].status = "replaced",
                            ![copy.leg + 1] = [status |-> "working", price |-> want]]
  /\ listed' \in {listed, listed \cup {copy.leg + 1}}
ReplaceStop ==
  /\ pc = "replace" /\ Place /\ pc' = "attach"
  /\ UNCHANGED <<held, target, peerHeld, market, row, peerRow, copy, copyPeer, changed, applied,
                 want, retry, faults>>
ReplaceRefused ==
  /\ pc = "replace" /\ stops[copy.leg].status # "working" /\ pc' = "failed"
  /\ UNCHANGED <<broker, market, row, peerRow, copy, copyPeer, changed, applied, want, retry,
                 faults>>
\* The request fails, before or after the broker took it.
ReplaceFails ==
  /\ pc = "replace" /\ faults < MaxFaults /\ faults' = faults + 1
  /\ Place \/ UNCHANGED <<stops, listed>>
  /\ pc' = "failed"
  /\ UNCHANGED <<held, target, peerHeld, market, row, peerRow, copy, copyPeer, changed, applied,
                 want, retry>>
\* The successor becomes the leg; a repeated request goes on to the bars.
AttachStop ==
  /\ pc = "attach"
  /\ row' = IF row.in THEN Attached(row, copy.leg + 1, want) ELSE row
  /\ copy' = IF row.in THEN row' ELSE copy
  /\ changed' = (changed \/ ~retry)
  /\ pc' = IF retry THEN "bars" ELSE "end"
  /\ want' = 0 /\ retry' = FALSE
  /\ UNCHANGED <<broker, market, peerRow, copyPeer, applied, faults>>
\* After a failed request the state is reconciled, if it can be, and the copy of
\* the row is read again; the copy of the peer is not.
ReconcileAgain ==
  /\ pc = "failed" /\ pc' = "end"
  /\ IF Unrecoverable THEN UNCHANGED <<row, peerRow>> ELSE Reconciled
  /\ copy' = IF row'.in THEN row' ELSE copy
  /\ want' = 0 /\ retry' = FALSE
  /\ UNCHANGED <<broker, market, copyPeer, changed, applied, faults>>

Forgotten ==
  /\ pc' = "idle" /\ copy' = row' /\ copyPeer' = peerRow' /\ changed' = FALSE
  /\ applied' = 0 /\ want' = 0 /\ retry' = FALSE
\* The pass ends with a write of every copy, when anything changed in it; the
\* peer may have had a bar of its own.
EndOfPass ==
  /\ pc = "end"
  /\ \E peerBar \in {FALSE, copyPeer} :
       IF changed \/ peerBar THEN row' = copy /\ peerRow' = copyPeer /\ bars' = Unseen
       ELSE UNCHANGED <<row, peerRow, bars>>
  /\ Forgotten
  /\ UNCHANGED <<broker, rule, came, faults>>

\* The process dies and is started again.
Crash ==
  /\ pc # "idle" /\ faults < MaxFaults /\ faults' = faults + 1
  /\ UNCHANGED <<broker, market, row, peerRow>> /\ Forgotten

Engine ==
  \/ Reconcile \/ RetryPending \/ ApplyBar \/ NoteExit \/ BarsDone
  \/ CloseUnprotected \/ CloseFails \/ MarkPending \/ ReplaceStop
  \/ ReplaceRefused \/ AttachStop \/ ReconcileAgain \/ EndOfPass
Next ==
  \/ NewBar \/ (\E k \in Stops : StopFills(k)) \/ TargetFills \/ Lists \/ PeerExits
  \/ Engine \/ ReplaceFails \/ Crash

\* The engine repeats its cycle and the broker's listing catches up.
Spec == Init /\ [][Next]_vars
FairSpec == Spec /\ WF_vars(Engine) /\ WF_vars(Lists)

-----------------------------------------------------------------------------
\* Properties.

TypeOK ==
  /\ {held, peerHeld, peerRow, copyPeer, changed, retry} \subseteq BOOLEAN
  /\ stops \in [Stops -> [status : {"none", "working", "replaced", "filled", "canceled"},
                          price : 0..Target]]
  /\ target \in {"working", "filled", "canceled"} /\ listed \subseteq Stops
  /\ row.stop \in FirstStop..Target /\ row.leg \in Stops /\ applied \in 0..MaxUnseen
  /\ copy.stop \in FirstStop..Target /\ copy.leg \in Stops /\ want \in 0..Target
  /\ pc \in {"idle", "monitor", "mark", "replace", "attach", "failed", "bars", "end"}

\* A successor never rests below the stop it replaces, through retries, recovered
\* requests and both ways a rule tightens ("Ratchets are monotone",
\* completed_bar_exit_transition).
StopNeverLoosens ==
  [][\A k \in Stops \ {0} :
       stops[k].status = "none" /\ stops'[k].status # "none" =>
         stops'[k].price >= stops[k - 1].price]_vars

\* Between any two writes, the stop that rests at the broker is the leg of the
\* row, at the row's price, or the row holds the request that leads to it. The
\* exception is a row that has noted an exit under live legs.
RestingStopIsKnown ==
  \A k \in Stops : row.in /\ stops[k].status = "working" =>
    \/ Pending(row) /\ k = row.pending.old
    \/ Pending(row) /\ k = Successor(row) /\ stops[k].price = row.pending.price
    \/ ~Pending(row) /\ k = row.leg /\ (row.exited \/ stops[k].price = row.stop)

\* A request is settled, and a trade whose position is gone ends and stays
\* ended, also when the pass that booked it writes an older copy of it.
RequestSettles == Pending(row) ~> (~Pending(row) \/ ~row.in)
TradesEnd == <>[]((held \/ ~row.in) /\ (peerHeld \/ ~peerRow))
TradesSettle == RequestSettles /\ TradesEnd
=============================================================================
