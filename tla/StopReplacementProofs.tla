------------------------ MODULE StopReplacementProofs ------------------------
(***************************************************************************)
(* Proofs about StopReplacement for every bracket, rule, bar and bound.    *)
(*                                                                         *)
(* What rests at the broker is on record only because of where the engine  *)
(* stands: IInv says how the monitor's copy relates to the written row in  *)
(* each phase, that the stops form one chain with its only working order   *)
(* at the end, and that a request never asks for less than what rests. The *)
(* last is not obvious for a rule that both breaks even and trails: arming *)
(* sets the price back to the entry, and only because an unarmed trail     *)
(* stayed below the trigger does the same bar carry it up again.           *)
(***************************************************************************)
EXTENDS StopReplacement, TLAPS

StatusOf == {"none", "working", "replaced", "filled", "canceled"}
SeenOf == StatusOf \cup {"not_found"}
RowType == [in : BOOLEAN, stop : FirstStop..Target, leg : Stops, legSeen : SeenOf,
            targetSeen : SeenOf, closing : BOOLEAN, pending : [old : Stops, price : 0..Target],
            armed : BOOLEAN, exited : BOOLEAN]

\* The bars the written row has seen.
Consumed == came - Len(bars)

BrokerType ==
  /\ held \in BOOLEAN /\ peerHeld \in BOOLEAN
  /\ stops \in [Stops -> [status : StatusOf, price : 0..Target]]
  /\ target \in {"working", "filled", "canceled"} /\ listed \subseteq Stops
MarketType ==
  /\ rule \in Rules /\ bars \in Seq(Bars) /\ came \in 0..MaxBars
  /\ Len(bars) <= came /\ Len(bars) <= MaxUnseen
RowsType ==
  row \in RowType /\ copy \in RowType /\ peerRow \in BOOLEAN /\ copyPeer \in BOOLEAN
FlagsType ==
  changed \in BOOLEAN /\ retry \in BOOLEAN
EngineType ==
  /\ applied \in 0..Len(bars) /\ want \in 0..Target
  /\ pc \in {"idle", "monitor", "mark", "replace", "attach", "failed", "bars", "end"}
TypeInv == BrokerType /\ MarketType /\ RowsType /\ FlagsType /\ EngineType

\* Each successor has cost a bar of its own, and a request names the leg it
\* replaces.
Counted(r) ==
  /\ r.leg <= Consumed
  /\ Pending(r) => r.pending.old = r.leg /\ r.leg + 1 <= Consumed
CountInv ==
  /\ Counted(row) /\ Counted(copy)
  /\ \A k \in Stops : stops[k].status # "none" => k <= Consumed

\* The phases of a pass, and what the copy and the request are in each.
PhaseInv ==
  /\ pc \in {"idle", "monitor"} => applied = 0 /\ want = 0 /\ ~retry
  /\ pc = "bars" =>
       ~retry /\ ~Pending(copy) /\ (want # 0 => applied > 0 /\ want = copy.stop)
  /\ pc = "mark" =>
       /\ want > 0
       /\ IF retry THEN Pending(copy) /\ want = copy.pending.price
          ELSE ~Pending(copy) /\ copy.leg + 1 <= Consumed + applied
  /\ pc \in {"replace", "attach", "failed"} => Pending(copy) /\ want = copy.pending.price
  /\ pc = "attach" => stops[copy.leg].status = "replaced"

\* As long as the trade has its row, the copy is the row but for what this pass
\* has evaluated of it.
CopyInv ==
  /\ pc \notin {"idle", "end"} => row.in
  /\ row.in /\ pc # "idle" =>
       /\ copy.in /\ copy.leg = row.leg /\ copy.pending = row.pending
       /\ (row.exited => copy.exited) /\ (row.armed => copy.armed)
  /\ pc \in {"monitor", "mark", "replace", "attach", "failed"} => copy.stop = row.stop
  /\ pc \in {"monitor", "replace", "attach", "failed"} => copy.armed = row.armed
  /\ pc = "mark" => want >= row.stop
  /\ pc = "bars" => copy.stop >= row.stop /\ (want = 0 => copy.stop = row.stop)
  /\ row.in /\ pc = "end" =>
       copy.stop = row.stop \/ (copy.exited /\ ~Pending(copy) /\ copy.stop >= row.stop)

\* An unarmed rule has not trailed up to its trigger.
Below(armed, price) ==
  rule.trigger # 0 /\ ~armed /\ price > FirstStop =>
    rule.trail # 0 /\ price + rule.trail < rule.trigger
Bounded(r) ==
  /\ r.stop < Target /\ Below(r.armed, r.stop)
  /\ Pending(r) => /\ r.stop <= r.pending.price /\ r.pending.price < Target
                   /\ r.pending.price > 0 /\ Below(r.armed, r.pending.price)
PriceInv ==
  /\ Bounded(row) /\ Bounded(copy)
  /\ pc \in {"bars", "mark"} /\ want # 0 => want < Target /\ Below(copy.armed, want)

\* One chain: everything below a working stop was replaced, nothing is above it.
ChainInv ==
  /\ \A j, k \in Stops : stops[k].status = "working" =>
       /\ j < k => stops[j].status = "replaced"
       /\ j > k => stops[j].status = "none"
  /\ \A k \in Stops : stops[k].status = "working" => held

\* The leg on record never claims less than what rests.
LegInv == row.in /\ stops[row.leg].status = "working" => stops[row.leg].price <= row.stop

RowKept == held => row.in

IInv ==
  /\ TypeInv /\ CountInv /\ PhaseInv /\ CopyInv /\ PriceInv /\ ChainInv
  /\ LegInv /\ RowKept /\ RestingStopIsKnown

-----------------------------------------------------------------------------
\* Lemmas about the operators of the model.

\* What is left of the bars when some of them have been applied (Unseen).
LEMMA UnseenBars ==
  ASSUME bars \in Seq(Bars), applied \in 0..Len(bars)
  PROVE  Unseen \in Seq(Bars) /\ Len(Unseen) = Len(bars) - applied
<1>1. Len(bars) \in Nat
  OBVIOUS
<1>2. \A i \in applied + 1 .. Len(bars) : bars[i] \in Bars
  OBVIOUS
<1> QED
  BY <1>1, <1>2 DEF Unseen

\* One completed bar never lowers a stop, keeps it below the target, and leaves
\* it below the trigger as long as the rule is not armed (Tightened).
LEMMA Tightening ==
  ASSUME rule \in Rules, NEW r \in RowType, NEW bar \in Bars, Bounded(r)
  PROVE  /\ Tightened(r, bar).stop \in FirstStop..Target
         /\ Tightened(r, bar).stop < Target /\ Tightened(r, bar).stop >= r.stop
         /\ Tightened(r, bar).armed \in BOOLEAN /\ (r.armed => Tightened(r, bar).armed)
         /\ Below(Tightened(r, bar).armed, Tightened(r, bar).stop)
         /\ Tightened(r, bar).moved => Tightened(r, bar).stop > 0
         /\ ~Tightened(r, bar).moved => Tightened(r, bar).stop = r.stop
<1>1. /\ rule.trigger \in Nat /\ rule.trail \in Nat /\ bar.close \in Nat
      /\ Entry \in Nat /\ FirstStop \in Nat /\ Target \in Nat
      /\ FirstStop < Entry /\ Entry < Target
  BY GeometryAssumption DEF GeometryAssumption
<1>2. r.stop \in FirstStop..Target /\ r.armed \in BOOLEAN /\ r.stop < Target
  BY DEF RowType, Bounded
<1>3. Below(r.armed, r.stop)
  BY DEF Bounded
<1> DEFINE breaks == rule.trigger # 0 /\ ~r.armed /\ bar.close >= rule.trigger
          base == IF breaks THEN Entry ELSE r.stop
          trail == Lowest(bar.close - rule.trail, Target - 1)
          trails == rule.trail # 0 /\ trail > base
          stop == IF trails THEN trail ELSE base
<1>4. base \in FirstStop..Target /\ base < Target /\ trail \in Int /\ trail < Target
  BY <1>1, <1>2 DEF Lowest
<1>5. stop \in FirstStop..Target /\ stop < Target
  BY <1>1, <1>4
<1>6. stop >= r.stop
  <2>1. CASE breaks /\ r.stop > FirstStop
    <3>1. rule.trail # 0 /\ r.stop + rule.trail < rule.trigger
      BY <2>1, <1>3 DEF Below
    <3>2. r.stop <= trail
      BY <2>1, <3>1, <1>1, <1>2 DEF Lowest
    <3> QED
      BY <3>1, <3>2, <1>2, <1>4
  <2>2. CASE breaks /\ ~(r.stop > FirstStop)
    BY <2>2, <1>1, <1>2, <1>4
  <2>3. CASE ~breaks
    BY <2>3, <1>4
  <2> QED
    BY <2>1, <2>2, <2>3
<1>7. Below(r.armed \/ breaks, stop)
  <2>1. CASE trails /\ ~breaks
    BY <2>1, <1>1 DEF Below, Lowest
  <2>2. CASE ~trails /\ ~breaks
    BY <2>2, <1>3 DEF Below
  <2>3. CASE breaks
    BY <2>3 DEF Below
  <2> QED
    BY <2>1, <2>2, <2>3
<1>8. base # r.stop \/ trails => stop > 0
  BY <1>1, <1>4
<1>9. Tightened(r, bar) = [stop |-> stop, armed |-> r.armed \/ breaks,
                            moved |-> base # r.stop \/ trails]
  BY DEF Tightened
<1>10. ~(base # r.stop \/ trails) => stop = r.stop
  OBVIOUS
<1> HIDE DEF breaks, base, trail, trails, stop
<1>11. /\ Tightened(r, bar).stop = stop
       /\ Tightened(r, bar).armed = (r.armed \/ breaks)
       /\ Tightened(r, bar).moved = (base # r.stop \/ trails)
  BY <1>9
<1>12. Below(Tightened(r, bar).armed, Tightened(r, bar).stop)
  BY <1>7, <1>11, Zenon
<1>13. (r.armed \/ breaks) \in BOOLEAN
  BY Zenon
<1>14. Tightened(r, bar).armed \in BOOLEAN /\ (r.armed => Tightened(r, bar).armed)
  BY <1>11, Zenon
<1>15. /\ Tightened(r, bar).moved => Tightened(r, bar).stop > 0
       /\ ~Tightened(r, bar).moved => Tightened(r, bar).stop = r.stop
  BY <1>8, <1>10, <1>11, Zenon
<1> QED
  BY <1>5, <1>6, <1>11, <1>12, <1>15, Zenon

\* The constants are numbers.
LEMMA Constants ==
  /\ MaxBars \in Nat /\ MaxUnseen \in Nat /\ FirstStop \in Nat /\ Target \in Nat
  /\ Entry \in Nat
  /\ FirstStop < Entry /\ Entry < Target /\ 0 \in Stops
BY BoundAssumption, GeometryAssumption DEF BoundAssumption, GeometryAssumption, Stops

\* A successor becomes the leg and settles the request (Attached).
LEMMA Attaching ==
  ASSUME NEW r \in RowType, NEW k \in Stops, NEW price \in FirstStop..Target
  PROVE  /\ Attached(r, k, price) \in RowType
         /\ Attached(r, k, price).in = r.in
         /\ Attached(r, k, price).leg = k /\ Attached(r, k, price).stop = price
         /\ Attached(r, k, price).pending = NotPending
         /\ Attached(r, k, price).armed = r.armed /\ Attached(r, k, price).exited = r.exited
<1>1. NotPending \in [old : Stops, price : 0..Target]
  BY Constants DEF NotPending
<1>2. "working" \in SeenOf
  BY DEF SeenOf, StatusOf
<1> QED
  BY <1>1, <1>2 DEF Attached, RowType

\* What a reconciliation writes to the row: a recovered request becomes the leg,
\* everything else of the stop stays as it was (Recovered, Refreshed).
LEMMA RowAfterReconcile ==
  ASSUME BrokerType, MarketType, RowsType, Counted(row), Bounded(row), Reconciled
  PROVE  /\ row' \in RowType /\ row'.armed = row.armed /\ row'.exited = row.exited
         /\ (row'.in => row.in) /\ (held /\ row.in => row'.in)
         /\ row.in /\ Replaced(row) =>
              /\ row'.leg = Successor(row) /\ row'.stop = row.pending.price
              /\ row'.pending = NotPending
         /\ ~(row.in /\ Replaced(row)) =>
              row'.leg = row.leg /\ row'.stop = row.stop /\ row'.pending = row.pending
<1>1. CASE ~row.in
  BY <1>1 DEF Reconciled, RowsType
<1>2. CASE row.in
  <2> DEFINE r == Recovered(row)
  <2>1. MaxBars \in Nat /\ came \in Nat /\ Len(bars) \in Nat /\ FirstStop \in Nat
    BY Constants DEF MarketType
  <2>2. row \in RowType /\ came <= MaxBars
    BY <2>1 DEF RowsType, MarketType
  <2>3. r \in RowType
    <3>1. CASE Replaced(row)
      <4>1. Successor(row) \in Stops
        BY <3>1, <2>1, <2>2 DEF Counted, Consumed, Replaced, Successor, Stops, RowType
      <4>2. row.pending.price \in FirstStop..Target
        BY <3>1, <2>1, <2>2 DEF Bounded, Replaced, RowType
      <4> QED
        BY <4>1, <4>2, <2>2, Attaching DEF Recovered
    <3>2. CASE ~Replaced(row)
      BY <3>2, <2>2 DEF Recovered
    <3> QED
      BY <3>1, <3>2
  <2>4. /\ r.armed = row.armed /\ r.exited = row.exited /\ r.in = row.in
        /\ Replaced(row) =>
              r.leg = Successor(row) /\ r.stop = row.pending.price /\ r.pending = NotPending
        /\ ~Replaced(row) =>
              r.leg = row.leg /\ r.stop = row.stop /\ r.pending = row.pending
    BY <2>2 DEF Recovered, Attached, RowType
  <2> DEFINE leg == IF r.leg \in listed THEN stops[r.leg].status ELSE "not_found"
             seen == [r EXCEPT !.legSeen = leg, !.targetSeen = target,
                               !.closing = @ \/ leg = "filled" \/ target = "filled"]
  <2>5. leg \in SeenOf /\ target \in SeenOf
    BY DEF BrokerType, SeenOf, StatusOf
  <2>6. row' = [seen EXCEPT !.in = held \/ ~seen.closing]
    BY <1>2 DEF Reconciled, Refreshed
  <2>7. /\ seen \in RowType
        /\ seen.armed = r.armed /\ seen.exited = r.exited
        /\ seen.leg = r.leg /\ seen.stop = r.stop /\ seen.pending = r.pending
    <3> HIDE DEF r, leg
    <3> QED
      BY <2>3, <2>5 DEF RowType
  <2> HIDE DEF seen
  <2>8. /\ row' \in RowType /\ row'.armed = seen.armed /\ row'.exited = seen.exited
        /\ row'.leg = seen.leg /\ row'.stop = seen.stop /\ row'.pending = seen.pending
        /\ row'.in = (held \/ ~seen.closing)
    BY <2>6, <2>7 DEF RowType, BrokerType
  <2> HIDE DEF r
  <2> QED
    BY <1>2, <2>4, <2>7, <2>8, Zenon
<1> QED
  BY <1>1, <1>2

\* A successor is placed in the place after the leg and nowhere else (Place).
LEMMA Placing ==
  ASSUME BrokerType, MarketType, RowsType, EngineType, Counted(copy), Pending(copy), Place
  PROVE  /\ copy.leg \in Stops /\ copy.leg + 1 \in Stops
         /\ stops' \in [Stops -> [status : StatusOf, price : 0..Target]]
         /\ listed' \subseteq Stops
         /\ stops[copy.leg].status = "working"
         /\ stops'[copy.leg].status = "replaced"
         /\ stops'[copy.leg].price = stops[copy.leg].price
         /\ stops'[copy.leg + 1] = [status |-> "working", price |-> want]
         /\ stops'[copy.leg + 1].status = "working" /\ stops'[copy.leg + 1].price = want
         /\ \A k \in Stops \ {copy.leg, copy.leg + 1} : stops'[k] = stops[k]
<1>1. copy.leg \in Stops /\ copy.leg + 1 \in Stops
  BY Constants DEF RowsType, MarketType, RowType, Counted, Consumed, Stops
<1>2. copy.leg # copy.leg + 1 /\ want \in 0..Target
  BY <1>1 DEF Stops, EngineType
<1>3. /\ stops' = [stops EXCEPT ![copy.leg].status = "replaced",
                                ![copy.leg + 1] = [status |-> "working", price |-> want]]
      /\ stops \in [Stops -> [status : StatusOf, price : 0..Target]]
      /\ stops[copy.leg].status = "working" /\ listed \subseteq Stops
      /\ listed' \in {listed, listed \cup {copy.leg + 1}}
  BY DEF Place, BrokerType
<1>4. /\ "replaced" \in StatusOf /\ "working" \in StatusOf
  BY DEF StatusOf
<1> QED
  BY <1>1, <1>2, <1>3, <1>4

\* A successor extends the chain (Place).
LEMMA Extending ==
  ASSUME ChainInv, copy.leg \in Stops, copy.leg + 1 \in Stops,
         stops[copy.leg].status = "working",
         stops'[copy.leg].status = "replaced", held' = held,
         \A k \in Stops \ {copy.leg, copy.leg + 1} : stops'[k] = stops[k]
  PROVE  ChainInv'
<1>1. held
  BY DEF ChainInv
<1>2. \A k \in Stops : k < copy.leg => stops[k].status = "replaced"
  BY DEF ChainInv
<1>3. \A k \in Stops : k > copy.leg => stops[k].status = "none"
  BY DEF ChainInv
<1>4. \A k \in Stops : k < copy.leg + 1 => stops'[k].status = "replaced"
  BY <1>2, Constants DEF Stops
<1>5. \A k \in Stops : k > copy.leg + 1 => stops'[k].status = "none"
  BY <1>3, Constants DEF Stops
<1>6. \A k \in Stops : stops'[k].status = "working" => k = copy.leg + 1
  BY <1>4, <1>5 DEF Stops
<1> QED
  BY <1>4, <1>5 DEF ChainInv

\* What a part of the invariant does not mention may change without it.
LEMMA Frames ==
  /\ BrokerType /\ UNCHANGED <<held, peerHeld, stops, target, listed>> => BrokerType'
  /\ MarketType /\ UNCHANGED <<rule, bars, came>> => MarketType'
  /\ RowsType /\ UNCHANGED <<row, copy, peerRow, copyPeer>> => RowsType'
  /\ FlagsType /\ UNCHANGED <<changed, retry>> => FlagsType'
  /\ EngineType /\ UNCHANGED <<Len(bars), applied, want, pc>> => EngineType'
  /\ CountInv /\ UNCHANGED <<row, copy, stops, Consumed>> => CountInv'
  /\ PhaseInv /\ UNCHANGED <<pc, applied, want, retry, copy, stops, Consumed>> => PhaseInv'
  /\ CopyInv /\ UNCHANGED <<pc, row, copy, want>> => CopyInv'
  /\ PriceInv /\ UNCHANGED <<row, copy, rule, pc, want>> => PriceInv'
  /\ ChainInv /\ UNCHANGED <<stops, held>> => ChainInv'
  /\ LegInv /\ UNCHANGED <<row, stops>> => LegInv'
  /\ RowKept /\ UNCHANGED <<held, row>> => RowKept'
  /\ RestingStopIsKnown /\ UNCHANGED <<row, stops>> => RestingStopIsKnown'
BY DEF BrokerType, MarketType, RowsType, FlagsType, EngineType, CountInv, PhaseInv, CopyInv,
   PriceInv, ChainInv, LegInv, RowKept, RestingStopIsKnown, Counted, Bounded, Below

-----------------------------------------------------------------------------
\* The invariant is inductive.

\* The engine starts idle, with the first stop of the bracket at the broker and
\* on record.
LEMMA Initially == Init => IInv
<1> SUFFICES ASSUME Init PROVE IInv
  OBVIOUS
<1>1. row \in RowType /\ copy = row
  BY Constants DEF Init, RowType, SeenOf, StatusOf, NotPending
<1>2. BrokerType /\ MarketType /\ RowsType
  BY <1>1, Constants DEF Init, BrokerType, MarketType, RowsType, StatusOf
<1>3. FlagsType
  BY DEF Init, FlagsType
<1>4. EngineType
  BY Constants DEF Init, EngineType
<1>5. CountInv
  BY DEF Init, CountInv, Counted, Consumed, Pending
<1>6. PhaseInv /\ CopyInv
  BY DEF Init, PhaseInv, CopyInv
<1>7. PriceInv /\ LegInv
  BY Constants DEF Init, PriceInv, Bounded, Below, LegInv, Pending
<1>8. ChainInv /\ RowKept /\ RestingStopIsKnown
  BY DEF Init, ChainInv, RowKept, RestingStopIsKnown, Pending, Stops
<1> QED
  BY <1>2, <1>3, <1>4, <1>5, <1>6, <1>7, <1>8 DEF IInv, TypeInv

\* Every step keeps it.
LEMMA Inductive == IInv /\ [Next]_vars => IInv'
<1> SUFFICES ASSUME BrokerType, MarketType, RowsType, FlagsType, EngineType, CountInv, PhaseInv,
                    CopyInv, PriceInv, ChainInv, LegInv, RowKept, RestingStopIsKnown,
                    [Next]_vars
             PROVE  IInv'
  BY DEF IInv, TypeInv
<1> USE Constants DEF broker, market, volatile
<1>0. Len(bars) \in Nat /\ came \in Nat /\ applied \in Nat /\ Consumed \in Int
  BY DEF MarketType, EngineType, Consumed
<1>1. CASE NewBar
  <2>1. bars' \in Seq(Bars) /\ Len(bars') = Len(bars) + 1 /\ Len(bars) \in Nat
    BY <1>1 DEF NewBar, MarketType
  <2>2. Consumed' = Consumed
    BY <1>1, <2>1 DEF NewBar, Consumed, MarketType
  <2>3. /\ BrokerType' /\ RowsType' /\ FlagsType' /\ CopyInv' /\ PriceInv' /\ ChainInv'
        /\ LegInv' /\ RowKept' /\ RestingStopIsKnown'
    BY <1>1, Frames DEF NewBar
  <2>4. MarketType'
    BY <1>1 DEF NewBar, MarketType
  <2>5. EngineType'
    BY <1>1 DEF NewBar, EngineType
  <2>6. CountInv'
    BY <1>1, <2>2, Frames DEF NewBar
  <2>7. PhaseInv'
    BY <1>1, <2>2, Frames DEF NewBar
  <2> QED
    BY <2>3, <2>4, <2>5, <2>6, <2>7 DEF IInv, TypeInv
<1>2. ASSUME NEW k \in Stops, StopFills(k) PROVE IInv'
  <2>1. /\ stops' \in [Stops -> [status : StatusOf, price : 0..Target]]
        /\ \A j \in Stops : /\ stops'[j].status # "working"
                            /\ stops'[j].status = "none" <=> stops[j].status = "none"
                            /\ stops[j].status = "replaced" => stops'[j].status = "replaced"
    <3>1. stops \in [Stops -> [status : StatusOf, price : 0..Target]]
      BY DEF BrokerType
    <3>2. stops[k].status = "working" /\ stops' = [stops EXCEPT ![k].status = "filled"]
      BY <1>2 DEF StopFills
    <3>3. \A j \in Stops : j # k => stops[j].status # "working"
      BY <3>2 DEF ChainInv, Stops
    <3>4. "filled" \in StatusOf
      BY DEF StatusOf
    <3> QED
      BY <3>1, <3>2, <3>3, <3>4
  <2>2. MarketType' /\ RowsType' /\ FlagsType' /\ EngineType' /\ CopyInv' /\ PriceInv'
    BY <1>2, Frames DEF StopFills, Consumed
  <2>3. BrokerType'
    BY <1>2, <2>1 DEF StopFills, BrokerType
  <2>4. CountInv'
    BY <1>2 DEF StopFills, CountInv, Counted, Consumed
  <2>5. PhaseInv'
    <3>1. copy.leg \in Stops
      BY DEF RowsType, RowType
    <3>2. UNCHANGED <<pc, applied, want, retry, copy, Consumed>>
      BY <1>2 DEF StopFills, Consumed
    <3> QED
      BY <2>1, <3>1, <3>2 DEF PhaseInv
  <2>6. ChainInv'
    BY <2>1 DEF ChainInv
  <2>7. LegInv'
    BY <1>2, <2>1 DEF StopFills, LegInv
  <2>8. RowKept'
    BY <1>2, <2>1 DEF StopFills, RowKept
  <2>9. RestingStopIsKnown'
    BY <2>1 DEF RestingStopIsKnown, Pending, Successor
  <2> QED
    BY <2>2, <2>3, <2>4, <2>5, <2>6, <2>7, <2>8, <2>9 DEF IInv, TypeInv
<1>3. CASE TargetFills
  <2>1. /\ stops' \in [Stops -> [status : StatusOf, price : 0..Target]]
        /\ \A j \in Stops : /\ stops'[j].status # "working"
                            /\ stops'[j].status = "none" <=> stops[j].status = "none"
                            /\ stops[j].status = "replaced" => stops'[j].status = "replaced"
    <3>1. stops \in [Stops -> [status : StatusOf, price : 0..Target]]
      BY DEF BrokerType
    <3>2. stops' = [k \in Stops |-> IF stops[k].status = "working"
                                   THEN [stops[k] EXCEPT !.status = "canceled"] ELSE stops[k]]
      BY <1>3 DEF TargetFills
    <3>3. "canceled" \in StatusOf
      BY DEF StatusOf
    <3> QED
      BY <3>1, <3>2, <3>3
  <2>2. MarketType' /\ RowsType' /\ FlagsType' /\ EngineType' /\ CopyInv' /\ PriceInv'
    BY <1>3, Frames DEF TargetFills, Consumed
  <2>3. BrokerType'
    BY <1>3, <2>1 DEF TargetFills, BrokerType
  <2>4. CountInv'
    BY <1>3 DEF TargetFills, CountInv, Counted, Consumed
  <2>5. PhaseInv'
    <3>1. copy.leg \in Stops
      BY DEF RowsType, RowType
    <3>2. UNCHANGED <<pc, applied, want, retry, copy, Consumed>>
      BY <1>3 DEF TargetFills, Consumed
    <3> QED
      BY <2>1, <3>1, <3>2 DEF PhaseInv
  <2>6. ChainInv'
    BY <2>1 DEF ChainInv
  <2>7. LegInv'
    BY <1>3 DEF TargetFills, LegInv, RowsType, RowType
  <2>8. RowKept'
    BY <1>3, <2>1 DEF TargetFills, RowKept
  <2>9. RestingStopIsKnown'
    BY <2>1 DEF RestingStopIsKnown, Pending, Successor
  <2> QED
    BY <2>2, <2>3, <2>4, <2>5, <2>6, <2>7, <2>8, <2>9 DEF IInv, TypeInv
<1>4. CASE Lists
  <2>1. /\ MarketType' /\ RowsType' /\ FlagsType' /\ EngineType' /\ CountInv' /\ PhaseInv'
        /\ CopyInv' /\ PriceInv' /\ ChainInv' /\ LegInv' /\ RowKept'
        /\ RestingStopIsKnown'
    BY <1>4, Frames DEF Lists, Consumed
  <2>2. BrokerType'
    BY <1>4 DEF Lists, BrokerType
  <2> QED
    BY <2>1, <2>2 DEF IInv, TypeInv
<1>5. CASE PeerExits
  <2>1. /\ MarketType' /\ RowsType' /\ FlagsType' /\ EngineType' /\ CountInv' /\ PhaseInv'
        /\ CopyInv' /\ PriceInv' /\ ChainInv' /\ LegInv' /\ RowKept'
        /\ RestingStopIsKnown'
    BY <1>5, Frames DEF PeerExits, Consumed
  <2>2. BrokerType'
    BY <1>5 DEF PeerExits, BrokerType
  <2> QED
    BY <2>1, <2>2 DEF IInv, TypeInv
<1>6. CASE Reconcile
  <2>1. /\ row' \in RowType /\ row'.armed = row.armed /\ row'.exited = row.exited
        /\ (row'.in => row.in) /\ (held /\ row.in => row'.in) /\ peerRow' \in BOOLEAN
        /\ \/ row'.leg = row.leg /\ row'.stop = row.stop /\ row'.pending = row.pending
           \/ /\ row.in /\ Pending(row) /\ stops[row.pending.old].status = "replaced"
              /\ stops[row.pending.old + 1].price = row.pending.price
              /\ row'.leg = row.pending.old + 1 /\ row'.stop = row.pending.price
              /\ row'.pending = NotPending
    BY <1>6, RowAfterReconcile
    DEF Reconcile, Reconciled, Unrecoverable, Replaced, Successor, CountInv, PriceInv
  <2>2. /\ copy' = row' /\ copyPeer' = peerRow' /\ pc' \in {"monitor", "end"}
        /\ (pc' = "monitor" => row'.in)
    BY <1>6 DEF Reconcile
  <2>3. /\ pc = "idle" /\ applied = 0 /\ want = 0 /\ ~retry
        /\ UNCHANGED <<broker, market, applied, want, retry>>
    BY <1>6 DEF Reconcile, PhaseInv, FlagsType
  <2>4. BrokerType' /\ MarketType' /\ ChainInv'
    BY <1>6, Frames DEF Reconcile, Consumed
  <2>5. RowsType'
    BY <2>1, <2>2 DEF RowsType
  <2>6. FlagsType'
    BY <1>6 DEF Reconcile, FlagsType
  <2>7. EngineType'
    BY <2>2, <2>3 DEF EngineType
  <2>8. CountInv'
    BY <2>1, <2>2, <2>3 DEF CountInv, Counted, Pending, Consumed
  <2>9. PhaseInv'
    BY <2>2, <2>3 DEF PhaseInv
  <2>10. CopyInv'
    BY <2>2 DEF CopyInv
  <2>11. PriceInv'
    BY <2>1, <2>2, <2>3 DEF PriceInv, Bounded, Pending, Below
  <2>12. LegInv'
    BY <2>1, <2>3 DEF LegInv, RowType
  <2>13. RowKept'
    BY <2>1, <2>3 DEF RowKept
  <2>14. RestingStopIsKnown'
    BY <2>1, <2>3 DEF RestingStopIsKnown, Pending, Successor
  <2> QED
    BY <2>4, <2>5, <2>6, <2>7, <2>8, <2>9, <2>10, <2>11, <2>12, <2>13, <2>14
    DEF IInv, TypeInv
<1>7. CASE RetryPending
  <2>1. /\ pc = "monitor" /\ pc' = "mark" /\ Pending(copy) /\ want' = copy.pending.price
        /\ retry' = TRUE
        /\ row.in /\ applied = 0
        /\ UNCHANGED <<broker, market, row, peerRow, copy, copyPeer, applied>>
    BY <1>7 DEF RetryPending, CopyInv, PhaseInv
  <2>2. want' \in 0..Target /\ want' > 0 /\ want' >= row.stop /\ want' < Target
    BY <2>1 DEF CopyInv, PriceInv, Bounded, RowsType, RowType
  <2>3. /\ BrokerType' /\ MarketType' /\ RowsType' /\ CountInv' /\ ChainInv' /\ LegInv'
        /\ RowKept' /\ RestingStopIsKnown'
    BY <1>7, Frames DEF RetryPending, Consumed
  <2>4. FlagsType'
    BY <1>7 DEF RetryPending, FlagsType
  <2>5. EngineType'
    BY <2>1, <2>2 DEF EngineType
  <2>6. PhaseInv'
    BY <2>1, <2>2 DEF PhaseInv, Pending
  <2>7. CopyInv'
    BY <2>1, <2>2 DEF CopyInv, Pending
  <2>8. PriceInv'
    BY <2>1 DEF PriceInv, Bounded, Below
  <2> QED
    BY <2>3, <2>4, <2>5, <2>6, <2>7, <2>8 DEF IInv, TypeInv
<1>8. CASE ApplyBar
  <2>1. /\ applied + 1 \in 1..Len(bars) /\ ~Pending(copy) /\ ~retry /\ row.in
        /\ pc \in {"monitor", "bars"}
        /\ applied' = applied + 1 /\ pc' = "bars"
        /\ UNCHANGED <<broker, market, row, peerRow, copyPeer, changed, retry>>
    BY <1>8 DEF ApplyBar, Evaluating, PhaseInv, CopyInv, EngineType
  <2>2. bars[applied + 1] \in Bars /\ copy \in RowType /\ Bounded(copy) /\ rule \in Rules
    BY <2>1 DEF MarketType, RowsType, PriceInv
  <2>3. /\ copy' \in RowType /\ copy'.stop \in FirstStop..Target /\ copy'.stop < Target
        /\ copy'.stop >= copy.stop /\ copy'.armed \in BOOLEAN /\ (copy.armed => copy'.armed)
        /\ Below(copy'.armed, copy'.stop)
        /\ \/ want' = copy'.stop /\ copy'.stop > 0
           \/ want' = want /\ copy'.stop = copy.stop
        /\ copy'.in = copy.in /\ copy'.leg = copy.leg /\ copy'.pending = copy.pending
        /\ copy'.exited = copy.exited
    BY <1>8, <2>2, Tightening DEF ApplyBar, RowType
  <2>4. /\ BrokerType' /\ MarketType' /\ FlagsType' /\ ChainInv' /\ LegInv' /\ RowKept'
        /\ RestingStopIsKnown'
    BY <1>8, Frames DEF ApplyBar, Evaluating, Consumed
  <2>5. RowsType'
    BY <2>1, <2>3 DEF RowsType
  <2>6. EngineType'
    BY <2>1, <2>3 DEF EngineType
  <2>7. CountInv'
    BY <2>1, <2>3 DEF CountInv, Counted, Pending, Consumed
  <2>8. PhaseInv'
    BY <2>1, <2>3 DEF PhaseInv, Pending
  <2>9. CopyInv'
    BY <2>1, <2>3 DEF CopyInv, RowsType, RowType
  <2>10. PriceInv'
    BY <2>1, <2>3 DEF PriceInv, Bounded, Pending, Below, PhaseInv
  <2> QED
    BY <2>4, <2>5, <2>6, <2>7, <2>8, <2>9, <2>10 DEF IInv, TypeInv
<1>9. CASE NoteExit
  <2>1. /\ applied + 1 \in 1..Len(bars) /\ ~Pending(copy) /\ row.in
        /\ pc \in {"monitor", "bars"}
        /\ applied' = applied + 1 /\ want' = 0 /\ pc' = "end" /\ changed' = TRUE
        /\ UNCHANGED <<broker, market, row, peerRow, copyPeer, retry>>
    BY <1>9 DEF NoteExit, Evaluating, PhaseInv, CopyInv, EngineType
  <2>2. /\ copy' \in RowType /\ copy'.exited
        /\ copy'.in = copy.in /\ copy'.leg = copy.leg /\ copy'.pending = copy.pending
        /\ copy'.stop = copy.stop /\ copy'.armed = copy.armed
    BY <1>9 DEF NoteExit, RowsType, RowType
  <2>3. /\ BrokerType' /\ MarketType' /\ ChainInv' /\ LegInv' /\ RowKept'
        /\ RestingStopIsKnown'
    BY <1>9, Frames DEF NoteExit, Evaluating, Consumed
  <2>4. RowsType'
    BY <2>1, <2>2 DEF RowsType
  <2>5. FlagsType'
    BY <2>1, <2>2 DEF FlagsType
  <2>6. EngineType'
    BY <2>1, <2>2 DEF EngineType
  <2>7. CountInv'
    BY <2>1, <2>2 DEF CountInv, Counted, Pending, Consumed
  <2>8. PhaseInv'
    BY <2>1, <2>2 DEF PhaseInv, Pending
  <2>9. CopyInv'
    BY <2>1, <2>2 DEF CopyInv, Pending
  <2>10. PriceInv'
    BY <2>1, <2>2 DEF PriceInv, Bounded, Pending, Below
  <2> QED
    BY <2>3, <2>4, <2>5, <2>6, <2>7, <2>8, <2>9, <2>10 DEF IInv, TypeInv
<1>10. CASE BarsDone
  <2>1. /\ applied = Len(bars) /\ ~Pending(copy) /\ ~retry /\ row.in
        /\ pc \in {"monitor", "bars"}
        /\ pc' = (IF want = 0 THEN "end" ELSE "mark")
        /\ UNCHANGED <<broker, market, row, peerRow, copyPeer, applied, want, retry>>
    BY <1>10 DEF BarsDone, Evaluating, PhaseInv, CopyInv
  <2>2. /\ copy' \in RowType /\ copy'.stop = (IF want = 0 THEN copy.stop ELSE row.stop)
        /\ copy'.in = copy.in /\ copy'.leg = copy.leg /\ copy'.pending = copy.pending
        /\ copy'.armed = copy.armed /\ copy'.exited = copy.exited
    BY <1>10 DEF BarsDone, RowsType, RowType
  <2>3. want # 0 => want > 0 /\ want >= row.stop /\ copy.leg + 1 <= Consumed + applied
    <3>1. want # 0 => applied > 0 /\ want = copy.stop /\ copy.stop >= row.stop
      BY <2>1 DEF PhaseInv, CopyInv
    <3>2. /\ applied \in Nat /\ want \in Nat /\ Consumed \in Int /\ copy.leg \in Nat
          /\ copy.leg <= Consumed
      BY DEF EngineType, MarketType, RowsType, RowType, Stops, CountInv, Counted, Consumed
    <3> QED
      BY <3>1, <3>2
  <2>4. /\ BrokerType' /\ MarketType' /\ ChainInv' /\ LegInv' /\ RowKept'
        /\ RestingStopIsKnown'
    BY <1>10, Frames DEF BarsDone, Evaluating, Consumed
  <2>5. RowsType'
    BY <2>1, <2>2 DEF RowsType
  <2>6. FlagsType'
    BY <1>10 DEF BarsDone, FlagsType
  <2>7. EngineType'
    BY <2>1 DEF EngineType
  <2>8. CountInv'
    BY <2>1, <2>2 DEF CountInv, Counted, Pending, Consumed
  <2>9. PhaseInv'
    <3>1. Consumed' = Consumed
      BY <2>1 DEF Consumed
    <3> QED
      BY <2>1, <2>2, <2>3, <3>1 DEF PhaseInv, Pending
  <2>10. CopyInv'
    BY <2>1, <2>2, <2>3 DEF CopyInv
  <2>11. PriceInv'
    BY <2>1, <2>2 DEF PriceInv, Bounded, Pending, Below, PhaseInv, CopyInv
  <2> QED
    BY <2>4, <2>5, <2>6, <2>7, <2>8, <2>9, <2>10, <2>11 DEF IInv, TypeInv
<1>11. CASE CloseUnprotected
  <2>1. /\ stops' \in [Stops -> [status : StatusOf, price : 0..Target]]
        /\ \A j \in Stops : /\ stops'[j].status # "working"
                            /\ stops'[j].status = "none" <=> stops[j].status = "none"
                            /\ stops[j].status = "replaced" => stops'[j].status = "replaced"
    <3>1. stops \in [Stops -> [status : StatusOf, price : 0..Target]]
      BY DEF BrokerType
    <3>2. stops' = [k \in Stops |-> IF stops[k].status = "working"
                                   THEN [stops[k] EXCEPT !.status = "canceled"] ELSE stops[k]]
      BY <1>11 DEF CloseUnprotected
    <3>3. "canceled" \in StatusOf
      BY DEF StatusOf
    <3> QED
      BY <3>1, <3>2, <3>3
  <2>2. /\ row' \in RowType /\ row'.in = row.in /\ row'.leg = row.leg
        /\ row'.pending = row.pending
        /\ row'.stop = row.stop /\ row'.armed = row.armed /\ row'.exited = row.exited
    BY <1>11 DEF CloseUnprotected, RowsType, RowType
  <2>3. /\ copy' \in RowType /\ copy'.in = copy.in /\ copy'.leg = copy.leg
        /\ copy'.pending = copy.pending
        /\ copy'.stop = copy.stop /\ copy'.armed = copy.armed /\ copy'.exited = copy.exited
    BY <1>11 DEF CloseUnprotected, RowsType, RowType
  <2>4. /\ pc = "monitor" /\ pc' = "end" /\ held' = FALSE /\ target' = "canceled"
        /\ changed' = TRUE
        /\ UNCHANGED <<listed, peerHeld, market, peerRow, copyPeer, applied, want, retry>>
    BY <1>11 DEF CloseUnprotected
  <2>5. MarketType'
    BY <1>11, Frames DEF CloseUnprotected, Consumed
  <2>6. BrokerType'
    BY <2>1, <2>4 DEF BrokerType
  <2>7. RowsType'
    BY <2>2, <2>3, <2>4 DEF RowsType
  <2>8. FlagsType'
    BY <2>4 DEF FlagsType
  <2>9. EngineType'
    BY <2>4 DEF EngineType
  <2>10. CountInv'
    BY <2>1, <2>2, <2>3, <2>4 DEF CountInv, Counted, Pending, Consumed
  <2>11. PhaseInv'
    BY <2>4 DEF PhaseInv
  <2>12. CopyInv'
    BY <2>2, <2>3, <2>4 DEF CopyInv
  <2>13. PriceInv'
    BY <2>2, <2>3, <2>4 DEF PriceInv, Bounded, Pending, Below
  <2>14. ChainInv'
    BY <2>1 DEF ChainInv
  <2>15. LegInv'
    BY <2>1, <2>2 DEF LegInv, RowType
  <2>16. RowKept'
    BY <2>4 DEF RowKept
  <2>17. RestingStopIsKnown'
    BY <2>1 DEF RestingStopIsKnown
  <2> QED
    BY <2>5, <2>6, <2>7, <2>8, <2>9, <2>10, <2>11, <2>12, <2>13, <2>14, <2>15, <2>16, <2>17
    DEF IInv, TypeInv
<1>12. CASE CloseFails
  <2>1. /\ pc = "monitor" /\ pc' = "end"
        /\ UNCHANGED <<broker, market, row, peerRow, copy, copyPeer, changed, applied,
                       want, retry>>
    BY <1>12 DEF CloseFails
  <2>2. /\ BrokerType' /\ MarketType' /\ RowsType' /\ FlagsType' /\ CountInv' /\ ChainInv'
        /\ LegInv' /\ RowKept' /\ RestingStopIsKnown'
    BY <1>12, Frames DEF CloseFails, Consumed
  <2>3. EngineType'
    BY <2>1 DEF EngineType
  <2>4. PhaseInv'
    BY <2>1 DEF PhaseInv, Pending
  <2>5. CopyInv'
    BY <2>1 DEF CopyInv, Pending
  <2>6. PriceInv'
    BY <2>1 DEF PriceInv, Bounded, Below
  <2> QED
    BY <2>2, <2>3, <2>4, <2>5, <2>6 DEF IInv, TypeInv
<1>13. CASE MarkPending
  <2>1. /\ pc = "mark" /\ pc' = "replace" /\ applied' = 0 /\ row.in /\ want > 0
        /\ row' = [row EXCEPT !.pending = Intent, !.armed = copy.armed]
        /\ copy' = [copy EXCEPT !.pending = Intent] /\ bars' = Unseen
        /\ UNCHANGED <<broker, rule, came, peerRow, copyPeer, changed, want, retry>>
    BY <1>13 DEF MarkPending, CopyInv, PhaseInv
  <2>2. /\ Intent \in [old : Stops, price : 0..Target]
        /\ Intent.old = copy.leg /\ Intent.price = want /\ Intent # NotPending
    BY <2>1 DEF Intent, NotPending, EngineType, RowsType, RowType
  <2>3. /\ row' \in RowType /\ row'.pending = Intent /\ row'.armed = copy.armed
        /\ row'.in = row.in /\ row'.leg = row.leg /\ row'.stop = row.stop
        /\ row'.exited = row.exited
    BY <2>1, <2>2 DEF RowsType, RowType
  <2>4. /\ copy' \in RowType /\ copy'.pending = Intent /\ copy'.armed = copy.armed
        /\ copy'.in = copy.in /\ copy'.leg = copy.leg /\ copy'.stop = copy.stop
        /\ copy'.exited = copy.exited
    BY <2>1, <2>2 DEF RowsType, RowType
  <2>5. bars' \in Seq(Bars) /\ Len(bars') = Len(bars) - applied /\ Len(bars) \in Nat
    BY <2>1, UnseenBars DEF MarketType, EngineType
  <2>6. Consumed' = Consumed + applied /\ copy.leg + 1 <= Consumed'
    <3>1. Consumed' = Consumed + applied
      BY <2>1, <2>5 DEF Consumed, MarketType, EngineType
    <3>2. copy.leg + 1 <= Consumed + applied
      <4>1. CASE retry
        <5>1. copy.leg + 1 <= Consumed
          BY <2>1, <4>1 DEF PhaseInv, CountInv, Counted
        <5>2. copy.leg \in Nat
          BY DEF RowsType, RowType, Stops
        <5> QED
          BY <5>1, <5>2, <1>0
      <4>2. CASE ~retry
        BY <2>1, <4>2 DEF PhaseInv
      <4> QED
        BY <4>1, <4>2
    <3> QED
      BY <3>1, <3>2
  <2>7. BrokerType' /\ FlagsType' /\ ChainInv'
    BY <1>13, Frames DEF MarkPending, Consumed
  <2>8. MarketType'
    BY <1>0, <2>1, <2>5 DEF MarketType
  <2>9. RowsType'
    BY <2>1, <2>3, <2>4 DEF RowsType
  <2>10. EngineType'
    BY <2>1 DEF EngineType
  <2>11. CountInv'
    <3>1. row.leg \in Nat /\ copy.leg \in Nat /\ Stops \subseteq Nat
      BY DEF RowsType, RowType, Stops
    <3>2. row.leg = copy.leg /\ UNCHANGED stops /\ Consumed <= Consumed'
      BY <2>1, <2>6, <1>0 DEF CopyInv
    <3>3. row'.leg <= Consumed' /\ copy'.leg <= Consumed'
      BY <2>3, <2>4, <2>6, <3>1, <3>2
    <3>4. row'.pending.old = row'.leg /\ row'.leg + 1 <= Consumed'
      BY <2>2, <2>3, <2>6, <3>2
    <3>5. copy'.pending.old = copy'.leg /\ copy'.leg + 1 <= Consumed'
      BY <2>2, <2>4, <2>6
    <3>6. \A k \in Stops : stops'[k].status # "none" => k <= Consumed'
      BY <3>2, <1>0, <2>6 DEF CountInv, Stops
    <3> QED
      BY <3>3, <3>4, <3>5, <3>6 DEF CountInv, Counted
  <2>12. PhaseInv'
    BY <2>1, <2>2 DEF PhaseInv, Pending
  <2>13. CopyInv'
    BY <2>1 DEF CopyInv
  <2>14. PriceInv'
    BY <2>1, <2>2 DEF PriceInv, Bounded, Below, CopyInv
  <2>15. LegInv'
    BY <2>1 DEF LegInv
  <2>16. RowKept'
    BY <2>1 DEF RowKept
  <2>17. RestingStopIsKnown'
    BY <2>1, <2>2
    DEF RestingStopIsKnown, Pending, Successor, CopyInv, PhaseInv, CountInv, Counted
  <2> QED
    BY <2>7, <2>8, <2>9, <2>10, <2>11, <2>12, <2>13, <2>14, <2>15, <2>16, <2>17
    DEF IInv, TypeInv
<1>14. CASE ReplaceStop
  <2>1. copy.leg \in Stops /\ copy.leg + 1 \in Stops
    <3>1. Len(bars) \in Nat /\ came \in Nat /\ came <= MaxBars /\ copy.leg \in Nat
      BY DEF MarketType, RowsType, RowType, Stops
    <3>2. Pending(copy)
      BY <1>14 DEF ReplaceStop, PhaseInv
    <3> QED
      BY <3>1, <3>2 DEF CountInv, Counted, Consumed, Stops
  <2>2. /\ stops' \in [Stops -> [status : StatusOf, price : 0..Target]]
        /\ listed' \subseteq Stops
        /\ stops[copy.leg].status = "working" /\ stops'[copy.leg].status = "replaced"
        /\ stops'[copy.leg + 1].status = "working" /\ stops'[copy.leg + 1].price = want
        /\ \A k \in Stops \ {copy.leg, copy.leg + 1} : stops'[k] = stops[k]
    BY <1>14, Placing DEF ReplaceStop, CountInv, PhaseInv
  <2>3. /\ pc = "replace" /\ pc' = "attach" /\ Pending(copy) /\ want = copy.pending.price
        /\ row.in
        /\ UNCHANGED <<held, target, peerHeld, market, row, peerRow, copy, copyPeer,
                       changed, applied, want, retry>>
    BY <1>14 DEF ReplaceStop, PhaseInv, CopyInv
  <2>4. MarketType' /\ RowsType' /\ FlagsType' /\ RowKept'
    BY <1>14, Frames DEF ReplaceStop, Consumed
  <2>5. BrokerType'
    BY <2>2, <2>3 DEF BrokerType
  <2>6. EngineType'
    BY <2>3 DEF EngineType
  <2>7. CountInv'
    BY <2>2, <2>3 DEF CountInv, Counted, Consumed
  <2>8. PhaseInv'
    BY <2>2, <2>3 DEF PhaseInv
  <2>9. CopyInv'
    BY <2>3 DEF CopyInv
  <2>10. PriceInv'
    BY <2>3 DEF PriceInv, Bounded, Below
  <2>11. ChainInv'
    BY <2>1, <2>2, <2>3, Extending
  <2>12. LegInv'
    BY <2>2, <2>3 DEF LegInv, CopyInv
  <2>13. RestingStopIsKnown'
    BY <2>2, <2>3 DEF RestingStopIsKnown, Pending, Successor, CopyInv, CountInv, Counted
  <2> QED
    BY <2>4, <2>5, <2>6, <2>7, <2>8, <2>9, <2>10, <2>11, <2>12, <2>13 DEF IInv, TypeInv
<1>15. CASE ReplaceRefused
  <2>1. /\ pc = "replace" /\ pc' = "failed"
        /\ UNCHANGED <<broker, market, row, peerRow, copy, copyPeer, changed, applied,
                       want, retry>>
    BY <1>15 DEF ReplaceRefused
  <2>2. /\ BrokerType' /\ MarketType' /\ RowsType' /\ FlagsType' /\ CountInv' /\ ChainInv'
        /\ LegInv' /\ RowKept' /\ RestingStopIsKnown'
    BY <1>15, Frames DEF ReplaceRefused, Consumed
  <2>3. EngineType'
    BY <2>1 DEF EngineType
  <2>4. PhaseInv'
    BY <2>1 DEF PhaseInv, Pending
  <2>5. CopyInv'
    BY <2>1 DEF CopyInv, Pending
  <2>6. PriceInv'
    BY <2>1 DEF PriceInv, Bounded, Below
  <2> QED
    BY <2>2, <2>3, <2>4, <2>5, <2>6 DEF IInv, TypeInv
<1>16. CASE AttachStop
  <2>1. /\ pc = "attach" /\ row.in /\ Pending(copy) /\ want = copy.pending.price
        /\ pc' \in {"bars", "end"} /\ want' = 0 /\ retry' = FALSE /\ copy' = row'
        /\ row' = Attached(row, copy.leg + 1, want)
        /\ UNCHANGED <<broker, market, peerRow, copyPeer, applied>>
    BY <1>16 DEF AttachStop, PhaseInv, CopyInv
  <2>2. copy.leg \in Stops /\ copy.leg + 1 \in Stops
    <3>1. Len(bars) \in Nat /\ came \in Nat /\ came <= MaxBars /\ copy.leg \in Nat
      BY DEF MarketType, RowsType, RowType, Stops
    <3>2. Pending(copy)
      BY <1>16 DEF AttachStop, PhaseInv
    <3> QED
      BY <3>1, <3>2 DEF CountInv, Counted, Consumed, Stops
  <2>3. want \in FirstStop..Target /\ want < Target /\ row.stop <= want
    <3>1. copy.stop = row.stop /\ copy.stop <= want /\ want < Target
      BY <2>1 DEF CopyInv, PriceInv, Bounded
    <3>2. row.stop \in FirstStop..Target /\ want \in Nat
      BY DEF RowsType, RowType, EngineType
    <3> QED
      BY <3>1, <3>2
  <2>4. /\ row' \in RowType /\ row'.in /\ row'.leg = copy.leg + 1 /\ row'.stop = want
        /\ row'.pending = NotPending /\ row'.armed = row.armed /\ row'.exited = row.exited
    <3>1. row \in RowType
      BY DEF RowsType
    <3>2. copy.leg + 1 \in Stops
      BY <2>2
    <3> DEFINE r == Attached(row, copy.leg + 1, want)
    <3>3. /\ r \in RowType /\ r.in = row.in /\ r.leg = copy.leg + 1 /\ r.stop = want
          /\ r.pending = NotPending /\ r.armed = row.armed /\ r.exited = row.exited
      BY <2>3, <3>1, <3>2, Attaching
    <3>4. row' = r
      BY <2>1
    <3> HIDE DEF r
    <3>5. row'.in = row.in
      BY <3>3, <3>4
    <3> QED
      BY <2>1, <3>3, <3>4
  <2>5. /\ copy.leg + 1 <= Consumed /\ copy.leg = row.leg /\ row.pending = copy.pending
        /\ Pending(row) /\ row.pending.old = copy.leg
    BY <2>1 DEF CountInv, Counted, CopyInv, Pending
  <2>6. BrokerType' /\ MarketType' /\ ChainInv'
    BY <1>16, Frames DEF AttachStop, Consumed
  <2>7. RowsType'
    BY <2>1, <2>4 DEF RowsType
  <2>8. FlagsType'
    BY <1>16 DEF AttachStop, FlagsType
  <2>9. EngineType'
    BY <2>1 DEF EngineType
  <2>10. CountInv'
    BY <2>1, <2>4 DEF CountInv, Counted, Pending, Consumed
  <2>11. PhaseInv'
    BY <2>1, <2>4 DEF PhaseInv, Pending
  <2>12. CopyInv'
    BY <2>1, <2>3, <2>4 DEF CopyInv
  <2>13. PriceInv'
    BY <2>1, <2>4, <2>5 DEF PriceInv, Bounded, Pending, Below
  <2>14. LegInv'
    BY <2>1, <2>2, <2>3, <2>4, <2>5 DEF LegInv, RestingStopIsKnown, Stops
  <2>15. RowKept'
    BY <2>4 DEF RowKept
  <2>16. RestingStopIsKnown'
    BY <2>1, <2>4, <2>5 DEF RestingStopIsKnown, Pending, Successor, PhaseInv
  <2> QED
    BY <2>6, <2>7, <2>8, <2>9, <2>10, <2>11, <2>12, <2>13, <2>14, <2>15, <2>16
    DEF IInv, TypeInv
<1>17. CASE ReconcileAgain
  <2>1. /\ row' \in RowType /\ row'.armed = row.armed /\ row'.exited = row.exited
        /\ (row'.in => row.in) /\ (held /\ row.in => row'.in) /\ peerRow' \in BOOLEAN
        /\ \/ row'.leg = row.leg /\ row'.stop = row.stop /\ row'.pending = row.pending
           \/ /\ row.in /\ Pending(row) /\ stops[row.pending.old].status = "replaced"
              /\ stops[row.pending.old + 1].price = row.pending.price
              /\ row'.leg = row.pending.old + 1 /\ row'.stop = row.pending.price
              /\ row'.pending = NotPending
    <3>1. CASE Unrecoverable
      BY <1>17, <3>1 DEF ReconcileAgain, RowsType
    <3>2. CASE ~Unrecoverable
      BY <1>17, RowAfterReconcile
      DEF ReconcileAgain, Reconciled, Unrecoverable, Replaced, Successor, CountInv,
          PriceInv, RowsType
    <3> QED
      BY <3>1, <3>2
  <2>2. /\ pc = "failed" /\ pc' = "end" /\ want' = 0 /\ retry' = FALSE /\ row.in
        /\ Pending(row)
        /\ copy' = (IF row'.in THEN row' ELSE copy)
        /\ UNCHANGED <<broker, market, copyPeer, changed, applied>>
    BY <1>17 DEF ReconcileAgain, CopyInv, PhaseInv, Pending
  <2>3. BrokerType' /\ MarketType' /\ ChainInv'
    BY <1>17, Frames DEF ReconcileAgain, Consumed
  <2>4. RowsType'
    BY <2>1, <2>2 DEF RowsType
  <2>5. FlagsType'
    BY <2>1, <2>2 DEF FlagsType
  <2>6. EngineType'
    BY <2>1, <2>2 DEF EngineType
  <2>7. CountInv'
    BY <2>1, <2>2 DEF CountInv, Counted, Pending, Consumed
  <2>8. PhaseInv'
    BY <2>1, <2>2 DEF PhaseInv, Pending
  <2>9. CopyInv'
    BY <2>1, <2>2 DEF CopyInv, Pending
  <2>10. PriceInv'
    BY <2>1, <2>2 DEF PriceInv, Bounded, Pending, Below
  <2>11. LegInv'
    BY <2>1, <2>2 DEF LegInv, RowsType, RowType
  <2>12. RowKept'
    BY <2>1, <2>2 DEF RowKept
  <2>13. RestingStopIsKnown'
    BY <2>1, <2>2 DEF RestingStopIsKnown, Pending, Successor
  <2> QED
    BY <2>3, <2>4, <2>5, <2>6, <2>7, <2>8, <2>9, <2>10, <2>11, <2>12, <2>13
    DEF IInv, TypeInv
<1>18. CASE EndOfPass
  <2>1. /\ pc = "end" /\ pc' = "idle" /\ applied' = 0 /\ want' = 0 /\ retry' = FALSE
        /\ changed' = FALSE
        /\ copy' = row' /\ copyPeer' = peerRow' /\ UNCHANGED <<broker, rule, came>>
    BY <1>18 DEF EndOfPass, Forgotten
  <2>2. /\ \/ row' = row /\ bars' = bars
           \/ row' = copy /\ bars' = Unseen
        /\ peerRow' \in BOOLEAN
    BY <1>18 DEF EndOfPass, RowsType
  <2>3. /\ row' \in RowType /\ Len(bars) \in Nat
        /\ \/ row' = row /\ bars' = bars
           \/ row' = copy /\ bars' \in Seq(Bars) /\ Len(bars') = Len(bars) - applied
    BY <2>2, UnseenBars DEF RowsType, MarketType, EngineType
  <2>4. Consumed <= Consumed' /\ Consumed' \in Int
    BY <2>1, <2>3, <1>0 DEF Consumed
  <2>5. \/ row' = row
        \/ row' = copy /\ row.in
        \/ row' = copy /\ ~row.in /\ ~held
    BY <2>3 DEF RowKept
  <2>6. BrokerType' /\ ChainInv'
    BY <1>18, Frames DEF EndOfPass, Forgotten, Consumed
  <2>7. MarketType'
    BY <1>0, <2>1, <2>3 DEF MarketType
  <2>8. RowsType'
    BY <2>1, <2>2 DEF RowsType
  <2>9. FlagsType'
    BY <2>1 DEF FlagsType
  <2>10. EngineType'
    BY <2>1 DEF EngineType
  <2>11. CountInv'
    <3>1. row.leg \in Nat /\ copy.leg \in Nat /\ Stops \subseteq Nat
      BY DEF RowsType, RowType, Stops
    <3>2. Counted(row)'
      BY <2>2, <2>4, <3>1, <1>0 DEF CountInv, Counted
    <3>3. \A k \in Stops : stops'[k].status # "none" => k <= Consumed'
      BY <2>1, <2>4, <3>1, <1>0 DEF CountInv
    <3> QED
      BY <2>1, <3>2, <3>3 DEF CountInv
  <2>12. PhaseInv'
    BY <2>1 DEF PhaseInv
  <2>13. CopyInv'
    BY <2>1 DEF CopyInv
  <2>14. PriceInv'
    BY <2>1, <2>5 DEF PriceInv, Bounded, Below
  <2>15. LegInv'
    <3>1. row.stop \in Int /\ row.leg \in Stops
      BY DEF RowsType, RowType
    <3>2. CASE row' = row
      BY <2>1, <3>2 DEF LegInv
    <3>3. CASE row' = copy /\ row.in
      <4>1. copy.leg = row.leg /\ copy.stop >= row.stop /\ copy.stop \in Int
        BY <2>1, <3>3 DEF CopyInv, RowsType, RowType
      <4>2. stops[row.leg].price \in Int
        BY <3>1 DEF BrokerType
      <4> QED
        BY <2>1, <3>1, <3>3, <4>1, <4>2 DEF LegInv
    <3>4. CASE row' = copy /\ ~held
      BY <2>1, <2>3, <3>4 DEF LegInv, ChainInv, RowType
    <3> QED
      BY <2>5, <3>2, <3>3, <3>4
  <2>16. RowKept'
    BY <2>1, <2>5 DEF RowKept, CopyInv
  <2>17. RestingStopIsKnown'
    BY <2>1, <2>5 DEF RestingStopIsKnown, Pending, Successor, CopyInv, ChainInv
  <2> QED
    BY <2>6, <2>7, <2>8, <2>9, <2>10, <2>11, <2>12, <2>13, <2>14, <2>15, <2>16, <2>17
    DEF IInv, TypeInv
<1>19. CASE ReplaceFails
  <2>1. /\ pc = "replace" /\ pc' = "failed" /\ Pending(copy) /\ want = copy.pending.price
        /\ row.in
        /\ UNCHANGED <<held, target, peerHeld, market, row, peerRow, copy, copyPeer,
                       changed, applied, want, retry>>
    BY <1>19 DEF ReplaceFails, PhaseInv, CopyInv
  <2>2. copy.leg \in Stops /\ copy.leg + 1 \in Stops
    <3>1. Len(bars) \in Nat /\ came \in Nat /\ came <= MaxBars /\ copy.leg \in Nat
      BY DEF MarketType, RowsType, RowType, Stops
    <3>2. Pending(copy)
      BY <1>19 DEF ReplaceFails, PhaseInv
    <3> QED
      BY <3>1, <3>2 DEF CountInv, Counted, Consumed, Stops
  <2>3. \/ /\ stops' \in [Stops -> [status : StatusOf, price : 0..Target]]
           /\ listed' \subseteq Stops
           /\ stops[copy.leg].status = "working" /\ stops'[copy.leg].status = "replaced"
           /\ stops'[copy.leg + 1].status = "working" /\ stops'[copy.leg + 1].price = want
           /\ \A k \in Stops \ {copy.leg, copy.leg + 1} : stops'[k] = stops[k]
        \/ UNCHANGED <<stops, listed>>
    BY <1>19, <2>1, Placing DEF ReplaceFails, CountInv
  <2>4. MarketType' /\ RowsType' /\ FlagsType' /\ RowKept'
    BY <1>19, Frames DEF ReplaceFails, Consumed
  <2>5. BrokerType'
    BY <2>1, <2>3 DEF BrokerType
  <2>6. EngineType'
    BY <2>1 DEF EngineType
  <2>7. CountInv'
    BY <2>1, <2>3 DEF CountInv, Counted, Consumed
  <2>8. PhaseInv'
    BY <2>1 DEF PhaseInv
  <2>9. CopyInv'
    BY <2>1 DEF CopyInv
  <2>10. PriceInv'
    BY <2>1 DEF PriceInv, Bounded, Below
  <2>11. ChainInv'
    BY <2>1, <2>2, <2>3, Extending, Frames
  <2>12. LegInv'
    BY <2>1, <2>3 DEF LegInv, CopyInv
  <2>13. RestingStopIsKnown'
    BY <2>1, <2>3 DEF RestingStopIsKnown, Pending, Successor, CopyInv, CountInv, Counted
  <2> QED
    BY <2>4, <2>5, <2>6, <2>7, <2>8, <2>9, <2>10, <2>11, <2>12, <2>13 DEF IInv, TypeInv
<1>20. CASE Crash
  <2>1. /\ pc' = "idle" /\ applied' = 0 /\ want' = 0 /\ retry' = FALSE /\ changed' = FALSE
        /\ copy' = row' /\ copyPeer' = peerRow' /\ UNCHANGED <<broker, market, row, peerRow>>
    BY <1>20 DEF Crash, Forgotten
  <2>2. /\ BrokerType' /\ MarketType' /\ ChainInv' /\ LegInv' /\ RowKept'
        /\ RestingStopIsKnown'
    BY <1>20, Frames DEF Crash, Forgotten, Consumed
  <2>3. RowsType'
    BY <2>1 DEF RowsType
  <2>4. FlagsType'
    BY <2>1 DEF FlagsType
  <2>5. EngineType'
    BY <2>1 DEF EngineType
  <2>6. CountInv'
    BY <2>1 DEF CountInv, Counted, Consumed
  <2>7. PhaseInv'
    BY <2>1 DEF PhaseInv, Pending
  <2>8. CopyInv'
    BY <2>1 DEF CopyInv, Pending
  <2>9. PriceInv'
    BY <2>1 DEF PriceInv, Bounded, Below
  <2> QED
    BY <2>2, <2>3, <2>4, <2>5, <2>6, <2>7, <2>8, <2>9 DEF IInv, TypeInv
<1>21. CASE UNCHANGED vars
  <2>1. /\ BrokerType' /\ MarketType' /\ RowsType' /\ FlagsType' /\ EngineType'
        /\ CountInv' /\ PhaseInv' /\ CopyInv' /\ PriceInv' /\ ChainInv' /\ LegInv'
        /\ RowKept' /\ RestingStopIsKnown'
    BY <1>21, Frames DEF vars, Consumed
  <2> QED
    BY <2>1 DEF IInv, TypeInv
<1> QED
  BY <1>1, <1>2, <1>3, <1>4, <1>5, <1>6, <1>7, <1>8, <1>9, <1>10, <1>11, <1>12, <1>13,
     <1>14, <1>15, <1>16, <1>17, <1>18, <1>19, <1>20, <1>21
  DEF Next, Engine

-----------------------------------------------------------------------------
\* The theorems.

\* In every reachable state each variable has its type, and the parts of IInv
\* hold of the trade, its copy and its orders.
THEOREM Invariance == Spec => []IInv
BY Initially, Inductive, PTL DEF Spec

\* Every reachable state is typed (TypeOK), whatever fails or dies in between.
THEOREM Typing == Spec => []TypeOK
<1>1. IInv => TypeOK
  <2> SUFFICES ASSUME BrokerType, MarketType, RowsType, FlagsType, EngineType PROVE TypeOK
    BY DEF IInv, TypeInv
  <2>1. row.stop \in FirstStop..Target /\ row.leg \in Stops
    BY DEF RowsType, RowType
  <2>2. copy.stop \in FirstStop..Target /\ copy.leg \in Stops
    BY DEF RowsType, RowType
  <2>3. {held, peerHeld, peerRow, copyPeer, changed, retry} \subseteq BOOLEAN
    BY DEF BrokerType, RowsType, FlagsType
  <2>4. applied \in 0..MaxUnseen /\ want \in 0..Target
    BY Constants DEF EngineType, MarketType
  <2>5. pc \in {"idle", "monitor", "mark", "replace", "attach", "failed", "bars", "end"}
    BY DEF EngineType
  <2>6. /\ stops \in [Stops -> [status : StatusOf, price : 0..Target]]
        /\ target \in {"working", "filled", "canceled"} /\ listed \subseteq Stops
    BY DEF BrokerType
  <2> QED
    BY <2>1, <2>2, <2>3, <2>4, <2>5, <2>6 DEF TypeOK, StatusOf
<1> QED
  BY <1>1, Invariance, PTL

\* Between any two writes, whatever died or failed in between, the stop that
\* rests at the broker is the one the row of the trade leads to
\* (RestingStopIsKnown): reconcile() can always tell what protects a position.
THEOREM RestingStop == Spec => []RestingStopIsKnown
<1>1. IInv => RestingStopIsKnown
  BY DEF IInv
<1> QED
  BY <1>1, Invariance, PTL

\* A request is never for less than the stop it replaces: what the copy asks for
\* is no lower than the price on record, and the price on record no lower than
\* the one at the broker.
LEMMA RequestsTighten ==
  ASSUME IInv, pc = "replace", stops[copy.leg].status = "working"
  PROVE  want >= stops[copy.leg].price
<1>1. /\ row.in /\ copy.leg = row.leg /\ copy.stop = row.stop
      /\ Pending(copy) /\ want = copy.pending.price
  BY DEF IInv, CopyInv, PhaseInv
<1>2. stops[copy.leg].price <= copy.stop
  BY <1>1 DEF IInv, LegInv
<1>3. copy.stop <= want
  BY <1>1 DEF IInv, PriceInv, Bounded
<1>4. copy.leg \in Stops /\ copy.stop \in FirstStop..Target /\ want \in 0..Target
  BY DEF IInv, TypeInv, RowsType, RowType, EngineType
<1>5. stops[copy.leg].price \in 0..Target
  BY <1>4 DEF IInv, TypeInv, BrokerType
<1> QED
  BY <1>2, <1>3, <1>4, <1>5

\* A successor never rests below the stop it replaces (StopNeverLoosens): not by
\* a rule that breaks even and trails, a repeated request or a recovered one.
THEOREM NeverLoosens == Spec => StopNeverLoosens
<1> DEFINE Tightens ==
      \A k \in Stops \ {0} :
        stops[k].status = "none" /\ stops'[k].status # "none" =>
          stops'[k].price >= stops[k - 1].price
<1>1. IInv /\ [Next]_vars => Tightens
  <2> SUFFICES ASSUME IInv, [Next]_vars, NEW k \in Stops \ {0},
                      stops[k].status = "none", stops'[k].status # "none"
               PROVE  stops'[k].price >= stops[k - 1].price
    OBVIOUS
  <2> USE DEF broker, market, volatile
  <2>0. k \in Stops /\ stops \in [Stops -> [status : StatusOf, price : 0..Target]]
    BY DEF IInv, TypeInv, BrokerType
  <2>1. CASE pc = "replace" /\ Place
    <3>1. Pending(copy) /\ want = copy.pending.price
      BY <2>1 DEF IInv, PhaseInv
    <3>2. /\ stops[copy.leg].status = "working" /\ stops'[copy.leg + 1].price = want
          /\ \A j \in Stops \ {copy.leg, copy.leg + 1} : stops'[j] = stops[j]
      BY <2>1, <3>1, Placing DEF IInv, TypeInv, CountInv
    <3>3. k = copy.leg + 1
      BY <2>0, <3>2
    <3>4. copy.leg = k - 1
      BY <3>3 DEF IInv, TypeInv, RowsType, RowType, Stops
    <3> QED
      BY <2>1, <3>2, <3>4, RequestsTighten
  <2>2. CASE UNCHANGED stops
    BY <2>2
  <2>3. ASSUME NEW j \in Stops, StopFills(j) PROVE FALSE
    BY <2>0, <2>3 DEF StopFills
  <2>4. CASE TargetFills
    BY <2>0, <2>4 DEF TargetFills
  <2>5. CASE CloseUnprotected
    BY <2>0, <2>5 DEF CloseUnprotected
  <2>6. \/ pc = "replace" /\ Place
        \/ UNCHANGED stops
        \/ TargetFills \/ CloseUnprotected \/ \E j \in Stops : StopFills(j)
    <3>1. CASE Engine
      BY <3>1
      DEF Engine, Reconcile, RetryPending, ApplyBar, NoteExit, BarsDone, CloseFails,
          MarkPending, ReplaceStop, ReplaceRefused, AttachStop, ReconcileAgain, EndOfPass
    <3>2. CASE NewBar \/ Lists \/ PeerExits \/ ReplaceFails \/ Crash
      BY <3>2 DEF NewBar, Lists, PeerExits, ReplaceFails, Crash
    <3>3. CASE UNCHANGED vars
      BY <3>3 DEF vars
    <3> QED
      BY <3>1, <3>2, <3>3 DEF Next
  <2> QED
    BY <2>1, <2>3, <2>4, <2>5, <2>6
<1> QED
  BY <1>1, Invariance, PTL DEF Spec, StopNeverLoosens
=============================================================================
