----------------------------- MODULE EntryCycle -----------------------------
(***************************************************************************)
(* How the trader enters positions (agent/engine_cycle.py _run_once_impl   *)
(* and _resolve_failed_entry, agent/market_entry_risk.py _risk_order,      *)
(* agent/risk.py vet_open, agent/allocation.py allocate,                   *)
(* agent/execution_lifecycle.py _record_open_order, reconcile,             *)
(* _adopt_unresolved_entry and _recover_pending_legs).                     *)
(*                                                                         *)
(* A cycle reconciles, plans from one snapshot, and takes each signal      *)
(* through three durable steps: the session marker, the broker's order,    *)
(* the row that remembers it.  The process may die between any two, a      *)
(* submit may be ambiguous, and the broker's listings settle late.  What a *)
(* position does after its entry is abstracted to its end: a leg takes it  *)
(* out, or the engine closes it (ExitLifecycle has the detail).            *)
(*                                                                         *)
(* One session.  Risk and notional of an entry are its symbol's Weight.    *)
(***************************************************************************)
EXTENDS Integers, FiniteSets, FiniteSetsExt

CONSTANTS
    Edges,          \* 1 .. n: the proved edges, best evidence last
    Symbols,        \* the universe
    NoSymbol,       \* no exposure
    RuleEdges,      \* edges of strategy "rule": one budget for all of them
    Correlated,     \* pairs of edges that allocation holds for one bet
    Weight,         \* risk and notional of an entry in each symbol
    Cap,            \* max_open_risk_pct and max_gross_exposure_pct
    MaxPositions,   \* max_concurrent_positions
    PositionsLag,   \* does the position endpoint trail a fill?
    MaxLag,         \* bound: cycles during which listings miss a new order
    MaxBars,        \* bound: bars of the session
    MaxFaults       \* bound: deaths, failed writes and ambiguous submits

ASSUME EntryCycleAssumption ==
    /\ IsFiniteSet(Edges) /\ Edges = 1 .. Cardinality(Edges)
    /\ IsFiniteSet(Symbols) /\ NoSymbol \notin Symbols
    /\ RuleEdges \subseteq Edges
    /\ Correlated \subseteq SUBSET Edges
    /\ Weight \in [Symbols -> Nat]
    /\ Cap \in Nat /\ MaxPositions \in Nat \ {0}
    /\ PositionsLag \in BOOLEAN
    /\ MaxLag \in Nat /\ MaxBars \in Nat /\ MaxFaults \in Nat

VARIABLES
    ord,        \* broker: each entry order, and how its position ended
    hidden,     \* broker: cycles until the listings show an order
    unshown,    \* broker: filled orders the position endpoint trails
    bar,        \* the newest completed bar; past the last, the force-flat window
    sessions,   \* signal_sessions: keys whose signal is spent
    rows,       \* orders: the durable row of each entry
    trade,      \* active_trades: the entry, or broker-only exposure, held
    closing,    \* symbols whose trade has the engine's own close on record
    paused,     \* operator_pause
    reconciled, \* _reconciled
    cleaned,    \* _startup_cleanup_checked
    pc,         \* where the trader is
    seen,       \* symbols of the reconciliation's position read
    base,       \* what the entry loop computed from its one snapshot
    todo,       \* signals the loop has not come to
    cur,        \* the entry in hand
    placed,     \* entries this loop has sent
    halted,     \* entries_halted
    faults      \* faults so far

broker  == <<ord, hidden, unshown, bar>>
durable == <<sessions, rows, trade, closing, paused>>
loop    == <<seen, base, todo, cur, placed, halted>>
vars    == <<broker, durable, reconciled, cleaned, pc, loop, faults>>

(* The client order id of an entry digests its setup and the signal's bar. *)
Ids == Edges \X Symbols \X (1 .. MaxBars)

EdgeOf(id)   == id[1]
SymbolOf(id) == id[2]

NoId    == <<0, NoSymbol, 0>>
Unknown == <<0, NoSymbol, 1>>      \* a position no row explains

(* signal_state_key *)
Key(id) == IF EdgeOf(id) \in RuleEdges THEN <<0, SymbolOf(id)>>
           ELSE <<EdgeOf(id), SymbolOf(id)>>

RowStatus == {"none", "open", "filled", "dead", "not_found"}

Row == [st : RowStatus, unresolved : BOOLEAN, misses : 0 .. 3,
        legs : {"none", "pending", "known", "lost"}, logged : BOOLEAN]

NoRow == [st |-> "none", unresolved |-> FALSE, misses |-> 0,
          legs |-> "none", logged |-> FALSE]

NoBase == [positions |-> {}, blocked |-> {}, slots |-> 0, risk |-> 0,
           gross |-> 0]

TypeOK ==
    /\ ord \in [Ids -> {"none", "refused", "working", "filled", "dead",
                        "exited", "closed"}]
    /\ hidden \in [Ids -> 0 .. MaxLag]
    /\ unshown \subseteq Ids
    /\ bar \in 1 .. MaxBars + 1
    /\ sessions \subseteq {Key(id) : id \in Ids}
    /\ rows \in [Ids -> Row]
    /\ trade \in [Symbols -> Ids \cup {NoId, Unknown}]
    /\ closing \subseteq Symbols
    /\ paused \in BOOLEAN /\ reconciled \in BOOLEAN /\ cleaned \in BOOLEAN
    /\ pc \in {"off", "ready", "check", "check_orders", "cycle",
               "cycle_orders", "account", "entries", "vet", "record",
               "flatten", "shutdown"}
    /\ seen \subseteq Symbols
    /\ base \in [positions : SUBSET Symbols, blocked : SUBSET Symbols,
                 slots : Nat, risk : Nat, gross : Nat]
    /\ todo \subseteq Edges \X Symbols
    /\ cur \in Ids \cup {NoId}
    /\ placed \subseteq Ids
    /\ halted \in BOOLEAN
    /\ faults \in 0 .. MaxFaults

Init ==
    /\ ord = [id \in Ids |-> "none"]
    /\ hidden = [id \in Ids |-> 0]
    /\ unshown = {}
    /\ bar = 1
    /\ sessions = {}
    /\ rows = [id \in Ids |-> NoRow]
    /\ trade = [s \in Symbols |-> NoId]
    /\ closing = {}
    /\ paused = FALSE
    /\ reconciled = FALSE
    /\ cleaned = FALSE
    /\ pc = "off"
    /\ seen = {}
    /\ base = NoBase
    /\ todo = {}
    /\ cur = NoId
    /\ placed = {}
    /\ halted = FALSE
    /\ faults = 0

-----------------------------------------------------------------------------
(* The broker.                                                             *)

Live == {id \in Ids : ord[id] \in {"working", "filled"}}

ShownBut(late) == {SymbolOf(id) : id \in {i \in Ids : ord[i] = "filled"} \ late}

Shown == ShownBut(unshown)

Visible(id) == ord[id] \notin {"none", "refused"} /\ hidden[id] = 0

Fill(id) ==
    /\ ord[id] = "working"
    /\ ord' = [ord EXCEPT ![id] = "filled"]
    /\ unshown' = IF PositionsLag THEN unshown \cup {id} ELSE unshown
    /\ UNCHANGED <<hidden, bar, durable, reconciled, cleaned, pc, loop, faults>>

(* A limit entry is canceled by its day, or a bracket leg takes it out.    *)
Ends(id) ==
    /\ ord[id] \in {"working", "filled"}
    /\ ord' = [ord EXCEPT ![id] = IF @ = "working" THEN "dead" ELSE "exited"]
    /\ unshown' = unshown \ {id}
    /\ UNCHANGED <<hidden, bar, durable, reconciled, cleaned, pc, loop, faults>>

NewBar ==
    /\ bar <= MaxBars
    /\ pc \in {"off", "ready"}
    /\ bar' = bar + 1
    /\ UNCHANGED <<ord, hidden, unshown, durable, reconciled, cleaned, pc, loop,
                   faults>>

-----------------------------------------------------------------------------
(* The process, and the reconciliation of a cycle.                         *)

ClearLoop ==
    /\ seen' = {} /\ base' = NoBase /\ todo' = {}
    /\ cur' = NoId /\ placed' = {} /\ halted' = FALSE

Start ==
    /\ pc = "off"
    /\ pc' = "ready"
    /\ UNCHANGED <<broker, durable, reconciled, cleaned, loop, faults>>

Crash ==
    /\ faults < MaxFaults
    /\ pc # "off"
    /\ pc' = "off"
    /\ reconciled' = FALSE /\ cleaned' = FALSE
    /\ ClearLoop
    /\ faults' = faults + 1
    /\ UNCHANGED <<broker, durable>>

(* _ensure_order_ready: reconcile when the last one is not good any more,
   flatten what a former process left, then the cycle proper.              *)
AfterReady == IF cleaned THEN "cycle" ELSE "flatten"

CycleBegins ==
    /\ pc = "ready" /\ ~paused
    /\ hidden' = [id \in Ids |-> IF hidden[id] > 0 THEN hidden[id] - 1 ELSE 0]
    /\ pc' = IF reconciled THEN AfterReady ELSE "check"
    /\ UNCHANGED <<ord, unshown, bar, durable, reconciled, cleaned, loop, faults>>

(* reconcile reads the positions, then the orders; the position endpoint
   may still trail a fill of before.                                       *)
ReadPositions ==
    /\ pc \in {"check", "cycle"}
    /\ \E late \in SUBSET unshown :
          unshown' = late /\ seen' = ShownBut(late)
    /\ pc' = IF pc = "check" THEN "check_orders" ELSE "cycle_orders"
    /\ UNCHANGED <<ord, hidden, bar, durable, reconciled, cleaned, base, todo, cur,
                   placed, halted, faults>>

Terminal(st) == st \in {"filled", "dead", "not_found"}

(* Mutant: one miss in the listing is enough to give an order up.           *)
MissedOnce(r) ==
    IF Terminal(r.st) THEN r
    ELSE [r EXCEPT !.misses = 3, !.st = "not_found"]

(* The listing does not show a row's order.                                *)
Missed(r) ==
    IF Terminal(r.st) THEN r
    ELSE [r EXCEPT !.misses = @ + 1,
                   !.st = IF r.misses + 1 >= 3 THEN "not_found" ELSE @]

(* Mutant: the legs are read at the adoption or never.                      *)
RefreshedOnce(id, legs) ==
    LET r      == rows[id]
        filled == ord[id] \in {"filled", "exited", "closed"}
    IN  [st         |-> IF Terminal(r.st) THEN r.st
                        ELSE IF filled THEN "filled"
                        ELSE IF ord[id] = "dead" THEN "dead" ELSE r.st,
         unresolved |-> FALSE,
         misses     |-> 0,
         legs       |-> IF r.legs # "lost" /\ r.unresolved THEN legs ELSE r.legs,
         logged     |-> r.logged \/ filled]

(* The listing shows it: terminal evidence is absorbing, an unresolved row
   is bound to the order, and its legs are looked up.                      *)
Refreshed(id, legs) ==
    LET r      == rows[id]
        filled == ord[id] \in {"filled", "exited", "closed"}
    IN  [st         |-> IF Terminal(r.st) THEN r.st
                        ELSE IF filled THEN "filled"
                        ELSE IF ord[id] = "dead" THEN "dead" ELSE r.st,
         unresolved |-> FALSE,
         misses     |-> 0,
         legs       |-> IF r.legs # "lost" /\ (r.unresolved \/ r.legs = "pending")
                        THEN legs ELSE r.legs,
         logged     |-> r.logged \/ filled]

(* The rows after the order loop; `found` are the exact lookups that work. *)
RowsAfter(found) ==
    [id \in Ids |->
        IF rows[id].st = "none" THEN NoRow
        ELSE IF Visible(id)
             THEN Refreshed(id, IF id \in found THEN "known" ELSE "pending")
        ELSE Missed(rows[id])]

(* A fill first seen in the listing activates its trade.                   *)
FreshFill(s) ==
    {id \in Ids : /\ SymbolOf(id) = s /\ rows[id].st # "none"
                  /\ ~rows[id].logged /\ Visible(id)
                  /\ ord[id] \in {"filled", "exited", "closed"}}

(* A row that can explain a position nothing else does.                    *)
Explains(new, s) ==
    {id \in Ids : SymbolOf(id) = s /\ new[id].st = "open"}

(* Is the end of a trade's position on record: a leg, once the trade has its
   legs, or the engine's own close?                                        *)
EndKnown(new, s, id) ==
    \/ s \in closing
    \/ id \in Ids /\ ord[id] = "exited" /\ new[id].legs = "known"

TradeAfter(new, s) ==
    LET held == IF FreshFill(s) # {} THEN CHOOSE id \in FreshFill(s) : TRUE
                ELSE trade[s]
    IN  IF s \notin seen
        THEN IF held # NoId /\ EndKnown(new, s, held) THEN NoId ELSE held
        ELSE IF held # NoId THEN held
        ELSE IF Explains(new, s) = {} THEN Unknown
        ELSE CHOOSE id \in Explains(new, s) : TRUE

(* A position that a row explains before the listing shows the row's order
   is activated and logged from the row: its trade is keyed by the client
   id, and no later adoption of the row gives it the legs.                 *)
Activated(new, held) ==
    [id \in Ids |->
        IF held[SymbolOf(id)] # id \/ new[id].logged THEN new[id]
        ELSE [new[id] EXCEPT !.logged = TRUE,
                             !.legs = IF new[id].unresolved THEN "lost" ELSE @]]

(* The exact lookups of a reconciliation: rows to adopt, legs to read.     *)
Lookups ==
    {id \in Ids : Visible(id) /\ (rows[id].unresolved \/ rows[id].legs = "pending")}

(* Order loop, positions, disappeared trades and the one state write.      *)
ReconcileWith(found) ==
    /\ pc \in {"check_orders", "cycle_orders"}
    /\ LET new  == RowsAfter(found)
           held == [s \in Symbols |-> TradeAfter(new, s)]
       IN  /\ rows' = Activated(new, held)
           /\ trade' = held
           /\ closing' = {s \in closing : held[s] = trade[s]}
    /\ reconciled' = TRUE
    /\ pc' = IF pc = "check_orders" THEN AfterReady ELSE "account"
    /\ seen' = {}
    /\ UNCHANGED <<broker, sessions, paused, cleaned, base, todo, cur, placed,
                   halted, faults>>

ReconcileFails ==
    /\ faults < MaxFaults
    /\ pc \in {"check_orders", "cycle_orders"}
    /\ reconciled' = FALSE
    /\ pc' = "ready"
    /\ ClearLoop
    /\ faults' = faults + 1
    /\ UNCHANGED <<broker, durable, cleaned>>

(* Exposure without local protection.                                      *)
Unprotected == {s \in Symbols : trade[s] = Unknown}

(* should_force_flat: the cycle only flattens.                              *)
ForceFlat ==
    /\ pc = "account" /\ bar > MaxBars
    /\ pc' = "flatten"
    /\ UNCHANGED <<broker, durable, reconciled, cleaned, loop, faults>>

(* The monitor closes such a position.  A row without its position carries
   no notional: the risk state is invalid, and _fail_closed pauses and
   flattens.  Either way the cycle takes no entry.                         *)
UnprotectedBlocks ==
    LET there == Unprotected \cap Shown
    IN  /\ pc = "account" /\ bar <= MaxBars
        /\ Unprotected # {}
        /\ ord' = [id \in Ids |->
                     IF ord[id] = "filled" /\ id \notin unshown /\ SymbolOf(id) \in there
                     THEN "closed" ELSE ord[id]]
        /\ closing' = closing \cup there
        /\ paused' = (paused \/ there = {})
        /\ pc' = IF there = {} THEN "flatten" ELSE "ready"
        /\ UNCHANGED <<hidden, unshown, bar, sessions, rows, trade, reconciled,
                       cleaned, loop, faults>>

-----------------------------------------------------------------------------
(* The entry loop.                                                         *)

Total(S) == FoldSet(LAMBDA id, n : n + Weight[SymbolOf(id)], 0, S)

TotalOf(S) == FoldSet(LAMBDA s, n : n + Weight[s], 0, S)

(* Mutant: an unresolved row is not counted, as nothing confirmed it.       *)
PendingConfirmed == {id \in Ids : rows[id].st = "open" /\ ~rows[id].unresolved}

Pending == {id \in Ids : rows[id].st = "open"}

Held == {s \in Symbols : trade[s] # NoId}

(* allocate: by evidence, while a slot is free, one edge of a cluster.     *)
Admitted(slots) ==
    LET admitted[e \in Edges] ==
            LET ahead == {a \in Edges : a > e /\ admitted[a]}
            IN  /\ Cardinality(ahead) < slots
                /\ \A a \in ahead : {a, e} \notin Correlated
    IN  IF Cardinality(Edges) < 2 THEN Edges ELSE {e \in Edges : admitted[e]}

(* One snapshot of positions, trades and rows serves the whole loop.       *)
BeginEntries ==
    LET underlyings == {SymbolOf(id) : id \in Pending}
        count       == Cardinality(Shown) + Cardinality(underlyings \ Held)
    IN  /\ pc = "account" /\ bar <= MaxBars
        /\ Unprotected = {}
        /\ base' = [positions |-> Shown, blocked |-> underlyings,
                    slots |-> count,
                    risk  |-> TotalOf(Held) + Total(Pending),
                    gross |-> TotalOf(Shown) + Total(Pending)]
        /\ todo' = Admitted(MaxPositions - count) \X Symbols
        /\ pc' = "entries"
        /\ UNCHANGED <<broker, durable, reconciled, cleaned, seen, cur, placed,
                       halted, faults>>

(* Mutant: the session marker stays in memory.                              *)
RememberSignalLater(e, s) ==
    LET id == <<e, s, bar>>
    IN  /\ pc = "entries" /\ ~halted
        /\ <<e, s>> \in todo
        /\ Key(id) \notin sessions
        /\ todo' = todo \ {<<e, s>>}
        /\ cur' = id
        /\ pc' = "vet"
        /\ UNCHANGED <<broker, durable, reconciled, cleaned, seen, base,
                       placed, halted, faults>>

(* A signal on the newest bar spends its session key before anything else. *)
RememberSignal(e, s) ==
    LET id == <<e, s, bar>>
    IN  /\ pc = "entries" /\ ~halted
        /\ <<e, s>> \in todo
        /\ Key(id) \notin sessions
        /\ sessions' = sessions \cup {Key(id)}
        /\ todo' = todo \ {<<e, s>>}
        /\ cur' = id
        /\ pc' = "vet"
        /\ UNCHANGED <<broker, rows, trade, closing, paused, reconciled, cleaned, seen,
                       base, placed, halted, faults>>

(* signal_session_persistence_failed: _fail_closed flattens the book.      *)
RememberFails(e, s) ==
    /\ faults < MaxFaults
    /\ pc = "entries" /\ ~halted
    /\ <<e, s>> \in todo
    /\ Key(<<e, s, bar>>) \notin sessions
    /\ faults' = faults + 1
    /\ pc' = "flatten"
    /\ ClearLoop
    /\ UNCHANGED <<broker, durable, reconciled, cleaned>>

(* The risk engine's own view of an entry: the positions of the snapshot,
   each of which needs a trade with its planned risk.                      *)
VetOpen(id) ==
    LET s == SymbolOf(id)
    IN  /\ s \notin base.positions
        /\ Cardinality(base.positions) < MaxPositions
        /\ base.positions \subseteq Held
        /\ TotalOf(base.positions) + Weight[s] <= Cap

(* _risk_order reads the trades again before it asks the risk engine.       *)
RiskOrder(id) == trade[SymbolOf(id)] = NoId /\ VetOpen(id)

(* Duplicate block, risk order, and the caps of the cycle over what the
   cycle itself has placed.                                                *)
Vetted(id) ==
    LET s    == SymbolOf(id)
        sent == {SymbolOf(p) : p \in placed}
    IN  /\ s \notin base.blocked \cup sent
        /\ RiskOrder(id)
        /\ base.slots + Cardinality(placed) < MaxPositions
        /\ base.risk + Total(placed) + Weight[s] <= Cap
        /\ base.gross + Total(placed) + Weight[s] <= Cap

(* Refused by the model, the setup, the risk engine or a cap.              *)
Refuse ==
    /\ pc = "vet"
    /\ pc' = "entries"
    /\ cur' = NoId
    /\ UNCHANGED <<broker, durable, reconciled, cleaned, seen, base, todo, placed,
                   halted, faults>>

(* submit_order answers with the order, or raises and the exact lookup finds
   it (an ambiguous or refused retry of a first attempt that created it).  *)
SubmitAccepted ==
    /\ pc = "vet" /\ Vetted(cur)
    /\ ord[cur] = "none"
    /\ ord' = [ord EXCEPT ![cur] = "working"]
    /\ \E n \in 0 .. MaxLag : hidden' = [hidden EXCEPT ![cur] = n]
    /\ placed' = placed \cup {cur}
    /\ pc' = "record"
    /\ UNCHANGED <<unshown, bar, durable, reconciled, cleaned, seen, base, todo,
                   cur, halted, faults>>

(* A definite rejection refuses this entry only.                           *)
SubmitRejected ==
    /\ pc = "vet" /\ Vetted(cur)
    /\ ord[cur] = "none"
    /\ ord' = [ord EXCEPT ![cur] = "refused"]
    /\ pc' = "entries"
    /\ cur' = NoId
    /\ UNCHANGED <<hidden, unshown, bar, durable, reconciled, cleaned, seen, base,
                   todo, placed, halted, faults>>

(* Ambiguous, and the lookup finds nothing: the order may exist or not.    *)
SubmitAmbiguous ==
    /\ faults < MaxFaults
    /\ pc = "vet" /\ Vetted(cur)
    /\ ord[cur] = "none"
    /\ \E st \in {"working", "refused"} : ord' = [ord EXCEPT ![cur] = st]
    /\ \E n \in 0 .. MaxLag : hidden' = [hidden EXCEPT ![cur] = n]
    /\ halted' = TRUE
    /\ reconciled' = FALSE
    /\ pc' = "record"
    /\ faults' = faults + 1
    /\ UNCHANGED <<unshown, bar, durable, cleaned, seen, base, todo, cur, placed>>

(* _record_open_order: the row, and the trade of an order that the answer
   already shows filled.                                                   *)
RecordOpenOrder ==
    LET known  == cur \in placed
        filled == known /\ ord[cur] = "filled"
    IN  /\ pc = "record"
        /\ rows' = [rows EXCEPT ![cur] =
              [st |-> IF filled THEN "filled" ELSE "open",
               unresolved |-> ~known, misses |-> 0,
               legs |-> IF known THEN "known" ELSE "none",
               logged |-> filled]]
        /\ trade' = IF filled THEN [trade EXCEPT ![SymbolOf(cur)] = cur] ELSE trade
        /\ pc' = "entries"
        /\ cur' = NoId
        /\ UNCHANGED <<broker, sessions, closing, paused, reconciled, cleaned, seen, base,
                       todo, placed, halted, faults>>

(* post-submit durability failure: pause, raise, and run() shuts down over a
   flatten; the write of the pause may fail like the one before it.        *)
RecordFails ==
    /\ faults < MaxFaults
    /\ pc = "record"
    /\ \E p \in {TRUE, paused} : paused' = p
    /\ reconciled' = FALSE
    /\ pc' = "shutdown"
    /\ ClearLoop
    /\ faults' = faults + 1
    /\ UNCHANGED <<broker, sessions, rows, trade, closing, cleaned>>

EndEntries ==
    /\ pc = "entries"
    /\ pc' = "ready"
    /\ ClearLoop
    /\ UNCHANGED <<broker, durable, reconciled, cleaned, faults>>

-----------------------------------------------------------------------------
(* flatten_all, and the operator.                                          *)

Flat == Shown = {} /\ \A id \in Ids : ord[id] # "working"

FlattenStep(id) ==
    /\ pc \in {"flatten", "shutdown"}
    /\ ord[id] = "working" \/ (ord[id] = "filled" /\ id \notin unshown)
    /\ ord' = [ord EXCEPT ![id] = IF @ = "working" THEN "dead" ELSE "closed"]
    /\ closing' = IF ord[id] = "filled" /\ trade[SymbolOf(id)] # NoId
                  THEN closing \cup {SymbolOf(id)} ELSE closing
    /\ UNCHANGED <<hidden, unshown, bar, sessions, rows, trade, paused, reconciled,
                   cleaned, pc, loop, faults>>

FlattenEnds ==
    /\ pc \in {"flatten", "shutdown"}
    /\ Flat
    /\ cleaned' = (pc = "flatten")
    /\ reconciled' = (reconciled /\ pc = "flatten")
    /\ pc' = IF pc = "flatten" THEN "ready" ELSE "off"
    /\ UNCHANGED <<broker, durable, loop, faults>>

(* An incomplete flatten leaves the pause behind.                          *)
FlattenIncomplete ==
    /\ faults < MaxFaults
    /\ pc \in {"flatten", "shutdown"}
    /\ ~Flat
    /\ paused' = TRUE
    /\ reconciled' = (reconciled /\ pc = "flatten")
    /\ cleaned' = FALSE
    /\ pc' = IF pc = "flatten" THEN "ready" ELSE "off"
    /\ faults' = faults + 1
    /\ UNCHANGED <<broker, sessions, rows, trade, closing, loop>>

(* resume: the operator clears the pause over a flat account.              *)
Resume ==
    /\ paused /\ Flat
    /\ paused' = FALSE
    /\ UNCHANGED <<broker, sessions, rows, trade, closing, reconciled, cleaned, pc,
                   loop, faults>>

-----------------------------------------------------------------------------

Engine ==
    \/ Start
    \/ CycleBegins
    \/ ReadPositions
    \/ \E found \in SUBSET Lookups : ReconcileWith(found)
    \/ ForceFlat
    \/ UnprotectedBlocks
    \/ BeginEntries
    \/ Refuse
    \/ SubmitAccepted
    \/ SubmitRejected
    \/ RecordOpenOrder
    \/ EndEntries
    \/ FlattenEnds
    \/ \E id \in Ids : FlattenStep(id)

Next ==
    \/ Engine
    \/ Crash
    \/ ReconcileFails
    \/ SubmitAmbiguous
    \/ RecordFails
    \/ FlattenIncomplete
    \/ Resume
    \/ NewBar
    \/ \E e \in Edges, s \in Symbols : RememberSignal(e, s) \/ RememberFails(e, s)
    \/ \E id \in Ids : Fill(id) \/ Ends(id)

Spec == Init /\ [][Next]_vars

(* The engine keeps taking steps, and an exact lookup that is repeated every
   cycle works in the end.                                                 *)
Fairness ==
    /\ WF_vars(Engine)
    /\ SF_vars(ReconcileWith(Lookups))

FairSpec == Spec /\ Fairness

-----------------------------------------------------------------------------
(* Properties.                                                             *)

LiveSymbols == {SymbolOf(id) : id \in Live}

(* The caps of agent/engine_cycle.py hold at the broker, not only in the
   plan: working and filled entries together never exceed the slots, the
   risk or the gross exposure, whatever was ambiguous, recovered or late,
   and no symbol is entered twice.                                         *)
WithinCaps ==
    /\ Cardinality(Live) <= MaxPositions
    /\ Total(Live) <= Cap
    /\ Cardinality(LiveSymbols) = Cardinality(Live)

(* At most one entry per session key ever reaches the broker, through any
   crash, retry or lost answer (remember_signal runs before the submit).   *)
OncePerSession ==
    \A a, b \in {id \in Ids : ord[id] \notin {"none", "refused"}} :
        Key(a) = Key(b) => a = b

(* When the loop takes entries, every entry at the broker is in a row that
   still counts or in a trade: nothing live was given up or forgotten.     *)
NothingForgotten ==
    pc \in {"entries", "vet"} =>
        \A id \in Live :
            \/ rows[id].st = "open"
            \/ trade[SymbolOf(id)] # NoId
            \/ id = cur

(* A trade whose end is on record, by the engine's bound close or by a leg
   of its bracket that was not lost, leaves the book or the runtime pauses. *)
BookSettles ==
    \A s \in Symbols :
        LET ended == /\ trade[s] \in Ids
                     /\ \/ ord[trade[s]] = "closed" /\ s \in closing
                        \/ ord[trade[s]] = "exited" /\ rows[trade[s]].legs # "lost"
        IN  ended ~> ~ended \/ paused
=============================================================================
