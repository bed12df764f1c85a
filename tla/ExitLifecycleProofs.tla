------------------------- MODULE ExitLifecycleProofs -------------------------
(***************************************************************************)
(* Proofs about ExitLifecycle: every reachable state is well typed, the    *)
(* working exits never exceed what is held, and a trade that left the book *)
(* is flat and journaled to the last share.                                *)
(*                                                                         *)
(* The engine decides by what it read some steps ago.  What makes that     *)
(* safe is that the broker's side only moves on: shares held and shown     *)
(* never grow, an order that came to its end stays there, and a bracket    *)
(* leg that stopped working never works again (Onward).  So the proof has  *)
(* two halves: every step keeps the broker's book (BookInv) and is Onward, *)
(* and what the engine remembers stays true of a book that moved on.       *)
(***************************************************************************)
EXTENDS ExitLifecycle, FiniteSetTheorems, WellFoundedInduction, TLAPS

-----------------------------------------------------------------------------
\* The setting of the theorems: only the fills of the bracket's legs may be missing
\* from the positions, and none where the entry may still have to be confirmed.
Setting == LaggingFills \subseteq {"leg"} /\ (FirstSeen => LaggingFills = {})

-----------------------------------------------------------------------------
\* The inductive invariant.

Final == {"filled", "canceled"}

\* TypeOK, a conjunct for each part of the state; the call in progress is a record.
BrokerType == held \in 0 .. Qty /\ shown \in 0 .. Qty /\ ord \in [Orders -> BrokerOrder]
TradeType ==
  trade \in [active : BOOLEAN, confirmed : BOOLEAN, closing : Orders \cup {NoOrder},
             attempt : {-1} \cup Attempts, rearms : 0 .. MaxAttempts + 1]
LegType == legs \in [Bracket \cup Rearms -> {"absent", "live", "filled", "canceled"}]
RowType == rows \in [Orders -> OrderRow]
JournalType == journal \subseteq (Orders \X (0 .. Qty) \X (1 .. Qty))
PlaceType ==
  /\ pc \in {"down", "idle", "reconcile", "snapped", "monitor", "begin", "poll", "polled",
             "cancelling", "submit", "record", "rearm", "end", "return"}
  /\ snap \in 0 .. Qty /\ asked \subseteq Bracket \cup Rearms
  /\ paused \in BOOLEAN /\ startup \in BOOLEAN
  /\ clock \in {"open", "due", "flat"} /\ faults \in 0 .. MaxFaults
JobType == job \in [why : {"none", "deadline", "missing"}, id : Orders \cup {NoOrder}]
Call ==
  [reason : {"none"} \cup FlattenReasons, polls : 0 .. MaxPolls,
   listed : SUBSET (Bracket \cup Rearms), swept : BOOLEAN,
   prior : Flattens \cup {NoOrder}, tried : SUBSET Flattens, failed : BOOLEAN,
   stripped : BOOLEAN, error : BOOLEAN, confirming : BOOLEAN]
CallType == call \in Call
MemoType == memo \in [Orders -> Request]

\* A flatten call is in progress where its steps run, and has polls left until its end;
\* a close has a reason and a quantity, and what is recorded is a close.
Control ==
  /\ pc \in {"begin", "poll", "polled", "reconcile", "end", "return"} => call.reason # "none"
  /\ pc \in {"down", "idle", "monitor"} => call.reason = "none"
  /\ call.reason # "none" /\ pc \notin {"end", "rearm", "return"} => call.polls < MaxPolls
  /\ pc \in {"cancelling", "submit"} => snap > 0 /\ (call.reason = "none" => job.why # "none")
  /\ pc = "record" => /\ job.id \in Closes \cup Flattens
                      /\ call.reason # "none" => job.id \in Flattens

\* The broker's book.  Nothing else works beside a working bracket; what works is
\* covered by what is held, so that nothing works on a flat book; the positions may be
\* late only about the legs, and a leg that emptied the book is filled.
OrderInv ==
  \A o \in Orders : /\ ord[o].filled <= ord[o].qty
                    /\ ord[o].status \in Working => ord[o].filled < ord[o].qty
                    /\ ord[o].status = "none" => ord[o].filled = 0
BookInv ==
  /\ BrokerType /\ OrderInv
  /\ held + Filled(ord, Orders) = Qty
  /\ WorkingOrders \cap Bracket # {} => \A o \in Orders \ Bracket : ord[o].status = "none"
  /\ Outstanding <= held
  /\ held = 0 => WorkingOrders = {}
  /\ held <= shown
  /\ shown # held => LaggingFills # {} /\ \A o \in Orders \ Bracket : ord[o].filled = 0
  /\ held = 0 /\ shown > 0 => \E o \in Bracket : ord[o].status = "filled" /\ ord[o].filled > 0

\* The snapshot in hand is no less than the positions show.
SnapInv == pc = "snapped" => shown <= snap

\* A trade that ended, or whose position was seen to be gone, has none.
TradeInv ==
  /\ ~trade.active => shown = 0
  /\ ~trade.confirmed /\ ~FirstSeen => shown = 0

\* A recorded leg was placed; a working leg of the bracket is on record as live, or as
\* filled while its cancel is pending.
LegInv ==
  /\ \A o \in Recorded : ord[o].status # "none"
  /\ trade.active => \A o \in Bracket :
        /\ legs[o] # "absent"
        /\ ord[o].status \in Working => legs[o] \in {"live", "filled"}
        /\ legs[o] = "canceled" => ord[o].status = "canceled"

\* While the legs are being cancelled, those at work are among the ones asked, and a
\* fill that emptied the book is of one of them; when the close is sent none is at work
\* and there is something to sell.  The monitor asks legs that are on record.
CloseInv ==
  /\ pc = "cancelling" /\ shown > 0 =>
        /\ Bracket \cap WorkingOrders \subseteq asked
        /\ held = 0 => \E o \in Bracket \cap asked : ord[o].filled > 0
  /\ pc = "submit" /\ shown > 0 => Bracket \cap WorkingOrders = {} /\ held > 0
  /\ pc = "cancelling" /\ call.reason = "none" => asked \subseteq Recorded

\* What the provider remembers of an order, and what is about to be recorded, is one the
\* broker has (or there was nothing to close).
MemoInv ==
  \A o \in Orders : /\ memo[o].status # "none" => ord[o].status # "none"
                    /\ memo[o].status \in Final => ord[o].status \in Final
RecordInv == pc = "record" => ord[job.id].status # "none" \/ shown = 0

\* A durable row never runs ahead of the broker, and what it says is logged is in the
\* journal.
RowInv ==
  \A o \in Orders :
     /\ rows[o].status = "none" => rows[o] = NoRow
     /\ rows[o].filled <= ord[o].filled
     /\ rows[o].status \in Final => ord[o].status \in Final
     /\ rows[o].status # "none" /\ ord[o].status = "none" => shown = 0
     /\ rows[o].status = "not_found" => shown = 0
     /\ rows[o].logged > 0 => /\ rows[o].logged = ord[o].filled
                              /\ <<o, 0, ord[o].filled>> \in journal

\* The journal has one row of an order, for all that it filled, and after its end.
JournalInv ==
  \A j \in journal : /\ j[2] = 0 /\ j[3] = ord[j[1]].filled
                     /\ ord[j[1]].status \in Final

\* A trade that is kept although its position is gone has journaled every fill on
\* record, but for those bound to it by a close; without a closing order no recorded leg
\* has any.
ResidualInv ==
  ~trade.confirmed /\ ~FirstSeen /\ trade.active =>
     /\ \A o \in Orders : rows[o].status # "none" /\ ~rows[o].marked =>
            ord[o].filled = 0 \/ rows[o].logged > 0
     /\ trade.closing = NoOrder => \A o \in Recorded : ord[o].filled = 0

\* A trade that ended is journaled in full.
EndInv == ~trade.active /\ ~FirstSeen => Shares(journal) = Qty

\* What is durable, and what the process has in memory.
Durable ==
  /\ TradeType /\ LegType /\ RowType /\ JournalType
  /\ TradeInv /\ LegInv /\ RowInv /\ JournalInv /\ ResidualInv /\ EndInv
Volatile ==
  /\ PlaceType /\ JobType /\ CallType /\ MemoType
  /\ Control /\ SnapInv /\ CloseInv /\ MemoInv /\ RecordInv

IInv == BookInv /\ Durable /\ Volatile

\* What every step does to the broker's side.
Onward ==
  /\ held' <= held /\ shown' <= shown
  /\ \A o \in Orders :
        /\ ord[o].status \in Final => ord'[o] = ord[o]
        /\ ord[o].filled <= ord'[o].filled
        /\ ord[o].status # "none" => ord'[o].status # "none"
        /\ o \in Bracket /\ ord'[o].status \in Working => ord[o].status \in Working
  /\ held = 0 => \A o \in Orders : ord'[o] = ord[o]
  /\ held' # held /\ shown' # held' =>
        \E o \in Bracket : ord[o].status \in Working /\ ord'[o].filled > 0

-----------------------------------------------------------------------------
\* Sums over finite sets.

\* The element a fold takes out of a set next, and the sum that is left with it.
First(s) == CHOOSE x \in s : TRUE
Folded(g, w, s) == IF s = {} THEN 0 ELSE w[First(s)] + g[s \ {First(s)}]
IsFold(g, w, D) == g = [s \in SUBSET D |-> Folded(g, w, s)]
Sum(w, S) == (CHOOSE g : IsFold(g, w, S))[S]

\* A set of natural numbers that is not empty has a least element.
LEMMA Least ==
  ASSUME NEW T \in SUBSET Nat, T # {}
  PROVE  \E x \in T : \A y \in T : x <= y
<1>1. PICK R : /\ IsWellFoundedOn(R, Nat)
               /\ \A x, y \in Nat : x < y => <<x, y>> \in R
  <2>1. \A x, y \in Nat : x < y => <<x, y>> \in OpToRel(<, Nat)
    BY DEF OpToRel
  <2> QED
    BY <2>1, NatLessThanWellFounded, Zenon
<1>2. PICK x \in T : \A y \in T : ~ (<<y, x>> \in R)
  <2>1. IsWellFoundedOn(R, Nat) /\ T \subseteq Nat /\ T # {}
    BY <1>1
  <2> QED
    BY <2>1, WFMin, Zenon
<1>3. \A y \in T : ~(y < x)
  BY <1>1, <1>2
<1> QED
  BY <1>3

\* Some of the subsets of a finite set: one of them is in there without any of its
\* elements taken out.
LEMMA Minimal ==
  ASSUME NEW D, IsFiniteSet(D), NEW B \in SUBSET SUBSET D, B # {}
  PROVE  \E s \in B : \A x \in s : s \ {x} \notin B
<1> DEFINE Sizes == {n \in Nat : \E s \in B : Cardinality(s) = n}
<1>1. \A s \in B : IsFiniteSet(s) /\ Cardinality(s) \in Nat
  BY FS_Subset, FS_CardinalityType
<1>2. Sizes \in SUBSET Nat /\ Sizes # {} /\ \A s \in B : Cardinality(s) \in Sizes
  BY <1>1
<1>3. PICK n \in Sizes : \A m \in Sizes : n <= m
  BY <1>2, Least
<1>4. PICK s \in B : Cardinality(s) = n
  BY <1>3
<1>5. n \in Nat
  BY <1>2, <1>3
<1>6. ASSUME NEW x \in s, s \ {x} \in B PROVE FALSE
  <2>1. Cardinality(s \ {x}) = n - 1
    BY <1>1, <1>4, FS_RemoveElement
  <2>2. n <= n - 1
    BY <1>2, <1>3, <1>6, <2>1
  <2> QED
    BY <1>5, <2>2
<1> QED
  BY <1>6

\* The fold over the subsets of a finite set exists: one that is right up to a size
\* gives one that is right up to the next.
LEMMA FoldExists ==
  ASSUME NEW D, IsFiniteSet(D), NEW w, \A x \in D : w[x] \in Nat
  PROVE  \E g \in [SUBSET D -> Nat] : IsFold(g, w, D)
<1> DEFINE Right(g, n) == \A s \in SUBSET D : Cardinality(s) <= n => g[s] = Folded(g, w, s)
           Fails == {n \in Nat : ~ \E g \in [SUBSET D -> Nat] : Right(g, n)}
<1>1. \A s \in SUBSET D :
        /\ IsFiniteSet(s) /\ Cardinality(s) \in Nat /\ Cardinality(s) <= Cardinality(D)
        /\ Cardinality(s) = 0 <=> s = {}
        /\ s # {} => /\ First(s) \in s /\ s \ {First(s)} \in SUBSET D
                     /\ Cardinality(s \ {First(s)}) = Cardinality(s) - 1
  <2> TAKE s \in SUBSET D
  <2>1. IsFiniteSet(s) /\ Cardinality(s) \in Nat /\ Cardinality(s) <= Cardinality(D)
    BY FS_Subset, FS_CardinalityType
  <2>2. Cardinality(s) = 0 <=> s = {}
    BY <2>1, FS_EmptySet
  <2>3. s # {} => First(s) \in s
    BY DEF First
  <2> QED
    BY <2>1, <2>2, <2>3, FS_RemoveElement
<1>2. \A n \in Nat : n \in Fails <=> ~ \E g \in [SUBSET D -> Nat] : Right(g, n)
  OBVIOUS
<1>3. Fails \in SUBSET Nat
  OBVIOUS
<1> HIDE DEF Fails
<1>4. Fails = {}
  <2> SUFFICES ASSUME Fails # {} PROVE FALSE
    OBVIOUS
  <2>1. PICK n \in Fails : \A m \in Fails : n <= m
    BY <1>3, Least
  <2>2. n \in Nat /\ ~ \E g \in [SUBSET D -> Nat] : Right(g, n)
    BY <1>2, <1>3
  <2>3. CASE n = 0
    <3> DEFINE g == [s \in SUBSET D |-> 0]
    <3>1. g \in [SUBSET D -> Nat]
      OBVIOUS
    <3>2. ASSUME NEW s \in SUBSET D, Cardinality(s) <= n PROVE g[s] = Folded(g, w, s)
      <4>1. Cardinality(s) \in Nat /\ (Cardinality(s) = 0 <=> s = {})
        BY <1>1
      <4>2. s = {}
        BY <2>3, <3>2, <4>1
      <4> QED
        BY <4>2 DEF Folded
    <3> HIDE DEF g
    <3> QED
      BY <2>2, <3>1, <3>2
  <2>4. CASE n # 0
    <3>1. n - 1 \in Nat /\ n - 1 \notin Fails
      BY <2>1, <2>2, <2>4
    <3>2. PICK g \in [SUBSET D -> Nat] : Right(g, n - 1)
      BY <1>2, <3>1
    <3> DEFINE h == [s \in SUBSET D |-> Folded(g, w, s)]
    <3>3. ASSUME NEW s \in SUBSET D PROVE Folded(g, w, s) \in Nat
      <4>1. CASE s = {}
        BY <4>1 DEF Folded
      <4>2. CASE s # {}
        <5>1. g[s \ {First(s)}] \in Nat /\ w[First(s)] \in Nat
          BY <1>1, <4>2
        <5> QED
          BY <4>2, <5>1 DEF Folded
      <4> QED
        BY <4>1, <4>2
    <3>4. h \in [SUBSET D -> Nat]
      BY <3>3
    <3>5. \A s \in SUBSET D : h[s] = Folded(g, w, s)
      OBVIOUS
    <3> HIDE DEF h
    <3>6. \A s \in SUBSET D : Cardinality(s) <= n - 1 => h[s] = g[s]
      BY <3>2, <3>5
    <3>7. ASSUME NEW s \in SUBSET D, Cardinality(s) <= n PROVE h[s] = Folded(h, w, s)
      <4>1. CASE s = {}
        BY <3>5, <4>1 DEF Folded
      <4>2. CASE s # {}
        <5>1. /\ s \ {First(s)} \in SUBSET D
              /\ Cardinality(s \ {First(s)}) = Cardinality(s) - 1 /\ Cardinality(s) \in Nat
          BY <1>1, <4>2
        <5>2. Cardinality(s \ {First(s)}) <= n - 1
          BY <2>2, <3>7, <5>1
        <5>3. h[s \ {First(s)}] = g[s \ {First(s)}]
          BY <3>6, <5>1, <5>2
        <5> QED
          BY <3>5, <4>2, <5>3 DEF Folded
      <4> QED
        BY <4>1, <4>2
    <3> QED
      BY <2>2, <3>4, <3>7
  <2> QED
    BY <2>3, <2>4
<1>5. Cardinality(D) \in Nat
  BY <1>1
<1>6. PICK g \in [SUBSET D -> Nat] : Right(g, Cardinality(D))
  BY <1>2, <1>4, <1>5
<1>7. \A s \in SUBSET D : g[s] = Folded(g, w, s)
  BY <1>1, <1>6
<1>8. IsFold(g, w, D)
  BY <1>7 DEF IsFold
<1> QED
  BY <1>8

\* Two folds agree on every set both are about.
LEMMA FoldsAgree ==
  ASSUME NEW D, IsFiniteSet(D), NEW E \in SUBSET D, NEW w, NEW g, NEW h,
         IsFold(g, w, D), IsFold(h, w, E)
  PROVE  \A s \in SUBSET E : g[s] = h[s]
<1> DEFINE Differs == {s \in SUBSET E : g[s] # h[s]}
<1>1. \A s \in SUBSET E : g[s] = Folded(g, w, s) /\ h[s] = Folded(h, w, s)
  BY DEF IsFold
<1> SUFFICES ASSUME Differs # {} PROVE FALSE
  OBVIOUS
<1>2. IsFiniteSet(E)
  BY FS_Subset
<1>3. PICK s \in Differs : \A x \in s : s \ {x} \notin Differs
  BY <1>2, Minimal
<1>4. s # {}
  BY <1>1, <1>3 DEF Folded
<1>5. First(s) \in s
  BY <1>4 DEF First
<1>6. g[s \ {First(s)}] = h[s \ {First(s)}]
  BY <1>3, <1>5
<1> QED
  BY <1>1, <1>3, <1>4, <1>6 DEF Folded

\* Any fold over a finite set gives its sum, which is a number.
LEMMA SumIsFold ==
  ASSUME NEW S, IsFiniteSet(S), NEW w, \A x \in S : w[x] \in Nat
  PROVE  /\ Sum(w, S) \in Nat
         /\ \A D, g : IsFiniteSet(D) /\ S \in SUBSET D /\ IsFold(g, w, D) => g[S] = Sum(w, S)
<1> DEFINE h == CHOOSE g : IsFold(g, w, S)
<1>1. PICK f \in [SUBSET S -> Nat] : IsFold(f, w, S)
  BY FoldExists
<1>2. IsFold(h, w, S)
  BY <1>1
<1>3. Sum(w, S) = h[S]
  BY DEF Sum
<1> HIDE DEF h
<1>4. \A s \in SUBSET S : f[s] = h[s]
  BY <1>1, <1>2, FoldsAgree
<1>5. Sum(w, S) \in Nat
  BY <1>3, <1>4
<1>6. ASSUME NEW D, NEW g, IsFiniteSet(D), S \in SUBSET D, IsFold(g, w, D)
      PROVE  g[S] = Sum(w, S)
  <2>1. \A s \in SUBSET S : g[s] = h[s]
    BY <1>2, <1>6, FoldsAgree
  <2> QED
    BY <1>3, <2>1
<1> QED
  BY <1>5, <1>6

\* The sum over no element is zero, and any element can be taken out of it.
LEMMA SumOut ==
  ASSUME NEW D, IsFiniteSet(D), NEW w, \A x \in D : w[x] \in Nat
  PROVE  /\ Sum(w, {}) = 0
         /\ \A S \in SUBSET D : Sum(w, S) \in Nat
         /\ \A S \in SUBSET D : \A x \in S : Sum(w, S) = Sum(w, S \ {x}) + w[x]
<1> DEFINE Wrong == {S \in SUBSET D : \E x \in S : Sum(w, S) # Sum(w, S \ {x}) + w[x]}
<1>1. PICK g \in [SUBSET D -> Nat] : IsFold(g, w, D)
  BY FoldExists
<1>2. \A S \in SUBSET D : IsFiniteSet(S) /\ \A x \in S : w[x] \in Nat
  BY FS_Subset
<1>3. \A S \in SUBSET D : Sum(w, S) \in Nat /\ Sum(w, S) = g[S]
  BY <1>1, <1>2, SumIsFold
<1>4. \A S \in SUBSET D : Sum(w, S) = IF S = {} THEN 0 ELSE w[First(S)] + Sum(w, S \ {First(S)})
  <2>1. \A S \in SUBSET D : g[S] = Folded(g, w, S)
    BY <1>1 DEF IsFold
  <2>2. \A S \in SUBSET D : S \ {First(S)} \in SUBSET D
    OBVIOUS
  <2> QED
    BY <1>3, <2>1, <2>2 DEF Folded
<1>5. Wrong = {}
  <2> SUFFICES ASSUME Wrong # {} PROVE FALSE
    OBVIOUS
  <2>1. PICK S \in Wrong : \A x \in S : S \ {x} \notin Wrong
    BY Minimal
  <2>2. PICK x \in S : Sum(w, S) # Sum(w, S \ {x}) + w[x]
    BY <2>1
  <2> DEFINE y == First(S)
  <2>3. y \in S /\ S \in SUBSET D
    BY <2>1, <2>2 DEF First
  <2>4. Sum(w, S) = Sum(w, S \ {y}) + w[y]
    <3>1. Sum(w, S) = w[y] + Sum(w, S \ {y})
      BY <1>4, <2>3
    <3>2. w[y] \in Nat /\ Sum(w, S \ {y}) \in Nat
      BY <1>3, <2>3
    <3> HIDE DEF y
    <3> QED
      BY <3>1, <3>2
  <2>5. x # y
    BY <2>2, <2>4
  <2> HIDE DEF y
  <2>6. Sum(w, S \ {y}) = Sum(w, (S \ {y}) \ {x}) + w[x]
    BY <2>1, <2>2, <2>3, <2>5
  <2>7. Sum(w, S \ {x}) = Sum(w, (S \ {x}) \ {y}) + w[y]
    BY <2>1, <2>2, <2>3, <2>5
  <2>8. Sum(w, (S \ {y}) \ {x}) = Sum(w, (S \ {x}) \ {y})
    <3>1. (S \ {y}) \ {x} = (S \ {x}) \ {y}
      OBVIOUS
    <3> QED
      BY <3>1
  <2>9. Sum(w, (S \ {x}) \ {y}) \in Nat /\ w[x] \in Nat /\ w[y] \in Nat
    BY <1>3, <2>2, <2>3
  <2> HIDE DEF Wrong
  <2> QED
    BY <2>2, <2>4, <2>6, <2>7, <2>8, <2>9
<1>6. Sum(w, {}) = 0
  BY <1>4
<1> QED
  BY <1>3, <1>5, <1>6

\* A sum is at most another one that has, for each element with a weight, an element of
\* its own that weighs as much.
LEMMA SumInto ==
  ASSUME NEW S, IsFiniteSet(S), NEW w, \A x \in S : w[x] \in Nat,
         NEW T, IsFiniteSet(T), NEW v, \A y \in T : v[y] \in Nat, NEW f,
         \A x \in S : w[x] = 0 \/ (f[x] \in T /\ w[x] <= v[f[x]]),
         \A x, y \in S : w[x] # 0 /\ w[y] # 0 /\ f[x] = f[y] => x = y
  PROVE  Sum(w, S) <= Sum(v, T)
<1> DEFINE Fits(s, t) == \A x \in s : w[x] = 0 \/ f[x] \in t
           Over == {s \in SUBSET S : \E t \in SUBSET T : Fits(s, t) /\ ~(Sum(w, s) <= Sum(v, t))}
<1>1. /\ Sum(w, {}) = 0
      /\ \A s \in SUBSET S : Sum(w, s) \in Nat
      /\ \A s \in SUBSET S : \A x \in s : Sum(w, s) = Sum(w, s \ {x}) + w[x]
  BY SumOut
<1>2. /\ \A t \in SUBSET T : Sum(v, t) \in Nat
      /\ \A t \in SUBSET T : \A y \in t : Sum(v, t) = Sum(v, t \ {y}) + v[y]
  BY SumOut
<1>3. Over = {}
  <2> SUFFICES ASSUME Over # {} PROVE FALSE
    OBVIOUS
  <2>1. PICK s \in Over : \A x \in s : s \ {x} \notin Over
    BY Minimal
  <2>2. s \in SUBSET S
    BY <2>1
  <2>3. PICK t \in SUBSET T : Fits(s, t) /\ ~(Sum(w, s) <= Sum(v, t))
    BY <2>1
  <2>4. s # {}
    BY <1>1, <1>2, <2>3
  <2>5. PICK x \in s : TRUE
    BY <2>4
  <2>6. /\ Sum(w, s) = Sum(w, s \ {x}) + w[x] /\ w[x] \in Nat
        /\ Sum(w, s \ {x}) \in Nat /\ s \ {x} \in SUBSET S
    BY <1>1, <2>2, <2>5
  <2>7. \A u \in SUBSET T : Fits(s \ {x}, u) => Sum(w, s \ {x}) <= Sum(v, u)
    BY <2>1, <2>5, <2>6
  <2>8. CASE w[x] = 0
    <3>1. Fits(s \ {x}, t)
      BY <2>3
    <3> HIDE DEF Fits
    <3>2. Sum(w, s \ {x}) <= Sum(v, t)
      BY <2>7, <3>1
    <3> QED
      BY <2>3, <2>6, <2>8, <3>2
  <2>9. CASE w[x] # 0
    <3>1. f[x] \in t /\ w[x] <= v[f[x]] /\ v[f[x]] \in Nat
      BY <2>2, <2>3, <2>5, <2>9
    <3>2. Fits(s \ {x}, t \ {f[x]})
      BY <2>2, <2>3, <2>5, <2>9
    <3> HIDE DEF Fits
    <3>3. t \ {f[x]} \in SUBSET T
      OBVIOUS
    <3>4. Sum(w, s \ {x}) <= Sum(v, t \ {f[x]})
      BY <2>7, <3>2, <3>3
    <3>5. Sum(v, t) = Sum(v, t \ {f[x]}) + v[f[x]] /\ Sum(v, t \ {f[x]}) \in Nat
      BY <1>2, <3>1, <3>3
    <3> QED
      BY <2>3, <2>6, <3>1, <3>4, <3>5
  <2> QED
    BY <2>8, <2>9
<1>4. \A x \in S : w[x] = 0 \/ f[x] \in T
  OBVIOUS
<1> QED
  BY <1>3, <1>4

\* A sum is at most another one whose set has its elements, with at least their weights.
LEMMA SumWithin ==
  ASSUME NEW S, IsFiniteSet(S), NEW w, \A x \in S : w[x] \in Nat,
         NEW T, IsFiniteSet(T), NEW v, \A y \in T : v[y] \in Nat,
         \A x \in S : w[x] = 0 \/ (x \in T /\ w[x] <= v[x])
  PROVE  Sum(w, S) <= Sum(v, T)
<1> DEFINE f == [x \in S |-> x]
<1>1. \A x \in S : f[x] = x
  OBVIOUS
<1> HIDE DEF f
<1> QED
  BY <1>1, SumInto

-----------------------------------------------------------------------------
\* Lemmas about the operators of the model.

\* The bounds are numbers.
LEMMA Bounds ==
  /\ Qty \in Nat /\ Qty > 0 /\ MaxFaults \in Nat /\ MaxAttempts \in Nat
  /\ MaxPolls \in Nat /\ MaxPolls > 0
BY ExitLifecycleAssumption DEF ExitLifecycleAssumption

\* There are finitely many orders, and the kind of an order says where it belongs.
LEMMA Kinds ==
  /\ IsFiniteSet(Orders) /\ NoOrder \notin Orders
  /\ Bracket \subseteq Orders /\ StopLeg # TargetLeg
  /\ \A o \in Orders : /\ Kind(o) \in {"leg", "rearm", "close", "flatten"}
                       /\ Kind(o) = "leg" <=> o \in Bracket
                       /\ Kind(o) = "rearm" <=> o \in Rearms
                       /\ Kind(o) = "close" <=> o \in Closes
                       /\ Kind(o) = "flatten" <=> o \in Flattens
                       /\ Attempt(o) \in Attempts
<1>1. \A o \in Orders : o = <<o[1], o[2], o[3]>>
  BY DEF Orders, Bracket, StopLeg, TargetLeg, Rearms, Closes, Flattens
<1>2. 0 \in Attempts
  BY Bounds DEF Attempts
<1>3. \A o \in Bracket : Kind(o) = "leg" /\ Attempt(o) = 0
  BY DEF Bracket, StopLeg, TargetLeg, Kind, Attempt
<1>4. \A o \in Rearms : Kind(o) = "rearm" /\ Attempt(o) \in Attempts
  BY DEF Rearms, Kind, Attempt
<1>5. \A o \in Closes : Kind(o) = "close" /\ Attempt(o) \in Attempts
  BY DEF Closes, Kind, Attempt
<1>6. \A o \in Flattens : Kind(o) = "flatten" /\ Attempt(o) \in Attempts
  BY DEF Flattens, Kind, Attempt
<1>7. NoOrder \notin Orders
  <2>1. Kind(NoOrder) = "none"
    BY DEF Kind, NoOrder
  <2> QED
    BY <1>3, <1>4, <1>5, <1>6, <2>1 DEF Orders
<1>8. StopLeg # TargetLeg
  BY DEF StopLeg, TargetLeg
<1> DEFINE Words == {"leg", "rearm", "close", "flatten", "stop", "target", "deadline",
                     "missing", "before_close", "startup", "failed", "exit"}
           Names == (Words \X Words) \X Attempts
           name  == [p \in Names |-> <<p[1][1], p[1][2], p[2]>>]
           Named == {name[p] : p \in Names}
<1>9. IsFiniteSet(Names)
  <2>1. IsFiniteSet(Attempts)
    BY Bounds, FS_Interval DEF Attempts
  <2>2. IsFiniteSet(Words)
    <3>1. \A S, T : IsFiniteSet(S) /\ IsFiniteSet(T) => IsFiniteSet(S \cup T)
      BY FS_Union
    <3>2. \A x, y : IsFiniteSet({x, y})
      <4> TAKE x, y
      <4>1. {x, y} = {x} \cup {y} /\ IsFiniteSet({x}) /\ IsFiniteSet({y})
        BY FS_Singleton
      <4> QED
        BY <3>1, <4>1
    <3>3. Words = {"leg", "rearm"} \cup {"close", "flatten"} \cup {"stop", "target"}
                    \cup {"deadline", "missing"} \cup {"before_close", "startup"}
                    \cup {"failed", "exit"}
      OBVIOUS
    <3> HIDE DEF Words
    <3> QED
      BY <3>1, <3>2, <3>3
  <2> QED
    BY <2>1, <2>2, FS_Product
<1>10. name \in Surjection(Names, Named)
  BY DEF Surjection
<1>11. IsFiniteSet(Named)
  <2> HIDE DEF name, Named, Names
  <2> QED
    BY <1>9, <1>10, FS_Surjection
<1>12. ASSUME NEW o \in Orders PROVE o \in Named
  <2>1. o[1] \in Words /\ o[2] \in Words /\ o[3] \in Attempts
    BY <1>2 DEF Orders, Bracket, StopLeg, TargetLeg, Rearms, Closes, Flattens, FlattenReasons
  <2>2. <<<<o[1], o[2]>>, o[3]>> \in Names
    BY <2>1
  <2>3. name[<<<<o[1], o[2]>>, o[3]>>] = <<o[1], o[2], o[3]>>
    BY <2>2
  <2> HIDE DEF name, Names
  <2> QED
    BY <1>1, <2>2, <2>3
<1>13. IsFiniteSet(Orders)
  <2> HIDE DEF Named
  <2>1. Orders \in SUBSET Named
    BY <1>12
  <2> QED
    BY <1>11, <2>1, FS_Subset
<1>14. ASSUME NEW o \in Orders
       PROVE  /\ Kind(o) \in {"leg", "rearm", "close", "flatten"} /\ Attempt(o) \in Attempts
              /\ Kind(o) = "leg" <=> o \in Bracket
              /\ Kind(o) = "rearm" <=> o \in Rearms
              /\ Kind(o) = "close" <=> o \in Closes
              /\ Kind(o) = "flatten" <=> o \in Flattens
  <2>1. o \in Bracket \/ o \in Rearms \/ o \in Closes \/ o \in Flattens
    BY DEF Orders
  <2>2. CASE o \in Bracket
    BY <1>2, <1>3, <1>4, <1>5, <1>6, <2>2
  <2>3. CASE o \in Rearms
    BY <1>3, <1>4, <1>5, <1>6, <2>3
  <2>4. CASE o \in Closes
    BY <1>3, <1>4, <1>5, <1>6, <2>4
  <2>5. CASE o \in Flattens
    BY <1>3, <1>4, <1>5, <1>6, <2>5
  <2> QED
    BY <2>1, <2>2, <2>3, <2>4, <2>5
<1> QED
  BY <1>7, <1>8, <1>13, <1>14 DEF Orders

\* What the records e say the orders S have filled is a sum.
LEMMA FilledIsSum ==
  ASSUME NEW e, NEW S \in SUBSET Orders, \A o \in S : e[o].filled \in Nat
  PROVE  /\ Filled(e, S) = Sum([o \in S |-> e[o].filled], S)
         /\ Filled(e, S) \in Nat
<1> DEFINE w == [o \in S |-> e[o].filled]
           Same(g) == g = [s \in SUBSET S |->
              IF s = {} THEN 0
              ELSE e[CHOOSE x \in s : TRUE].filled
                     + g[s \ {CHOOSE x \in s : TRUE}]]
           h == CHOOSE g : Same(g)
<1>1. Filled(e, S) = h[S]
  BY DEF Filled, MapThenSumSet, MapThenFoldSet
<1>2. IsFiniteSet(S) /\ \A o \in S : w[o] \in Nat /\ w[o] = e[o].filled
  BY Kinds, FS_Subset
<1> HIDE DEF w
<1>3. ASSUME NEW s \in SUBSET S, s # {} PROVE w[First(s)] = e[First(s)].filled
  BY <1>2, <1>3 DEF First
<1>4. ASSUME NEW g PROVE Same(g) <=> IsFold(g, w, S)
  <2>1. \A s \in SUBSET S :
          Folded(g, w, s) = (IF s = {} THEN 0 ELSE e[First(s)].filled + g[s \ {First(s)}])
    BY <1>3 DEF Folded
  <2> QED
    BY <2>1 DEF IsFold, First
<1>5. \E g : IsFold(g, w, S)
  BY <1>2, FoldExists
<1> HIDE DEF Same
<1>6. IsFold(h, w, S)
  BY <1>4, <1>5
<1> HIDE DEF h
<1>7. h[S] = Sum(w, S) /\ Sum(w, S) \in Nat
  BY <1>2, <1>6, SumIsFold
<1> QED
  BY <1>1, <1>7 DEF w

\* What they have left is a sum.
LEMMA LeftIsSum ==
  ASSUME NEW e, NEW S \in SUBSET Orders, \A o \in S : e[o].qty - e[o].filled \in Nat
  PROVE  /\ Left(e, S) = Sum([o \in S |-> e[o].qty - e[o].filled], S)
         /\ Left(e, S) \in Nat
<1> DEFINE w == [o \in S |-> e[o].qty - e[o].filled]
           Same(g) == g = [s \in SUBSET S |->
              IF s = {} THEN 0
              ELSE (e[CHOOSE x \in s : TRUE].qty - e[CHOOSE x \in s : TRUE].filled)
                     + g[s \ {CHOOSE x \in s : TRUE}]]
           h == CHOOSE g : Same(g)
<1>1. Left(e, S) = h[S]
  BY DEF Left, MapThenSumSet, MapThenFoldSet
<1>2. IsFiniteSet(S) /\ \A o \in S : w[o] \in Nat /\ w[o] = e[o].qty - e[o].filled
  BY Kinds, FS_Subset
<1> HIDE DEF w
<1>3. ASSUME NEW s \in SUBSET S, s # {} PROVE w[First(s)] = (e[First(s)].qty - e[First(s)].filled)
  BY <1>2, <1>3 DEF First
<1>4. ASSUME NEW g PROVE Same(g) <=> IsFold(g, w, S)
  <2>1. \A s \in SUBSET S :
          Folded(g, w, s) = (IF s = {} THEN 0 ELSE (e[First(s)].qty - e[First(s)].filled) + g[s \ {First(s)}])
    BY <1>3 DEF Folded
  <2> QED
    BY <2>1 DEF IsFold, First
<1>5. \E g : IsFold(g, w, S)
  BY <1>2, FoldExists
<1> HIDE DEF Same
<1>6. IsFold(h, w, S)
  BY <1>4, <1>5
<1> HIDE DEF h
<1>7. h[S] = Sum(w, S) /\ Sum(w, S) \in Nat
  BY <1>2, <1>6, SumIsFold
<1> QED
  BY <1>1, <1>7 DEF w

\* What the rows of a journal account for is a sum.
LEMMA SharesIsSum ==
  ASSUME NEW S, IsFiniteSet(S), \A j \in S : j[3] \in Nat
  PROVE  /\ Shares(S) = Sum([j \in S |-> j[3]], S)
         /\ Shares(S) \in Nat
<1> DEFINE w == [j \in S |-> j[3]]
           Same(g) == g = [s \in SUBSET S |->
              IF s = {} THEN 0
              ELSE (CHOOSE x \in s : TRUE)[3]
                     + g[s \ {CHOOSE x \in s : TRUE}]]
           h == CHOOSE g : Same(g)
<1>1. Shares(S) = h[S]
  BY DEF Shares, MapThenSumSet, MapThenFoldSet
<1>2. IsFiniteSet(S) /\ \A j \in S : w[j] \in Nat /\ w[j] = j[3]
  OBVIOUS
<1> HIDE DEF w
<1>3. ASSUME NEW s \in SUBSET S, s # {} PROVE w[First(s)] = First(s)[3]
  BY <1>2, <1>3 DEF First
<1>4. ASSUME NEW g PROVE Same(g) <=> IsFold(g, w, S)
  <2>1. \A s \in SUBSET S :
          Folded(g, w, s) = (IF s = {} THEN 0 ELSE First(s)[3] + g[s \ {First(s)}])
    BY <1>3 DEF Folded
  <2> QED
    BY <2>1 DEF IsFold, First
<1>5. \E g : IsFold(g, w, S)
  BY <1>2, FoldExists
<1> HIDE DEF Same
<1>6. IsFold(h, w, S)
  BY <1>4, <1>5
<1> HIDE DEF h
<1>7. h[S] = Sum(w, S) /\ Sum(w, S) \in Nat
  BY <1>2, <1>6, SumIsFold
<1> QED
  BY <1>1, <1>7 DEF w

\* A total is at most another one over the same orders and more, with at least the same
\* fills; any order can be taken out of it.
LEMMA FilledWithin ==
  ASSUME NEW e, NEW S \in SUBSET Orders, \A o \in S : e[o].filled \in Nat,
         NEW d, NEW T \in SUBSET Orders, \A o \in T : d[o].filled \in Nat,
         \A o \in S : e[o].filled = 0 \/ (o \in T /\ e[o].filled <= d[o].filled)
  PROVE  Filled(e, S) <= Filled(d, T)
<1> DEFINE w == [o \in S |-> e[o].filled]
           v == [o \in T |-> d[o].filled]
<1>1. IsFiniteSet(S) /\ IsFiniteSet(T)
  BY Kinds, FS_Subset
<1>2. Filled(e, S) = Sum(w, S) /\ Filled(d, T) = Sum(v, T)
  BY FilledIsSum
<1>3. (\A o \in S : w[o] = e[o].filled) /\ (\A o \in T : v[o] = d[o].filled)
  OBVIOUS
<1> HIDE DEF w, v
<1>4. Sum(w, S) <= Sum(v, T)
  BY <1>1, <1>3, SumWithin
<1> QED
  BY <1>2, <1>4

\* An order's fills can be taken out of the sum.
LEMMA FilledOut ==
  ASSUME NEW e, NEW S \in SUBSET Orders, \A o \in S : e[o].filled \in Nat, NEW x \in S
  PROVE  Filled(e, S) = Filled(e, S \ {x}) + e[x].filled /\ Filled(e, S \ {x}) \in Nat
<1> DEFINE w == [o \in S |-> e[o].filled]
           v == [o \in S \ {x} |-> e[o].filled]
<1>1. IsFiniteSet(S) /\ IsFiniteSet(S \ {x}) /\ S \ {x} \in SUBSET Orders
  BY Kinds, FS_Subset
<1>2. Filled(e, S) = Sum(w, S) /\ Filled(e, S \ {x}) = Sum(v, S \ {x})
  BY <1>1, FilledIsSum
<1>3. (\A o \in S : w[o] = e[o].filled) /\ (\A o \in S \ {x} : v[o] = e[o].filled)
  OBVIOUS
<1> HIDE DEF w, v
<1>4. Sum(w, S) = Sum(w, S \ {x}) + w[x] /\ Sum(w, S \ {x}) \in Nat
  BY <1>1, <1>3, SumOut
<1>5. Sum(w, S \ {x}) <= Sum(v, S \ {x}) /\ Sum(v, S \ {x}) <= Sum(w, S \ {x})
  BY <1>1, <1>3, SumWithin
<1>6. Sum(v, S \ {x}) \in Nat
  BY <1>1, <1>3, SumIsFold
<1>7. Sum(v, S \ {x}) = Sum(w, S \ {x})
  BY <1>4, <1>5, <1>6
<1> QED
  BY <1>2, <1>3, <1>4, <1>7

\* What orders have left is at most what more orders have left.
LEMMA LeftWithin ==
  ASSUME NEW e, NEW S \in SUBSET Orders, \A o \in S : e[o].qty - e[o].filled \in Nat,
         NEW d, NEW T \in SUBSET Orders, \A o \in T : d[o].qty - d[o].filled \in Nat,
         \A o \in S : o \in T /\ e[o].qty - e[o].filled <= d[o].qty - d[o].filled
  PROVE  Left(e, S) <= Left(d, T)
<1> DEFINE w == [o \in S |-> e[o].qty - e[o].filled]
           v == [o \in T |-> d[o].qty - d[o].filled]
<1>1. IsFiniteSet(S) /\ IsFiniteSet(T)
  BY Kinds, FS_Subset
<1>2. Left(e, S) = Sum(w, S) /\ Left(d, T) = Sum(v, T)
  BY LeftIsSum
<1>3. (\A o \in S : w[o] = e[o].qty - e[o].filled) /\ (\A o \in T : v[o] = d[o].qty - d[o].filled)
  OBVIOUS
<1> HIDE DEF w, v
<1>4. Sum(w, S) <= Sum(v, T)
  BY <1>1, <1>3, SumWithin
<1> QED
  BY <1>2, <1>4

\* What an order has left can be taken out of the sum.
LEMMA LeftOut ==
  ASSUME NEW e, NEW S \in SUBSET Orders, \A o \in S : e[o].qty - e[o].filled \in Nat, NEW x \in S
  PROVE  /\ Left(e, S) = Left(e, S \ {x}) + (e[x].qty - e[x].filled)
         /\ Left(e, S \ {x}) \in Nat
<1> DEFINE w == [o \in S |-> e[o].qty - e[o].filled]
           v == [o \in S \ {x} |-> e[o].qty - e[o].filled]
<1>1. IsFiniteSet(S) /\ IsFiniteSet(S \ {x}) /\ S \ {x} \in SUBSET Orders
  BY Kinds, FS_Subset
<1>2. Left(e, S) = Sum(w, S) /\ Left(e, S \ {x}) = Sum(v, S \ {x})
  BY <1>1, LeftIsSum
<1>3. /\ \A o \in S : w[o] = e[o].qty - e[o].filled
      /\ \A o \in S \ {x} : v[o] = e[o].qty - e[o].filled
  OBVIOUS
<1> HIDE DEF w, v
<1>4. Sum(w, S) = Sum(w, S \ {x}) + w[x] /\ Sum(w, S \ {x}) \in Nat
  BY <1>1, <1>3, SumOut
<1>5. Sum(w, S \ {x}) <= Sum(v, S \ {x}) /\ Sum(v, S \ {x}) <= Sum(w, S \ {x})
  BY <1>1, <1>3, SumWithin
<1>6. Sum(v, S \ {x}) \in Nat
  BY <1>1, <1>3, SumIsFold
<1>7. Sum(v, S \ {x}) = Sum(w, S \ {x})
  BY <1>4, <1>5, <1>6
<1> QED
  BY <1>2, <1>3, <1>4, <1>7

\* No order has nothing left.
LEMMA LeftNone == ASSUME NEW e PROVE Left(e, {}) = 0
<1>1. Left(e, {}) = Sum([o \in {} |-> e[o].qty - e[o].filled], {})
  BY LeftIsSum
<1>2. ASSUME NEW w PROVE Sum(w, {}) = 0
  BY FS_EmptySet, SumOut
<1> QED
  BY <1>1, <1>2

-----------------------------------------------------------------------------
\* The broker's book.

\* The fills and the rest of an order are numbers.
LEMMA Shape ==
  ASSUME BrokerType, OrderInv
  PROVE  /\ WorkingOrders \subseteq Orders
         /\ \A o \in Orders :
              /\ ord[o].filled \in Nat /\ ord[o].qty \in Nat
              /\ ord[o].filled \in 0 .. Qty /\ ord[o].qty \in 0 .. Qty
              /\ ord[o].status \in {"none", "filled", "canceled", "working", "canceling"}
              /\ ord[o].qty - ord[o].filled \in Nat
              /\ ord[o] = [status |-> ord[o].status, qty |-> ord[o].qty, filled |-> ord[o].filled]
<1>1. WorkingOrders \subseteq Orders
  BY DEF WorkingOrders
<1>2. \A o \in Orders : ord[o] \in BrokerOrder
  BY DEF BrokerType
<1>3. \A o \in Orders : ord[o].filled <= ord[o].qty
  BY DEF OrderInv
<1> QED
  BY <1>1, <1>2, <1>3, Bounds DEF BrokerOrder, Working

\* A record of the shape of a broker's order is one.
LEMMA IsOrder ==
  ASSUME NEW s \in {"none", "filled", "canceled", "working", "canceling"},
         NEW q \in 0 .. Qty, NEW f \in 0 .. Qty
  PROVE  [status |-> s, qty |-> q, filled |-> f] \in BrokerOrder
BY DEF BrokerOrder, Working

\* Some working orders are being cancelled, or are gone.
Thinned ==
  /\ held' = held /\ shown' = shown /\ ord' \in [Orders -> BrokerOrder]
  /\ \A o \in Orders : /\ ord'[o].qty = ord[o].qty /\ ord'[o].filled = ord[o].filled
                       /\ \/ ord'[o] = ord[o]
                          \/ ord[o].status \in Working /\ ord'[o].status \in {"canceling", "canceled"}

\* Cancels keep the broker's book.
LEMMA BookThinned ==
  ASSUME BookInv, Thinned
  PROVE  BookInv' /\ Onward
<1> USE Bounds
<1>1. BrokerType /\ OrderInv
  BY DEF BookInv
<1>a. /\ WorkingOrders \subseteq Orders
      /\ \A p \in Orders : /\ ord[p].filled \in Nat /\ ord[p].qty \in Nat
                           /\ ord[p].qty - ord[p].filled \in Nat
  BY <1>1, Shape
<1>2. /\ held' = held /\ shown' = shown
      /\ \A o \in Orders : /\ ord'[o].qty = ord[o].qty /\ ord'[o].filled = ord[o].filled
                           /\ \/ ord'[o] = ord[o]
                              \/ ord[o].status \in Working /\ ord'[o].status \in {"canceling", "canceled"}
  BY DEF Thinned
<1>3. BrokerType'
  BY <1>1 DEF BrokerType, Thinned
<1>4. OrderInv'
  BY <1>1, <1>2 DEF OrderInv, Working
<1>5. WorkingOrders' \subseteq WorkingOrders
  BY <1>2 DEF WorkingOrders, Working
<1>6. Filled(ord', Orders) = Filled(ord, Orders)
  <2>1. \A o \in Orders : ord'[o].filled = ord[o].filled /\ ord[o].filled \in Nat
    BY <1>a, <1>2
  <2>2. Filled(ord', Orders) <= Filled(ord, Orders) /\ Filled(ord, Orders) <= Filled(ord', Orders)
    BY <2>1, FilledWithin
  <2>3. Filled(ord', Orders) \in Nat /\ Filled(ord, Orders) \in Nat
    BY <2>1, FilledIsSum
  <2> QED
    BY <2>2, <2>3
<1>7. WorkingOrders' \cap Bracket # {} => \A o \in Orders \ Bracket : ord'[o].status = "none"
  <2>1. WorkingOrders \cap Bracket # {} => \A o \in Orders \ Bracket : ord[o].status = "none"
    BY DEF BookInv
  <2>2. \A o \in Orders : ord[o].status = "none" => ord'[o].status = "none"
    BY <1>2 DEF Working
  <2> QED
    BY <1>5, <2>1, <2>2
<1>8. Outstanding' <= held'
  <2>1. \A o \in Orders : /\ ord[o].qty - ord[o].filled \in Nat
                          /\ ord'[o].qty - ord'[o].filled = ord[o].qty - ord[o].filled
    BY <1>a, <1>2
  <2>2. WorkingOrders' \ Bracket \in SUBSET Orders /\ WorkingOrders \ Bracket \in SUBSET Orders
    BY <1>a, <1>5
  <2>3. Left(ord', WorkingOrders' \ Bracket) <= Left(ord, WorkingOrders \ Bracket)
    BY <1>5, <2>1, <2>2, LeftWithin
  <2>4. Left(ord', WorkingOrders' \ Bracket) \in Nat /\ Left(ord, WorkingOrders \ Bracket) \in Nat
    BY <2>1, <2>2, LeftIsSum
  <2>5. Left(ord, WorkingOrders \ Bracket) <= held /\ held \in Nat
    BY <1>1 DEF BookInv, Outstanding, BrokerType
  <2> QED
    BY <1>2, <2>3, <2>4, <2>5 DEF Outstanding
<1>9. held' = 0 => WorkingOrders' = {}
  BY <1>2, <1>5 DEF BookInv
<1>10. shown' # held' => LaggingFills # {} /\ \A o \in Orders \ Bracket : ord'[o].filled = 0
  BY <1>2 DEF BookInv
<1>11. held' = 0 /\ shown' > 0 => \E o \in Bracket : ord'[o].status = "filled" /\ ord'[o].filled > 0
  <2>1. Bracket \subseteq Orders
    BY Kinds
  <2> QED
    BY <1>2, <2>1 DEF BookInv, Working
<1>12. held + Filled(ord, Orders) = Qty /\ held <= shown
  BY DEF BookInv
<1>13. BookInv'
  BY <1>2, <1>3, <1>4, <1>6, <1>7, <1>8, <1>9, <1>10, <1>11, <1>12 DEF BookInv
<1>14. Onward
  <2>1. held' <= held /\ shown' <= shown
    BY <1>1, <1>2 DEF BrokerType
  <2>2. ASSUME NEW o \in Orders
        PROVE  /\ ord[o].status \in Final => ord'[o] = ord[o]
               /\ ord[o].filled <= ord'[o].filled
               /\ ord[o].status # "none" => ord'[o].status # "none"
               /\ ord'[o].status \in Working => ord[o].status \in Working
    BY <1>1, <1>2, <1>a, <2>2 DEF Final, Working
  <2>3. held = 0 => \A o \in Orders : ord'[o] = ord[o]
    BY <1>2 DEF BookInv, WorkingOrders
  <2> QED
    BY <1>2, <2>1, <2>2, <2>3 DEF Onward
<1> QED
  BY <1>13, <1>14

\* A new order is accepted while something is held.
LEMMA BookPlaced ==
  ASSUME BookInv, held > 0, NEW o \in Orders, o \notin Bracket, ord[o].status = "none",
         NEW q \in 1 .. Qty, Accepts(q), ord' = Placed(o, q), held' = held, shown' = shown
  PROVE  BookInv' /\ Onward
<1> USE Bounds
<1>1. BrokerType /\ OrderInv
  BY DEF BookInv
<1>a. /\ WorkingOrders \subseteq Orders
      /\ \A p \in Orders : /\ ord[p].filled \in Nat /\ ord[p].qty \in Nat
                           /\ ord[p].qty - ord[p].filled \in Nat
  BY <1>1, Shape
<1> DEFINE row == [status |-> "working", qty |-> q, filled |-> 0]
<1>2. row.status = "working" /\ row.qty = q /\ row.filled = 0 /\ row \in BrokerOrder
  BY IsOrder
<1>3. /\ ord' \in [Orders -> BrokerOrder]
      /\ \A p \in Orders : ord'[p] = IF p = o THEN row ELSE ord[p]
  BY <1>1, <1>2 DEF Placed, BrokerType
<1> HIDE DEF row
<1>4. WorkingOrders' = WorkingOrders \cup {o} /\ o \notin WorkingOrders
  BY <1>2, <1>3 DEF WorkingOrders, Working
<1>5. BrokerType'
  BY <1>1, <1>3 DEF BrokerType
<1>6. OrderInv'
  BY <1>1, <1>2, <1>3 DEF OrderInv
<1>7. ord[o].filled = 0
  BY <1>1 DEF OrderInv
<1>8. Filled(ord', Orders) = Filled(ord, Orders)
  <2>1. \A p \in Orders : ord'[p].filled = ord[p].filled /\ ord[p].filled \in Nat
    BY <1>a, <1>2, <1>3, <1>7
  <2>2. Filled(ord', Orders) <= Filled(ord, Orders) /\ Filled(ord, Orders) <= Filled(ord', Orders)
    BY <2>1, FilledWithin
  <2>3. Filled(ord', Orders) \in Nat /\ Filled(ord, Orders) \in Nat
    BY <2>1, FilledIsSum
  <2> QED
    BY <2>2, <2>3
<1> DEFINE W == WorkingOrders \ Bracket
<1>9. W \in SUBSET Orders /\ W \cup {o} \in SUBSET Orders /\ (W \cup {o}) \ {o} = W
      /\ WorkingOrders' \ Bracket = W \cup {o}
  BY <1>a, <1>4
<1> HIDE DEF W
<1>10. Left(ord, W) \in Nat /\ Left(ord, W) = Outstanding
  BY <1>a, <1>9, LeftIsSum DEF W, Outstanding
<1>11. WorkingOrders \cap Bracket = {} /\ Outstanding + q <= held
  <2>1. held - Reserved >= q /\ held \in Nat
    BY <1>1 DEF Accepts, BrokerType
  <2>2. Reserved = (IF WorkingOrders \cap Bracket = {} THEN 0 ELSE held) + Outstanding
    BY DEF Reserved, Outstanding
  <2> QED
    BY <1>10, <2>1, <2>2
<1>12. Outstanding' <= held'
  <2>1. \A p \in W \cup {o} : ord'[p].qty - ord'[p].filled \in Nat
    BY <1>a, <1>2, <1>3, <1>9
  <2>2. Left(ord', W \cup {o}) = Left(ord', W) + (ord'[o].qty - ord'[o].filled)
        /\ Left(ord', W) \in Nat
    <3>1. o \in W \cup {o} /\ W \cup {o} \in SUBSET Orders
      BY <1>9
    <3>2. /\ Left(ord', W \cup {o}) = Left(ord', (W \cup {o}) \ {o}) + (ord'[o].qty - ord'[o].filled)
          /\ Left(ord', (W \cup {o}) \ {o}) \in Nat
      BY <2>1, <3>1, LeftOut
    <3> QED
      BY <1>9, <3>2
  <2>3. ord'[o].qty - ord'[o].filled = q
    BY <1>2, <1>3
  <2>4. \A p \in W : /\ ord[p].qty - ord[p].filled \in Nat
                     /\ ord'[p].qty - ord'[p].filled = ord[p].qty - ord[p].filled
    BY <1>a, <1>3, <1>4, <1>9 DEF W
  <2>5. Left(ord', W) <= Left(ord, W)
    BY <1>9, <2>4, LeftWithin
  <2>6. Outstanding' = Left(ord', W \cup {o})
    BY <1>9 DEF Outstanding
  <2> QED
    BY <1>1, <1>10, <1>11, <2>2, <2>3, <2>5, <2>6 DEF BrokerType
<1>13. WorkingOrders' \cap Bracket = {}
  BY <1>4, <1>11
<1>14. shown' # held' => LaggingFills # {} /\ \A p \in Orders \ Bracket : ord'[p].filled = 0
  BY <1>2, <1>3 DEF BookInv
<1>15. held + Filled(ord, Orders) = Qty /\ held <= shown
  BY DEF BookInv
<1>16. BookInv'
  BY <1>5, <1>6, <1>8, <1>12, <1>13, <1>14, <1>15 DEF BookInv
<1>17. Onward
  <2>1. held' <= held /\ shown' <= shown
    BY <1>1 DEF BrokerType
  <2>2. ASSUME NEW p \in Orders
        PROVE  /\ ord[p].status \in Final => ord'[p] = ord[p]
               /\ ord[p].filled <= ord'[p].filled
               /\ ord[p].status # "none" => ord'[p].status # "none"
               /\ p \in Bracket /\ ord'[p].status \in Working => ord[p].status \in Working
    BY <1>1, <1>2, <1>3, <1>7, <1>a, <2>2 DEF Final
  <2> QED
    BY <2>1, <2>2 DEF Onward
<1> QED
  BY <1>16, <1>17

\* The positions catch up.
LEMMA BookSettled ==
  ASSUME BookInv, PositionsSettle
  PROVE  BookInv' /\ Onward
<1>1. shown' = held /\ held' = held /\ ord' = ord
  BY DEF PositionsSettle
<1>2. BrokerType /\ held <= shown
  BY DEF BookInv
<1>3. BrokerType'
  BY <1>1, <1>2 DEF BrokerType
<1>4. OrderInv' /\ WorkingOrders' = WorkingOrders /\ Outstanding' = Outstanding
  BY <1>1 DEF BookInv, OrderInv, WorkingOrders, Outstanding
<1>5. BookInv'
  BY <1>1, <1>2, <1>3, <1>4 DEF BookInv, BrokerType
<1>6. Onward
  BY <1>1, <1>2, Shape DEF BookInv, Onward, BrokerType
<1> QED
  BY <1>5, <1>6

\* A record with two of its fields replaced.
LEMMA Refilled ==
  ASSUME NEW r \in BrokerOrder, NEW f, NEW s
  PROVE  [r EXCEPT !.filled = f, !.status = s] = [status |-> s, qty |-> r.qty, filled |-> f]
<1>1. PICK a, b, c : r = [status |-> a, qty |-> b, filled |-> c]
  BY DEF BrokerOrder
<1>2. [r EXCEPT !.filled = f] = [status |-> a, qty |-> b, filled |-> f] /\ r.qty = b
  BY <1>1
<1>3. [[status |-> a, qty |-> b, filled |-> f] EXCEPT !.status = s]
         = [status |-> s, qty |-> b, filled |-> f]
  OBVIOUS
<1> QED
  BY <1>2, <1>3

\* What a fill does to the orders.
LEMMA FillIs ==
  ASSUME BookInv, NEW o \in Orders, NEW k \in 1 .. Qty, Fill(o, k)
  PROVE  /\ ord[o].status \in Working /\ held' = held - k /\ ord[o].filled + k <= ord[o].qty
         /\ o \in Bracket => k <= held
         /\ shown' = IF Kind(o) \in LaggingFills THEN shown ELSE held - k
         /\ ord' \in [Orders -> BrokerOrder]
         /\ ord'[o].qty = ord[o].qty /\ ord'[o].filled = ord[o].filled + k
         /\ IF ord[o].filled + k = ord[o].qty \/ (o \in Bracket /\ held' = 0)
            THEN ord'[o].status = "filled" ELSE ord'[o].status = ord[o].status
         /\ \A p \in Orders \ {o} :
               \/ ord'[p] = ord[p] /\ ~({o, p} = Bracket /\ held' = 0 /\ p \in WorkingOrders)
               \/ /\ {o, p} = Bracket /\ held' = 0 /\ p \in WorkingOrders
                  /\ ord'[p].qty = ord[p].qty /\ ord'[p].filled = ord[p].filled
                  /\ ord'[p].status = "canceled"
<1> USE Bounds
<1>1. BrokerType /\ OrderInv
  BY DEF BookInv
<1>2. \A p \in Orders : /\ ord[p].filled \in 0 .. Qty /\ ord[p].qty \in 0 .. Qty
                        /\ ord[p].status \in {"none", "filled", "canceled", "working", "canceling"}
                        /\ ord[p] = [status |-> ord[p].status, qty |-> ord[p].qty,
                                     filled |-> ord[p].filled]
  BY <1>1, Shape
<1> DEFINE left == held - k
           done == ord[o].filled + k = ord[o].qty \/ (o \in Bracket /\ left = 0)
           hit  == [status |-> IF done THEN "filled" ELSE ord[o].status, qty |-> ord[o].qty,
                    filled |-> ord[o].filled + k]
           gone(p) == [status |-> "canceled", qty |-> ord[p].qty, filled |-> ord[p].filled]
<1>3. /\ ord[o].status \in Working /\ ord[o].filled + k <= ord[o].qty
      /\ o \in Bracket => k <= held
      /\ held' = left /\ shown' = IF Kind(o) \in LaggingFills THEN shown ELSE left
  BY DEF Fill
<1>4. ord' = [p \in Orders |-> IF p = o THEN hit
                               ELSE IF {o, p} = Bracket /\ left = 0 /\ p \in WorkingOrders
                                    THEN gone(p) ELSE ord[p]]
  <2>1. [ord[o] EXCEPT !.filled = @ + k, !.status = IF done THEN "filled" ELSE @] = hit
    <3>1. ord[o] \in BrokerOrder
      BY <1>1 DEF BrokerType
    <3> HIDE DEF done
    <3> QED
      BY <3>1, Refilled
  <2>2. \A p \in Orders : [ord[p] EXCEPT !.status = "canceled"] = gone(p)
    <3>1. ASSUME NEW r \in BrokerOrder
          PROVE  [r EXCEPT !.status = "canceled"]
                   = [status |-> "canceled", qty |-> r.qty, filled |-> r.filled]
      BY DEF BrokerOrder
    <3>2. \A p \in Orders : ord[p] \in BrokerOrder
      BY <1>1 DEF BrokerType
    <3> QED
      BY <3>1, <3>2
  <2>3. ord' = [p \in Orders |->
              IF p = o
              THEN [ord[o] EXCEPT !.filled = @ + k, !.status = IF done THEN "filled" ELSE @]
              ELSE IF {o, p} = Bracket /\ left = 0 /\ p \in WorkingOrders
                   THEN [ord[p] EXCEPT !.status = "canceled"] ELSE ord[p]]
    BY DEF Fill
  <2> HIDE DEF hit, gone, done, left
  <2> QED
    BY <2>1, <2>2, <2>3
<1>5. /\ hit.qty = ord[o].qty /\ hit.filled = ord[o].filled + k
      /\ hit.status = IF done THEN "filled" ELSE ord[o].status
      /\ hit \in BrokerOrder
  <2>1. ord[o].filled + k \in 0 .. Qty
    <3>1. ord[o].filled \in 0 .. Qty /\ ord[o].qty \in 0 .. Qty /\ ord[o].filled + k <= ord[o].qty
      BY <1>2, <1>3
    <3> QED
      BY <3>1
  <2>2. (IF done THEN "filled" ELSE ord[o].status)
           \in {"none", "filled", "canceled", "working", "canceling"}
    BY <1>2
  <2> HIDE DEF done
  <2> QED
    BY <1>2, <2>1, <2>2, IsOrder
<1>6. \A p \in Orders : /\ gone(p).qty = ord[p].qty /\ gone(p).filled = ord[p].filled
                        /\ gone(p).status = "canceled" /\ gone(p) \in BrokerOrder
  BY <1>2, IsOrder
<1>7. \A p \in Orders : ord[p] \in BrokerOrder
  BY <1>1 DEF BrokerType
<1> HIDE DEF hit, gone
<1>8. ord' \in [Orders -> BrokerOrder]
  BY <1>4, <1>5, <1>6, <1>7
<1>9. ord'[o] = hit
  BY <1>4
<1>10. \A p \in Orders \ {o} :
          ord'[p] = IF {o, p} = Bracket /\ left = 0 /\ p \in WorkingOrders
                    THEN gone(p) ELSE ord[p]
  BY <1>4
<1> QED
  BY <1>3, <1>5, <1>6, <1>8, <1>9, <1>10

\* Shares of a leg fill: nothing else is at work.
\* Shares of another exit fill: no leg is at work, and what is left is still covered.
LEMMA BookFilled ==
  ASSUME BookInv, Setting, NEW o \in Orders, NEW k \in 1 .. Qty, Fill(o, k)
  PROVE  BookInv' /\ Onward
<1> USE Bounds
<1>1. BrokerType /\ OrderInv /\ held \in Nat /\ shown \in Nat /\ k \in Nat /\ k > 0
  BY DEF BookInv, BrokerType
<1>2. /\ WorkingOrders \subseteq Orders
      /\ \A p \in Orders : /\ ord[p].filled \in Nat /\ ord[p].qty \in Nat
                           /\ ord[p].qty - ord[p].filled \in Nat
                           /\ ord[p].status \in {"none", "filled", "canceled", "working", "canceling"}
  BY <1>1, Shape
<1>3. /\ ord[o].status \in Working /\ held' = held - k /\ ord[o].filled + k <= ord[o].qty
      /\ o \in Bracket => k <= held
      /\ shown' = IF Kind(o) \in LaggingFills THEN shown ELSE held - k
      /\ ord' \in [Orders -> BrokerOrder]
      /\ ord'[o].qty = ord[o].qty /\ ord'[o].filled = ord[o].filled + k
      /\ IF ord[o].filled + k = ord[o].qty \/ (o \in Bracket /\ held' = 0)
         THEN ord'[o].status = "filled" ELSE ord'[o].status = ord[o].status
  BY FillIs
<1>4. \A p \in Orders \ {o} :
         \/ ord'[p] = ord[p] /\ ~({o, p} = Bracket /\ held' = 0 /\ p \in WorkingOrders)
         \/ /\ {o, p} = Bracket /\ held' = 0 /\ p \in WorkingOrders
            /\ ord'[p].qty = ord[p].qty /\ ord'[p].filled = ord[p].filled
            /\ ord'[p].status = "canceled"
  BY FillIs
<1>5. \A p \in Orders : /\ ord'[p].qty - ord'[p].filled \in Nat
                        /\ ord'[p].filled \in Nat /\ ord[p].filled <= ord'[p].filled
                        /\ ord'[p].qty - ord'[p].filled <= ord[p].qty - ord[p].filled
                        /\ ord'[p].status \in Working => ord'[p] = ord[p] \/ p = o
                        /\ p # o => ord'[p].filled = ord[p].filled
  BY <1>1, <1>2, <1>3, <1>4 DEF Working
<1>6. o \in WorkingOrders /\ WorkingOrders' \subseteq WorkingOrders
  BY <1>3, <1>5 DEF WorkingOrders
<1>7. held + Filled(ord, Orders) = Qty /\ held <= shown /\ Outstanding <= held
      /\ (WorkingOrders \cap Bracket # {} => \A p \in Orders \ Bracket : ord[p].status = "none")
  BY DEF BookInv
<1>8. Filled(ord', Orders) = Filled(ord, Orders) + k
  <2>1. Filled(ord, Orders) = Filled(ord, Orders \ {o}) + ord[o].filled
        /\ Filled(ord, Orders \ {o}) \in Nat
    BY <1>2, FilledOut
  <2>2. Filled(ord', Orders) = Filled(ord', Orders \ {o}) + ord'[o].filled
        /\ Filled(ord', Orders \ {o}) \in Nat
    BY <1>5, FilledOut
  <2>3. Filled(ord, Orders \ {o}) <= Filled(ord', Orders \ {o})
        /\ Filled(ord', Orders \ {o}) <= Filled(ord, Orders \ {o})
    BY <1>2, <1>5, FilledWithin
  <2> QED
    BY <1>2, <1>3, <1>1, <2>1, <2>2, <2>3
<1>9. OrderInv'
  <2>1. \A p \in Orders : ord[p].filled <= ord[p].qty
                          /\ (ord[p].status \in Working => ord[p].filled < ord[p].qty)
                          /\ (ord[p].status = "none" => ord[p].filled = 0)
    BY <1>1 DEF OrderInv
  <2> QED
    BY <1>1, <1>2, <1>3, <1>4, <2>1 DEF OrderInv, Working
<1> DEFINE W == WorkingOrders \ Bracket
           V == WorkingOrders' \ Bracket
<1>10. W \in SUBSET Orders /\ V \in SUBSET W
  BY <1>2, <1>6
<1>11. Left(ord, W) \in Nat /\ Left(ord', V) \in Nat /\ Left(ord, W) = Outstanding
       /\ Outstanding' = Left(ord', V)
  BY <1>2, <1>5, <1>10, LeftIsSum DEF Outstanding
<1>12. CASE o \in Bracket
  <2>1. \A p \in Orders \ Bracket : ord[p].status = "none" /\ ord[p].filled = 0
    BY <1>1, <1>6, <1>7, <1>12 DEF OrderInv
  <2>2. W = {} /\ V = {}
    BY <1>10, <2>1 DEF WorkingOrders, Working
  <2>3. Outstanding' = 0
    BY <1>11, <2>2, LeftNone
  <2>4. held' \in Nat /\ held' <= held /\ held' <= shown' /\ shown' <= shown /\ held' # held
    BY <1>1, <1>3, <1>7, <1>12
  <2>5. BrokerType'
    BY <1>1, <1>3, <2>4 DEF BrokerType
  <2>6. \A p \in Orders \ Bracket : ord'[p] = ord[p]
    BY <1>4, <1>12
  <2>7. held' = 0 => WorkingOrders' = {}
    <3> SUFFICES ASSUME held' = 0, NEW p \in WorkingOrders' PROVE FALSE
      OBVIOUS
    <3>1. p \in Bracket /\ p \in WorkingOrders
      BY <1>6, <2>2
    <3>2. p # o
      BY <1>3, <1>12 DEF WorkingOrders, Working
    <3>3. {o, p} = Bracket
      BY <1>12, <3>1, <3>2 DEF Bracket
    <3>4. ord'[p].status = "canceled"
      BY <1>2, <1>4, <3>1, <3>2, <3>3
    <3> QED
      BY <3>4 DEF WorkingOrders, Working
  <2>8. shown' # held' => LaggingFills # {} /\ \A p \in Orders \ Bracket : ord'[p].filled = 0
    BY <1>3, <2>1, <2>6
  <2>9. held' = 0 /\ shown' > 0 => \E p \in Bracket : ord'[p].status = "filled" /\ ord'[p].filled > 0
    BY <1>1, <1>2, <1>3, <1>12
  <2>10. held' + Filled(ord', Orders) = Qty
    <3>1. Filled(ord, Orders) \in Nat
      BY <1>2, FilledIsSum
    <3> QED
      BY <1>1, <1>3, <1>7, <1>8, <3>1
  <2>11. BookInv'
    BY <1>9, <2>1, <2>3, <2>4, <2>5, <2>6, <2>7, <2>8, <2>9, <2>10 DEF BookInv
  <2>12. \E p \in Bracket : ord[p].status \in Working /\ ord'[p].filled > 0
    BY <1>1, <1>2, <1>3, <1>12
  <2> QED
    BY <2>4, <2>11, <2>12, <1>1, <1>2, <1>3, <1>4, <1>5, <1>6 DEF Onward, Final, WorkingOrders, Working
<1>13. CASE o \notin Bracket
  <2>1. o \in W /\ WorkingOrders \cap Bracket = {}
    <3>1. ord[o].status # "none"
      BY <1>3 DEF Working
    <3> QED
      BY <1>6, <1>7, <1>13, <3>1
  <2>2. WorkingOrders' \cap Bracket = {} /\ WorkingOrders' = V
    BY <1>6, <2>1
  <2>3. Left(ord, W) = Left(ord, W \ {o}) + (ord[o].qty - ord[o].filled)
        /\ Left(ord, W \ {o}) \in Nat
    BY <1>2, <1>10, <2>1, LeftOut
  <2>4. Left(ord', V) <= Left(ord, W) - k
    <3>1. \A p \in V \ {o} : p \in W \ {o}
      BY <1>10
    <3>2. V \ {o} \in SUBSET Orders /\ W \ {o} \in SUBSET Orders
      BY <1>10
    <3>3. Left(ord', V \ {o}) <= Left(ord, W \ {o})
      BY <1>2, <1>5, <3>1, <3>2, LeftWithin
    <3>4. CASE o \in V
      <4>1. Left(ord', V) = Left(ord', V \ {o}) + (ord'[o].qty - ord'[o].filled)
            /\ Left(ord', V \ {o}) \in Nat
        BY <1>5, <1>10, <3>4, LeftOut
      <4> HIDE DEF W, V
      <4> QED
        BY <1>1, <1>2, <1>3, <2>3, <3>3, <4>1
    <3>5. CASE o \notin V
      <4>1. V \ {o} = V
        BY <3>5
      <4>2. Left(ord', V) <= Left(ord, W \ {o})
        BY <3>3, <4>1
      <4> HIDE DEF W, V
      <4> QED
        BY <1>1, <1>2, <1>3, <1>11, <2>3, <4>2
    <3> QED
      BY <3>4, <3>5
  <2>5. Kind(o) \notin LaggingFills
    BY <1>13, Kinds DEF Setting
  <2>6. held' \in Nat /\ held' <= held /\ shown' = held' /\ shown' <= shown /\ Outstanding' <= held'
    <3> HIDE DEF W, V
    <3>1. k <= held
      BY <1>1, <1>7, <1>11, <2>4
    <3> QED
      BY <1>1, <1>3, <1>7, <1>11, <2>4, <2>5, <3>1
  <2>7. BrokerType'
    BY <1>1, <1>3, <2>6 DEF BrokerType
  <2>8. held' = 0 => WorkingOrders' = {}
    <3> SUFFICES ASSUME held' = 0, NEW p \in V PROVE FALSE
      BY <2>2
    <3>1. Left(ord', V) = Left(ord', V \ {p}) + (ord'[p].qty - ord'[p].filled)
          /\ Left(ord', V \ {p}) \in Nat
      BY <1>5, <1>10, LeftOut
    <3>2. ord'[p].filled < ord'[p].qty /\ ord'[p].qty - ord'[p].filled \in Nat
          /\ ord'[p].filled \in Nat
      BY <1>5, <1>9, <1>10 DEF OrderInv, WorkingOrders
    <3>3. ord'[p].qty - ord'[p].filled # 0
      <4>1. ord'[p].qty \in Nat
        BY <1>2, <1>3, <1>4, <1>10
      <4> QED
        BY <3>2, <4>1
    <3> HIDE DEF V, W
    <3> QED
      BY <1>11, <2>6, <3>1, <3>2, <3>3
  <2>9. held' + Filled(ord', Orders) = Qty
    <3>1. Filled(ord, Orders) \in Nat
      BY <1>2, FilledIsSum
    <3> QED
      BY <1>1, <1>3, <1>7, <1>8, <3>1
  <2>10. held' <= shown' /\ ~(held' = 0 /\ shown' > 0)
    BY <2>6
  <2>11. BookInv'
    BY <1>9, <2>2, <2>6, <2>7, <2>8, <2>9, <2>10 DEF BookInv
  <2>12. held # 0
    BY <1>6 DEF BookInv
  <2> QED
    BY <2>6, <2>11, <2>12, <1>1, <1>2, <1>3, <1>4, <1>5, <1>6 DEF Onward, Final, WorkingOrders, Working
<1> QED
  BY <1>12, <1>13

-----------------------------------------------------------------------------
\* What the engine remembers, against a book that moved on.

\* On a flat book nothing is at work any more, and nothing is shown only of a flat book.
LEMMA FlatBook ==
  ASSUME BookInv
  PROVE  /\ held \in Nat /\ shown \in Nat /\ held <= shown /\ shown <= Qty
         /\ shown = 0 => held = 0
         /\ held = 0 => \A o \in Orders : ord[o].status \in Final \cup {"none"}
<1>1. held \in Nat /\ shown \in Nat /\ held <= shown /\ BrokerType /\ OrderInv /\ shown <= Qty
  BY DEF BookInv, BrokerType
<1>2. ASSUME held = 0, NEW o \in Orders PROVE ord[o].status \in Final \cup {"none"}
  <2>1. o \notin WorkingOrders
    BY <1>2 DEF BookInv
  <2>2. ord[o].status \in {"none", "filled", "canceled", "working", "canceling"}
    BY <1>1, Shape
  <2> QED
    BY <2>1, <2>2 DEF WorkingOrders, Working, Final
<1> QED
  BY <1>1, <1>2

\* A book that moved on from a flat one is the same.
LEMMA OnFlat ==
  ASSUME BookInv, BookInv', Onward
  PROVE  /\ held' <= held /\ shown' <= shown
         /\ shown = 0 => shown' = 0 /\ \A o \in Orders : ord'[o] = ord[o]
         /\ held = 0 => held' = 0
<1>1. held' \in Nat /\ shown' \in Nat
  BY DEF BookInv, BrokerType
<1> QED
  BY <1>1, FlatBook DEF Onward

\* The rows, which were not written, stay true of a book that moved on.
LEMMA RowsKept ==
  ASSUME BookInv, BookInv', Onward, RowType, RowInv, JournalInv,
         rows' = rows, journal \subseteq journal'
  PROVE  RowInv'
<1> SUFFICES ASSUME NEW o \in Orders
             PROVE  /\ rows[o].status = "none" => rows[o] = NoRow
                    /\ rows[o].filled <= ord'[o].filled
                    /\ rows[o].status \in Final => ord'[o].status \in Final
                    /\ rows[o].status # "none" /\ ord'[o].status = "none" => shown' = 0
                    /\ rows[o].status = "not_found" => shown' = 0
                    /\ rows[o].logged > 0 => /\ rows[o].logged = ord'[o].filled
                                             /\ <<o, 0, ord'[o].filled>> \in journal'
  BY DEF RowInv
<1>1. /\ rows[o].status = "none" => rows[o] = NoRow
      /\ rows[o].filled <= ord[o].filled
      /\ rows[o].status \in Final => ord[o].status \in Final
      /\ rows[o].status # "none" /\ ord[o].status = "none" => shown = 0
      /\ rows[o].status = "not_found" => shown = 0
      /\ rows[o].logged > 0 => /\ rows[o].logged = ord[o].filled
                               /\ <<o, 0, ord[o].filled>> \in journal
  BY DEF RowInv
<1>2. /\ ord[o].status \in Final => ord'[o] = ord[o]
      /\ ord[o].filled <= ord'[o].filled
      /\ ord[o].status # "none" => ord'[o].status # "none"
  BY DEF Onward
<1>3. shown = 0 => shown' = 0
  BY OnFlat
<1>4. rows[o].logged > 0 => ord'[o] = ord[o]
  <2>1. ASSUME <<o, 0, ord[o].filled>> \in journal PROVE ord[o].status \in Final
    <3> DEFINE j == <<o, 0, ord[o].filled>>
    <3>1. ord[j[1]].status \in Final
      BY <2>1 DEF JournalInv
    <3> QED
      BY <3>1
  <2> QED
    BY <1>1, <1>2, <2>1
<1>5. rows[o].filled <= ord'[o].filled
  <2>1. ord[o].filled \in Nat /\ ord'[o].filled \in Nat
    BY DEF BookInv, BrokerType, BrokerOrder
  <2>2. rows[o].filled \in Nat
    BY DEF RowType, OrderRow
  <2> QED
    BY <1>1, <1>2, <2>1, <2>2
<1> QED
  BY <1>1, <1>2, <1>3, <1>4, <1>5

\* So does the journal: what it has of an order was final.
LEMMA JournalKept ==
  ASSUME BookInv, BookInv', Onward, JournalType, JournalInv, journal' = journal
  PROVE  JournalInv'
<1> SUFFICES ASSUME NEW j \in journal
             PROVE  /\ j[2] = 0 /\ j[3] = ord'[j[1]].filled
                    /\ ord'[j[1]].status \in Final
  BY DEF JournalInv
<1>1. j[2] = 0 /\ j[3] = ord[j[1]].filled /\ ord[j[1]].status \in Final
  BY DEF JournalInv
<1>2. j[1] \in Orders
  BY DEF JournalType
<1>3. ord'[j[1]] = ord[j[1]]
  BY <1>1, <1>2 DEF Onward
<1> QED
  BY <1>1, <1>3

\* So do the legs on record.
LEMMA LegsKept ==
  ASSUME BookInv, BookInv', Onward, LegType, LegInv, legs' = legs, trade'.active = trade.active
  PROVE  LegInv'
<1>1. Bracket \subseteq Orders /\ Recorded \subseteq Orders /\ Recorded' = Recorded
  BY Kinds DEF Recorded, LegType, Orders
<1>2. \A o \in Recorded : ord'[o].status # "none"
  BY <1>1 DEF LegInv, Onward
<1>3. ASSUME trade.active, NEW o \in Bracket
      PROVE  /\ legs[o] # "absent"
             /\ ord'[o].status \in Working => legs[o] \in {"live", "filled"}
             /\ legs[o] = "canceled" => ord'[o].status = "canceled"
  <2>1. /\ legs[o] # "absent"
        /\ ord[o].status \in Working => legs[o] \in {"live", "filled"}
        /\ legs[o] = "canceled" => ord[o].status = "canceled"
    BY <1>3 DEF LegInv
  <2>2. /\ ord'[o].status \in Working => ord[o].status \in Working
        /\ ord[o].status \in Final => ord'[o] = ord[o]
    BY <1>1 DEF Onward
  <2> QED
    BY <2>1, <2>2 DEF Final
<1> QED
  BY <1>1, <1>2, <1>3 DEF LegInv

\* What is durable and not written stays true.
LEMMA DurableKept ==
  ASSUME BookInv, BookInv', Onward, Durable, UNCHANGED <<trade, legs, rows, journal>>
  PROVE  Durable'
<1>1. trade' = trade /\ legs' = legs /\ rows' = rows /\ journal' = journal
  OBVIOUS
<1>2. TradeType' /\ LegType' /\ RowType' /\ JournalType' /\ EndInv'
  BY <1>1 DEF Durable, TradeType, LegType, RowType, JournalType, EndInv
<1>3. RowInv' /\ JournalInv' /\ LegInv'
  BY <1>1, RowsKept, JournalKept, LegsKept DEF Durable
<1>4. TradeInv'
  BY <1>1, OnFlat DEF Durable, TradeInv
<1>5. ResidualInv'
  <2> SUFFICES ASSUME ~trade.confirmed, ~FirstSeen, trade.active PROVE ResidualInv'
    BY <1>1 DEF ResidualInv
  <2>1. \A o \in Orders : ord'[o] = ord[o]
    BY OnFlat DEF Durable, TradeInv
  <2>2. Recorded' = Recorded /\ Recorded \subseteq Orders
    BY <1>1, Kinds DEF Recorded, Durable, LegType, Orders
  <2>3. ResidualInv
    BY DEF Durable
  <2> QED
    BY <1>1, <2>1, <2>2, <2>3 DEF ResidualInv
<1> QED
  BY <1>2, <1>3, <1>4, <1>5 DEF Durable

\* What the provider remembers stays true, and so does nothing.
LEMMA MemoKept ==
  ASSUME Onward, MemoType, MemoInv, memo' = memo
  PROVE  MemoType' /\ MemoInv'
<1>1. MemoType'
  BY DEF MemoType
<1>2. ASSUME NEW o \in Orders
      PROVE  /\ memo[o].status # "none" => ord'[o].status # "none"
             /\ memo[o].status \in Final => ord'[o].status \in Final
  BY <1>2 DEF Onward, MemoInv
<1> QED
  BY <1>1, <1>2 DEF MemoInv

\* A process that starts anew remembers nothing.
LEMMA MemoCleared ==
  ASSUME memo' = NoRequests
  PROVE  MemoType' /\ MemoInv'
<1>1. NoRequest \in Request /\ NoRequest.status = "none"
  BY Bounds DEF NoRequest, Request
<1>2. \A o \in Orders : memo'[o] = NoRequest
  BY DEF NoRequests
<1> HIDE DEF NoRequest
<1>3. MemoType'
  BY <1>1 DEF MemoType, NoRequests
<1>4. MemoInv'
  BY <1>1, <1>2 DEF MemoInv, Final
<1> QED
  BY <1>3, <1>4

\* While the legs are being cancelled, and when the close is about to be sent, only the
\* broker's side moves.
LEMMA CloseKept ==
  ASSUME BookInv, BookInv', Onward, CloseInv, pc' = pc, asked' = asked,
         call' = call, legs' = legs
  PROVE  CloseInv'
<1>1. held' <= held /\ shown' <= shown /\ held' \in Nat /\ shown' \in Nat /\ shown \in Nat
      /\ held \in Nat /\ held' <= shown'
  BY DEF BookInv, BrokerType, Onward
<1>2. Bracket \subseteq Orders
  BY Kinds
<1>3. Bracket \cap WorkingOrders' \subseteq Bracket \cap WorkingOrders
  BY <1>2 DEF WorkingOrders, Onward
<1>4. ASSUME pc = "cancelling", shown' > 0
      PROVE  /\ Bracket \cap WorkingOrders' \subseteq asked
             /\ held' = 0 => \E o \in Bracket \cap asked : ord'[o].filled > 0
  <2>1. /\ Bracket \cap WorkingOrders \subseteq asked
        /\ held = 0 => \E o \in Bracket \cap asked : ord[o].filled > 0
    BY <1>1, <1>4 DEF CloseInv
  <2>2. ASSUME held' = 0 PROVE \E o \in Bracket \cap asked : ord'[o].filled > 0
    <3>1. CASE held = 0
      <4>1. PICK o \in Bracket \cap asked : ord[o].filled > 0
        BY <2>1, <3>1
      <4>2. ord'[o] = ord[o]
        BY <1>2, <3>1 DEF Onward
      <4> QED
        BY <4>1, <4>2
    <3>2. CASE held # 0
      <4>1. shown' # held' /\ held' # held
        BY <1>4, <2>2, <3>2
      <4>2. PICK o \in Bracket : ord[o].status \in Working /\ ord'[o].filled > 0
        BY <4>1 DEF Onward
      <4>3. o \in WorkingOrders
        BY <1>2, <4>2 DEF WorkingOrders
      <4> QED
        BY <2>1, <4>2, <4>3
    <3> QED
      BY <3>1, <3>2
  <2> QED
    BY <1>3, <2>1, <2>2
<1>5. ASSUME pc = "submit", shown' > 0
      PROVE  Bracket \cap WorkingOrders' = {} /\ held' > 0
  <2>1. Bracket \cap WorkingOrders = {} /\ held > 0
    BY <1>1, <1>5 DEF CloseInv
  <2>2. held' > 0
    <3> SUFFICES ASSUME held' = 0 PROVE FALSE
      BY <1>1
    <3>1. shown' # held' /\ held' # held
      BY <1>1, <1>5, <2>1
    <3>2. PICK o \in Bracket : ord[o].status \in Working /\ ord'[o].filled > 0
      BY <3>1 DEF Onward
    <3> QED
      BY <1>2, <2>1, <3>2 DEF WorkingOrders
  <2> QED
    BY <1>3, <2>1, <2>2
<1>6. ASSUME pc = "cancelling", call.reason = "none" PROVE asked \subseteq Recorded'
  BY <1>6 DEF CloseInv, Recorded
<1> QED
  BY <1>4, <1>5, <1>6 DEF CloseInv

-----------------------------------------------------------------------------
\* The broker's own steps.

\* A book that nobody touched.
LEMMA Unmoved ==
  ASSUME BookInv, UNCHANGED broker
  PROVE  BookInv' /\ Onward
<1>1. Thinned
  BY DEF broker, Thinned, BookInv, BrokerType
<1> QED
  BY <1>1, BookThinned

\* Asking for cancels.
LEMMA Requested ==
  ASSUME BookInv, NEW S, held' = held, shown' = shown,
         ord' = RequestCancel(S)
  PROVE  BookInv' /\ Onward
<1>1. BrokerType /\ OrderInv
  BY DEF BookInv
<1>2. ASSUME NEW o \in Orders
      PROVE  /\ ord'[o] \in BrokerOrder
             /\ ord'[o].qty = ord[o].qty /\ ord'[o].filled = ord[o].filled
             /\ \/ ord'[o] = ord[o]
                \/ ord[o].status \in Working /\ ord'[o].status \in {"canceling", "canceled"}
  <2>1. ord[o] \in BrokerOrder
    BY <1>1 DEF BrokerType
  <2>2. ord'[o] = IF o \in S /\ ord[o].status = "working"
                  THEN [ord[o] EXCEPT !.status = "canceling"] ELSE ord[o]
    BY DEF RequestCancel
  <2>3. ASSUME NEW r \in BrokerOrder
        PROVE  /\ [r EXCEPT !.status = "canceling"] \in BrokerOrder
               /\ [r EXCEPT !.status = "canceling"].qty = r.qty
               /\ [r EXCEPT !.status = "canceling"].filled = r.filled
               /\ [r EXCEPT !.status = "canceling"].status = "canceling"
    BY DEF BrokerOrder, Working
  <2> QED
    BY <2>1, <2>2, <2>3 DEF Working
<1>3. ord' = [o \in Orders |-> ord'[o]]
  BY DEF RequestCancel
<1>4. Thinned
  BY <1>2, <1>3 DEF Thinned
<1> QED
  BY <1>4, BookThinned

\* Some working orders are gone.
LEMMA Gone ==
  ASSUME BookInv, NEW G, held' = held, shown' = shown,
         ord' = [p \in Orders |-> IF G[p] THEN [ord[p] EXCEPT !.status = "canceled"] ELSE ord[p]],
         \A p \in Orders : G[p] => ord[p].status \in Working
  PROVE  BookInv' /\ Onward
<1>1. BrokerType /\ OrderInv
  BY DEF BookInv
<1>2. ASSUME NEW o \in Orders
      PROVE  /\ ord'[o] \in BrokerOrder
             /\ ord'[o].qty = ord[o].qty /\ ord'[o].filled = ord[o].filled
             /\ \/ ord'[o] = ord[o]
                \/ ord[o].status \in Working /\ ord'[o].status \in {"canceling", "canceled"}
  <2>1. ord[o] \in BrokerOrder
    BY <1>1 DEF BrokerType
  <2>2. ord'[o] = IF G[o] THEN [ord[o] EXCEPT !.status = "canceled"] ELSE ord[o]
    OBVIOUS
  <2>3. ASSUME NEW r \in BrokerOrder
        PROVE  /\ [r EXCEPT !.status = "canceled"] \in BrokerOrder
               /\ [r EXCEPT !.status = "canceled"].qty = r.qty
               /\ [r EXCEPT !.status = "canceled"].filled = r.filled
               /\ [r EXCEPT !.status = "canceled"].status = "canceled"
    BY DEF BrokerOrder, Working
  <2> QED
    BY <2>1, <2>2, <2>3
<1>3. ord' = [o \in Orders |-> ord'[o]]
  OBVIOUS
<1>4. Thinned
  BY <1>2, <1>3 DEF Thinned
<1> QED
  BY <1>4, BookThinned

\* Fills, cancels, deaths and the clock keep the invariant.
LEMMA BrokerSteps ==
  ASSUME IInv, Setting, NEW o \in Orders,
         OrderDies(o) \/ BrokerCancels(o) \/ (\E k \in 1 .. Qty : Fill(o, k)) \/ PositionsSettle
         \/ DeadlineDue \/ WindowOpens
  PROVE  IInv'
<1>1. BookInv /\ Durable /\ Volatile
  BY DEF IInv
<1>2. BookInv' /\ Onward
  <2>1. CASE OrderDies(o)
    <3> DEFINE G == [p \in Orders |-> p \in WorkingOrders /\ (p = o \/ {o, p} = Bracket)]
    <3>1. ord' = [p \in Orders |-> IF G[p] THEN [ord[p] EXCEPT !.status = "canceled"] ELSE ord[p]]
      BY <2>1 DEF OrderDies
    <3>2. \A p \in Orders : G[p] => ord[p].status \in Working
      BY DEF WorkingOrders
    <3>3. held' = held /\ shown' = shown
      BY <2>1 DEF OrderDies
    <3> HIDE DEF G
    <3> QED
      BY <1>1, <3>1, <3>2, <3>3, Gone
  <2>2. CASE BrokerCancels(o)
    <3> DEFINE G == [p \in Orders |-> p = o]
    <3>1. ord \in [Orders -> BrokerOrder] /\ ord' = [ord EXCEPT ![o].status = "canceled"]
      BY <1>1, <2>2 DEF BrokerCancels, BookInv, BrokerType
    <3>2. ord' = [p \in Orders |-> IF G[p] THEN [ord[p] EXCEPT !.status = "canceled"] ELSE ord[p]]
      BY <3>1
    <3>3. \A p \in Orders : G[p] => ord[p].status \in Working
      BY <2>2 DEF BrokerCancels, Working
    <3>4. held' = held /\ shown' = shown
      BY <2>2 DEF BrokerCancels
    <3> HIDE DEF G
    <3> QED
      BY <1>1, <3>2, <3>3, <3>4, Gone
  <2>3. CASE \E k \in 1 .. Qty : Fill(o, k)
    BY <1>1, <2>3, BookFilled
  <2>4. CASE PositionsSettle
    BY <1>1, <2>4, BookSettled
  <2>5. CASE DeadlineDue \/ WindowOpens
    <3>1. UNCHANGED broker
      BY <2>5 DEF DeadlineDue, WindowOpens
    <3> QED
      BY <1>1, <3>1, Unmoved
  <2> QED
    BY <2>1, <2>2, <2>3, <2>4, <2>5
<1>3. UNCHANGED <<durable, volatile>> /\ clock' \in {"open", "due", "flat"}
      /\ faults' \in 0 .. MaxFaults
  <2>1. clock \in {"open", "due", "flat"} /\ faults \in 0 .. MaxFaults
    BY <1>1 DEF Volatile, PlaceType
  <2>2. CASE OrderDies(o)
    BY <2>1, <2>2, Bounds DEF OrderDies, Fault
  <2>3. CASE BrokerCancels(o) \/ (\E k \in 1 .. Qty : Fill(o, k)) \/ PositionsSettle
             \/ DeadlineDue \/ WindowOpens
    BY <2>1, <2>3 DEF BrokerCancels, Fill, PositionsSettle, DeadlineDue, WindowOpens
  <2> QED
    BY <2>2, <2>3
<1>4. UNCHANGED <<trade, legs, rows, journal>> /\ paused' = paused
      /\ pc' = pc /\ snap' = snap /\ asked' = asked /\ job' = job /\ call' = call
      /\ memo' = memo /\ startup' = startup
  BY <1>3 DEF durable, volatile
<1>5. Durable'
  BY <1>1, <1>2, <1>4, DurableKept
<1>6. PlaceType' /\ JobType' /\ CallType' /\ Control'
  BY <1>1, <1>3, <1>4 DEF Volatile, PlaceType, JobType, CallType, Control
<1>7. MemoType' /\ MemoInv' /\ CloseInv'
  BY <1>1, <1>2, <1>4, MemoKept, CloseKept DEF Volatile
<1>8. SnapInv' /\ RecordInv'
  <2>1. SnapInv /\ RecordInv /\ Control /\ PlaceType
    BY <1>1 DEF Volatile
  <2>2. SnapInv'
    <3>1. shown' \in Nat /\ shown \in Nat /\ snap \in Nat /\ shown' <= shown
      BY <1>1, <1>2, <2>1, OnFlat, FlatBook DEF BookInv, BrokerType, PlaceType
    <3> QED
      BY <1>4, <2>1, <3>1 DEF SnapInv
  <2>3. RecordInv'
    <3> SUFFICES ASSUME pc = "record" PROVE ord'[job.id].status # "none" \/ shown' = 0
      BY <1>4 DEF RecordInv
    <3>1. job.id \in Orders
      BY <2>1 DEF Control, Orders
    <3>2. ord[job.id].status # "none" \/ shown = 0
      BY <2>1 DEF RecordInv
    <3> QED
      BY <1>1, <1>2, <3>1, <3>2, OnFlat DEF Onward
  <2> QED
    BY <2>2, <2>3
<1> QED
  BY <1>2, <1>5, <1>6, <1>7, <1>8 DEF IInv, Volatile


-----------------------------------------------------------------------------
\* The engine's steps that write nothing durable.

\* The call in progress, with one field after another replaced.
LEMMA Calls ==
  /\ NoCall \in Call /\ NoCall.reason = "none" /\ NoCall.polls = 0
  /\ \A r \in FlattenReasons \cup {"none"} : /\ [NoCall EXCEPT !.reason = r] \in Call
                                            /\ [NoCall EXCEPT !.reason = r].reason = r
                                            /\ [NoCall EXCEPT !.reason = r].polls = 0
<1>1. 0 \in 0 .. MaxPolls
  BY Bounds
<1> QED
  BY <1>1 DEF NoCall, Call

\* A step that writes nothing durable, and at most asks the broker for cancels.
Unwritten ==
  /\ UNCHANGED <<trade, legs, rows, journal>>
  /\ held' = held /\ shown' = shown
  /\ ord' = ord \/ \E S : ord' = RequestCancel(S)
  /\ memo' = memo \/ memo' = NoRequests

\* It keeps the broker's book, what is durable and what the provider remembers.
LEMMA WritesNothing ==
  ASSUME IInv, Unwritten
  PROVE  BookInv' /\ Onward /\ Durable' /\ MemoType' /\ MemoInv'
<1>1. BookInv /\ Durable /\ MemoType /\ MemoInv
  BY DEF IInv, Volatile
<1>2. BookInv' /\ Onward
  <2>1. CASE ord' = ord
    <3>1. UNCHANGED broker
      BY <2>1 DEF Unwritten, broker
    <3> QED
      BY <1>1, <3>1, Unmoved
  <2>2. CASE \E S : ord' = RequestCancel(S)
    <3>1. PICK S : ord' = RequestCancel(S)
      BY <2>2
    <3>2. held' = held /\ shown' = shown
      BY DEF Unwritten
    <3> QED
      BY <1>1, <3>1, <3>2, Requested
  <2> QED
    BY <2>1, <2>2 DEF Unwritten
<1>3. Durable'
  BY <1>1, <1>2, DurableKept DEF Unwritten
<1>4. MemoType' /\ MemoInv'
  BY <1>1, <1>2, MemoKept, MemoCleared DEF Unwritten
<1> QED
  BY <1>2, <1>3, <1>4

\* Such a step to a place where nothing is decided on what was read before.
LEMMA InMemory ==
  ASSUME IInv, Unwritten, PlaceType', JobType', CallType', Control',
         pc' \notin {"snapped", "cancelling", "submit", "record"}
  PROVE  IInv'
<1>1. BookInv' /\ Onward /\ Durable' /\ MemoType' /\ MemoInv'
  BY WritesNothing
<1>2. SnapInv' /\ CloseInv' /\ RecordInv'
  BY DEF SnapInv, CloseInv, RecordInv
<1> QED
  BY <1>1, <1>2 DEF IInv, Volatile

\* The snapshot that opens a reconcile.
LEMMA SnapPositionsStep ==
  ASSUME IInv, SnapPositions
  PROVE  IInv'
<1>1. BookInv /\ PlaceType /\ JobType /\ CallType /\ Control
  BY DEF IInv, Volatile
<1>2. /\ Unwritten /\ paused' = paused /\ asked' = asked /\ job' = job /\ call' = call
      /\ startup' = startup /\ clock' = clock /\ faults' = faults
  BY DEF SnapPositions, Unwritten, broker, durable
<1>3. /\ pc \in {"idle", "reconcile"} /\ pc' = "snapped" /\ snap' = shown /\ shown' = shown
  BY DEF SnapPositions, CycleStarts, broker
<1>4. BookInv' /\ Onward /\ Durable' /\ MemoType' /\ MemoInv'
  BY <1>2, WritesNothing
<1>5. PlaceType' /\ JobType' /\ CallType'
  BY <1>1, <1>2, <1>3 DEF BookInv, BrokerType, PlaceType, JobType, CallType
<1>6. Control'
  BY <1>1, <1>2, <1>3 DEF Control
<1>7. SnapInv' /\ CloseInv' /\ RecordInv'
  BY <1>1, <1>3 DEF SnapInv, CloseInv, RecordInv, BookInv, BrokerType
<1> QED
  BY <1>4, <1>5, <1>6, <1>7 DEF IInv, Volatile

\* The steps of a flatten call up to its decision.
LEMMA FlattenSteps ==
  ASSUME IInv, PausedForceFlat \/ FlattenBegins \/ PollPositions \/ PollFlat
  PROVE  IInv'
<1>1. BookInv /\ PlaceType /\ JobType /\ CallType /\ Control /\ LegType
  BY DEF IInv, Volatile, Durable
<1>2. LiveLegs \subseteq Bracket \cup Rearms
  BY <1>1 DEF LiveLegs, LegType
<1>3. CASE PausedForceFlat
  <2>1. /\ Unwritten /\ UNCHANGED <<paused, snap, asked, job, startup, clock, faults>>
        /\ pc' = "begin" /\ call' = [NoCall EXCEPT !.reason = "before_close"]
    BY <1>3 DEF PausedForceFlat, Unwritten, broker, durable
  <2>2. CallType' /\ call'.reason = "before_close" /\ call'.polls = 0
    BY <2>1, Calls DEF CallType, FlattenReasons
  <2>3. PlaceType' /\ JobType'
    BY <1>1, <2>1 DEF PlaceType, JobType
  <2>4. Control'
    BY <2>1, <2>2, Bounds DEF Control
  <2> QED
    BY <2>1, <2>2, <2>3, <2>4, InMemory
<1>4. CASE FlattenBegins
  <2>1. /\ UNCHANGED <<trade, legs, rows, journal, held, shown, memo>>
        /\ ord' = ord \/ \E S : ord' = RequestCancel(S)
        /\ UNCHANGED <<paused, snap, asked, job, startup, clock, faults>>
        /\ pc = "begin" /\ pc' = "poll"
    BY <1>4 DEF FlattenBegins, durable
  <2>2. Unwritten
    BY <2>1 DEF Unwritten
  <2>3. CallType' /\ call'.reason = call.reason /\ call'.polls = call.polls
    BY <1>1, <1>2, <1>4 DEF FlattenBegins, CallType, Call
  <2>4. PlaceType' /\ JobType'
    BY <1>1, <2>1 DEF PlaceType, JobType
  <2>5. Control'
    BY <1>1, <2>1, <2>3 DEF Control
  <2> QED
    BY <2>1, <2>2, <2>3, <2>4, <2>5, InMemory
<1>5. CASE PollPositions
  <2>1. /\ Unwritten /\ UNCHANGED <<paused, asked, job, call, startup, clock, faults>>
        /\ pc = "poll" /\ pc' = "polled" /\ snap' = shown
    BY <1>5 DEF PollPositions, Unwritten, broker, durable
  <2>2. PlaceType' /\ JobType' /\ CallType'
    BY <1>1, <2>1 DEF PlaceType, JobType, CallType, BookInv, BrokerType
  <2>3. Control'
    BY <1>1, <2>1 DEF Control
  <2> QED
    BY <2>1, <2>2, <2>3, InMemory
<1>6. CASE PollFlat
  <2>1. /\ UNCHANGED <<trade, legs, rows, journal, held, shown, memo>>
        /\ ord' = ord \/ \E S : ord' = RequestCancel(S)
        /\ UNCHANGED <<paused, snap, asked, job, startup, clock, faults>>
        /\ pc = "polled" /\ pc' = "reconcile"
        /\ call' = [call EXCEPT !.swept = TRUE, !.confirming = (WorkingOrders = {})]
    BY <1>6 DEF PollFlat, durable
  <2>2. Unwritten
    BY <2>1 DEF Unwritten
  <2>3. CallType' /\ call'.reason = call.reason /\ call'.polls = call.polls
    BY <1>1, <2>1 DEF CallType, Call
  <2>4. PlaceType' /\ JobType'
    BY <1>1, <2>1 DEF PlaceType, JobType
  <2>5. Control'
    BY <1>1, <2>1, <2>3 DEF Control
  <2> QED
    BY <2>1, <2>2, <2>3, <2>4, <2>5, InMemory
<1> QED
  BY <1>3, <1>4, <1>5, <1>6

\* The process stops, or the call ends and the cycle goes on.
Ends ==
  /\ UNCHANGED broker /\ UNCHANGED <<trade, legs, rows, journal, clock>>
  /\ paused' \in BOOLEAN /\ faults' \in 0 .. MaxFaults

\* Without a close in hand the job is empty.
LEMMA NoJobYet == NoJob \in [why : {"none", "deadline", "missing"}, id : Orders \cup {NoOrder}]
BY DEF NoJob

\* The process stops.
LEMMA StopsStep ==
  ASSUME IInv, Ends, Stops
  PROVE  IInv'
<1>1. PlaceType
  BY DEF IInv, Volatile
<1>2. Unwritten
  BY DEF Ends, Stops, Unwritten, broker
<1>3. PlaceType'
  BY <1>1, Bounds DEF Ends, Stops, PlaceType
<1>4. JobType' /\ CallType' /\ Control'
  BY Calls, NoJobYet DEF Stops, JobType, CallType, Control
<1> QED
  BY <1>2, <1>3, <1>4, InMemory DEF Stops

\* The call returns to the cycle.
LEMMA ReturnsStep ==
  ASSUME IInv, Ends, pc' = "idle", call' = NoCall, job' = NoJob, startup' \in BOOLEAN,
         UNCHANGED <<snap, asked, memo>>
  PROVE  IInv'
<1>1. PlaceType
  BY DEF IInv, Volatile
<1>2. Unwritten
  BY DEF Ends, Unwritten, broker
<1>3. PlaceType'
  BY <1>1 DEF Ends, PlaceType
<1>4. JobType' /\ CallType' /\ Control'
  BY Calls, NoJobYet DEF JobType, CallType, Control
<1> QED
  BY <1>2, <1>3, <1>4, InMemory

\* The run ends with one last flatten.
LEMMA ExitsStep ==
  ASSUME IInv, Ends, RunExits
  PROVE  IInv'
<1>1. PlaceType
  BY DEF IInv, Volatile
<1>2. Unwritten
  BY DEF Ends, RunExits, Unwritten, broker
<1>3. PlaceType'
  BY <1>1 DEF Ends, RunExits, PlaceType
<1>4. call' \in Call /\ call'.reason = "exit" /\ call'.polls = 0
  BY Calls DEF RunExits, FlattenReasons
<1>5. JobType' /\ CallType'
  BY <1>4, NoJobYet DEF RunExits, JobType, CallType
<1>6. Control'
  BY <1>4, Bounds DEF RunExits, Control
<1> QED
  BY <1>2, <1>3, <1>5, <1>6, InMemory DEF RunExits

\* The end of a flatten call is one of these.
LEMMA FinishStep ==
  ASSUME IInv, NEW c \in BOOLEAN, Finish(c), UNCHANGED broker,
         UNCHANGED <<trade, legs, rows, journal, clock, faults>>
  PROVE  IInv'
<1>1. PlaceType
  BY DEF IInv, Volatile
<1>2. paused' \in BOOLEAN
  BY DEF Finish
<1>3. Ends
  BY <1>1, <1>2 DEF Ends, PlaceType
<1>4. CASE call.reason = "exit" \/ (call.reason = "startup" /\ ~c)
  BY <1>3, <1>4, StopsStep DEF Finish
<1>5. CASE ~(call.reason = "exit" \/ (call.reason = "startup" /\ ~c))
  <2>1. pc' = "idle" /\ call' = NoCall /\ job' = NoJob /\ UNCHANGED <<snap, asked, memo>>
    BY <1>5 DEF Finish
  <2>2. startup' \in BOOLEAN
    <3>1. startup' = (startup /\ call.reason # "startup")
      BY <1>5 DEF Finish
    <3> QED
      BY <3>1
  <2> QED
    BY <1>3, <2>1, <2>2, ReturnsStep
<1> QED
  BY <1>4, <1>5

\* A flatten call ends, or goes on to restore the stop it stripped.
LEMMA FlattenEndsStep ==
  ASSUME IInv, FlattenEnds \/ FlattenReturns
  PROVE  IInv'
<1>1. PlaceType /\ JobType /\ CallType /\ Control
  BY DEF IInv, Volatile
<1>2. /\ UNCHANGED broker /\ UNCHANGED <<trade, legs, rows, journal, clock, faults>>
  BY DEF FlattenEnds, FlattenReturns
<1>3. CASE pc' = "rearm" /\ UNCHANGED <<paused, snap, asked, job, call, memo, startup>>
  <2>1. Unwritten
    BY <1>2, <1>3 DEF Unwritten, broker
  <2>2. PlaceType' /\ JobType' /\ CallType'
    BY <1>1, <1>2, <1>3 DEF PlaceType, JobType, CallType
  <2>3. Control'
    BY <1>3 DEF Control
  <2> QED
    BY <1>3, <2>1, <2>2, <2>3, InMemory
<1>4. CASE \E c \in BOOLEAN : Finish(c)
  BY <1>2, <1>4, FinishStep
<1>5. FlattenEnds => \/ pc' = "rearm" /\ UNCHANGED <<paused, snap, asked, job, call, memo, startup>>
                     \/ \E c \in BOOLEAN : Finish(c)
  <2> SUFFICES ASSUME FlattenEnds,
                      ~(pc' = "rearm" /\ UNCHANGED <<paused, snap, asked, job, call, memo, startup>>)
               PROVE  \E c \in BOOLEAN : Finish(c)
    OBVIOUS
  <2> DEFINE complete == ~call.error /\ (call.confirming \/ (shown = 0 /\ WorkingOrders = {}))
  <2>1. Finish(complete)
    BY DEF FlattenEnds
  <2>2. complete \in BOOLEAN
    OBVIOUS
  <2> HIDE DEF complete
  <2> QED
    BY <2>1, <2>2
<1>6. FlattenReturns => \E c \in BOOLEAN : Finish(c)
  <2>1. FALSE \in BOOLEAN
    OBVIOUS
  <2> QED
    BY <2>1 DEF FlattenReturns
<1> QED
  BY <1>3, <1>4, <1>5, <1>6

\* A fault is counted.
LEMMA Counted ==
  ASSUME NEW k, Fault(k), PlaceType
  PROVE  faults' \in 0 .. MaxFaults
BY Bounds DEF Fault, PlaceType

\* Nothing is recorded of a close whose record could not be written.
LEMMA RecordFails ==
  ASSUME IInv, JournalCloseFails \/ BindCloseFails
  PROVE  IInv'
<1>1. PlaceType /\ JobType /\ CallType /\ Control
  BY DEF IInv, Volatile
<1>2. pc = "record" /\ UNCHANGED broker /\ UNCHANGED <<trade, legs, rows, journal, clock>>
  BY DEF JournalCloseFails, BindCloseFails
<1>3. paused' \in BOOLEAN
  BY <1>1 DEF JournalCloseFails, BindCloseFails, PlaceType
<1>4. faults' \in 0 .. MaxFaults
  BY <1>1, Counted DEF JournalCloseFails, BindCloseFails
<1>5. Ends
  BY <1>2, <1>3, <1>4 DEF Ends
<1>6. \/ pc' = "rearm" /\ UNCHANGED <<snap, asked, job, call, memo, startup>>
      \/ RunExits
      \/ pc' = "idle" /\ call' = NoCall /\ job' = NoJob /\ UNCHANGED <<snap, asked, memo, startup>>
      \/ Stops
  BY DEF JournalCloseFails, BindCloseFails
<1>7. CASE pc' = "rearm" /\ UNCHANGED <<snap, asked, job, call, memo, startup>>
  <2>1. Unwritten
    BY <1>2, <1>7 DEF Unwritten, broker
  <2>2. PlaceType' /\ JobType' /\ CallType'
    BY <1>1, <1>5, <1>7 DEF Ends, PlaceType, JobType, CallType
  <2>3. Control'
    BY <1>7 DEF Control
  <2> QED
    BY <1>7, <2>1, <2>2, <2>3, InMemory
<1>8. CASE pc' = "idle" /\ call' = NoCall /\ job' = NoJob /\ UNCHANGED <<snap, asked, memo, startup>>
  <2>1. startup' \in BOOLEAN
    BY <1>1, <1>8 DEF PlaceType
  <2> QED
    BY <1>5, <1>8, <2>1, ReturnsStep
<1> QED
  BY <1>5, <1>6, <1>7, <1>8, ExitsStep, StopsStep

\* The marks of a cancel that could not be written leave no close in hand.
LEMMA ConfirmCancelFailsStep ==
  ASSUME IInv, ConfirmCancelFails
  PROVE  IInv'
<1>1. PlaceType /\ JobType /\ CallType /\ Control
  BY DEF IInv, Volatile
<1>2. /\ Unwritten /\ UNCHANGED <<paused, snap, call, startup, clock>>
      /\ pc = "cancelling" /\ pc' = IF call.reason = "none" THEN "idle" ELSE "reconcile"
      /\ asked' = {} /\ job' = NoJob
  BY DEF ConfirmCancelFails, Unwritten, broker, durable
<1>3. faults' \in 0 .. MaxFaults
  BY <1>1, Counted DEF ConfirmCancelFails
<1>4. PlaceType'
  BY <1>1, <1>2, <1>3 DEF PlaceType
<1>5. JobType' /\ CallType'
  BY <1>1, <1>2, NoJobYet DEF JobType, CallType
<1>6. Control'
  BY <1>1, <1>2 DEF Control
<1> QED
  BY <1>2, <1>4, <1>5, <1>6, InMemory

\* The process dies, and is started again.
LEMMA CrashStep ==
  ASSUME IInv, Crash \/ Restart
  PROVE  IInv'
<1>1. PlaceType /\ JobType /\ CallType /\ Control
  BY DEF IInv, Volatile
<1>2. CASE Crash
  <2>1. faults' \in 0 .. MaxFaults
    BY <1>1, <1>2, Counted DEF Crash
  <2>2. Ends
    BY <1>1, <1>2, <2>1 DEF Crash, Ends, durable, PlaceType
  <2> QED
    BY <1>2, <2>2, StopsStep DEF Crash
<1>3. CASE Restart
  <2>1. /\ Unwritten /\ UNCHANGED <<paused, snap, asked, job, call, startup, clock, faults>>
        /\ pc = "down" /\ pc' = "idle"
    BY <1>3 DEF Restart, Unwritten, broker, durable
  <2>2. PlaceType' /\ JobType' /\ CallType'
    BY <1>1, <2>1 DEF PlaceType, JobType, CallType
  <2>3. Control'
    BY <1>1, <2>1 DEF Control
  <2> QED
    BY <2>1, <2>2, <2>3, InMemory
<1> QED
  BY <1>2, <1>3

\* A re-arm that is not due changes nothing.
LEMMA RearmSkippedStep ==
  ASSUME IInv, RearmSkipped
  PROVE  IInv'
<1>1. PlaceType /\ JobType /\ CallType /\ Control
  BY DEF IInv, Volatile
<1>2. /\ Unwritten /\ UNCHANGED <<paused, snap, asked, call, startup, clock, faults>>
      /\ pc = "rearm" /\ pc' = IF call.reason = "none" THEN "idle" ELSE "return"
      /\ job' = NoJob
  BY DEF RearmSkipped, RearmReturns, Unwritten
<1>3. PlaceType' /\ JobType' /\ CallType'
  BY <1>1, <1>2, NoJobYet DEF PlaceType, JobType, CallType
<1>4. Control'
  BY <1>1, <1>2 DEF Control
<1> QED
  BY <1>2, <1>3, <1>4, InMemory

-----------------------------------------------------------------------------
\* The steps on the way to a close.

\* While the positions are late, every fill is one of the bracket's, and all of them are
\* counted.
LEMMA AllSeen ==
  ASSUME BookInv, LegType, LegInv, trade.active, held # shown, NEW C
  PROVE  ExitFills(C) = Qty - held
<1> DEFINE X == {o \in Orders : o \in Recorded \/ o = trade.closing \/ rows[o].status # "none" \/ o \in C}
<1>1. BrokerType /\ OrderInv /\ held + Filled(ord, Orders) = Qty
      /\ \A o \in Orders \ Bracket : ord[o].filled = 0
  BY DEF BookInv
<1>2. \A o \in Orders : ord[o].filled \in Nat
  BY <1>1, Shape
<1>3. Bracket \subseteq X
  <2>1. Bracket \subseteq Recorded
    BY DEF LegType, LegInv, Recorded
  <2> QED
    BY <2>1, Kinds
<1>4. X \in SUBSET Orders /\ ExitFills(C) = Filled(ord, X)
  BY DEF ExitFills
<1> HIDE DEF X
<1>5. \A o \in Orders : ord[o].filled = 0 \/ o \in X
  BY <1>1, <1>3
<1>6. Filled(ord, Orders) <= Filled(ord, X) /\ Filled(ord, X) <= Filled(ord, Orders)
  BY <1>2, <1>4, <1>5, FilledWithin
<1>7. Filled(ord, Orders) \in Nat /\ Filled(ord, X) \in Nat /\ held \in Nat
  <2>1. Orders \in SUBSET Orders /\ \A o \in X : ord[o].filled \in Nat
    BY <1>2, <1>4
  <2>2. Filled(ord, Orders) \in Nat
    BY <1>2, <2>1, FilledIsSum
  <2>3. Filled(ord, X) \in Nat
    BY <1>4, <2>1, FilledIsSum
  <2> QED
    BY <1>1, <2>2, <2>3 DEF BrokerType
<1> QED
  BY <1>1, <1>4, <1>6, <1>7, Bounds

\* A bracket leg that may still matter is on record as live or filled.
LEMMA LegsOnRecord ==
  ASSUME IInv, shown > 0
  PROVE  /\ trade.active
         /\ Bracket \cap WorkingOrders \subseteq {o \in Recorded : legs[o] \in {"live", "filled"}}
         /\ held = 0 => \E o \in Bracket : /\ legs[o] \in {"live", "filled"} /\ o \in Recorded
                                           /\ ord[o].filled > 0
<1>1. BookInv /\ LegType /\ LegInv /\ TradeInv
  BY DEF IInv, Durable
<1>2. trade.active
  BY <1>1 DEF TradeInv
<1>3. \A o \in Bracket : /\ o \in Recorded
                         /\ ord[o].status \in Working => legs[o] \in {"live", "filled"}
                         /\ legs[o] \in {"live", "filled", "canceled"}
                         /\ legs[o] = "canceled" => ord[o].status = "canceled"
  BY <1>1, <1>2 DEF LegType, LegInv, Recorded
<1>4. Bracket \cap WorkingOrders \subseteq {o \in Recorded : legs[o] \in {"live", "filled"}}
  BY <1>3 DEF WorkingOrders
<1>5. ASSUME held = 0
      PROVE  \E o \in Bracket : /\ legs[o] \in {"live", "filled"} /\ o \in Recorded
                                /\ ord[o].filled > 0
  <2>1. PICK o \in Bracket : ord[o].status = "filled" /\ ord[o].filled > 0
    BY <1>1, <1>5 DEF BookInv
  <2> QED
    BY <1>3, <2>1
<1> QED
  BY <1>2, <1>4, <1>5

\* The monitor asks for the cancel of every leg that is at work; a fill on record keeps it
\* from closing.
LEMMA MonitorDecidesStep ==
  ASSUME IInv, MonitorDecides
  PROVE  IInv'
<1>1. BookInv /\ PlaceType /\ JobType /\ CallType /\ Control /\ LegType
  BY DEF IInv, Volatile, Durable
<1>2. /\ Unwritten /\ UNCHANGED <<trade, legs, rows, journal>>
      /\ UNCHANGED <<paused, snap, call, startup, clock, faults, shown, held>> /\ pc = "monitor"
  BY DEF MonitorDecides, Unwritten, durable
<1>3. /\ LiveLegs \subseteq Bracket \cup Rearms /\ LiveLegs \subseteq Recorded
      /\ \A o \in Bracket : legs[o] = "live" => o \in LiveLegs
  BY <1>1 DEF LiveLegs, Recorded, LegType
<1>4. BookInv' /\ Onward /\ Durable' /\ MemoType' /\ MemoInv'
  BY <1>2, WritesNothing
<1>5. CASE pc' = "idle" /\ job' = NoJob /\ asked' = {}
  <2>1. PlaceType' /\ JobType' /\ CallType'
    BY <1>1, <1>2, <1>5, NoJobYet DEF PlaceType, JobType, CallType
  <2>2. Control'
    BY <1>1, <1>2, <1>5 DEF Control
  <2> QED
    BY <1>2, <1>5, <2>1, <2>2, InMemory
<1>6. CASE /\ snap # 0 /\ \A o \in Recorded : legs[o] # "filled"
           /\ \E r \in {"deadline", "missing"} : job' = [NoJob EXCEPT !.why = r]
           /\ asked' = LiveLegs /\ pc' = IF LiveLegs = {} THEN "submit" ELSE "cancelling"
  <2>1. JobType' /\ job'.why \in {"deadline", "missing"}
    BY <1>6 DEF JobType, NoJob
  <2>2. PlaceType' /\ CallType'
    BY <1>1, <1>2, <1>3, <1>6 DEF PlaceType, CallType
  <2>3. Control'
    BY <1>1, <1>2, <1>6, <2>1 DEF Control, PlaceType
  <2>4. ASSUME shown > 0
        PROVE  /\ Bracket \cap WorkingOrders' \subseteq LiveLegs
               /\ held' = 0 => \E o \in Bracket \cap LiveLegs : ord'[o].filled > 0
    <3>1. Bracket \cap WorkingOrders \subseteq LiveLegs
      BY <1>3, <1>6, <2>4, LegsOnRecord
    <3>2. Bracket \cap WorkingOrders' \subseteq Bracket \cap WorkingOrders
      BY <1>4, Kinds DEF Onward, WorkingOrders
    <3>3. ASSUME held = 0 PROVE \E o \in Bracket \cap LiveLegs : ord'[o].filled > 0
      <4>1. PICK o \in Bracket : legs[o] \in {"live", "filled"} /\ o \in Recorded /\ ord[o].filled > 0
        BY <2>4, <3>3, LegsOnRecord
      <4>2. o \in LiveLegs
        BY <1>3, <1>6, <4>1
      <4>3. ord'[o] = ord[o]
        BY <1>4, <3>3, Kinds DEF Onward
      <4> QED
        BY <4>1, <4>2, <4>3
    <3> QED
      BY <1>2, <3>1, <3>2, <3>3
  <2>5. CloseInv'
    <3>1. Recorded' = Recorded /\ held \in Nat
      BY <1>1, <1>2 DEF Recorded, BookInv, BrokerType
    <3>2. CASE LiveLegs = {}
      BY <1>2, <1>6, <2>4, <3>1, <3>2 DEF CloseInv
    <3>3. CASE LiveLegs # {}
      BY <1>2, <1>3, <1>6, <2>4, <3>1, <3>3 DEF CloseInv
    <3> QED
      BY <3>2, <3>3
  <2>6. SnapInv' /\ RecordInv'
    BY <1>6 DEF SnapInv, RecordInv
  <2> QED
    BY <1>4, <2>1, <2>2, <2>3, <2>5, <2>6 DEF IInv, Volatile
<1> QED
  <2> DEFINE reason == CASE clock # "open" -> "deadline"
                         [] clock = "open" /\ ~BrokerProtected -> "missing"
                         [] OTHER -> "none"
             leave == \/ snap = 0
                      \/ trade.closing # NoOrder /\ rows[trade.closing].status = "working"
                      \/ \E o \in Recorded : legs[o] = "filled"
                      \/ reason = "none"
  <2>1. reason \in {"deadline", "missing", "none"}
    OBVIOUS
  <2>2. /\ job' = IF leave THEN NoJob ELSE [NoJob EXCEPT !.why = reason]
        /\ asked' = IF leave THEN {} ELSE LiveLegs
        /\ pc' = IF leave THEN "idle" ELSE IF LiveLegs = {} THEN "submit" ELSE "cancelling"
    BY DEF MonitorDecides
  <2> HIDE DEF reason
  <2>3. CASE leave
    BY <1>5, <2>2, <2>3
  <2>4. CASE ~leave
    BY <1>6, <2>1, <2>2, <2>4
  <2> QED
    BY <2>3, <2>4

\* A flatten asks the same of every leg it knows; fills that the positions do not show yet
\* keep it from closing.
LEMMA PollHeldStep ==
  ASSUME IInv, PollHeld
  PROVE  IInv'
<1> DEFINE owned == call.listed \cup LiveLegs \cup (Recorded \cap WorkingOrders)
<1>1. BookInv /\ PlaceType /\ JobType /\ CallType /\ Control /\ LegType /\ LegInv
  BY DEF IInv, Volatile, Durable
<1>2. /\ UNCHANGED <<trade, legs, rows, journal>>
      /\ UNCHANGED <<paused, snap, job, startup, clock, faults, shown, held, memo>>
      /\ pc = "polled" /\ snap > 0
  BY DEF PollHeld, durable
<1>3. Unwritten
  <2>1. ord' = ord \/ \E S : ord' = RequestCancel(S)
    BY DEF PollHeld
  <2> QED
    BY <1>2, <2>1 DEF Unwritten
<1>4. CASE pc' = "reconcile" /\ UNCHANGED <<ord, asked, call>>
  <2>1. PlaceType' /\ JobType' /\ CallType'
    BY <1>1, <1>2, <1>4 DEF PlaceType, JobType, CallType
  <2>2. Control'
    BY <1>1, <1>2, <1>4 DEF Control
  <2> QED
    BY <1>3, <1>4, <2>1, <2>2, InMemory
<1>5. CASE /\ ~LeaveToLaterPoll /\ asked' = owned
           /\ call' = [call EXCEPT !.stripped = @ \/ Recorded # {}]
           /\ pc' = IF owned = {} THEN "submit" ELSE "cancelling"
  <2>1. BookInv' /\ Onward /\ Durable' /\ MemoType' /\ MemoInv'
    BY <1>3, WritesNothing
  <2>2. owned \subseteq Bracket \cup Rearms /\ Recorded \cap WorkingOrders \subseteq owned
    BY <1>1 DEF CallType, Call, LiveLegs, Recorded, LegType
  <2> HIDE DEF owned
  <2>3. CallType' /\ call'.reason = call.reason /\ call'.polls = call.polls
    BY <1>1, <1>5 DEF CallType, Call
  <2>4. PlaceType' /\ JobType'
    BY <1>1, <1>2, <1>5, <2>2 DEF PlaceType, JobType
  <2>5. Control'
    BY <1>1, <1>2, <1>5, <2>3 DEF Control
  <2>6. SnapInv' /\ RecordInv'
    BY <1>5 DEF SnapInv, RecordInv
  <2>7. ASSUME shown > 0
        PROVE  Bracket \cap WorkingOrders' \subseteq owned /\ held # 0
    <3>1. trade.active /\ Bracket \cap WorkingOrders \subseteq Recorded
      BY <2>7, LegsOnRecord
    <3>2. Bracket \cap WorkingOrders' \subseteq Bracket \cap WorkingOrders
      BY <2>1, Kinds DEF Onward, WorkingOrders
    <3>3. ASSUME held = 0 PROVE FALSE
      <4>1. ExitFills(call.tried) = Qty
        <5>1. held # shown
          BY <2>7, <3>3
        <5>2. ExitFills(call.tried) = Qty - held
          BY <1>1, <3>1, <5>1, AllSeen
        <5> QED
          BY <3>3, <5>2, Bounds
      <4>2. Qty - ExitFills(call.tried) # snap /\ ExitFills(call.tried) > 0
        BY <1>2, <4>1, Bounds
      <4> QED
        BY <1>5, <4>2 DEF LeaveToLaterPoll
    <3> QED
      BY <2>2, <3>1, <3>2, <3>3
  <2>8. CloseInv'
    <3>1. held \in Nat
      BY <1>1 DEF BookInv, BrokerType
    <3>2. call.reason # "none"
      BY <1>1, <1>2 DEF Control
    <3>3. CASE owned = {}
      BY <1>2, <1>5, <2>3, <2>7, <3>1, <3>2, <3>3 DEF CloseInv
    <3>4. CASE owned # {}
      BY <1>2, <1>5, <2>3, <2>7, <3>1, <3>2, <3>4 DEF CloseInv
    <3> QED
      BY <3>3, <3>4
  <2> QED
    BY <2>1, <2>3, <2>4, <2>5, <2>6, <2>8 DEF IInv, Volatile
<1> QED
  <2>1. \/ pc' = "reconcile" /\ UNCHANGED <<ord, asked, call>>
        \/ /\ ~LeaveToLaterPoll /\ asked' = owned
           /\ call' = [call EXCEPT !.stripped = @ \/ Recorded # {}]
           /\ pc' = IF owned = {} THEN "submit" ELSE "cancelling"
    BY DEF PollHeld
  <2> QED
    BY <1>4, <1>5, <2>1

\* The marks of the cancel: the close goes ahead only when every leg asked is canceled
\* without a fill.
LEMMA ConfirmCancelStep ==
  ASSUME IInv, ConfirmCancel
  PROVE  IInv'
<1>1. /\ BookInv /\ TradeType /\ LegType /\ RowType /\ JournalType /\ TradeInv /\ LegInv
      /\ RowInv /\ JournalInv /\ ResidualInv /\ EndInv /\ PlaceType /\ JobType /\ CallType
      /\ MemoType /\ MemoInv /\ Control /\ CloseInv
  BY DEF IInv, Volatile, Durable
<1>2. /\ UNCHANGED broker /\ UNCHANGED <<rows, journal, paused, snap, memo, startup, clock, faults>>
      /\ pc = "cancelling" /\ asked' = {} /\ legs' = LegsAfter
      /\ pc' = CASE Safe -> "submit" [] ~Safe /\ call.reason = "none" -> "idle" [] OTHER -> "reconcile"
      /\ job' = IF Safe THEN job ELSE NoJob
  BY DEF ConfirmCancel
<1>3. BookInv' /\ Onward
  BY <1>1, <1>2, Unmoved
<1>4. held' = held /\ shown' = shown /\ ord' = ord
  BY <1>2 DEF broker
<1>5. PICK closing \in HitLegs \cup {trade.closing} :
        /\ trade' = [trade EXCEPT !.closing = closing]
        /\ closing = NoOrder => trade.closing = NoOrder /\ (HitLegs = {} \/ call.reason = "none")
  <2>1. PICK c \in (IF trade.closing = NoOrder /\ HitLegs # {} THEN HitLegs ELSE {trade.closing})
                      \cup (IF call.reason = "none" THEN {trade.closing} ELSE {}) :
                trade' = [trade EXCEPT !.closing = c]
    BY DEF ConfirmCancel
  <2>2. NoOrder \notin HitLegs
    BY <1>1, Kinds DEF HitLegs, PlaceType, Orders
  <2> QED
    BY <2>1, <2>2
<1>6. HitLegs \subseteq Orders /\ asked \subseteq Orders
  BY <1>1 DEF HitLegs, PlaceType, Orders
<1>7. /\ TradeType' /\ trade'.active = trade.active /\ trade'.confirmed = trade.confirmed
      /\ trade'.closing = closing
  BY <1>1, <1>5, <1>6 DEF TradeType
<1>8. /\ legs' \in [Bracket \cup Rearms -> {"absent", "live", "filled", "canceled"}]
      /\ \A o \in Bracket \cup Rearms :
            legs'[o] = IF o \notin asked THEN legs[o]
                       ELSE IF ord[o].filled > 0 THEN "filled"
                       ELSE IF ord[o].status = "canceled" THEN "canceled" ELSE legs[o]
  BY <1>1, <1>2 DEF LegsAfter, LegType
<1>9. /\ Recorded \subseteq Bracket \cup Rearms /\ Recorded' \subseteq Bracket \cup Rearms
      /\ \A o \in Bracket \cup Rearms : /\ o \in Recorded <=> legs[o] # "absent"
                                        /\ o \in Recorded' <=> legs'[o] # "absent"
  BY <1>1, <1>8 DEF Recorded, LegType
<1>10. \A o \in Bracket \cup Rearms : o \in Orders /\ (ord[o].status = "none" => ord[o].filled = 0)
  BY <1>1 DEF BookInv, OrderInv, Orders
<1>11. LegInv'
  <2>1. \A o \in Recorded' : ord[o].status # "none"
    BY <1>1, <1>8, <1>9, <1>10 DEF LegInv
  <2>2. ASSUME trade.active, NEW o \in Bracket
        PROVE  /\ legs'[o] # "absent"
               /\ ord[o].status \in Working => legs'[o] \in {"live", "filled"}
               /\ legs'[o] = "canceled" => ord[o].status = "canceled"
    BY <1>1, <1>8, <2>2 DEF LegInv, Working
  <2> QED
    BY <1>4, <1>7, <2>1, <2>2 DEF LegInv
<1>12. RowInv' /\ JournalInv'
  BY <1>1, <1>2, <1>3, RowsKept, JournalKept
<1>13. TradeInv' /\ EndInv' /\ RowType' /\ JournalType' /\ LegType'
  BY <1>1, <1>2, <1>4, <1>7, <1>8 DEF TradeInv, EndInv, RowType, JournalType, LegType
<1>14. ResidualInv'
  <2> SUFFICES ASSUME ~trade.confirmed, ~FirstSeen, trade.active PROVE ResidualInv'
    BY <1>7 DEF ResidualInv
  <2>1. ASSUME closing = NoOrder, NEW o \in Recorded' PROVE ord[o].filled = 0
    <3>1. CASE o \in Recorded
      BY <1>1, <1>5, <2>1, <3>1 DEF ResidualInv
    <3>2. CASE o \notin Recorded
      <4>1. o \in asked
        BY <1>8, <1>9, <2>1, <3>2
      <4>2. call.reason # "none"
        BY <1>1, <1>2, <3>2, <4>1 DEF CloseInv
      <4>3. ~(ord[o].filled > 0)
        BY <1>5, <2>1, <4>1, <4>2 DEF HitLegs
      <4>4. ord[o].filled \in Nat
        BY <1>1, <1>6, <4>1, Shape DEF BookInv
      <4> QED
        BY <4>3, <4>4
    <3> QED
      BY <3>1, <3>2
  <2> QED
    BY <1>1, <1>2, <1>4, <1>7, <2>1 DEF ResidualInv
<1>15. PlaceType' /\ JobType'
  BY <1>1, <1>2, NoJobYet DEF PlaceType, JobType
<1>16. CallType' /\ call'.reason = call.reason /\ call'.polls = call.polls
  <2>1. call' = [call EXCEPT !.listed = @ \ {o \in asked : ord[o].filled > 0 \/ ord[o].status = "canceled"}]
    BY DEF ConfirmCancel
  <2> QED
    BY <1>1, <2>1 DEF CallType, Call
<1>17. Control'
  <2>1. CASE Safe
    BY <1>1, <1>2, <1>16, <2>1 DEF Control
  <2>2. CASE ~Safe
    BY <1>1, <1>2, <1>16, <2>2 DEF Control
  <2> QED
    BY <2>1, <2>2
<1>18. CloseInv'
  <2>1. CASE Safe
    <3>1. pc' = "submit"
      BY <1>2, <2>1
    <3>2. ASSUME shown > 0 PROVE Bracket \cap WorkingOrders = {} /\ held > 0
      <4>1. /\ Bracket \cap WorkingOrders \subseteq asked
            /\ held = 0 => \E o \in Bracket \cap asked : ord[o].filled > 0
        BY <1>1, <1>2, <3>2 DEF CloseInv
      <4>2. \A o \in asked : ord[o].status = "canceled" /\ ~(ord[o].filled > 0)
        BY <2>1 DEF Safe
      <4>3. held \in Nat
        BY <1>1 DEF BookInv, BrokerType
      <4>4. held # 0
        BY <4>1, <4>2
      <4> QED
        BY <4>1, <4>2, <4>3, <4>4 DEF WorkingOrders, Working
    <3>3. WorkingOrders' = WorkingOrders
      BY <1>4 DEF WorkingOrders
    <3> QED
      BY <1>4, <3>1, <3>2, <3>3 DEF CloseInv
  <2>2. CASE ~Safe
    BY <1>2, <2>2 DEF CloseInv
  <2> QED
    BY <2>1, <2>2
<1>19. SnapInv' /\ RecordInv' /\ MemoType' /\ MemoInv'
  <2>1. pc' \in {"submit", "idle", "reconcile"}
    BY <1>2
  <2> QED
    BY <1>1, <1>2, <1>3, <2>1, MemoKept DEF SnapInv, RecordInv
<1> QED
  BY <1>3, <1>7, <1>11, <1>12, <1>13, <1>14, <1>15, <1>16, <1>17, <1>18, <1>19
     DEF IInv, Durable, Volatile

\* What a submit does to the broker's book and to the provider's memory.
LEMMA Sent ==
  ASSUME BookInv, MemoType, MemoInv, NEW o \in Orders, o \notin Bracket, NEW q \in 1 .. Qty,
         SubmitOrder(o, q) = "new" => held > 0,
         ord' = OrdAfter(SubmitOrder(o, q), o, q), memo' = MemoAfter(SubmitOrder(o, q), o, q),
         held' = held, shown' = shown
  PROVE  /\ BookInv' /\ Onward /\ MemoType' /\ MemoInv'
         /\ SubmitOrder(o, q) \in Answered => ord'[o].status # "none"
<1> DEFINE outcome == SubmitOrder(o, q)
<1>1. BrokerType /\ OrderInv
  BY DEF BookInv
<1>2. /\ outcome \in {"conflict", "cached", "existing", "new", "refused"}
      /\ outcome = "new" => memo[o].status = "none" /\ ord[o].status = "none" /\ Accepts(q)
      /\ outcome = "cached" => memo[o].status # "none"
      /\ outcome = "existing" => ord[o].status # "none"
  <2>1. memo[o].qty \in {0, q} \/ memo[o].qty \notin {0, q}
    OBVIOUS
  <2> QED
    BY <2>1 DEF SubmitOrder
<1> HIDE DEF outcome
<1>3. CASE outcome = "new"
  <2>1. ord' = Placed(o, q) /\ memo' = [memo EXCEPT ![o] = [qty |-> q, status |-> "working"]]
    BY <1>3 DEF outcome, OrdAfter, MemoAfter
  <2>2. BookInv' /\ Onward
    BY <1>2, <1>3, <2>1, BookPlaced DEF outcome
  <2>3. ord'[o].status = "working"
    BY <1>1, <2>1 DEF Placed, BrokerType
  <2>4. [qty |-> q, status |-> "working"] \in Request /\ [qty |-> q, status |-> "working"].status = "working"
    BY DEF Request
  <2>5. \A p \in Orders : memo'[p] = IF p = o THEN [qty |-> q, status |-> "working"] ELSE memo[p]
    BY <2>1 DEF MemoType
  <2>6. MemoType'
    BY <2>1, <2>4 DEF MemoType
  <2>7. ASSUME NEW p \in Orders
        PROVE  /\ memo'[p].status # "none" => ord'[p].status # "none"
               /\ memo'[p].status \in Final => ord'[p].status \in Final
    <3>1. CASE p = o
      BY <2>3, <2>4, <2>5, <3>1 DEF Final
    <3>2. CASE p # o
      BY <2>2, <2>5, <2>7, <3>2 DEF MemoInv, Onward
    <3> QED
      BY <3>1, <3>2
  <2> QED
    BY <2>2, <2>3, <2>6, <2>7 DEF MemoInv
<1>4. CASE outcome # "new"
  <2>1. ord' = ord
    BY <1>4 DEF outcome, OrdAfter
  <2>2. UNCHANGED broker
    BY <2>1 DEF broker
  <2>3. BookInv' /\ Onward
    BY <2>2, Unmoved
  <2>4. outcome \in Answered => ord'[o].status # "none"
    BY <1>2, <1>4, <2>1 DEF Answered, MemoInv
  <2>5. MemoType' /\ MemoInv'
    <3>1. CASE outcome = "existing"
      <4>1. BrokerStatus(o) \in {"working", "filled", "canceled"}
            /\ (BrokerStatus(o) \in Final => ord[o].status \in Final) /\ ord[o].status # "none"
        BY <1>1, <1>2, <3>1, Shape DEF BrokerStatus, Working, Final
      <4> DEFINE r == [qty |-> q, status |-> BrokerStatus(o)]
      <4>2. r \in Request /\ r.status = BrokerStatus(o)
        BY <4>1 DEF Request
      <4>3. memo' = [memo EXCEPT ![o] = r]
        BY <3>1 DEF outcome, MemoAfter
      <4> HIDE DEF r
      <4>4. MemoType'
        BY <4>2, <4>3 DEF MemoType
      <4>5. ASSUME NEW p \in Orders
            PROVE  /\ memo'[p].status # "none" => ord'[p].status # "none"
                   /\ memo'[p].status \in Final => ord'[p].status \in Final
        <5>1. memo'[p] = IF p = o THEN r ELSE memo[p]
          BY <4>3 DEF MemoType
        <5> QED
          BY <2>1, <4>1, <4>2, <5>1 DEF MemoInv
      <4> QED
        BY <4>4, <4>5 DEF MemoInv
    <3>2. CASE outcome \in {"refused", "conflict"}
      <4>1. memo' = [memo EXCEPT ![o].qty = IF @ = 0 THEN q ELSE @]
        BY <3>2 DEF outcome, MemoAfter
      <4>2. memo[o] \in Request
        BY DEF MemoType
      <4>3. memo' \in [Orders -> Request] /\ \A p \in Orders : memo'[p].status = memo[p].status
        BY <4>1, <4>2 DEF MemoType, Request
      <4> QED
        BY <2>1, <4>3 DEF MemoType, MemoInv
    <3>3. CASE outcome = "cached"
      <4>1. memo' = memo
        BY <3>3 DEF outcome, MemoAfter
      <4> QED
        BY <2>3, <4>1, MemoKept
    <3> QED
      BY <1>2, <1>4, <3>1, <3>2, <3>3
  <2> QED
    BY <2>3, <2>4, <2>5 DEF outcome
<1> QED
  BY <1>3, <1>4

\* The same of a submit that was not answered.
LEMMA SentUnanswered ==
  ASSUME BookInv, MemoType, MemoInv, NEW o \in Orders, o \notin Bracket, NEW q \in 1 .. Qty,
         SubmitOrder(o, q) = "new", held > 0,
         ord' \in {ord, Placed(o, q)}, memo' = [memo EXCEPT ![o].qty = q],
         held' = held, shown' = shown
  PROVE  BookInv' /\ Onward /\ MemoType' /\ MemoInv'
<1>1. ord[o].status = "none" /\ Accepts(q)
  <2>1. memo[o].qty \in {0, q} \/ memo[o].qty \notin {0, q}
    OBVIOUS
  <2> QED
    BY <2>1 DEF SubmitOrder
<1>2. BookInv' /\ Onward
  <2>1. CASE ord' = ord
    <3>1. UNCHANGED broker
      BY <2>1 DEF broker
    <3> QED
      BY <3>1, Unmoved
  <2>2. CASE ord' = Placed(o, q)
    BY <1>1, <2>2, BookPlaced
  <2> QED
    BY <2>1, <2>2
<1>3. memo' \in [Orders -> Request] /\ \A p \in Orders : memo'[p].status = memo[p].status
  <2>1. memo[o] \in Request
    BY DEF MemoType
  <2> QED
    BY <2>1 DEF MemoType, Request
<1>4. MemoInv'
  <2>1. ASSUME NEW p \in Orders
        PROVE  /\ memo'[p].status # "none" => ord'[p].status # "none"
               /\ memo'[p].status \in Final => ord'[p].status \in Final
    BY <1>2, <1>3, <2>1 DEF MemoInv, Onward
  <2> QED
    BY <2>1 DEF MemoInv
<1> QED
  BY <1>2, <1>3, <1>4 DEF MemoType

\* The id of the close in hand.
LEMMA CloseIdIs ==
  ASSUME IInv, pc = "submit", Attempt(CloseId) <= MaxAttempts
  PROVE  /\ CloseId \in Closes \cup Flattens
         /\ call.reason # "none" => CloseId \in Flattens
         /\ CloseId \in Orders \ Bracket /\ snap \in 1 .. Qty
<1>1. TradeType /\ PlaceType /\ CallType /\ Control /\ JobType
  BY DEF IInv, Volatile, Durable
<1>2. snap \in 1 .. Qty
  BY <1>1, Bounds DEF Control, PlaceType
<1>3. ASSUME call.reason = "none" PROVE CloseId \in Closes
  <2>1. job.why \in {"deadline", "missing"}
    BY <1>1, <1>3 DEF Control, JobType
  <2>2. trade.attempt + 1 <= MaxAttempts
    BY <1>3 DEF CloseId, Attempt
  <2>3. trade.attempt + 1 \in Attempts
    BY <1>1, <2>2, Bounds DEF TradeType, Attempts
  <2> QED
    BY <1>3, <2>1, <2>3 DEF CloseId, Closes
<1>4. ASSUME call.reason # "none" PROVE CloseId \in Flattens
  <2> DEFINE n == IF call.prior = NoOrder THEN 0 ELSE Attempt(call.prior) + 1
  <2>1. call.reason \in FlattenReasons /\ call.prior \in Flattens \cup {NoOrder}
    BY <1>1, <1>4 DEF CallType, Call
  <2>2. CloseId = <<"flatten", call.reason, n>>
    BY <1>4 DEF CloseId
  <2>3. n <= MaxAttempts
    BY <2>2 DEF Attempt
  <2>4. n \in Nat
    <3>1. call.prior # NoOrder => Attempt(call.prior) \in Attempts
      BY <2>1, Kinds DEF Orders
    <3> QED
      BY <3>1, Bounds DEF Attempts
  <2> HIDE DEF n
  <2>5. n \in Attempts
    BY <2>3, <2>4, Bounds DEF Attempts
  <2> QED
    BY <2>1, <2>2, <2>5 DEF Flattens
<1>5. CloseId \in Orders \ Bracket
  <2>1. CloseId \in Orders /\ (CloseId \in Closes \/ CloseId \in Flattens)
    BY <1>3, <1>4 DEF Orders
  <2>2. Kind(CloseId) # "leg"
    BY <2>1, Kinds
  <2> QED
    BY <2>1, <2>2, Kinds
<1> QED
  BY <1>2, <1>3, <1>4, <1>5

\* The close is sent, and may be lost on the way or on the way back.
LEMMA SubmitCloseStep ==
  ASSUME IInv, SubmitClose \/ SubmitFails
  PROVE  IInv'
<1>1. /\ BookInv /\ Durable /\ TradeType /\ PlaceType /\ JobType /\ CallType /\ MemoType
      /\ MemoInv /\ Control /\ CloseInv
  BY DEF IInv, Volatile, Durable
<1> DEFINE o == CloseId
           outcome == ClosePosition(o, snap)
<1>2. /\ held' = held /\ shown' = shown /\ UNCHANGED <<trade, legs, rows, journal>>
      /\ UNCHANGED <<paused, snap, asked, startup, clock>> /\ pc = "submit"
      /\ Attempt(o) <= MaxAttempts /\ job' = [job EXCEPT !.id = o]
  BY DEF SubmitClose, SubmitFails, durable
<1>3. /\ o \in Closes \cup Flattens
      /\ call.reason # "none" => o \in Flattens
      /\ o \in Orders \ Bracket /\ snap \in 1 .. Qty
  BY <1>2, CloseIdIs
<1>4. faults' \in 0 .. MaxFaults
  BY <1>1, Counted DEF SubmitClose, SubmitFails, PlaceType
<1>5. /\ CallTries \in Call /\ CallTries.reason = call.reason /\ CallTries.polls = call.polls
      /\ call.reason # "none" => [CallTries EXCEPT !.failed = TRUE] \in Call
      /\ [CallTries EXCEPT !.failed = TRUE].reason = call.reason
      /\ [CallTries EXCEPT !.failed = TRUE].polls = call.polls
  <2>1. call \in Call
    BY <1>1 DEF CallType
  <2>2. call.reason = "none" => CallTries = call
    BY DEF CallTries
  <2>3. call.reason # "none" => CallTries = [call EXCEPT !.tried = @ \cup {o}]
    BY DEF CallTries
  <2>4. call.reason # "none" => call.tried \cup {o} \in SUBSET Flattens
    BY <1>3, <2>1 DEF Call
  <2> HIDE DEF o
  <2>5. CallTries \in Call /\ CallTries.reason = call.reason /\ CallTries.polls = call.polls
    <3>1. CASE call.reason = "none"
      BY <2>1, <2>2, <3>1
    <3>2. CASE call.reason # "none"
      BY <2>1, <2>3, <2>4, <3>2 DEF Call
    <3> QED
      BY <3>1, <3>2
  <2> QED
    BY <2>5 DEF Call
<1> HIDE DEF o, outcome
<1>6. BookInv' /\ Onward /\ MemoType' /\ MemoInv' /\ (pc' = "record" => ord'[o].status # "none" \/ shown = 0)
  <2>1. outcome = IF shown = 0 THEN "nothing" ELSE IF snap > shown THEN "exceeds"
                  ELSE SubmitOrder(o, snap)
    BY DEF outcome, ClosePosition, o
  <2>2. shown > 0 => held > 0
    BY <1>1, <1>2 DEF CloseInv
  <2>3. shown \in Nat
    BY <1>1, FlatBook
  <2>4. CASE SubmitClose
    <3>1. ord' = OrdAfter(outcome, o, snap) /\ memo' = MemoAfter(outcome, o, snap)
          /\ (pc' = "record" => outcome \in Answered)
      BY <2>4 DEF SubmitClose, SubmitRefused, outcome, o
    <3>2. CASE outcome \in {"nothing", "exceeds"}
      <4>1. UNCHANGED broker /\ memo' = memo
        BY <1>2, <3>1, <3>2 DEF OrdAfter, MemoAfter, broker
      <4>2. BookInv' /\ Onward
        BY <1>1, <4>1, Unmoved
      <4>3. MemoType' /\ MemoInv'
        BY <1>1, <4>1, <4>2, MemoKept
      <4>4. pc' = "record" => shown = 0
        BY <2>1, <3>1, <3>2 DEF Answered, SubmitOrder
      <4> QED
        BY <4>2, <4>3, <4>4
    <3>3. CASE outcome \notin {"nothing", "exceeds"}
      <4>1. outcome = SubmitOrder(o, snap) /\ shown > 0
        BY <2>1, <2>3, <3>3
      <4>2. /\ BookInv' /\ Onward /\ MemoType' /\ MemoInv'
            /\ SubmitOrder(o, snap) \in Answered => ord'[o].status # "none"
        <5>1. o \in Orders /\ o \notin Bracket /\ snap \in 1 .. Qty
          BY <1>3
        <5>2. /\ ord' = OrdAfter(SubmitOrder(o, snap), o, snap)
              /\ memo' = MemoAfter(SubmitOrder(o, snap), o, snap)
              /\ held' = held /\ shown' = shown
          BY <1>2, <3>1, <4>1
        <5> QED
          BY <1>1, <2>2, <4>1, <5>1, <5>2, Sent
      <4> QED
        BY <3>1, <4>1, <4>2
    <3> QED
      BY <3>2, <3>3
  <2>5. CASE SubmitFails
    <3>1. /\ outcome = "new" /\ ord' \in {ord, Placed(o, snap)} /\ memo' = [memo EXCEPT ![o].qty = snap]
          /\ pc' # "record"
      BY <2>5 DEF SubmitFails, SubmitRefused, outcome, o
    <3>2. SubmitOrder(o, snap) = "new" /\ shown > 0
      BY <2>1, <2>3, <3>1
    <3>3. o \in Orders /\ o \notin Bracket /\ snap \in 1 .. Qty
      BY <1>3
    <3>4. BookInv' /\ Onward /\ MemoType' /\ MemoInv'
      BY <1>1, <1>2, <2>2, <3>1, <3>2, <3>3, SentUnanswered
    <3> QED
      BY <3>1, <3>4
  <2> QED
    BY <2>4, <2>5
<1>7. Durable'
  BY <1>1, <1>2, <1>6, DurableKept
<1>8. /\ pc' \in {"record", "rearm", "reconcile"} /\ (pc' = "reconcile" => call.reason # "none")
      /\ CallType' /\ call'.reason = call.reason /\ call'.polls = call.polls
  <2>1. \/ call' = CallTries /\ pc' = "record"
        \/ SubmitRefused
    BY DEF SubmitClose, SubmitFails
  <2> QED
    BY <1>1, <1>5, <2>1 DEF SubmitRefused, CallType
<1>9. PlaceType' /\ JobType'
  BY <1>1, <1>2, <1>3, <1>4, <1>8 DEF PlaceType, JobType
<1>10. job'.id = o
  BY <1>1, <1>2 DEF JobType
<1>11. Control'
  BY <1>1, <1>2, <1>3, <1>8, <1>10 DEF Control
<1>12. SnapInv' /\ CloseInv' /\ RecordInv'
  BY <1>2, <1>6, <1>8, <1>10 DEF SnapInv, CloseInv, RecordInv
<1> QED
  BY <1>6, <1>7, <1>8, <1>9, <1>11, <1>12 DEF IInv, Volatile

\* The close is bound to the exposure.
LEMMA RecordCloseStep ==
  ASSUME IInv, RecordClose
  PROVE  IInv'
<1>1. /\ BookInv /\ TradeType /\ LegType /\ RowType /\ JournalType /\ TradeInv /\ LegInv
      /\ RowInv /\ JournalInv /\ ResidualInv /\ EndInv /\ PlaceType /\ JobType /\ CallType
      /\ MemoType /\ MemoInv /\ Control /\ RecordInv
  BY DEF IInv, Volatile, Durable
<1> DEFINE o == job.id
           status == IF memo[o].status \in Terminal THEN memo[o].status ELSE "working"
           row == [status |-> status, filled |-> 0, logged |-> 0, marked |-> TRUE]
<1>2. /\ UNCHANGED broker /\ UNCHANGED <<legs, journal, paused, snap, asked, memo, startup, clock, faults>>
      /\ pc = "record" /\ rows' = [rows EXCEPT ![o] = row]
      /\ trade' = [trade EXCEPT !.closing = o, !.attempt = Attempt(o)]
      /\ call' = IF call.reason = "none" THEN call ELSE [call EXCEPT !.prior = o]
      /\ pc' = IF call.reason = "none" THEN "idle" ELSE "reconcile"
      /\ job' = NoJob
  BY DEF RecordClose
<1>3. held' = held /\ shown' = shown /\ ord' = ord
  BY <1>2 DEF broker
<1>4. BookInv' /\ Onward
  BY <1>1, <1>2, Unmoved
<1>5. o \in Orders /\ o # NoOrder /\ Attempt(o) \in Attempts /\ (call.reason # "none" => o \in Flattens)
  <2>1. o \in Orders
    BY <1>1, <1>2 DEF Control, Orders
  <2> QED
    BY <1>1, <1>2, <2>1, Kinds DEF Control
<1>6. status \in {"working", "filled", "canceled"} /\ (status \in Final => ord[o].status \in Final)
  <2>1. memo[o].status \in {"none", "working", "filled", "canceled"}
    BY <1>1, <1>5 DEF MemoType, Request
  <2>2. memo[o].status \in Final => ord[o].status \in Final
    BY <1>1, <1>5 DEF MemoInv
  <2> QED
    BY <2>1, <2>2 DEF Terminal, Final
<1> HIDE DEF status
<1>7. row \in OrderRow /\ row.status = status /\ row.filled = 0 /\ row.logged = 0 /\ row.marked
  BY <1>6, Bounds DEF OrderRow, Terminal
<1> HIDE DEF row, o
<1>8. RowType' /\ \A p \in Orders : rows'[p] = IF p = o THEN row ELSE rows[p]
  BY <1>1, <1>2, <1>7 DEF RowType
<1>9. TradeType' /\ trade'.closing = o /\ trade'.active = trade.active /\ trade'.confirmed = trade.confirmed
  BY <1>1, <1>2, <1>5 DEF TradeType
<1>10. LegType' /\ JournalType' /\ TradeInv' /\ EndInv' /\ LegInv' /\ JournalInv'
  <2>1. JournalInv' /\ LegInv'
    BY <1>1, <1>2, <1>4, <1>9, JournalKept, LegsKept
  <2> QED
    BY <1>1, <1>2, <1>3, <1>9, <2>1 DEF LegType, JournalType, TradeInv, EndInv
<1>11. RowInv'
  <2>1. ASSUME NEW p \in Orders
        PROVE  /\ rows'[p].status = "none" => rows'[p] = NoRow
               /\ rows'[p].filled <= ord[p].filled
               /\ rows'[p].status \in Final => ord[p].status \in Final
               /\ rows'[p].status # "none" /\ ord[p].status = "none" => shown = 0
               /\ rows'[p].status = "not_found" => shown = 0
               /\ rows'[p].logged > 0 => /\ rows'[p].logged = ord[p].filled
                                         /\ <<p, 0, ord[p].filled>> \in journal
    <3>1. CASE p = o
      <4>1. ord[o].status # "none" \/ shown = 0
        BY <1>1, <1>2 DEF RecordInv, o
      <4>2. ord[o].filled \in Nat
        BY <1>1, <1>5, Shape DEF BookInv
      <4>3. rows'[p] = row
        BY <1>8, <3>1, <1>5
      <4> QED
        BY <1>6, <1>7, <3>1, <4>1, <4>2, <4>3
    <3>2. CASE p # o
      BY <1>1, <1>8, <2>1, <3>2 DEF RowInv
    <3> QED
      BY <3>1, <3>2
  <2> QED
    BY <1>2, <1>3, <2>1 DEF RowInv
<1>12. ResidualInv'
  BY <1>1, <1>2, <1>3, <1>5, <1>7, <1>8, <1>9 DEF ResidualInv
<1>13. PlaceType' /\ JobType'
  BY <1>1, <1>2, NoJobYet DEF PlaceType, JobType
<1>14. CallType' /\ call'.reason = call.reason /\ call'.polls = call.polls
  <2>1. CASE call.reason = "none"
    BY <1>1, <1>2, <2>1 DEF CallType
  <2>2. CASE call.reason # "none"
    BY <1>1, <1>2, <1>5, <2>2 DEF CallType, Call
  <2> QED
    BY <2>1, <2>2
<1>15. Control'
  BY <1>1, <1>2, <1>14 DEF Control
<1>16. SnapInv' /\ CloseInv' /\ RecordInv' /\ MemoType' /\ MemoInv'
  <2>1. pc' \in {"idle", "reconcile"}
    BY <1>2
  <2> QED
    BY <1>1, <1>2, <1>4, <2>1, MemoKept DEF SnapInv, CloseInv, RecordInv
<1> QED
  BY <1>4, <1>8, <1>9, <1>10, <1>11, <1>12, <1>13, <1>14, <1>15, <1>16
     DEF IInv, Durable, Volatile

\* A stop is restored only while something is held: on a book that was emptied while the
\* positions are late, the exits account for the whole entry.
LEMMA RearmHeld ==
  ASSUME IInv, RearmDue
  PROVE  held > 0 /\ shown \in 1 .. Qty /\ trade.active
<1>1. BookInv /\ LegType /\ LegInv /\ TradeInv
  BY DEF IInv, Durable
<1>2. shown = Qty - ExitFills(Tried) /\ Qty - ExitFills(Tried) > 0
  BY DEF RearmDue
<1>3. shown \in 1 .. Qty /\ held \in Nat
  BY <1>1, <1>2 DEF BookInv, BrokerType
<1>4. trade.active
  BY <1>1, <1>3, Bounds DEF TradeInv
<1>5. held # 0
  <2> SUFFICES ASSUME held = 0 PROVE FALSE
    OBVIOUS
  <2>1. held # shown
    BY <1>3, Bounds
  <2>2. ExitFills(Tried) = Qty - held
    BY <1>1, <1>4, <2>1, AllSeen
  <2> QED
    BY <1>2, <2>2, Bounds
<1> QED
  BY <1>3, <1>4, <1>5

\* The id of a re-armed stop is an order's.
LEMMA RearmIdIs ==
  ASSUME NEW o \in RearmIds
  PROVE  o \in Rearms /\ o \in Orders /\ o \notin Bracket /\ Attempt(o) \in Attempts
<1>1. \E n \in Attempts : o = <<"rearm", "stop", n>>
  BY DEF RearmIds
<1>2. o \in Rearms
  BY <1>1 DEF Rearms
<1>3. o \in Orders
  BY <1>2 DEF Orders
<1> QED
  BY <1>2, <1>3, Kinds

\* The stop is restored, recorded or not.
LEMMA RearmStep ==
  ASSUME IInv, Rearm \/ RearmUnrecorded
  PROVE  IInv'
<1>1. /\ BookInv /\ Durable /\ TradeType /\ LegType /\ RowType /\ JournalType /\ TradeInv
      /\ LegInv /\ RowInv /\ JournalInv /\ EndInv /\ PlaceType /\ JobType /\ CallType
      /\ MemoType /\ MemoInv /\ Control
  BY DEF IInv, Volatile, Durable
<1>2. /\ held' = held /\ shown' = shown
      /\ UNCHANGED <<rows, paused, journal, snap, asked, call, startup, clock>>
      /\ pc = "rearm" /\ job' = NoJob
      /\ pc' = IF call.reason = "none" THEN "idle" ELSE "return"
  BY DEF Rearm, RearmUnrecorded, RearmReturns
<1>3. RearmDue
  BY DEF Rearm, RearmUnrecorded
<1>4. held > 0 /\ shown \in 1 .. Qty /\ trade.active
  BY <1>3, RearmHeld
<1>5. faults' \in 0 .. MaxFaults
  <2>1. CASE Rearm
    BY <1>1, <2>1 DEF Rearm, PlaceType
  <2>2. CASE RearmUnrecorded
    BY <1>1, <2>2, Counted DEF RearmUnrecorded
  <2> QED
    BY <2>1, <2>2
<1>6. PlaceType' /\ JobType' /\ CallType'
  BY <1>1, <1>2, <1>5, NoJobYet DEF PlaceType, JobType, CallType
<1>7. Control'
  BY <1>1, <1>2 DEF Control
<1>8. SnapInv' /\ CloseInv' /\ RecordInv'
  BY <1>2 DEF SnapInv, CloseInv, RecordInv
<1>9. BookInv' /\ Onward /\ MemoType' /\ MemoInv' /\ Durable'
  <2>1. CASE Rearm
    <3>1. PICK o \in RearmIds :
            /\ ord' = OrdAfter(SubmitOrder(o, shown), o, shown)
            /\ memo' = MemoAfter(SubmitOrder(o, shown), o, shown)
            /\ IF SubmitOrder(o, shown) \in Answered
               THEN /\ legs' = [legs EXCEPT ![o] = "live"]
                    /\ trade' = [trade EXCEPT !.closing = NoOrder, !.rearms = Attempt(o) + 1]
               ELSE UNCHANGED <<trade, legs>>
      BY <2>1 DEF Rearm
    <3>2. o \in Rearms /\ o \in Orders /\ o \notin Bracket /\ Attempt(o) \in Attempts
      BY <3>1, RearmIdIs
    <3>3. /\ BookInv' /\ Onward /\ MemoType' /\ MemoInv'
          /\ SubmitOrder(o, shown) \in Answered => ord'[o].status # "none"
      BY <1>1, <1>2, <1>4, <3>1, <3>2, Sent
    <3>4. CASE SubmitOrder(o, shown) \in Answered
      <4>1. legs' = [legs EXCEPT ![o] = "live"]
            /\ trade' = [trade EXCEPT !.closing = NoOrder, !.rearms = Attempt(o) + 1]
        BY <3>1, <3>4
      <4>2. /\ TradeType' /\ trade'.active = trade.active /\ trade'.confirmed = trade.confirmed
        <5>1. Attempt(o) + 1 \in 0 .. MaxAttempts + 1
          BY <3>2, Bounds DEF Attempts
        <5> QED
          BY <1>1, <4>1, <5>1 DEF TradeType
      <4>3. /\ LegType' /\ o \in DOMAIN legs
            /\ \A p \in DOMAIN legs : legs'[p] = IF p = o THEN "live" ELSE legs[p]
            /\ DOMAIN legs' = DOMAIN legs
        BY <1>1, <3>2, <4>1 DEF LegType
      <4>4. RowType' /\ JournalType' /\ EndInv' /\ TradeInv'
        BY <1>1, <1>2, <4>2 DEF RowType, JournalType, EndInv, TradeInv
      <4>5. RowInv' /\ JournalInv'
        BY <1>1, <1>2, <3>3, RowsKept, JournalKept
      <4>6. LegInv'
        <5>1. Recorded' = Recorded \cup {o} /\ Recorded \subseteq Orders
          BY <1>1, <4>3 DEF Recorded, LegType, Orders
        <5>2. \A p \in Recorded' : ord'[p].status # "none"
          BY <1>1, <3>3, <3>4, <5>1 DEF LegInv, Onward
        <5>3. ASSUME NEW p \in Bracket
              PROVE  /\ legs'[p] # "absent"
                     /\ ord'[p].status \in Working => legs'[p] \in {"live", "filled"}
                     /\ legs'[p] = "canceled" => ord'[p].status = "canceled"
          <6>1. /\ legs[p] # "absent"
                /\ ord[p].status \in Working => legs[p] \in {"live", "filled"}
                /\ legs[p] = "canceled" => ord[p].status = "canceled"
            BY <1>1, <1>4 DEF LegInv
          <6>2. legs'[p] = legs[p]
            BY <1>1, <3>2, <4>3 DEF LegType
          <6>3. /\ ord'[p].status \in Working => ord[p].status \in Working
                /\ ord[p].status \in Final => ord'[p] = ord[p]
            BY <3>3, Kinds DEF Onward
          <6> QED
            BY <6>1, <6>2, <6>3 DEF Final
        <5> QED
          BY <5>2, <5>3 DEF LegInv
      <4>7. ResidualInv'
        <5>1. trade'.confirmed \/ FirstSeen
          BY <1>1, <1>4, <4>2, Bounds DEF TradeInv
        <5> QED
          BY <5>1 DEF ResidualInv
      <4> QED
        BY <3>3, <4>2, <4>3, <4>4, <4>5, <4>6, <4>7 DEF Durable
    <3>5. CASE SubmitOrder(o, shown) \notin Answered
      <4>1. UNCHANGED <<trade, legs, rows, journal>>
        BY <1>2, <3>1, <3>5
      <4> QED
        BY <1>1, <3>3, <4>1, DurableKept
    <3> QED
      BY <3>4, <3>5
  <2>2. CASE RearmUnrecorded
    <3>1. PICK o \in RearmIds :
            /\ SubmitOrder(o, shown) = "new"
            /\ \/ ord' = Placed(o, shown) /\ memo' = MemoAfter("new", o, shown)
               \/ ord' \in {ord, Placed(o, shown)} /\ memo' = [memo EXCEPT ![o].qty = shown]
      BY <2>2 DEF RearmUnrecorded
    <3>2. o \in Rearms /\ o \in Orders /\ o \notin Bracket
      BY <3>1, RearmIdIs
    <3>3. BookInv' /\ Onward /\ MemoType' /\ MemoInv'
      <4>1. CASE ord' = Placed(o, shown) /\ memo' = MemoAfter("new", o, shown)
        <5>1. ord' = OrdAfter(SubmitOrder(o, shown), o, shown)
              /\ memo' = MemoAfter(SubmitOrder(o, shown), o, shown)
          BY <3>1, <4>1 DEF OrdAfter
        <5> QED
          BY <1>1, <1>2, <1>4, <3>1, <3>2, <5>1, Sent
      <4>2. CASE ord' \in {ord, Placed(o, shown)} /\ memo' = [memo EXCEPT ![o].qty = shown]
        BY <1>1, <1>2, <1>4, <3>1, <3>2, <4>2, SentUnanswered
      <4> QED
        BY <3>1, <4>1, <4>2
    <3>4. UNCHANGED <<trade, legs, rows, journal>>
      BY <1>2, <2>2 DEF RearmUnrecorded
    <3> QED
      BY <1>1, <3>3, <3>4, DurableKept
  <2> QED
    BY <2>1, <2>2
<1> QED
  BY <1>6, <1>7, <1>8, <1>9 DEF IInv, Volatile

-----------------------------------------------------------------------------
\* Reconciliation.

\* The greater and the lesser of two numbers.
LEMMA Pair ==
  ASSUME NEW a \in Int, NEW b \in Int
  PROVE  /\ Max({a, b}) = IF a >= b THEN a ELSE b
         /\ Min({a, b}) = IF a <= b THEN a ELSE b
<1>1. Max({a, b}) \in {a, b} /\ \A y \in {a, b} : Max({a, b}) >= y
  <2>1. \E x \in {a, b} : \A y \in {a, b} : x >= y
    <3>1. CASE a >= b
      BY <3>1
    <3>2. CASE ~(a >= b)
      BY <3>2
    <3> QED
      BY <3>1, <3>2
  <2> QED
    BY <2>1 DEF Max
<1>2. Min({a, b}) \in {a, b} /\ \A y \in {a, b} : Min({a, b}) <= y
  <2>1. \E x \in {a, b} : \A y \in {a, b} : x <= y
    <3>1. CASE a <= b
      BY <3>1
    <3>2. CASE ~(a <= b)
      BY <3>2
    <3> QED
      BY <3>1, <3>2
  <2> QED
    BY <2>1 DEF Min
<1> QED
  BY <1>1, <1>2

\* A fill of f shares is journaled once, if there is room for it.
LEMMA Rest ==
  ASSUME NEW f \in Nat, NEW l \in Nat, l = 0 \/ l = f, NEW r \in Int, r >= f
  PROVE  Min({f - Min({f, l}), Max({0, r})}) = IF l = 0 THEN f ELSE 0
<1>1. Max({0, r}) = IF 0 >= r THEN 0 ELSE r
  BY Pair
<1>2. Max({0, r}) = r
  BY <1>1
<1>3. Min({f, l}) = IF f <= l THEN f ELSE l
  BY Pair
<1>4. Min({f, l}) = l
  BY <1>3
<1>5. Min({f - l, r}) = IF f - l <= r THEN f - l ELSE r
  BY Pair
<1>6. {f - Min({f, l}), Max({0, r})} = {f - l, r}
  BY <1>2, <1>4
<1>7. (IF f - l <= r THEN f - l ELSE r) = IF l = 0 THEN f ELSE 0
  OBVIOUS
<1> QED
  BY <1>5, <1>6, <1>7

\* A row with its status and its fills replaced.
LEMMA Refreshed ==
  ASSUME NEW r \in OrderRow, NEW s, NEW f
  PROVE  [r EXCEPT !.status = s, !.filled = f]
           = [status |-> s, filled |-> f, logged |-> r.logged, marked |-> r.marked]
<1>1. PICK a, b, c, d : r = [status |-> a, filled |-> b, logged |-> c, marked |-> d]
  BY DEF OrderRow
<1>2. [r EXCEPT !.status = s] = [status |-> s, filled |-> b, logged |-> c, marked |-> d]
      /\ r.logged = c /\ r.marked = d
  BY <1>1
<1>3. [[status |-> s, filled |-> b, logged |-> c, marked |-> d] EXCEPT !.filled = f]
         = [status |-> s, filled |-> f, logged |-> c, marked |-> d]
  OBVIOUS
<1> QED
  BY <1>2, <1>3

\* What reconcile reads of the orders: as much as the broker has of those it knows.
Entered(e, closing) ==
  /\ e \in [Orders -> OrderRow]
  /\ \A o \in Orders :
        /\ e[o].status = "none" => e[o] = NoRow /\ rows[o].status = "none"
        /\ e[o].status # "none" => e[o].filled = ord[o].filled
        /\ e[o].status \in Final => ord[o].status \in Final
        /\ e[o].status = "not_found" => shown = 0
        /\ e[o].status # "none" /\ ord[o].status = "none" => shown = 0
        /\ held = 0 => e[o].status # "working"
        /\ rows[o].status # "none" => e[o].marked = rows[o].marked /\ e[o].logged = rows[o].logged
        /\ rows[o].status = "none" /\ e[o].status # "none" =>
              o = closing /\ e[o].logged = 0 /\ (e[o].marked <=> closing = trade.closing)

\* What reconcile reads is such a reading.
LEMMA EntriesAre ==
  ASSUME IInv, NEW closing
  PROVE  Entered(Entries(closing), closing)
<1>1. BookInv /\ RowType /\ RowInv /\ BrokerType /\ OrderInv
  BY DEF IInv, Durable, BookInv
<1> DEFINE e == Entries(closing)
<1>2. \A o \in Orders : ord[o].filled \in 0 .. Qty /\ ord[o].filled \in Nat /\ ord[o].status
         \in {"none", "filled", "canceled", "working", "canceling"}
  BY <1>1, Shape
<1>3. ASSUME NEW o \in Orders
      PROVE  /\ e[o] \in OrderRow
             /\ e[o].status = "none" => e[o] = NoRow /\ rows[o].status = "none"
             /\ e[o].status # "none" => e[o].filled = ord[o].filled
             /\ e[o].status \in Final => ord[o].status \in Final
             /\ e[o].status = "not_found" => shown = 0
             /\ e[o].status # "none" /\ ord[o].status = "none" => shown = 0
             /\ held = 0 => e[o].status # "working"
             /\ rows[o].status # "none" => e[o].marked = rows[o].marked /\ e[o].logged = rows[o].logged
             /\ rows[o].status = "none" /\ e[o].status # "none" =>
                   o = closing /\ e[o].logged = 0 /\ (e[o].marked <=> closing = trade.closing)
  <2>1. /\ rows[o] \in OrderRow
        /\ rows[o].filled <= ord[o].filled /\ rows[o].filled \in Nat
        /\ rows[o].status \in Final => ord[o].status \in Final
        /\ rows[o].status # "none" /\ ord[o].status = "none" => shown = 0
        /\ rows[o].status = "not_found" => shown = 0
    <3>1. rows[o] \in OrderRow
      BY <1>1 DEF RowType
    <3>2. rows[o].filled \in Nat
      BY <3>1 DEF OrderRow
    <3> QED
      BY <1>1, <3>1, <3>2 DEF RowInv
  <2>2. held = 0 => ord[o].status \in Final \cup {"none"}
    BY <1>1, FlatBook
  <2>3. NoRow \in OrderRow /\ NoRow.status = "none"
    BY Bounds DEF NoRow, OrderRow
  <2>4. /\ BrokerStatus(o) = "none" <=> ord[o].status = "none"
        /\ BrokerStatus(o) \in Final <=> ord[o].status \in Final
        /\ BrokerStatus(o) = "working" <=> ord[o].status \in Working
        /\ BrokerStatus(o) \in {"none", "filled", "canceled", "working"}
    BY <1>2 DEF BrokerStatus, Working, Final
  <2>5. CASE rows[o].status # "none"
    <3> DEFINE s == IF rows[o].status \in Terminal THEN rows[o].status
                    ELSE IF ord[o].status = "none" THEN "not_found" ELSE BrokerStatus(o)
    <3>1. Max({rows[o].filled, ord[o].filled}) = ord[o].filled
      BY <1>2, <2>1, Pair
    <3>2. e[o] = RefreshedRow(o)
      BY <2>5 DEF Entries
    <3>3. RefreshedRow(o) = [rows[o] EXCEPT !.status = s, !.filled = Max({rows[o].filled, ord[o].filled})]
      BY <2>1 DEF RefreshedRow, OrderRow
    <3>4. s \in {"working", "filled", "canceled", "not_found"}
      BY <2>4 DEF Terminal
    <3>5. /\ s \in Final => ord[o].status \in Final
          /\ s = "not_found" => shown = 0
          /\ held = 0 => s # "working"
      BY <2>1, <2>2, <2>4, <2>5 DEF Terminal, Final, Working
    <3> HIDE DEF s, e
    <3>6. e[o] = [status |-> s, filled |-> ord[o].filled, logged |-> rows[o].logged, marked |-> rows[o].marked]
      BY <2>1, <3>1, <3>2, <3>3, Refreshed
    <3>7. e[o].status = s /\ e[o].filled = ord[o].filled /\ e[o].logged = rows[o].logged
          /\ e[o].marked = rows[o].marked
      BY <3>6
    <3>8. e[o] \in OrderRow
      BY <1>2, <2>1, <3>4, <3>6 DEF OrderRow, Terminal
    <3> QED
      BY <2>1, <2>5, <3>4, <3>5, <3>7, <3>8
  <2>6. CASE rows[o].status = "none" /\ o = closing /\ ord[o].status # "none"
    <3> DEFINE m == (closing = trade.closing)
    <3>1. e[o] = [status |-> BrokerStatus(o), filled |-> ord[o].filled, logged |-> 0, marked |-> m]
      BY <2>6 DEF Entries
    <3>2. m \in BOOLEAN
      OBVIOUS
    <3> HIDE DEF e, m
    <3>3. e[o].status = BrokerStatus(o) /\ e[o].filled = ord[o].filled /\ e[o].logged = 0 /\ e[o].marked = m
      BY <3>1
    <3>4. e[o] \in OrderRow
      BY <1>2, <2>4, <2>6, <3>1, <3>2, Bounds DEF OrderRow, Terminal
    <3>5. e[o].marked <=> closing = trade.closing
      BY <3>3 DEF m
    <3> QED
      BY <2>2, <2>4, <2>6, <3>3, <3>4, <3>5 DEF Final, Working
  <2>7. CASE rows[o].status = "none" /\ ~(o = closing /\ ord[o].status # "none")
    <3>1. e[o] = NoRow
      BY <2>7 DEF Entries
    <3> HIDE DEF e
    <3> QED
      BY <2>3, <2>7, <3>1 DEF Final
  <2> QED
    BY <2>5, <2>6, <2>7
<1>4. e = [o \in Orders |-> e[o]]
  BY DEF Entries
<1> HIDE DEF e
<1>5. e \in [Orders -> OrderRow]
  BY <1>3, <1>4
<1>6. Entered(e, closing)
  BY <1>3, <1>5 DEF Entered
<1> QED
  BY <1>6 DEF e

\* The entries have no more fills than the broker.
LEMMA EntriesWithin ==
  ASSUME IInv, NEW closing, NEW e, Entered(e, closing)
  PROVE  /\ \A o \in Orders : /\ e[o] \in OrderRow /\ e[o].filled \in Nat /\ e[o].logged \in Nat
                              /\ ord[o].filled \in Nat /\ e[o].filled <= ord[o].filled
                              /\ e[o].filled > 0 => e[o].status # "none"
                              /\ e[o].logged > 0 => /\ e[o].logged = ord[o].filled
                                                    /\ <<o, 0, ord[o].filled>> \in journal
         /\ Filled(ord, Orders) \in Nat /\ Filled(ord, Orders) = Qty - held
         /\ \A S \in SUBSET Orders : Filled(e, S) \in Nat /\ Filled(e, S) <= Qty - held
<1>1. BookInv /\ BrokerType /\ OrderInv /\ RowInv
  BY DEF IInv, Durable, BookInv
<1>2. ASSUME NEW o \in Orders
      PROVE  /\ e[o] \in OrderRow /\ e[o].filled \in Nat /\ e[o].logged \in Nat
             /\ ord[o].filled \in Nat /\ e[o].filled <= ord[o].filled
             /\ e[o].filled > 0 => e[o].status # "none"
             /\ e[o].logged > 0 => /\ e[o].logged = ord[o].filled
                                   /\ <<o, 0, ord[o].filled>> \in journal
  <2>1. e[o] \in OrderRow /\ ord[o].filled \in Nat
    BY <1>1, Shape DEF Entered
  <2>2. e[o].filled \in Nat /\ e[o].logged \in Nat
    BY <2>1 DEF OrderRow
  <2>3. e[o].status = "none" => e[o].filled = 0 /\ e[o].logged = 0
    BY DEF Entered, NoRow
  <2>4. e[o].status # "none" => e[o].filled = ord[o].filled
    BY DEF Entered
  <2>5. e[o].logged > 0 => e[o].logged = rows[o].logged
    <3>1. /\ rows[o].status # "none" => e[o].logged = rows[o].logged
          /\ rows[o].status = "none" /\ e[o].status # "none" => e[o].logged = 0
      BY DEF Entered
    <3> QED
      BY <2>2, <2>3, <3>1
  <2>6. rows[o].logged > 0 => rows[o].logged = ord[o].filled /\ <<o, 0, ord[o].filled>> \in journal
    BY <1>1 DEF RowInv
  <2> QED
    BY <2>1, <2>2, <2>3, <2>4, <2>5, <2>6
<1>3. Filled(ord, Orders) \in Nat /\ Filled(ord, Orders) = Qty - held
  <2>1. Filled(ord, Orders) \in Nat
    BY <1>2, FilledIsSum
  <2>2. held + Filled(ord, Orders) = Qty /\ held \in Nat
    BY <1>1 DEF BookInv, BrokerType
  <2> QED
    BY <2>1, <2>2, Bounds
<1>4. ASSUME NEW S \in SUBSET Orders PROVE Filled(e, S) \in Nat /\ Filled(e, S) <= Qty - held
  <2>1. /\ \A o \in S : e[o].filled \in Nat
        /\ \A o \in Orders : ord[o].filled \in Nat
        /\ \A o \in S : e[o].filled = 0 \/ (o \in Orders /\ e[o].filled <= ord[o].filled)
    BY <1>2
  <2>2. Filled(e, S) \in Nat
    BY <2>1, FilledIsSum
  <2>3. Filled(e, S) <= Filled(ord, Orders)
    BY <2>1, FilledWithin
  <2> QED
    BY <1>3, <2>2, <2>3
<1> QED
  BY <1>2, <1>3, <1>4

\* What is journaled now has come to its end, and is journaled in full, once.
LEMMA SettledAre ==
  ASSUME IInv, NEW closing, NEW e, Entered(e, closing), NEW o \in Settled(e)
  PROVE  /\ o \in Orders /\ e[o].filled = ord[o].filled /\ ord[o].filled \in 1 .. Qty
         /\ ord[o].status \in Final /\ e[o].status # "none"
         /\ Unjournaled(e, o) = IF e[o].logged = 0 THEN ord[o].filled ELSE 0
<1>1. /\ BookInv /\ BrokerType /\ OrderInv
  BY DEF IInv, BookInv
<1>2. o \in Orders /\ e[o].status \in Terminal /\ e[o].filled > 0 /\ e[o].status # "none"
  BY DEF Settled, Terminal
<1>3. /\ e[o].filled \in Nat /\ e[o].logged \in Nat /\ ord[o].filled \in Nat
      /\ e[o].logged > 0 => e[o].logged = ord[o].filled
  BY <1>2, EntriesWithin
<1>4. e[o].filled = ord[o].filled
  BY <1>2 DEF Entered
<1>5. ord[o].filled \in 1 .. Qty
  <2>1. ord[o].filled \in 0 .. Qty
    BY <1>1, <1>2, Shape
  <2> QED
    BY <1>2, <1>4, <2>1, Bounds
<1>6. ord[o].status \in Final
  <2>1. CASE e[o].status \in Final
    BY <1>2, <2>1 DEF Entered
  <2>2. CASE e[o].status = "not_found"
    <3>1. shown = 0
      BY <1>2, <2>2 DEF Entered
    <3>2. ord[o].status \in Final \cup {"none"}
      BY <1>1, <1>2, <3>1, FlatBook
    <3>3. ord[o].status # "none"
      BY <1>1, <1>2, <1>5 DEF OrderInv
    <3> QED
      BY <3>2, <3>3
  <2> QED
    BY <1>2, <2>1, <2>2 DEF Terminal, Final
<1>7. Unjournaled(e, o) = IF e[o].logged = 0 THEN ord[o].filled ELSE 0
  <2> DEFINE earlier == {p \in Settled(e) : RowAttempt(p) < RowAttempt(o)}
             room == Qty - Filled(e, earlier)
  <2>1. earlier \in SUBSET Orders /\ o \notin earlier
    <3>1. ~(RowAttempt(o) < RowAttempt(o))
      <4>1. RowAttempt(o) \in Int
        BY <1>2, Kinds, Bounds DEF RowAttempt, Attempts
      <4> QED
        BY <4>1
    <3> QED
      BY <3>1 DEF Settled
  <2>2. Unjournaled(e, o) = Min({e[o].filled - Min({e[o].filled, e[o].logged}), Max({0, room})})
    BY DEF Unjournaled
  <2> HIDE DEF earlier
  <2>3. Filled(e, earlier) \in Nat /\ Filled(e, earlier) + e[o].filled <= Qty
    <3> DEFINE X == earlier \cup {o}
    <3>1. X \in SUBSET Orders /\ o \in X /\ X \ {o} = earlier /\ \A p \in X : e[p].filled \in Nat
      BY <1>2, <2>1, EntriesWithin
    <3> HIDE DEF X
    <3>2. Filled(e, X) = Filled(e, X \ {o}) + e[o].filled
      BY <3>1, FilledOut
    <3>3. Filled(e, X) = Filled(e, earlier) + e[o].filled
      BY <3>1, <3>2
    <3>4. Filled(e, X) \in Nat /\ Filled(e, X) <= Qty - held /\ held \in Nat
      BY <1>1, <3>1, EntriesWithin DEF BrokerType
    <3>5. Filled(e, earlier) \in Nat
      BY <2>1, EntriesWithin
    <3> QED
      BY <1>3, <3>3, <3>4, <3>5, Bounds
  <2>4. room \in Int /\ room >= e[o].filled
    BY <1>3, <2>3, Bounds
  <2> HIDE DEF room
  <2>5. e[o].logged = 0 \/ e[o].logged = e[o].filled
    BY <1>3, <1>4
  <2>6. Min({e[o].filled - Min({e[o].filled, e[o].logged}), Max({0, room})})
          = IF e[o].logged = 0 THEN e[o].filled ELSE 0
    BY <1>3, <2>4, <2>5, Rest
  <2> QED
    BY <1>4, <2>2, <2>6
<1> QED
  BY <1>2, <1>4, <1>5, <1>6, <1>7

\* The journal after a reconcile: what was in it, and all that is settled.
LEMMA JournalIs ==
  ASSUME IInv, NEW closing, NEW e, Entered(e, closing), NEW J, J = JournalAfter(e)
  PROVE  /\ journal \subseteq J /\ J \subseteq (Orders \X (0 .. Qty) \X (1 .. Qty))
         /\ \A j \in J : /\ j = <<j[1], 0, ord[j[1]].filled>>
                         /\ ord[j[1]].status \in Final /\ j[1] \in Orders
         /\ \A o \in Settled(e) : <<o, 0, ord[o].filled>> \in J
<1>1. JournalType /\ JournalInv
  BY DEF IInv, Durable
<1>2. \A j \in journal : /\ j \in Orders \X (0 .. Qty) \X (1 .. Qty) /\ j[1] \in Orders
                         /\ j = <<j[1], 0, ord[j[1]].filled>> /\ ord[j[1]].status \in Final
  BY <1>1 DEF JournalType, JournalInv
<1> DEFINE New == {p \in Settled(e) : /\ Unjournaled(e, p) > 0
                                      /\ \A j \in journal : <<j[1], j[2]>> # TradeId(e, p)}
<1>3. J = journal \cup {<<o, TradeId(e, o)[2], Unjournaled(e, o)>> : o \in New}
  BY DEF JournalAfter
<1>4. ASSUME NEW o \in New
      PROVE  /\ <<o, TradeId(e, o)[2], Unjournaled(e, o)>> = <<o, 0, ord[o].filled>>
             /\ o \in Orders /\ ord[o].filled \in 1 .. Qty /\ ord[o].status \in Final
  <2>1. o \in Settled(e) /\ Unjournaled(e, o) > 0
    OBVIOUS
  <2>2. /\ o \in Orders /\ ord[o].filled \in 1 .. Qty /\ ord[o].status \in Final
        /\ Unjournaled(e, o) = IF e[o].logged = 0 THEN ord[o].filled ELSE 0
    BY <2>1, SettledAre
  <2>3. e[o].logged = 0
    BY <2>1, <2>2
  <2>4. TradeId(e, o)[2] = 0
    BY <2>3 DEF TradeId
  <2> QED
    BY <2>2, <2>3, <2>4
<1>5. ASSUME NEW o \in Settled(e) PROVE <<o, 0, ord[o].filled>> \in J
  <2>1. /\ o \in Orders /\ ord[o].filled \in 1 .. Qty
        /\ Unjournaled(e, o) = IF e[o].logged = 0 THEN ord[o].filled ELSE 0
    BY SettledAre
  <2>2. CASE e[o].logged # 0
    <3>1. e[o].logged \in Nat /\ (e[o].logged > 0 => <<o, 0, ord[o].filled>> \in journal)
      BY <2>1, EntriesWithin
    <3> QED
      BY <1>3, <2>2, <3>1
  <2>3. CASE e[o].logged = 0 /\ o \in New
    BY <1>3, <1>4, <2>3
  <2>4. CASE e[o].logged = 0 /\ o \notin New
    <3>1. Unjournaled(e, o) > 0
      BY <2>1, <2>4
    <3>2. PICK j \in journal : <<j[1], j[2]>> = TradeId(e, o)
      BY <2>4, <3>1
    <3>3. <<j[1], j[2]>> = <<o, 0>>
      BY <2>4, <3>2 DEF TradeId
    <3>4. j = <<o, 0, ord[o].filled>>
      BY <1>2, <3>3
    <3> QED
      BY <1>3, <3>4
  <2> QED
    BY <2>2, <2>3, <2>4
<1>6. ASSUME NEW j \in J
      PROVE  /\ j \in Orders \X (0 .. Qty) \X (1 .. Qty) /\ j[1] \in Orders
             /\ j = <<j[1], 0, ord[j[1]].filled>> /\ ord[j[1]].status \in Final
  <2>1. CASE j \in journal
    BY <1>2, <2>1
  <2>2. CASE j \notin journal
    <3>1. PICK o \in New : j = <<o, TradeId(e, o)[2], Unjournaled(e, o)>>
      BY <1>3, <2>2
    <3>2. j = <<o, 0, ord[o].filled>> /\ o \in Orders /\ ord[o].filled \in 1 .. Qty
          /\ ord[o].status \in Final
      BY <1>4, <3>1
    <3>3. j[1] = o /\ 0 \in 0 .. Qty
      BY <3>2, Bounds
    <3> QED
      BY <3>2, <3>3
  <2> QED
    BY <2>1, <2>2
<1> QED
  BY <1>3, <1>5, <1>6

\* The rows after a reconcile.
LEMMA RowsAre ==
  ASSUME IInv, NEW closing, NEW e, Entered(e, closing), NEW R, R = RowsAfter(e)
  PROVE  /\ R \in [Orders -> OrderRow]
         /\ \A o \in Orders : /\ R[o].status = e[o].status /\ R[o].filled = e[o].filled
                              /\ R[o].marked = e[o].marked
                              /\ R[o].logged = IF o \in Settled(e) THEN ord[o].filled ELSE e[o].logged
                              /\ e[o].status = "none" => R[o] = NoRow
<1>1. ASSUME NEW o \in Orders
      PROVE  /\ R[o] \in OrderRow
             /\ R[o].status = e[o].status /\ R[o].filled = e[o].filled
             /\ R[o].marked = e[o].marked
             /\ R[o].logged = IF o \in Settled(e) THEN ord[o].filled ELSE e[o].logged
             /\ e[o].status = "none" => R[o] = NoRow
  <2>1. R[o] = IF o \in Settled(e) /\ Unjournaled(e, o) > 0
               THEN [e[o] EXCEPT !.logged = e[o].filled] ELSE e[o]
    BY DEF RowsAfter
  <2>2. /\ e[o] \in OrderRow /\ e[o].logged \in Nat
        /\ e[o].logged > 0 => e[o].logged = ord[o].filled
    BY EntriesWithin
  <2>3. e[o].status = "none" => e[o] = NoRow
    BY DEF Entered
  <2>4. o \in Settled(e) => /\ e[o].filled = ord[o].filled /\ ord[o].filled \in 1 .. Qty
                            /\ e[o].status # "none"
                            /\ Unjournaled(e, o) = IF e[o].logged = 0 THEN ord[o].filled ELSE 0
    BY SettledAre
  <2>5. CASE o \in Settled(e) /\ Unjournaled(e, o) > 0
    <3>1. R[o] = [e[o] EXCEPT !.logged = e[o].filled]
      BY <2>1, <2>5
    <3>2. /\ R[o] \in OrderRow /\ R[o].status = e[o].status /\ R[o].filled = e[o].filled
          /\ R[o].marked = e[o].marked /\ R[o].logged = e[o].filled
      BY <2>2, <3>1 DEF OrderRow
    <3> QED
      BY <2>4, <2>5, <3>2
  <2>6. CASE o \in Settled(e) /\ ~(Unjournaled(e, o) > 0)
    <3>1. R[o] = e[o] /\ e[o].logged # 0
      BY <2>1, <2>4, <2>6
    <3> QED
      BY <2>2, <2>4, <2>6, <3>1
  <2>7. CASE o \notin Settled(e)
    BY <2>1, <2>2, <2>3, <2>7
  <2> QED
    BY <2>5, <2>6, <2>7
<1>2. R = [o \in Orders |-> R[o]]
  BY DEF RowsAfter
<1>3. R \in [Orders -> OrderRow]
  BY <1>1, <1>2
<1> QED
  BY <1>1, <1>3

\* An entry with fills is settled or journaled already, when a trade's position is gone.
LEMMA Accounted ==
  ASSUME IInv, ~FirstSeen, trade.active, snap = 0 \/ ~trade.confirmed, shown = 0,
         NEW closing \in ClosingChoices, NEW e, Entered(e, closing),
         NEW o \in Orders, e[o].status # "none", ord[o].filled # 0
  PROVE  o \in Settled(e) \/ e[o].logged > 0
<1>1. BookInv /\ BrokerType /\ OrderInv /\ ResidualInv
  BY DEF IInv, Durable, BookInv
<1>2. held = 0
  BY <1>1, FlatBook
<1>3. e[o].filled = ord[o].filled /\ e[o].filled > 0
  <2>1. ord[o].filled \in Nat
    BY <1>1, Shape
  <2> QED
    BY <2>1 DEF Entered
<1>4. e[o].status \in Terminal
  <2>1. e[o] \in OrderRow /\ e[o].status # "working"
    BY <1>2 DEF Entered
  <2> QED
    BY <2>1 DEF OrderRow
<1>5. CASE trade.confirmed
  BY <1>3, <1>4, <1>5 DEF Settled
<1>6. CASE ~trade.confirmed /\ e[o].marked
  BY <1>3, <1>4, <1>6 DEF Settled
<1>7. CASE ~trade.confirmed /\ ~e[o].marked /\ rows[o].status # "none"
  <2>1. e[o].marked = rows[o].marked /\ e[o].logged = rows[o].logged
    BY <1>7 DEF Entered
  <2> QED
    BY <1>1, <1>7, <2>1 DEF ResidualInv
<1>8. CASE ~trade.confirmed /\ ~e[o].marked /\ rows[o].status = "none"
  <2>1. o = closing /\ closing # trade.closing
    BY <1>8 DEF Entered
  <2>2. trade.closing = NoOrder /\ o \in Recorded
    BY <2>1 DEF ClosingChoices
  <2> QED
    BY <1>1, <1>8, <2>2 DEF ResidualInv
<1> QED
  BY <1>5, <1>6, <1>7, <1>8

\* A journal that has every fill of the entry accounts for all of it.
LEMMA InFull ==
  ASSUME IInv, NEW closing, NEW e, Entered(e, closing), NEW J, J = JournalAfter(e),
         Exited(e) >= Qty,
         \A o \in Orders : e[o].filled # 0 => <<o, 0, ord[o].filled>> \in J
  PROVE  Shares(J) = Qty /\ held = 0
<1>1. /\ \A o \in Orders : /\ e[o].filled \in Nat /\ ord[o].filled \in Nat
                           /\ e[o].filled <= ord[o].filled
      /\ Filled(ord, Orders) = Qty - held
      /\ Filled(e, Orders) \in Nat /\ Filled(e, Orders) <= Qty - held
  BY EntriesWithin
<1>2. held \in Nat
  BY DEF IInv, BookInv, BrokerType
<1>3. held = 0 /\ Filled(e, Orders) = Qty /\ Filled(ord, Orders) = Qty
  BY <1>1, <1>2, Bounds DEF Exited
<1>4. /\ J \subseteq (Orders \X (0 .. Qty) \X (1 .. Qty))
      /\ \A j \in J : j = <<j[1], 0, ord[j[1]].filled>> /\ j[1] \in Orders
  BY JournalIs
<1>5. IsFiniteSet(Orders)
  BY Kinds
<1>6. IsFiniteSet(J)
  <2> DEFINE f == [j \in J |-> j[1]]
  <2>1. \A j \in J : f[j] = j[1]
    OBVIOUS
  <2>2. f \in [J -> Orders]
    BY <1>4
  <2> HIDE DEF f
  <2>3. \A i, j \in J : f[i] = f[j] => i = j
    BY <1>4, <2>1
  <2>4. f \in Injection(J, Orders)
    BY <2>2, <2>3 DEF Injection, IsInjective
  <2> QED
    BY <1>5, <2>4, FS_Injection
<1>7. \A j \in J : j[3] \in Nat /\ j[3] = ord[j[1]].filled
  BY <1>1, <1>4
<1> DEFINE v == [j \in J |-> j[3]]
           w == [o \in Orders |-> e[o].filled]
           u == [o \in Orders |-> ord[o].filled]
           row == [o \in Orders |-> <<o, 0, ord[o].filled>>]
           of == [j \in J |-> j[1]]
<1>8. Shares(J) = Sum(v, J) /\ Shares(J) \in Nat
  BY <1>6, <1>7, SharesIsSum
<1>9. Filled(e, Orders) = Sum(w, Orders) /\ Filled(ord, Orders) = Sum(u, Orders)
  BY <1>1, FilledIsSum
<1>10. /\ \A j \in J : v[j] = j[3] /\ of[j] = j[1]
       /\ \A o \in Orders : w[o] = e[o].filled /\ u[o] = ord[o].filled /\ row[o] = <<o, 0, ord[o].filled>>
  OBVIOUS
<1> HIDE DEF v, w, u, row, of
<1>11. Sum(w, Orders) <= Sum(v, J)
  <2>1. /\ \A o \in Orders : w[o] \in Nat
        /\ \A j \in J : v[j] \in Nat
    BY <1>1, <1>7, <1>10
  <2>2. ASSUME NEW o \in Orders PROVE w[o] = 0 \/ (row[o] \in J /\ w[o] <= v[row[o]])
    <3>1. CASE w[o] # 0
      <4>1. row[o] \in J
        BY <1>10, <3>1
      <4>2. v[row[o]] = ord[o].filled
        <5>1. v[row[o]] = row[o][3] /\ row[o][3] = ord[o].filled
          BY <1>10, <4>1
        <5> QED
          BY <5>1
      <4> QED
        BY <1>1, <1>10, <4>1, <4>2
    <3> QED
      BY <3>1
  <2>3. \A x, y \in Orders : w[x] # 0 /\ w[y] # 0 /\ row[x] = row[y] => x = y
    BY <1>10
  <2> QED
    BY <1>5, <1>6, <2>1, <2>2, <2>3, SumInto
<1>12. Sum(v, J) <= Sum(u, Orders)
  <2>1. /\ \A o \in Orders : u[o] \in Nat
        /\ \A j \in J : v[j] \in Nat
    BY <1>1, <1>7, <1>10
  <2>2. \A j \in J : v[j] = 0 \/ (of[j] \in Orders /\ v[j] <= u[of[j]])
    BY <1>1, <1>4, <1>7, <1>10
  <2>3. \A x, y \in J : v[x] # 0 /\ v[y] # 0 /\ of[x] = of[y] => x = y
    BY <1>4, <1>10
  <2> QED
    BY <1>5, <1>6, <2>1, <2>2, <2>3, SumInto
<1> QED
  BY <1>3, <1>8, <1>9, <1>11, <1>12, Bounds

\* What reconcile writes keeps what is durable true.
LEMMA Reconciled ==
  ASSUME IInv, Setting, SnapInv, pc = "snapped", trade.active, UNCHANGED broker,
         NEW closing \in ClosingChoices, NEW e, e = Entries(closing),
         journal' = JournalAfter(e), rows' = RowsAfter(e), trade' = TradeAfter(e, closing),
         legs' = IF TradeAfter(e, closing).active THEN RefreshedLegs
                 ELSE [o \in DOMAIN legs |-> "absent"]
  PROVE  Durable'
<1>1. /\ BookInv /\ BrokerType /\ OrderInv /\ TradeType /\ LegType /\ RowType /\ JournalType /\ TradeInv
      /\ LegInv /\ RowInv /\ JournalInv /\ ResidualInv /\ PlaceType
  BY DEF IInv, Durable, Volatile, BookInv
<1>2. Entered(e, closing)
  BY EntriesAre
<1>3. held' = held /\ shown' = shown /\ ord' = ord
  BY DEF broker
<1>4. /\ shown \in Nat /\ held \in Nat /\ held <= shown /\ snap \in Nat /\ shown <= snap
      /\ shown = 0 => held = 0
  BY <1>1, FlatBook DEF SnapInv, PlaceType
<1>5. /\ journal \subseteq journal' /\ journal' \subseteq (Orders \X (0 .. Qty) \X (1 .. Qty))
      /\ \A j \in journal' : /\ j = <<j[1], 0, ord[j[1]].filled>>
                             /\ ord[j[1]].status \in Final /\ j[1] \in Orders
      /\ \A o \in Settled(e) : <<o, 0, ord[o].filled>> \in journal'
  <2>1. PICK J : J = journal'
    OBVIOUS
  <2>2. J = JournalAfter(e)
    BY <2>1
  <2> QED
    BY <1>2, <2>1, <2>2, JournalIs
<1>6. /\ rows' \in [Orders -> OrderRow]
      /\ \A o \in Orders :
            /\ rows'[o].status = e[o].status /\ rows'[o].filled = e[o].filled
            /\ rows'[o].marked = e[o].marked
            /\ rows'[o].logged = IF o \in Settled(e) THEN ord[o].filled ELSE e[o].logged
            /\ e[o].status = "none" => rows'[o] = NoRow
  <2>1. PICK R : R = rows'
    OBVIOUS
  <2>2. R = RowsAfter(e)
    BY <2>1
  <2> QED
    BY <1>2, <2>1, <2>2, RowsAre
<1>7. RowType' /\ JournalType'
  BY <1>5, <1>6 DEF RowType, JournalType
<1>8. JournalInv'
  <2>1. ASSUME NEW j \in journal' PROVE j[2] = 0 /\ j[3] = ord[j[1]].filled /\ ord[j[1]].status \in Final
    BY <1>5
  <2> QED
    BY <1>3, <2>1 DEF JournalInv
<1>9. RowInv'
  <2>1. ASSUME NEW o \in Orders
        PROVE  /\ rows'[o].status = "none" => rows'[o] = NoRow
               /\ rows'[o].filled <= ord[o].filled
               /\ rows'[o].status \in Final => ord[o].status \in Final
               /\ rows'[o].status # "none" /\ ord[o].status = "none" => shown = 0
               /\ rows'[o].status = "not_found" => shown = 0
               /\ rows'[o].logged > 0 => /\ rows'[o].logged = ord[o].filled
                                         /\ <<o, 0, ord[o].filled>> \in journal'
    <3>1. /\ e[o].filled <= ord[o].filled
          /\ e[o].logged > 0 => /\ e[o].logged = ord[o].filled
                                /\ <<o, 0, ord[o].filled>> \in journal
      BY <1>2, EntriesWithin
    <3>2. /\ e[o].status \in Final => ord[o].status \in Final
          /\ e[o].status # "none" /\ ord[o].status = "none" => shown = 0
          /\ e[o].status = "not_found" => shown = 0
      BY <1>2 DEF Entered
    <3>3. CASE o \in Settled(e)
      BY <1>5, <1>6, <3>1, <3>2, <3>3
    <3>4. CASE o \notin Settled(e)
      BY <1>5, <1>6, <3>1, <3>2, <3>4
    <3> QED
      BY <3>3, <3>4
  <2> QED
    BY <1>3, <2>1 DEF RowInv
<1>10. closing \in Orders \cup {NoOrder}
  <2>1. Recorded \subseteq Orders
    BY <1>1 DEF Recorded, LegType, Orders
  <2> QED
    BY <1>1, <2>1 DEF ClosingChoices, TradeType
<1> DEFINE exits == \E o \in Orders : e[o].status # "none"
           visible == snap > 0 /\ (trade.confirmed \/ ~exits)
           none == trade.confirmed /\ Exited(e) = 0
<1>11. \/ visible /\ trade' = [trade EXCEPT !.closing = closing, !.confirmed = TRUE]
       \/ ~visible /\ Exited(e) >= Qty /\ trade' = [trade EXCEPT !.active = FALSE, !.closing = NoOrder]
       \/ ~visible /\ ~(Exited(e) >= Qty)
            /\ trade' = [trade EXCEPT !.closing = closing, !.confirmed = none]
  <2>1. trade' = CASE visible -> [trade EXCEPT !.closing = closing, !.confirmed = TRUE]
                   [] ~visible /\ Exited(e) >= Qty ->
                          [trade EXCEPT !.active = FALSE, !.closing = NoOrder]
                   [] OTHER -> [trade EXCEPT !.closing = closing,
                                             !.confirmed = @ /\ Exited(e) = 0]
    BY DEF TradeAfter
  <2>2. trade \in [active : BOOLEAN, confirmed : BOOLEAN, closing : Orders \cup {NoOrder},
                   attempt : {-1} \cup Attempts, rearms : 0 .. MaxAttempts + 1]
    BY <1>1 DEF TradeType
  <2>3. [trade EXCEPT !.closing = closing, !.confirmed = @ /\ Exited(e) = 0]
          = [trade EXCEPT !.closing = closing, !.confirmed = none]
    BY <2>2
  <2> HIDE DEF visible, none
  <2> QED
    BY <2>1, <2>3
<1>12. none \in BOOLEAN
  OBVIOUS
<1> HIDE DEF none
<1>13. /\ TradeType'
       /\ visible => trade'.active /\ trade'.confirmed /\ trade'.closing = closing
       /\ ~visible /\ Exited(e) >= Qty => ~trade'.active /\ trade'.confirmed = trade.confirmed
       /\ ~visible /\ ~(Exited(e) >= Qty) =>
             trade'.active /\ trade'.confirmed = none /\ trade'.closing = closing
  <2> HIDE DEF visible
  <2>1. CASE visible
    BY <1>1, <1>10, <1>11, <2>1 DEF TradeType
  <2>2. CASE ~visible /\ Exited(e) >= Qty
    BY <1>1, <1>11, <2>2 DEF TradeType
  <2>3. CASE ~visible /\ ~(Exited(e) >= Qty)
    BY <1>1, <1>10, <1>11, <1>12, <2>3 DEF TradeType
  <2> QED
    BY <2>1, <2>2, <2>3
<1>14. TradeAfter(e, closing).active = trade'.active
  OBVIOUS
<1>15. \* A trade that is not visible, and is not new, has no position.
       ~visible /\ ~FirstSeen => shown = 0 /\ (snap = 0 \/ ~trade.confirmed)
  <2> SUFFICES ASSUME ~visible, ~FirstSeen PROVE shown = 0 /\ (snap = 0 \/ ~trade.confirmed)
    OBVIOUS
  <2>1. CASE snap = 0
    BY <1>4, <2>1
  <2>2. CASE snap # 0
    <3>1. ~trade.confirmed
      BY <1>4, <2>2
    <3> QED
      BY <1>1, <3>1 DEF TradeInv
  <2> QED
    BY <2>1, <2>2
<1> HIDE DEF visible
<1>16. Exited(e) >= Qty => held = 0
  <2>1. Filled(e, Orders) \in Nat /\ Filled(e, Orders) <= Qty - held
    BY <1>2, EntriesWithin
  <2> QED
    BY <1>4, <2>1, Bounds DEF Exited
<1>17. ~visible /\ Exited(e) >= Qty => shown = 0
  <2>1. CASE ~FirstSeen
    BY <1>15, <2>1
  <2>2. CASE FirstSeen
    BY <1>1, <1>16, <2>2 DEF Setting, BookInv
  <2> QED
    BY <2>1, <2>2
<1>18. TradeInv'
  <2>1. ~trade'.active => shown = 0
    BY <1>13, <1>17
  <2>2. ~trade'.confirmed /\ ~FirstSeen => shown = 0
    BY <1>13, <1>15
  <2> QED
    BY <1>3, <2>1, <2>2 DEF TradeInv
<1>19. /\ legs' \in [Bracket \cup Rearms -> {"absent", "live", "filled", "canceled"}]
       /\ ~trade'.active => \A o \in Bracket \cup Rearms : legs'[o] = "absent"
       /\ trade'.active => \A o \in Bracket \cup Rearms :
             legs'[o] = IF o \notin Recorded THEN "absent"
                        ELSE IF ord[o].status \in Working THEN "live" ELSE ord[o].status
  <2>1. \A o \in Recorded : ord[o].status \in Working \cup Final
    <3>1. ASSUME NEW o \in Recorded PROVE ord[o].status \in Working \cup Final
      <4>1. o \in Orders /\ ord[o].status # "none"
        BY <1>1 DEF LegInv, Recorded, LegType, Orders
      <4>2. ord[o].status \in {"none", "filled", "canceled", "working", "canceling"}
        BY <1>1, <4>1, Shape
      <4> QED
        BY <4>1, <4>2 DEF Working, Final
    <3> QED
      BY <3>1
  <2>2. DOMAIN legs = Bracket \cup Rearms
    BY <1>1 DEF LegType
  <2>3. CASE trade'.active
    <3>1. legs' = [o \in Bracket \cup Rearms |->
                     IF o \notin Recorded THEN "absent"
                     ELSE IF ord[o].status \in Working THEN "live" ELSE ord[o].status]
      BY <1>14, <2>2, <2>3 DEF RefreshedLegs
    <3> QED
      BY <2>1, <2>3, <3>1 DEF Final
  <2>4. CASE ~trade'.active
    <3>1. legs' = [o \in Bracket \cup Rearms |-> "absent"]
      BY <1>14, <2>2, <2>4
    <3> QED
      BY <2>4, <3>1
  <2> QED
    BY <2>3, <2>4
<1>20. LegType' /\ Recorded' \subseteq Recorded
  <2>1. Recorded' = {o \in Bracket \cup Rearms : legs'[o] # "absent"}
    BY <1>19 DEF Recorded
  <2> QED
    BY <1>19, <2>1 DEF LegType
<1>21. LegInv'
  <2>1. \A o \in Recorded' : ord[o].status # "none"
    BY <1>1, <1>20 DEF LegInv
  <2>2. ASSUME trade'.active, NEW o \in Bracket
        PROVE  /\ legs'[o] # "absent"
               /\ ord[o].status \in Working => legs'[o] \in {"live", "filled"}
               /\ legs'[o] = "canceled" => ord[o].status = "canceled"
    <3>1. o \in Recorded
      BY <1>1 DEF LegInv, LegType, Recorded
    <3>2. legs'[o] = IF ord[o].status \in Working THEN "live" ELSE ord[o].status
      BY <1>19, <2>2, <3>1
    <3>3. ord[o].status \in {"none", "filled", "canceled", "working", "canceling"} /\ ord[o].status # "none"
      BY <1>1, <3>1, Shape, Kinds DEF LegInv
    <3> QED
      BY <3>2, <3>3 DEF Working
  <2> QED
    BY <1>3, <2>1, <2>2 DEF LegInv
<1>22. ASSUME ~visible, ~FirstSeen, NEW o \in Orders, e[o].status # "none", ord[o].filled # 0
       PROVE  o \in Settled(e) \/ e[o].logged > 0
  BY <1>2, <1>15, <1>22, Accounted
<1>23. ResidualInv'
  <2> SUFFICES ASSUME ~trade'.confirmed, ~FirstSeen, trade'.active PROVE ResidualInv'
    BY DEF ResidualInv
  <2>1. ~visible /\ trade'.closing = closing
    BY <1>13
  <2>2. ASSUME NEW o \in Orders, rows'[o].status # "none"
        PROVE  ord[o].filled = 0 \/ rows'[o].logged > 0
    <3> SUFFICES ASSUME ord[o].filled # 0 PROVE rows'[o].logged > 0
      OBVIOUS
    <3>1. e[o].status # "none"
      BY <1>6, <2>2
    <3>2. o \in Settled(e) \/ e[o].logged > 0
      BY <1>22, <2>1, <3>1
    <3>3. ord[o].filled \in Nat
      BY <1>1, Shape
    <3>4. ord[o].filled > 0
      BY <3>3
    <3> QED
      BY <1>6, <3>2, <3>4
  <2>3. ASSUME closing = NoOrder, NEW o \in Recorded' PROVE ord[o].filled = 0
    <3>1. o \in Recorded /\ o \in Orders /\ ord[o].filled \in Nat
      <4>1. Recorded \subseteq Orders
        BY <1>1 DEF Recorded, LegType, Orders
      <4> QED
        BY <1>1, <1>20, <4>1, Shape
    <3>2. NoOrder \notin Recorded
      BY <1>1, Kinds DEF Recorded, LegType, Orders
    <3>3. {p \in Recorded : ord[p].filled > 0} = {}
      BY <2>3, <3>2 DEF ClosingChoices
    <3> QED
      BY <3>1, <3>3
  <2> QED
    BY <1>3, <2>1, <2>2, <2>3 DEF ResidualInv
<1>24. EndInv'
  <2> SUFFICES ASSUME ~trade'.active, ~FirstSeen PROVE Shares(journal') = Qty
    BY DEF EndInv
  <2>1. ~visible /\ Exited(e) >= Qty
    BY <1>13
  <2>2. ASSUME NEW o \in Orders, e[o].filled # 0 PROVE <<o, 0, ord[o].filled>> \in journal'
    <3>1. e[o].filled \in Nat /\ (e[o].filled > 0 => e[o].status # "none")
          /\ (e[o].logged > 0 => <<o, 0, ord[o].filled>> \in journal)
      BY <1>2, EntriesWithin
    <3>2. e[o].status # "none" /\ ord[o].filled # 0
      BY <1>2, <2>2, <3>1 DEF Entered
    <3>3. o \in Settled(e) \/ e[o].logged > 0
      BY <1>22, <2>1, <3>2
    <3> QED
      BY <1>5, <3>1, <3>3
  <2>3. PICK J : J = journal'
    OBVIOUS
  <2>4. J = JournalAfter(e)
    BY <2>3
  <2>5. \A o \in Orders : e[o].filled # 0 => <<o, 0, ord[o].filled>> \in J
    BY <2>2, <2>3
  <2>6. Shares(J) = Qty
    BY <1>2, <2>1, <2>4, <2>5, InFull
  <2> QED
    BY <2>3, <2>6
<1> QED
  BY <1>7, <1>8, <1>9, <1>13, <1>18, <1>20, <1>21, <1>23, <1>24 DEF Durable

\* A reconcile.
LEMMA ReconcileStep ==
  ASSUME IInv, Setting, Reconcile
  PROVE  IInv'
<1>1. BookInv /\ Durable /\ PlaceType /\ JobType /\ CallType /\ MemoType /\ MemoInv /\ Control /\ SnapInv
  BY DEF IInv, Volatile
<1>2. /\ pc = "snapped" /\ UNCHANGED broker
      /\ UNCHANGED <<paused, snap, asked, job, memo, startup, clock, faults>> /\ ReconcileReturns
  BY DEF Reconcile
<1>3. BookInv' /\ Onward
  BY <1>1, <1>2, Unmoved
<1>4. Durable'
  <2>1. CASE trade.active
    <3>1. PICK closing \in ClosingChoices :
            /\ journal' = JournalAfter(Entries(closing)) /\ rows' = RowsAfter(Entries(closing))
            /\ trade' = TradeAfter(Entries(closing), closing)
            /\ legs' = IF TradeAfter(Entries(closing), closing).active THEN RefreshedLegs
                       ELSE [o \in DOMAIN legs |-> "absent"]
      BY <2>1 DEF Reconcile
    <3>2. PICK e : e = Entries(closing)
      OBVIOUS
    <3> QED
      BY <1>1, <1>2, <2>1, <3>1, <3>2, Reconciled
  <2>2. CASE ~trade.active
    <3>1. UNCHANGED <<trade, legs, rows, journal>>
      BY <2>2 DEF Reconcile
    <3> QED
      BY <1>1, <1>3, <3>1, DurableKept
  <2> QED
    BY <2>1, <2>2
<1>5. /\ pc' \in {"begin", "monitor", "end", "poll"} /\ CallType'
      /\ pc' \in {"begin", "end", "poll"} => call'.reason # "none"
      /\ pc' = "monitor" => call'.reason = "none"
      /\ pc' \in {"begin", "poll"} => call'.polls < MaxPolls
  <2>1. CASE call.reason = "none"
    <3> DEFINE r == IF startup THEN "startup" ELSE IF clock = "flat" THEN "before_close" ELSE "none"
    <3>1. call' = [NoCall EXCEPT !.reason = r]
          /\ pc' = IF startup \/ clock = "flat" THEN "begin" ELSE "monitor"
      BY <1>2, <2>1 DEF ReconcileReturns
    <3>2. r \in FlattenReasons \cup {"none"} /\ (r = "none" <=> ~(startup \/ clock = "flat"))
      BY DEF FlattenReasons
    <3> HIDE DEF r
    <3>3. call' \in Call /\ call'.reason = r /\ call'.polls = 0
      BY <3>1, <3>2, Calls
    <3> QED
      BY <3>1, <3>2, <3>3, Bounds DEF CallType
  <2>2. CASE call.reason # "none"
    <3>1. /\ call' = [call EXCEPT !.polls = @ + 1]
          /\ pc' = IF call.confirming \/ call.polls + 1 = MaxPolls THEN "end" ELSE "poll"
      BY <1>2, <2>2 DEF ReconcileReturns
    <3>2. call.polls < MaxPolls /\ call \in Call /\ call.polls \in Nat
      BY <1>1, <1>2, <2>2 DEF Control, CallType, Call
    <3>3. call.polls + 1 \in 0 .. MaxPolls
      BY <3>2, Bounds
    <3>4. call' \in Call /\ call'.reason = call.reason /\ call'.polls = call.polls + 1
      BY <3>1, <3>2, <3>3 DEF Call
    <3> QED
      BY <2>2, <3>1, <3>2, <3>3, <3>4, Bounds DEF CallType
  <2> QED
    BY <2>1, <2>2
<1>6. PlaceType' /\ JobType'
  BY <1>1, <1>2, <1>5 DEF PlaceType, JobType
<1>7. Control'
  BY <1>5 DEF Control
<1>8. SnapInv' /\ CloseInv' /\ RecordInv' /\ MemoType' /\ MemoInv'
  BY <1>1, <1>2, <1>3, <1>5, MemoKept DEF SnapInv, CloseInv, RecordInv
<1> QED
  BY <1>3, <1>4, <1>5, <1>6, <1>7, <1>8 DEF IInv, Volatile

\* A reconcile that failed has at most written to the journal.
LEMMA ReconcileFailsStep ==
  ASSUME IInv, Setting, ReconcileFails
  PROVE  IInv'
<1>1. /\ BookInv /\ Durable /\ PlaceType /\ JobType /\ CallType /\ MemoType /\ MemoInv /\ Control
      /\ TradeType /\ LegType /\ RowType /\ JournalType /\ TradeInv /\ LegInv /\ RowInv
      /\ JournalInv /\ ResidualInv /\ EndInv
  BY DEF IInv, Volatile, Durable
<1>2. /\ pc = "snapped" /\ UNCHANGED broker /\ UNCHANGED <<trade, legs, rows>>
      /\ UNCHANGED <<paused, snap, asked, job, startup, clock>>
      /\ memo' = IF pc' = "down" THEN NoRequests ELSE memo
  BY DEF ReconcileFails
<1>3. BookInv' /\ Onward
  BY <1>1, <1>2, Unmoved
<1>4. held' = held /\ shown' = shown /\ ord' = ord
  BY <1>2 DEF broker
<1>5. Durable'
  <2>1. CASE journal' = journal
    BY <1>1, <1>2, <1>3, <2>1, DurableKept
  <2>2. CASE trade.active /\ \E c \in ClosingChoices : journal' = JournalAfter(Entries(c))
    <3>1. PICK c \in ClosingChoices : journal' = JournalAfter(Entries(c))
      BY <2>2
    <3>2. PICK e, J : e = Entries(c) /\ J = journal'
      OBVIOUS
    <3>3. Entered(e, c) /\ J = JournalAfter(e)
      BY <3>1, <3>2, EntriesAre
    <3>4. /\ journal \subseteq J /\ J \subseteq (Orders \X (0 .. Qty) \X (1 .. Qty))
          /\ \A j \in J : /\ j = <<j[1], 0, ord[j[1]].filled>>
                          /\ ord[j[1]].status \in Final /\ j[1] \in Orders
      BY <3>3, JournalIs
    <3>5. JournalType' /\ JournalInv'
      <4>1. JournalType'
        BY <3>2, <3>4 DEF JournalType
      <4>2. ASSUME NEW j \in J PROVE j[2] = 0 /\ j[3] = ord[j[1]].filled /\ ord[j[1]].status \in Final
        BY <3>4
      <4>3. \A j \in journal' : j[2] = 0 /\ j[3] = ord[j[1]].filled /\ ord[j[1]].status \in Final
        BY <3>2, <4>2
      <4> QED
        BY <1>4, <4>1, <4>3 DEF JournalInv
    <3>6. RowInv' /\ LegInv'
      BY <1>1, <1>2, <1>3, <3>2, <3>4, RowsKept, LegsKept
    <3>7. TradeType' /\ LegType' /\ RowType' /\ TradeInv' /\ ResidualInv' /\ EndInv'
      <4>1. Recorded' = Recorded
        BY <1>2 DEF Recorded
      <4> QED
        BY <1>1, <1>2, <1>4, <2>2, <4>1
           DEF TradeType, LegType, RowType, TradeInv, ResidualInv, EndInv
    <3> QED
      BY <3>5, <3>6, <3>7 DEF Durable
  <2>3. \/ journal' = journal
        \/ trade.active /\ \E c \in ClosingChoices : journal' = JournalAfter(Entries(c))
    BY DEF ReconcileFails
  <2> QED
    BY <2>1, <2>2, <2>3
<1>6. faults' \in 0 .. MaxFaults
  BY <1>1, Counted DEF ReconcileFails
<1>7. /\ pc' \in {"end", "down", "begin", "idle"} /\ CallType'
      /\ pc' \in {"begin", "end"} => call'.reason # "none"
      /\ pc' \in {"down", "idle"} => call'.reason = "none"
      /\ pc' = "begin" => call'.polls < MaxPolls
  <2>1. CASE call.reason = "none"
    <3> DEFINE r == IF clock = "flat" /\ ~startup THEN "failed" ELSE "none"
    <3>1. call' = [NoCall EXCEPT !.reason = r]
          /\ pc' = IF startup THEN "down" ELSE IF clock = "flat" THEN "begin" ELSE "idle"
      BY <2>1 DEF ReconcileFails
    <3>2. r \in FlattenReasons \cup {"none"} /\ (r = "none" <=> ~(clock = "flat" /\ ~startup))
      BY DEF FlattenReasons
    <3> HIDE DEF r
    <3>3. call' \in Call /\ call'.reason = r /\ call'.polls = 0
      BY <3>1, <3>2, Calls
    <3> QED
      BY <3>1, <3>2, <3>3, Bounds DEF CallType
  <2>2. CASE call.reason # "none"
    <3>1. call' = [call EXCEPT !.error = TRUE] /\ pc' = "end"
      BY <2>2 DEF ReconcileFails
    <3>2. call' \in Call /\ call'.reason = call.reason
      BY <1>1, <3>1 DEF CallType, Call
    <3> QED
      BY <2>2, <3>1, <3>2 DEF CallType
  <2> QED
    BY <2>1, <2>2
<1>8. PlaceType' /\ JobType'
  BY <1>1, <1>2, <1>6, <1>7 DEF PlaceType, JobType
<1>9. Control'
  BY <1>7 DEF Control
<1>10. MemoType' /\ MemoInv'
  BY <1>1, <1>2, <1>3, MemoKept, MemoCleared
<1>11. SnapInv' /\ CloseInv' /\ RecordInv'
  BY <1>7 DEF SnapInv, CloseInv, RecordInv
<1> QED
  BY <1>3, <1>5, <1>7, <1>8, <1>9, <1>10, <1>11 DEF IInv, Volatile

-----------------------------------------------------------------------------
\* The inductive invariant holds.

\* No order has no fills.
LEMMA FilledNone == ASSUME NEW e PROVE Filled(e, {}) = 0
<1>1. Filled(e, {}) = Sum([o \in {} |-> e[o].filled], {})
  BY FilledIsSum
<1>2. Sum([o \in {} |-> e[o].filled], {}) = 0
  BY FS_EmptySet, SumOut
<1> QED
  BY <1>1, <1>2

\* The invariant holds at first.
LEMMA InitIInv ==
  ASSUME Init, Setting
  PROVE  IInv
<1>1. /\ held = Qty /\ shown = Qty
      /\ \A o \in Orders : ord[o] = IF o \in Bracket
                                    THEN [status |-> "working", qty |-> Qty, filled |-> 0]
                                    ELSE [status |-> "none", qty |-> 0, filled |-> 0]
      /\ legs = [o \in Bracket \cup Rearms |-> IF o \in Bracket THEN "live" ELSE "absent"]
      /\ rows = [o \in Orders |-> NoRow] /\ journal = {}
  BY DEF Init
<1>2. \A o \in Orders : /\ o \in Bracket => ord[o].status = "working" /\ ord[o].qty = Qty
                        /\ o \notin Bracket => ord[o].status = "none" /\ ord[o].qty = 0
                        /\ ord[o].filled = 0
  BY <1>1
<1>3. BookInv
  <2>1. BrokerType
    <3>1. \A o \in Orders : ord[o] \in BrokerOrder
      <4>1. Qty \in 0 .. Qty /\ 0 \in 0 .. Qty
        BY Bounds
      <4> QED
        BY <1>1, <4>1, IsOrder
    <3>2. ord = [o \in Orders |-> ord[o]]
      BY DEF Init
    <3>3. ord \in [Orders -> BrokerOrder]
      BY <3>1, <3>2
    <3> QED
      BY <1>1, <3>3, Bounds DEF BrokerType
  <2>2. OrderInv
    BY <1>2, Bounds DEF OrderInv, Working
  <2>3. Filled(ord, Orders) = 0
    <3>1. Filled(ord, Orders) <= Filled(ord, {})
      BY <1>2, FilledWithin
    <3>2. Filled(ord, Orders) \in Nat
      <4>1. \A o \in Orders : ord[o].filled \in Nat
        BY <1>2
      <4> QED
        BY <4>1, FilledIsSum
    <3> QED
      BY <3>1, <3>2, FilledNone
  <2>4. WorkingOrders = Bracket
    BY <1>2, Kinds DEF WorkingOrders, Working
  <2>5. Outstanding = 0
    <3>1. WorkingOrders \ Bracket = {}
      BY <2>4
    <3> QED
      BY <3>1, LeftNone DEF Outstanding
  <2> QED
    BY <1>1, <1>2, <2>1, <2>2, <2>3, <2>5, Bounds DEF BookInv
<1>4. Durable
  <2>1. PICK c \in {TRUE, ~FirstSeen} :
          trade = [active |-> TRUE, confirmed |-> c, closing |-> NoOrder, attempt |-> -1, rearms |-> 0]
    BY DEF Init
  <2>2. TradeType /\ trade.active /\ (trade.confirmed \/ FirstSeen)
    <3>1. c \in BOOLEAN /\ (c \/ FirstSeen)
      BY <2>1
    <3>2. 0 \in 0 .. MaxAttempts + 1
      BY Bounds
    <3> QED
      BY <2>1, <3>1, <3>2 DEF TradeType
  <2>3. NoRow \in OrderRow /\ NoRow.status = "none" /\ NoRow.filled = 0 /\ NoRow.logged = 0
    BY Bounds DEF NoRow, OrderRow
  <2>4. RowType /\ \A o \in Orders : rows[o] = NoRow
    BY <1>1, <2>3 DEF RowType
  <2>5. LegType /\ JournalType /\ JournalInv
    BY <1>1 DEF LegType, JournalType, JournalInv
  <2>6. Recorded = Bracket
    BY <1>1 DEF Recorded
  <2>7. LegInv
    BY <1>1, <1>2, <2>6, Kinds DEF LegInv
  <2>8. RowInv
    <3>1. ASSUME NEW o \in Orders
          PROVE  /\ rows[o].status = "none" /\ rows[o] = NoRow /\ rows[o].filled <= ord[o].filled
                 /\ rows[o].logged = 0
      BY <1>2, <2>3, <2>4
    <3> QED
      BY <3>1 DEF RowInv, Final
  <2> QED
    BY <2>2, <2>4, <2>5, <2>7, <2>8 DEF Durable, TradeInv, ResidualInv, EndInv
<1>5. Volatile
  <2>1. /\ pc = "idle" /\ snap = 0 /\ asked = {} /\ job = NoJob /\ call = NoCall /\ memo = NoRequests
        /\ startup = FALSE /\ paused = FALSE /\ clock = "open" /\ faults = 0
    BY DEF Init
  <2>2. PlaceType
    <3>1. snap \in 0 .. Qty /\ faults \in 0 .. MaxFaults
      BY <2>1, Bounds
    <3>2. paused \in BOOLEAN /\ startup \in BOOLEAN
      BY <2>1, Zenon
    <3> QED
      BY <2>1, <3>1, <3>2 DEF PlaceType
  <2>3. JobType /\ CallType /\ Control
    BY <2>1, Calls, NoJobYet DEF JobType, CallType, Control
  <2>4. MemoType /\ MemoInv
    <3>1. NoRequest \in Request /\ NoRequest.status = "none"
      BY Bounds DEF NoRequest, Request
    <3>2. \A o \in Orders : memo[o] = NoRequest
      BY <2>1 DEF NoRequests
    <3> HIDE DEF NoRequest
    <3> QED
      BY <2>1, <3>1, <3>2 DEF MemoType, MemoInv, NoRequests, Final
  <2> QED
    BY <2>1, <2>2, <2>3, <2>4 DEF Volatile, SnapInv, CloseInv, RecordInv
<1> QED
  BY <1>3, <1>4, <1>5 DEF IInv

\* Every step keeps it.
LEMMA NextIInv ==
  ASSUME IInv, Setting, [Next]_vars
  PROVE  IInv'
<1>1. CASE UNCHANGED vars
  <2>1. /\ UNCHANGED <<held, shown, ord, trade, legs, rows, paused, journal, pc, snap>>
        /\ UNCHANGED <<asked, job, call, memo, startup, clock, faults>>
    BY <1>1 DEF vars
  <2>2. BookInv /\ Durable /\ Volatile
    BY DEF IInv
  <2>3. UNCHANGED broker
    BY <2>1 DEF broker
  <2>4. BookInv' /\ Onward
    BY <2>2, <2>3, Unmoved
  <2>5. Durable'
    BY <2>1, <2>2, <2>4, DurableKept
  <2>6. PlaceType' /\ JobType' /\ CallType' /\ Control' /\ SnapInv'
    BY <2>1, <2>2 DEF Volatile, PlaceType, JobType, CallType, Control, SnapInv
  <2>7. MemoType' /\ MemoInv' /\ CloseInv'
    BY <2>1, <2>2, <2>4, MemoKept, CloseKept DEF Volatile
  <2>8. RecordInv'
    BY <2>1, <2>2 DEF Volatile, RecordInv
  <2> QED
    BY <2>4, <2>5, <2>6, <2>7, <2>8 DEF IInv, Volatile
<1>2. CASE Engine
  BY <1>2, SnapPositionsStep, ReconcileStep, MonitorDecidesStep, ConfirmCancelStep, SubmitCloseStep,
     RecordCloseStep, RearmStep, RearmSkippedStep, FlattenSteps, PollHeldStep, FlattenEndsStep,
     CrashStep DEF Engine
<1>3. CASE EngineFaults
  BY <1>3, ReconcileFailsStep, ConfirmCancelFailsStep, SubmitCloseStep, RecordFails, RearmStep,
     CrashStep DEF EngineFaults
<1>4. CASE \E o \in Orders : OrderDies(o) \/ BrokerCancels(o) \/ \E k \in 1 .. Qty : Fill(o, k)
  BY <1>4, BrokerSteps
<1>5. CASE PositionsSettle \/ DeadlineDue \/ WindowOpens
  <2>1. StopLeg \in Orders
    BY Kinds DEF Bracket
  <2> QED
    BY <1>5, <2>1, BrokerSteps
<1> QED
  BY <1>1, <1>2, <1>3, <1>4, <1>5 DEF Next

\* So it always holds.
LEMMA Inductive ==
  ASSUME Setting
  PROVE  Spec => []IInv
<1>1. Init => IInv
  BY InitIInv
<1>2. IInv /\ [Next]_vars => IInv'
  BY NextIInv
<1> QED
  BY <1>1, <1>2, PTL DEF Spec

-----------------------------------------------------------------------------
\* The theorems.

\* Every reachable state is well typed; among others nothing is ever held short, however
\* fills, cancels, faults and restarts interleave with the three routines.
THEOREM Typing ==
  ASSUME Setting
  PROVE  Spec => []TypeOK
<1>1. IInv => TypeOK
  <2> SUFFICES ASSUME IInv PROVE TypeOK
    OBVIOUS
  <2>1. /\ BrokerType /\ TradeType /\ LegType /\ RowType /\ JournalType /\ PlaceType /\ JobType
        /\ CallType /\ MemoType
    BY DEF IInv, BookInv, Durable, Volatile
  <2>2. held \in -(3 * Qty) .. Qty /\ shown \in -(3 * Qty) .. Qty
    BY <2>1, Bounds DEF BrokerType
  <2>3. /\ call.reason \in {"none"} \cup FlattenReasons /\ call.polls \in 0 .. MaxPolls
        /\ call.prior \in Flattens \cup {NoOrder} /\ call.tried \subseteq Flattens
        /\ call.listed \subseteq Bracket \cup Rearms
    BY <2>1 DEF CallType, Call
  <2> QED
    BY <2>1, <2>2, <2>3 DEF TypeOK, BrokerType, TradeType, LegType, RowType, JournalType,
       PlaceType, JobType, MemoType
<1> QED
  BY <1>1, Inductive, PTL

\* The closes and the re-armed stops at work never exceed what is held, so no order of
\* their fills turns the exit into a short position.
THEOREM Oversold ==
  ASSUME Setting
  PROVE  Spec => []NeverOversold
<1>1. IInv => NeverOversold
  BY DEF IInv, BookInv, NeverOversold
<1> QED
  BY <1>1, Inductive, PTL

\* Where the entry is confirmed from the start, a trade leaves the runtime state only when
\* nothing is held any more and the journal accounts for every share of its entry, once.
THEOREM Booked ==
  ASSUME Setting, ~FirstSeen
  PROVE  Spec => []BookedInFull
<1>1. IInv => BookedInFull
  <2> SUFFICES ASSUME IInv, ~trade.active PROVE held = 0 /\ Shares(journal) = Qty
    BY DEF BookedInFull
  <2>1. BookInv /\ TradeInv /\ EndInv
    BY DEF IInv, Durable
  <2>2. shown = 0
    BY <2>1 DEF TradeInv
  <2> QED
    BY <2>1, <2>2, FlatBook DEF EndInv
<1> QED
  BY <1>1, Inductive, PTL
=============================================================================
