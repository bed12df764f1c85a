-------------------------- MODULE EntryCycleProofs --------------------------
(***************************************************************************)
(* Proofs about EntryCycle: every reachable state is well typed, at most   *)
(* one entry per session key reaches the broker, and, where the broker's   *)
(* answers settle (Settles), the caps hold at the broker and the loop      *)
(* takes entries only while nothing at the broker is forgotten.            *)
(*                                                                         *)
(* The totals of the model are folds over finite sets.  Their lemmas come  *)
(* first: a fold over a finite set exists and is one, by a least set that  *)
(* would have none, so that a total is a sum that can be taken apart.      *)
(***************************************************************************)
EXTENDS EntryCycle, FiniteSetTheorems, WellFoundedInduction, TLAPS

-----------------------------------------------------------------------------
\* The inductive invariants.

Orders == {"none", "refused", "working", "filled", "dead", "exited", "closed"}
Loop   == {"entries", "vet", "record"}
Taken  == {"filled", "exited", "closed"}

\* TypeOK, a conjunct for each part of the state.
BrokerType ==
  /\ ord \in [Ids -> Orders] /\ hidden \in [Ids -> 0 .. MaxLag] /\ unshown \subseteq Ids
  /\ bar \in 1 .. MaxBars + 1
RowsType == rows \in [Ids -> Row]
BookType ==
  /\ sessions \subseteq {Key(id) : id \in Ids} /\ trade \in [Symbols -> Ids \cup {NoId, Unknown}]
  /\ closing \subseteq Symbols /\ paused \in BOOLEAN
ProcessType ==
  /\ reconciled \in BOOLEAN /\ cleaned \in BOOLEAN /\ faults \in 0 .. MaxFaults
  /\ pc \in {"off", "ready", "check", "check_orders", "cycle", "cycle_orders", "account",
             "entries", "vet", "record", "flatten", "shutdown"}
LoopType ==
  /\ seen \subseteq Symbols /\ todo \subseteq Edges \X Symbols /\ cur \in Ids \cup {NoId}
  /\ placed \subseteq Ids /\ halted \in BOOLEAN
  /\ base \in [positions : SUBSET Symbols, blocked : SUBSET Symbols,
               slots : Nat, risk : Nat, gross : Nat]

\* The key of every order sent is spent; the key of the entry in hand is spent, and
\* no order was sent for it before.
OnceInv ==
  /\ \A id \in Ids : ord[id] # "none" => Key(id) \in sessions
  /\ \A a, b \in Ids : ord[a] # "none" /\ ord[b] # "none" /\ Key(a) = Key(b) => a = b
  /\ pc = "vet" => /\ cur \in Ids /\ Key(cur) \in sessions
                   /\ \A id \in Ids : Key(id) = Key(cur) => ord[id] = "none"

\* A row is of an order that was sent, and is given up at its third miss.
RowInv ==
  \A id \in Ids : /\ rows[id].st # "none" => ord[id] # "none"
                  /\ rows[id].st = "open" => rows[id].misses <= 2

\* The loop runs before the force-flat window; between a submit and its record the
\* order in hand has no row.
CurInv ==
  /\ pc \in Loop => bar <= MaxBars
  /\ pc \notin Loop => placed = {}
  /\ pc = "record" => cur \in Ids /\ ord[cur] # "none" /\ rows[cur].st = "none"

IInv ==
  /\ BrokerType /\ RowsType /\ BookType /\ ProcessType /\ LoopType
  /\ OnceInv /\ RowInv /\ CurInv

-----------------------------------------------------------------------------
\* Sums over finite sets.

\* The next element a fold takes out of a set, and the sum that is left with it.
First(s) == CHOOSE x \in s : TRUE
Folded(g, w, s) == IF s = {} THEN 0 ELSE g[s \ {First(s)}] + w[First(s)]
Folds(g, w, D) == g = [s \in SUBSET D |-> Folded(g, w, s)]
Sum(w, S) == (CHOOSE g : Folds(g, w, S))[S]

\* A set of natural numbers that is not empty has a least element.
LEMMA Least ==
  ASSUME NEW T \in SUBSET Nat, T # {}
  PROVE  \E x \in T : \A y \in T : x <= y
<1>1. PICK R : /\ IsWellFoundedOn(R, Nat)
               /\ \A x, y \in Nat : x < y => <<x, y>> \in R
  <2>1. \A x, y \in Nat : x < y => <<x, y>> \in OpToRel(<, Nat)
    BY DEF OpToRel
  <2> QED
    BY <2>1, NatLessThanWellFounded, Zenon
<1>2. PICK x \in T : \A y \in T : ~ (<<y, x>> \in R)
  <2>1. IsWellFoundedOn(R, Nat) /\ T \subseteq Nat /\ T # {}
    BY <1>1
  <2> QED
    BY <2>1, WFMin, Zenon
<1>3. \A y \in T : ~(y < x)
  BY <1>1, <1>2
<1> QED
  BY <1>3

\* The fold over the subsets of a finite set exists: one that is right up to a size
\* gives one that is right up to the next.
LEMMA FoldExists ==
  ASSUME NEW D, IsFiniteSet(D), NEW w, \A x \in D : w[x] \in Nat
  PROVE  \E g \in [SUBSET D -> Nat] : Folds(g, w, D)
<1> DEFINE Right(g, n) == \A s \in SUBSET D : Cardinality(s) <= n => g[s] = Folded(g, w, s)
           Fails == {n \in Nat : ~ \E g \in [SUBSET D -> Nat] : Right(g, n)}
<1>1. \A s \in SUBSET D :
        /\ IsFiniteSet(s) /\ Cardinality(s) \in Nat /\ Cardinality(s) <= Cardinality(D)
        /\ Cardinality(s) = 0 <=> s = {}
        /\ s # {} => /\ First(s) \in s /\ s \ {First(s)} \in SUBSET D
                     /\ Cardinality(s \ {First(s)}) = Cardinality(s) - 1
  <2> TAKE s \in SUBSET D
  <2>1. IsFiniteSet(s) /\ Cardinality(s) \in Nat /\ Cardinality(s) <= Cardinality(D)
    BY FS_Subset, FS_CardinalityType
  <2>2. Cardinality(s) = 0 <=> s = {}
    BY <2>1, FS_EmptySet
  <2>3. s # {} => First(s) \in s
    BY DEF First
  <2> QED
    BY <2>1, <2>2, <2>3, FS_RemoveElement
<1>2. \A n \in Nat : n \in Fails <=> ~ \E g \in [SUBSET D -> Nat] : Right(g, n)
  OBVIOUS
<1>3. Fails \in SUBSET Nat
  OBVIOUS
<1> HIDE DEF Fails
<1>4. Fails = {}
  <2> SUFFICES ASSUME Fails # {} PROVE FALSE
    OBVIOUS
  <2>1. PICK n \in Fails : \A m \in Fails : n <= m
    BY <1>3, Least
  <2>2. n \in Nat /\ ~ \E g \in [SUBSET D -> Nat] : Right(g, n)
    BY <1>2, <1>3
  <2>3. CASE n = 0
    <3> DEFINE g == [s \in SUBSET D |-> 0]
    <3>1. g \in [SUBSET D -> Nat]
      OBVIOUS
    <3>2. ASSUME NEW s \in SUBSET D, Cardinality(s) <= n PROVE g[s] = Folded(g, w, s)
      <4>1. Cardinality(s) \in Nat /\ (Cardinality(s) = 0 <=> s = {})
        BY <1>1
      <4>2. s = {}
        BY <2>3, <3>2, <4>1
      <4> QED
        BY <4>2 DEF Folded
    <3> HIDE DEF g
    <3> QED
      BY <2>2, <3>1, <3>2
  <2>4. CASE n # 0
    <3>1. n - 1 \in Nat /\ n - 1 \notin Fails
      BY <2>1, <2>2, <2>4
    <3>2. PICK g \in [SUBSET D -> Nat] : Right(g, n - 1)
      BY <1>2, <3>1
    <3> DEFINE h == [s \in SUBSET D |-> Folded(g, w, s)]
    <3>3. ASSUME NEW s \in SUBSET D PROVE Folded(g, w, s) \in Nat
      <4>1. CASE s = {}
        BY <4>1 DEF Folded
      <4>2. CASE s # {}
        <5>1. g[s \ {First(s)}] \in Nat /\ w[First(s)] \in Nat
          BY <1>1, <4>2
        <5> QED
          BY <4>2, <5>1 DEF Folded
      <4> QED
        BY <4>1, <4>2
    <3>4. h \in [SUBSET D -> Nat]
      BY <3>3
    <3>5. \A s \in SUBSET D : h[s] = Folded(g, w, s)
      OBVIOUS
    <3> HIDE DEF h
    <3>6. \A s \in SUBSET D : Cardinality(s) <= n - 1 => h[s] = g[s]
      BY <3>2, <3>5
    <3>7. ASSUME NEW s \in SUBSET D, Cardinality(s) <= n PROVE h[s] = Folded(h, w, s)
      <4>1. CASE s = {}
        BY <3>5, <4>1 DEF Folded
      <4>2. CASE s # {}
        <5>1. /\ s \ {First(s)} \in SUBSET D
              /\ Cardinality(s \ {First(s)}) = Cardinality(s) - 1 /\ Cardinality(s) \in Nat
          BY <1>1, <4>2
        <5>2. Cardinality(s \ {First(s)}) <= n - 1
          BY <2>2, <3>7, <5>1
        <5>3. h[s \ {First(s)}] = g[s \ {First(s)}]
          BY <3>6, <5>1, <5>2
        <5> QED
          BY <3>5, <4>2, <5>3 DEF Folded
      <4> QED
        BY <4>1, <4>2
    <3> QED
      BY <2>2, <3>4, <3>7
  <2> QED
    BY <2>3, <2>4
<1>5. Cardinality(D) \in Nat
  BY <1>1
<1>6. PICK g \in [SUBSET D -> Nat] : Right(g, Cardinality(D))
  BY <1>2, <1>4, <1>5
<1>7. \A s \in SUBSET D : g[s] = Folded(g, w, s)
  BY <1>1, <1>6
<1>8. Folds(g, w, D)
  BY <1>7 DEF Folds
<1> QED
  BY <1>8

\* Two folds agree on every set both are about.
LEMMA FoldsAgree ==
  ASSUME NEW D, IsFiniteSet(D), NEW E \in SUBSET D, NEW w, NEW g, NEW h,
         Folds(g, w, D), Folds(h, w, E)
  PROVE  \A s \in SUBSET E : g[s] = h[s]
<1> DEFINE Differs == {n \in Nat : \E s \in SUBSET E : Cardinality(s) = n /\ g[s] # h[s]}
<1>1. \A s \in SUBSET E : IsFiniteSet(s) /\ Cardinality(s) \in Nat
  BY FS_Subset, FS_CardinalityType
<1>2. \A s \in SUBSET E : g[s] = Folded(g, w, s) /\ h[s] = Folded(h, w, s)
  BY DEF Folds
<1> SUFFICES ASSUME Differs # {} PROVE FALSE
  BY <1>1
<1>3. PICK n \in Differs : \A m \in Differs : n <= m
  BY Least
<1>4. PICK s \in SUBSET E : Cardinality(s) = n /\ g[s] # h[s]
  BY <1>3
<1>5. s # {}
  BY <1>2, <1>4 DEF Folded
<1>6. First(s) \in s
  BY <1>5 DEF First
<1>7. Cardinality(s \ {First(s)}) = n - 1 /\ s \ {First(s)} \in SUBSET E
  BY <1>1, <1>4, <1>6, FS_RemoveElement
<1>8. g[s \ {First(s)}] = h[s \ {First(s)}]
  BY <1>1, <1>3, <1>7
<1> QED
  BY <1>2, <1>4, <1>5, <1>8 DEF Folded

\* Any fold over a finite set gives its sum, which is a number.
LEMMA SumIsFold ==
  ASSUME NEW S, IsFiniteSet(S), NEW w, \A x \in S : w[x] \in Nat
  PROVE  /\ Sum(w, S) \in Nat
         /\ \A D, g : IsFiniteSet(D) /\ S \in SUBSET D /\ Folds(g, w, D) => g[S] = Sum(w, S)
<1> DEFINE h == CHOOSE g : Folds(g, w, S)
<1>1. PICK f \in [SUBSET S -> Nat] : Folds(f, w, S)
  BY FoldExists
<1>2. Folds(h, w, S)
  BY <1>1
<1>3. Sum(w, S) = h[S]
  BY DEF Sum
<1> HIDE DEF h
<1>4. \A s \in SUBSET S : f[s] = h[s]
  BY <1>1, <1>2, FoldsAgree
<1>5. Sum(w, S) \in Nat
  BY <1>3, <1>4
<1>6. ASSUME NEW D, NEW g, IsFiniteSet(D), S \in SUBSET D, Folds(g, w, D)
      PROVE  g[S] = Sum(w, S)
  <2>1. \A s \in SUBSET S : g[s] = h[s]
    BY <1>2, <1>6, FoldsAgree
  <2> QED
    BY <1>3, <2>1
<1> QED
  BY <1>5, <1>6

\* The sum over no element is zero, and any element can be taken out of it.
LEMMA SumOut ==
  ASSUME NEW D, IsFiniteSet(D), NEW w, \A x \in D : w[x] \in Nat
  PROVE  /\ Sum(w, {}) = 0
         /\ \A S \in SUBSET D : Sum(w, S) \in Nat
         /\ \A S \in SUBSET D : \A x \in S : Sum(w, S) = Sum(w, S \ {x}) + w[x]
<1> DEFINE Wrong(S) == \E x \in S : Sum(w, S) # Sum(w, S \ {x}) + w[x]
           Sizes == {n \in Nat : \E S \in SUBSET D : Cardinality(S) = n /\ Wrong(S)}
<1>1. PICK g \in [SUBSET D -> Nat] : Folds(g, w, D)
  BY FoldExists
<1>2. \A S \in SUBSET D : IsFiniteSet(S) /\ Cardinality(S) \in Nat /\ \A x \in S : w[x] \in Nat
  BY FS_Subset, FS_CardinalityType
<1>3. \A S \in SUBSET D : Sum(w, S) \in Nat /\ Sum(w, S) = g[S]
  BY <1>1, <1>2, SumIsFold
<1>4. \A S \in SUBSET D : Sum(w, S) = IF S = {} THEN 0 ELSE Sum(w, S \ {First(S)}) + w[First(S)]
  <2>1. \A S \in SUBSET D : g[S] = Folded(g, w, S)
    BY <1>1 DEF Folds
  <2>2. \A S \in SUBSET D : S \ {First(S)} \in SUBSET D
    OBVIOUS
  <2> QED
    BY <1>3, <2>1, <2>2 DEF Folded
<1>5. Sizes = {}
  <2> SUFFICES ASSUME Sizes # {} PROVE FALSE
    OBVIOUS
  <2>1. PICK n \in Sizes : \A m \in Sizes : n <= m
    BY Least
  <2>2. PICK S \in SUBSET D : Cardinality(S) = n /\ Wrong(S)
    BY <2>1
  <2>2a. \A U \in SUBSET D : Wrong(U) => n <= Cardinality(U)
    BY <1>2, <2>1
  <2>2b. n \in Nat
    BY <2>1
  <2> HIDE DEF Sizes
  <2>3. PICK x \in S : Sum(w, S) # Sum(w, S \ {x}) + w[x]
    BY <2>2
  <2> DEFINE y == First(S)
  <2>4. y \in S
    BY <2>3 DEF First
  <2>5. Sum(w, S) = Sum(w, S \ {y}) + w[y]
    BY <1>4, <2>3
  <2>6. x # y
    BY <2>3, <2>5
  <2> HIDE DEF y
  <2>7. /\ S \ {x} \in SUBSET D /\ Cardinality(S \ {x}) = n - 1
        /\ S \ {y} \in SUBSET D /\ Cardinality(S \ {y}) = n - 1
    BY <1>2, <2>2, <2>3, <2>4, FS_RemoveElement
  <2>8. ~Wrong(S \ {x}) /\ ~Wrong(S \ {y})
    BY <2>2a, <2>2b, <2>7
  <2>9. Sum(w, S \ {y}) = Sum(w, (S \ {y}) \ {x}) + w[x]
    BY <2>6, <2>8
  <2>10. Sum(w, S \ {x}) = Sum(w, (S \ {x}) \ {y}) + w[y]
    BY <2>4, <2>6, <2>8
  <2>11. Sum(w, (S \ {y}) \ {x}) = Sum(w, (S \ {x}) \ {y})
    <3>1. (S \ {y}) \ {x} = (S \ {x}) \ {y}
      OBVIOUS
    <3> QED
      BY <3>1
  <2>12. Sum(w, (S \ {x}) \ {y}) \in Nat /\ w[x] \in Nat /\ w[y] \in Nat
    BY <1>2, <1>3, <2>4, <2>7
  <2> HIDE DEF Wrong
  <2> QED
    BY <2>3, <2>5, <2>9, <2>10, <2>11, <2>12
<1>6. Sum(w, {}) = 0
  BY <1>4
<1> QED
  BY <1>2, <1>3, <1>5, <1>6

\* A sum is at most one that has, for each of its elements, one of the same weight.
LEMMA SumInto ==
  ASSUME NEW D, IsFiniteSet(D), NEW w, \A x \in D : w[x] \in Nat,
         NEW E, IsFiniteSet(E), NEW v, \A x \in E : v[x] \in Nat, NEW f,
         NEW S \in SUBSET D, NEW T \in SUBSET E,
         \A x \in S : f[x] \in T /\ w[x] = v[f[x]],
         \A x, y \in S : f[x] = f[y] => x = y
  PROVE  Sum(w, S) <= Sum(v, T)
<1> DEFINE Over(s) == \E t \in SUBSET T : (\A x \in s : f[x] \in t) /\ ~(Sum(w, s) <= Sum(v, t))
           Sizes   == {n \in Nat : \E s \in SUBSET S : Cardinality(s) = n /\ Over(s)}
<1>1. \A s \in SUBSET S : s \in SUBSET D /\ IsFiniteSet(s) /\ Cardinality(s) \in Nat
  BY FS_Subset, FS_CardinalityType
<1>2. /\ Sum(w, {}) = 0
      /\ \A s \in SUBSET S : \A x \in s : Sum(w, s) = Sum(w, s \ {x}) + w[x]
      /\ \A s \in SUBSET S : Sum(w, s) \in Nat
  BY <1>1, SumOut
<1>3. /\ \A t \in SUBSET T : \A x \in t : Sum(v, t) = Sum(v, t \ {x}) + v[x]
      /\ \A t \in SUBSET T : Sum(v, t) \in Nat
  <2>1. \A t \in SUBSET T : t \in SUBSET E
    OBVIOUS
  <2> QED
    BY <2>1, SumOut
<1>4. \A n : n \in Sizes <=> n \in Nat /\ \E s \in SUBSET S : Cardinality(s) = n /\ Over(s)
  OBVIOUS
<1> HIDE DEF Sizes
<1>5. Sizes = {}
  <2> SUFFICES ASSUME Sizes # {} PROVE FALSE
    OBVIOUS
  <2>1. Sizes \in SUBSET Nat
    BY <1>4
  <2>2. PICK n \in Sizes : \A m \in Sizes : n <= m
    BY <2>1, Least
  <2>3. n \in Nat /\ \A s \in SUBSET S : Over(s) => n <= Cardinality(s)
    BY <1>1, <1>4, <2>2
  <2>4. PICK s \in SUBSET S : Cardinality(s) = n /\ Over(s)
    BY <1>4, <2>2
  <2>5. PICK t \in SUBSET T : (\A x \in s : f[x] \in t) /\ ~(Sum(w, s) <= Sum(v, t))
    BY <2>4
  <2>6. s # {}
    BY <1>2, <1>3, <2>5
  <2>7. PICK x \in s : TRUE
    BY <2>6
  <2>8. /\ s \ {x} \in SUBSET S /\ Cardinality(s \ {x}) = n - 1
        /\ t \ {f[x]} \in SUBSET T /\ \A y \in s \ {x} : f[y] \in t \ {f[x]}
    BY <1>1, <2>4, <2>5, <2>7, FS_RemoveElement
  <2>9. ~Over(s \ {x})
    BY <2>3, <2>8
  <2>10. Sum(w, s \ {x}) <= Sum(v, t \ {f[x]})
    BY <2>8, <2>9
  <2>11. /\ Sum(w, s) = Sum(w, s \ {x}) + w[x] /\ Sum(v, t) = Sum(v, t \ {f[x]}) + v[f[x]]
         /\ w[x] = v[f[x]] /\ w[x] \in Nat
         /\ Sum(w, s \ {x}) \in Nat /\ Sum(v, t \ {f[x]}) \in Nat
    BY <1>2, <1>3, <2>5, <2>7, <2>8
  <2> HIDE DEF Over
  <2> QED
    BY <2>5, <2>10, <2>11
<1>6. ~Over(S)
  BY <1>1, <1>4, <1>5
<1> QED
  BY <1>6

\* The sum over a union is at most the sums over its parts.
LEMMA SumUnion ==
  ASSUME NEW D, IsFiniteSet(D), NEW w, \A x \in D : w[x] \in Nat,
         NEW S \in SUBSET D, NEW T \in SUBSET D
  PROVE  Sum(w, S \cup T) <= Sum(w, S) + Sum(w, T)
<1> DEFINE Over(s) == ~(Sum(w, s \cup T) <= Sum(w, s) + Sum(w, T))
           Sizes   == {n \in Nat : \E s \in SUBSET S : Cardinality(s) = n /\ Over(s)}
<1>1. \A s \in SUBSET S : s \in SUBSET D /\ IsFiniteSet(s) /\ Cardinality(s) \in Nat
  BY FS_Subset, FS_CardinalityType
<1>2. /\ Sum(w, {}) = 0
      /\ \A s \in SUBSET D : \A x \in s : Sum(w, s) = Sum(w, s \ {x}) + w[x]
      /\ \A s \in SUBSET D : Sum(w, s) \in Nat
  BY SumOut
<1>3. \A n : n \in Sizes <=> n \in Nat /\ \E s \in SUBSET S : Cardinality(s) = n /\ Over(s)
  OBVIOUS
<1> HIDE DEF Sizes
<1>4. Sizes = {}
  <2> SUFFICES ASSUME Sizes # {} PROVE FALSE
    OBVIOUS
  <2>1. Sizes \in SUBSET Nat
    BY <1>3
  <2>2. PICK n \in Sizes : \A m \in Sizes : n <= m
    BY <2>1, Least
  <2>3. n \in Nat /\ \A s \in SUBSET S : Over(s) => n <= Cardinality(s)
    BY <1>1, <1>3, <2>2
  <2>4. PICK s \in SUBSET S : Cardinality(s) = n /\ Over(s)
    BY <1>3, <2>2
  <2>5. Sum(w, T) \in Nat
    BY <1>2
  <2>6. s # {}
    <3> SUFFICES ASSUME s = {} PROVE FALSE
      OBVIOUS
    <3>1. s \cup T = T
      OBVIOUS
    <3>2. Sum(w, s \cup T) = Sum(w, T) /\ Sum(w, s) = 0
      BY <1>2, <3>1
    <3>3. ~(Sum(w, s \cup T) <= Sum(w, s) + Sum(w, T))
      BY <2>4
    <3> QED
      BY <2>5, <3>2, <3>3
  <2>7. PICK x \in s : TRUE
    BY <2>6
  <2>8. /\ s \ {x} \in SUBSET S /\ Cardinality(s \ {x}) = n - 1
        /\ s \in SUBSET D /\ s \ {x} \in SUBSET D
        /\ s \cup T \in SUBSET D /\ (s \ {x}) \cup T \in SUBSET D
    BY <1>1, <2>4, <2>7, FS_RemoveElement
  <2>9. ~Over(s \ {x})
    BY <2>3, <2>8
  <2>10. Sum(w, (s \ {x}) \cup T) <= Sum(w, s \ {x}) + Sum(w, T)
    BY <2>9
  <2>11. Sum(w, s \cup T) <= Sum(w, (s \ {x}) \cup T) + w[x]
    <3>1. CASE x \in T
      <4>1. s \cup T = (s \ {x}) \cup T
        BY <2>7, <3>1
      <4>2. Sum(w, s \cup T) = Sum(w, (s \ {x}) \cup T)
        BY <4>1
      <4>3. w[x] \in Nat /\ Sum(w, (s \ {x}) \cup T) \in Nat
        BY <1>2, <2>7, <2>8
      <4> QED
        BY <4>2, <4>3
    <3>2. CASE x \notin T
      <4>1. (s \cup T) \ {x} = (s \ {x}) \cup T
        BY <2>7, <3>2
      <4>2. Sum(w, (s \cup T) \ {x}) = Sum(w, (s \ {x}) \cup T)
        BY <4>1
      <4>3. Sum(w, s \cup T) = Sum(w, (s \cup T) \ {x}) + w[x]
        BY <1>2, <2>7, <2>8
      <4>4. w[x] \in Nat /\ Sum(w, (s \ {x}) \cup T) \in Nat
        BY <1>2, <2>7, <2>8
      <4> QED
        BY <4>2, <4>3, <4>4
    <3> QED
      BY <3>1, <3>2
  <2>12. /\ Sum(w, s) = Sum(w, s \ {x}) + w[x] /\ w[x] \in Nat /\ Sum(w, s \ {x}) \in Nat
         /\ Sum(w, (s \ {x}) \cup T) \in Nat /\ Sum(w, s \cup T) \in Nat
    BY <1>2, <2>7, <2>8
  <2>13. ~(Sum(w, s \cup T) <= Sum(w, s) + Sum(w, T))
    BY <2>4
  <2> QED
    BY <2>5, <2>10, <2>11, <2>12, <2>13
<1>5. ~Over(S)
  BY <1>1, <1>3, <1>4
<1> QED
  BY <1>5

-----------------------------------------------------------------------------
\* Lemmas about the operators of the model.

\* What the risk and the notional of an entry are, by its id.
WeightOf == [id \in Ids |-> Weight[SymbolOf(id)]]

\* The bounds are numbers.
LEMMA Bounds ==
  /\ Cap \in Nat /\ MaxPositions \in Nat /\ MaxPositions > 0
  /\ MaxLag \in Nat /\ MaxBars \in Nat /\ MaxFaults \in Nat
BY EntryCycleAssumption DEF EntryCycleAssumption

\* There are finitely many entries and symbols, and their weights are numbers.
LEMMA Constants ==
  /\ IsFiniteSet(Ids) /\ IsFiniteSet(Symbols) /\ IsFiniteSet(Edges)
  /\ \A s \in Symbols : Weight[s] \in Nat
  /\ \A id \in Ids : SymbolOf(id) \in Symbols /\ WeightOf[id] \in Nat
  /\ NoSymbol \notin Symbols /\ NoId \notin Ids /\ Unknown \notin Ids /\ NoId # Unknown
<1>1. IsFiniteSet(Edges) /\ IsFiniteSet(Symbols) /\ IsFiniteSet(1 .. MaxBars)
  BY EntryCycleAssumption, FS_Interval DEF EntryCycleAssumption
<1>2. IsFiniteSet(Edges \X Symbols) /\ IsFiniteSet((Edges \X Symbols) \X (1 .. MaxBars))
  BY <1>1, FS_Product
<1> DEFINE f == [p \in (Edges \X Symbols) \X (1 .. MaxBars) |-> <<p[1][1], p[1][2], p[2]>>]
<1>3. f \in [(Edges \X Symbols) \X (1 .. MaxBars) -> Ids]
  BY DEF Ids
<1>4. \A id \in Ids : \E p \in (Edges \X Symbols) \X (1 .. MaxBars) : f[p] = id
  <2> TAKE id \in Ids
  <2>1. id = <<id[1], id[2], id[3]>> /\ id[1] \in Edges /\ id[2] \in Symbols /\ id[3] \in 1 .. MaxBars
    BY DEF Ids
  <2>2. <<<<id[1], id[2]>>, id[3]>> \in (Edges \X Symbols) \X (1 .. MaxBars)
    BY <2>1
  <2>3. f[<<<<id[1], id[2]>>, id[3]>>] = <<id[1], id[2], id[3]>>
    BY <2>2
  <2> QED
    BY <2>1, <2>2, <2>3
<1>5. f \in Surjection((Edges \X Symbols) \X (1 .. MaxBars), Ids)
  <2> HIDE DEF f
  <2> QED
    BY <1>3, <1>4 DEF Surjection
<1>6. IsFiniteSet(Ids)
  <2> HIDE DEF f
  <2> QED
    BY <1>2, <1>5, FS_Surjection
<1>7. \A id \in Ids : SymbolOf(id) \in Symbols
  BY DEF Ids, SymbolOf
<1> QED
  BY <1>1, <1>6, <1>7, EntryCycleAssumption
  DEF EntryCycleAssumption, WeightOf, NoId, Unknown, Ids

\* The totals of the model are sums of weights.
LEMMA Totals ==
  /\ \A S \in SUBSET Ids : Total(S) = Sum(WeightOf, S) /\ Total(S) \in Nat
  /\ \A S \in SUBSET Symbols : TotalOf(S) = Sum(Weight, S) /\ TotalOf(S) \in Nat
<1> USE Constants
<1>1. ASSUME NEW S \in SUBSET Ids PROVE Total(S) = Sum(WeightOf, S) /\ Total(S) \in Nat
  <2> DEFINE Same(g) == g = [s \in SUBSET S |->
                IF s = {} THEN 0
                ELSE g[s \ {CHOOSE x \in s : TRUE}] + Weight[SymbolOf(CHOOSE x \in s : TRUE)]]
             h == CHOOSE g : Same(g)
  <2>1. Total(S) = h[S]
    BY DEF Total, FoldSet, MapThenFoldSet, SymbolOf
  <2>2. IsFiniteSet(S) /\ \A x \in S : WeightOf[x] \in Nat
    BY FS_Subset
  <2>3. \A s \in SUBSET S : s # {} =>
          /\ First(s) \in s
          /\ WeightOf[First(s)] = Weight[SymbolOf(First(s))]
    BY DEF First, WeightOf
  <2>4. \A g : Same(g) <=> Folds(g, WeightOf, S)
    <3> TAKE g
    <3>1. \A s \in SUBSET S :
            Folded(g, WeightOf, s) =
            (IF s = {} THEN 0
             ELSE g[s \ {CHOOSE x \in s : TRUE}] + Weight[SymbolOf(CHOOSE x \in s : TRUE)])
      BY <2>3 DEF Folded, First
    <3> QED
      BY <3>1 DEF Folds
  <2>5. \E g : Folds(g, WeightOf, S)
    BY <2>2, FoldExists
  <2> HIDE DEF Same
  <2>6. Same(h)
    BY <2>4, <2>5
  <2> HIDE DEF h
  <2>7. Folds(h, WeightOf, S)
    BY <2>4, <2>6
  <2> QED
    BY <2>1, <2>2, <2>7, SumIsFold
<1>2. ASSUME NEW S \in SUBSET Symbols PROVE TotalOf(S) = Sum(Weight, S) /\ TotalOf(S) \in Nat
  <2> DEFINE Same(g) == g = [s \in SUBSET S |->
                IF s = {} THEN 0
                ELSE g[s \ {CHOOSE x \in s : TRUE}] + Weight[CHOOSE x \in s : TRUE]]
             h == CHOOSE g : Same(g)
  <2>1. TotalOf(S) = h[S]
    BY DEF TotalOf, FoldSet, MapThenFoldSet
  <2>2. IsFiniteSet(S) /\ \A x \in S : Weight[x] \in Nat
    BY FS_Subset
  <2>3. \A g : Same(g) <=> Folds(g, Weight, S)
    BY DEF Folds, Folded, First
  <2>4. \E g : Folds(g, Weight, S)
    BY <2>2, FoldExists
  <2> HIDE DEF Same
  <2>5. Same(h)
    BY <2>3, <2>4
  <2> HIDE DEF h
  <2>6. Folds(h, Weight, S)
    BY <2>3, <2>5
  <2> QED
    BY <2>1, <2>2, <2>6, SumIsFold
<1> QED
  BY <1>1, <1>2

\* How the order loop reads a row r, and leaves it as n.
ReadAs(id, r, n) ==
  /\ n \in Row
  /\ r.st = "none" => n = NoRow
  /\ r.st # "none" => n.st # "none"
  /\ Terminal(r.st) => n.st = r.st
  /\ n.st = "open" => r.st = "open" /\ n.misses <= 2
  /\ r.st = "open" /\ Visible(id) =>
       /\ n.misses = 0
       /\ n.st = IF ord[id] \in Taken THEN "filled" ELSE IF ord[id] = "dead" THEN "dead" ELSE "open"
  /\ r.st = "open" /\ ~Visible(id) =>
       /\ n.misses = r.misses + 1
       /\ n.st = IF r.misses + 1 >= 3 THEN "not_found" ELSE "open"
  /\ r.st # "none" /\ r.logged => n.logged
  /\ r.st # "none" /\ Visible(id) /\ ord[id] \in Taken => n.logged
  /\ n.logged => r.logged \/ (Visible(id) /\ ord[id] \in Taken)

\* What the order loop makes of a row (RowsAfter, Refreshed, Missed).
LEMMA RowRead ==
  ASSUME NEW found, NEW id \in Ids, rows[id] \in Row,
         rows[id].st = "open" => rows[id].misses <= 2
  PROVE  ReadAs(id, rows[id], RowsAfter(found)[id])
<1> DEFINE legs == IF id \in found THEN "known" ELSE "pending"
<1>1. RowsAfter(found)[id] = IF rows[id].st = "none" THEN NoRow
                             ELSE IF Visible(id) THEN Refreshed(id, legs)
                             ELSE Missed(rows[id])
  BY DEF RowsAfter
<1>2. NoRow \in Row
  BY DEF NoRow, Row, RowStatus
<1>3. CASE rows[id].st = "none"
  BY <1>1, <1>2, <1>3 DEF NoRow, Row, Terminal, ReadAs
<1>4. CASE rows[id].st # "none" /\ Visible(id)
  <2> DEFINE m     == Refreshed(id, legs)
             known == rows[id].logged \/ ord[id] \in Taken
  <2>1. RowsAfter(found)[id] = m
    BY <1>1, <1>4
  <2>2. legs \in {"known", "pending"} /\ known \in BOOLEAN
    OBVIOUS
  <2> DEFINE status == IF Terminal(rows[id].st) THEN rows[id].st
                       ELSE IF ord[id] \in Taken THEN "filled"
                       ELSE IF ord[id] = "dead" THEN "dead" ELSE rows[id].st
             bound  == IF rows[id].legs # "lost" /\ (rows[id].unresolved \/ rows[id].legs = "pending")
                       THEN legs ELSE rows[id].legs
  <2>3. status \in RowStatus /\ bound \in {"none", "pending", "known", "lost"}
    BY <2>2 DEF Row, RowStatus
  <2>4. m = [st |-> status, unresolved |-> FALSE, misses |-> 0, legs |-> bound,
             logged |-> known]
    BY DEF Refreshed, Taken
  <2> HIDE DEF m, known, status, bound
  <2>5. m \in Row /\ m.st = status /\ m.misses = 0 /\ m.logged = known
    BY <2>2, <2>3, <2>4 DEF Row
  <2>6. m.logged <=> rows[id].logged \/ ord[id] \in Taken
    BY <2>5 DEF known
  <2> HIDE DEF Visible
  <2>7. /\ m.st # "none"
        /\ Terminal(rows[id].st) => m.st = rows[id].st
        /\ m.st = "open" => rows[id].st = "open" /\ m.misses <= 2
        /\ rows[id].st = "open" =>
             m.st = IF ord[id] \in Taken THEN "filled"
                    ELSE IF ord[id] = "dead" THEN "dead" ELSE "open"
    BY <1>4, <2>5 DEF status, Row, RowStatus, Terminal
  <2>8. PICK r : r = RowsAfter(found)[id]
    OBVIOUS
  <2>9. /\ r \in Row /\ r.misses = 0 /\ r.st # "none"
        /\ Terminal(rows[id].st) => r.st = rows[id].st
        /\ r.st = "open" => rows[id].st = "open" /\ r.misses <= 2
        /\ rows[id].st = "open" =>
             r.st = IF ord[id] \in Taken THEN "filled"
                    ELSE IF ord[id] = "dead" THEN "dead" ELSE "open"
    BY <2>1, <2>5, <2>7, <2>8
  <2>10. r.logged <=> rows[id].logged \/ ord[id] \in Taken
    BY <2>1, <2>6, <2>8
  <2>11. /\ rows[id].st # "none" /\ rows[id].logged => r.logged
         /\ r.logged => rows[id].logged \/ (Visible(id) /\ ord[id] \in Taken)
         /\ rows[id].st # "none" /\ Visible(id) /\ ord[id] \in Taken => r.logged
    BY <1>4, <2>10
  <2>12. ReadAs(id, rows[id], r)
    BY <1>4, <2>9, <2>11 DEF ReadAs
  <2> QED
    BY <2>8, <2>12
<1>5. CASE rows[id].st # "none" /\ ~Visible(id)
  <2>1. RowsAfter(found)[id] = Missed(rows[id])
    BY <1>1, <1>5
  <2>2. CASE Terminal(rows[id].st)
    <3>1. RowsAfter(found)[id] = rows[id]
      BY <2>1, <2>2 DEF Missed
    <3> QED
      BY <1>5, <2>2, <3>1 DEF Terminal, ReadAs
  <2>3. CASE ~Terminal(rows[id].st)
    <3>1. rows[id].st = "open" /\ rows[id].misses \in 0 .. 2
      BY <1>5, <2>3 DEF Terminal, Row, RowStatus
    <3>2. PICK r : /\ r = RowsAfter(found)[id]
                   /\ r = [rows[id] EXCEPT !.misses = @ + 1,
                             !.st = IF rows[id].misses + 1 >= 3 THEN "not_found" ELSE @]
      BY <2>1, <2>3 DEF Missed
    <3>3. /\ r.misses = rows[id].misses + 1
          /\ r.st = IF rows[id].misses + 1 >= 3 THEN "not_found" ELSE "open"
      BY <3>1, <3>2 DEF Row
    <3>4. r \in Row
      <4>1. rows[id].misses + 1 \in 0 .. 3 /\ rows[id].st \in RowStatus
        BY <3>1 DEF RowStatus
      <4>2. (IF rows[id].misses + 1 >= 3 THEN "not_found" ELSE rows[id].st) \in RowStatus
        BY <4>1 DEF RowStatus
      <4> QED
        BY <3>2, <4>1, <4>2 DEF Row
    <3>5. r.logged <=> rows[id].logged
      BY <3>2 DEF Row
    <3>6. ReadAs(id, rows[id], r)
      BY <1>5, <2>3, <3>1, <3>3, <3>4, <3>5 DEF ReadAs
    <3> QED
      BY <3>2, <3>6
  <2> QED
    BY <2>2, <2>3
<1> QED
  BY <1>3, <1>4, <1>5

\* What a trade is after a reconciliation (TradeAfter).
LEMMA TradeRead ==
  ASSUME BookType, NEW new, NEW s \in Symbols
  PROVE  LET h == TradeAfter(new, s)
         IN  /\ h \in Ids \cup {NoId, Unknown}
             /\ \/ FreshFill(s) = {} /\ h = trade[s]
                \/ h \in FreshFill(s)
                \/ s \in seen /\ trade[s] = NoId /\ h \in Explains(new, s)
                \/ s \in seen /\ trade[s] = NoId /\ Explains(new, s) = {} /\ h = Unknown
                \/ h = NoId /\ s \in closing
                \/ /\ h = NoId
                   /\ \E id \in Ids : ord[id] = "exited" /\ (id = trade[s] \/ id \in FreshFill(s))
             /\ FreshFill(s) # {} /\ s \in seen => h \in FreshFill(s)
             /\ FreshFill(s) # {} => h = NoId \/ h \in FreshFill(s)
             /\ s \in seen => h # NoId
<1> DEFINE held == IF FreshFill(s) # {} THEN CHOOSE id \in FreshFill(s) : TRUE ELSE trade[s]
<1>1. /\ FreshFill(s) \subseteq Ids /\ Explains(new, s) \subseteq Ids
      /\ trade[s] \in Ids \cup {NoId, Unknown}
      /\ NoId \notin Ids /\ NoId # Unknown
  BY Constants DEF FreshFill, Explains, BookType
<1>2. /\ FreshFill(s) # {} => held \in FreshFill(s)
      /\ FreshFill(s) = {} => held = trade[s]
  OBVIOUS
<1>3. Explains(new, s) # {} => (CHOOSE id \in Explains(new, s) : TRUE) \in Explains(new, s)
  OBVIOUS
<1>4. TradeAfter(new, s) =
        IF s \notin seen
        THEN IF held # NoId /\ EndKnown(new, s, held) THEN NoId ELSE held
        ELSE IF held # NoId THEN held
        ELSE IF Explains(new, s) = {} THEN Unknown
        ELSE CHOOSE id \in Explains(new, s) : TRUE
  BY DEF TradeAfter
<1> HIDE DEF held
<1>5. CASE s \in seen
  BY <1>1, <1>2, <1>3, <1>4, <1>5
<1>6. CASE s \notin seen /\ ~(held # NoId /\ EndKnown(new, s, held))
  BY <1>1, <1>2, <1>4, <1>6
<1>7. CASE s \notin seen /\ held # NoId /\ EndKnown(new, s, held)
  BY <1>1, <1>2, <1>4, <1>7 DEF EndKnown
<1> QED
  BY <1>5, <1>6, <1>7

\* What a reconciliation writes (ReconcileWith).
LEMMA Reconciling ==
  ASSUME BookType, RowsType, RowInv, NEW found, ReconcileWith(found)
  PROVE  /\ rows' \in [Ids -> Row] /\ trade' \in [Symbols -> Ids \cup {NoId, Unknown}]
         /\ closing' \subseteq closing /\ \A s \in closing' : trade'[s] = trade[s]
         /\ \A s \in Symbols : trade'[s] = TradeAfter(RowsAfter(found), s)
         /\ \A id \in Ids : /\ rows'[id].st = RowsAfter(found)[id].st
                            /\ rows'[id].misses = RowsAfter(found)[id].misses
                            /\ rows'[id].logged <=> \/ RowsAfter(found)[id].logged
                                                    \/ trade'[SymbolOf(id)] = id
<1> DEFINE new == RowsAfter(found)
<1>1. \A s \in Symbols : TradeAfter(new, s) \in Ids \cup {NoId, Unknown}
  BY TradeRead
<1>2. /\ trade' = [s \in Symbols |-> TradeAfter(new, s)]
      /\ rows' = Activated(new, trade')
      /\ closing' = {s \in closing : trade'[s] = trade[s]}
  BY DEF ReconcileWith
<1>3. \A id \in Ids : new[id] \in Row
  BY RowRead DEF RowsType, RowInv, ReadAs
<1> HIDE DEF new
<1>4. \A id \in Ids :
        rows'[id] = IF trade'[SymbolOf(id)] # id \/ new[id].logged THEN new[id]
                    ELSE [new[id] EXCEPT !.logged = TRUE,
                            !.legs = IF new[id].unresolved THEN "lost" ELSE @]
  BY <1>2 DEF Activated
<1>5. ASSUME NEW id \in Ids
      PROVE  /\ rows'[id] \in Row /\ rows'[id].st = new[id].st
             /\ rows'[id].misses = new[id].misses
             /\ rows'[id].logged <=> new[id].logged \/ trade'[SymbolOf(id)] = id
  <2>1. CASE trade'[SymbolOf(id)] # id \/ new[id].logged
    BY <1>3, <1>4, <2>1
  <2>2. CASE trade'[SymbolOf(id)] = id /\ ~new[id].logged
    <3>1. rows'[id] = [new[id] EXCEPT !.logged = TRUE,
                         !.legs = IF new[id].unresolved THEN "lost" ELSE @]
      BY <1>4, <2>2
    <3> QED
      BY <1>3, <2>2, <3>1 DEF Row
  <2> QED
    BY <2>1, <2>2
<1>6. rows' \in [Ids -> Row]
  BY <1>2, <1>5 DEF Activated
<1> QED
  BY <1>1, <1>2, <1>5, <1>6 DEF new

\* What a part of the invariant does not mention may change without it.
LEMMA Frames ==
  /\ BrokerType /\ UNCHANGED <<ord, hidden, unshown, bar>> => BrokerType'
  /\ RowsType /\ UNCHANGED rows => RowsType'
  /\ BookType /\ UNCHANGED <<sessions, trade, closing, paused>> => BookType'
  /\ ProcessType /\ UNCHANGED <<reconciled, cleaned, pc, faults>> => ProcessType'
  /\ LoopType /\ UNCHANGED <<seen, base, todo, cur, placed, halted>> => LoopType'
  /\ OnceInv /\ UNCHANGED <<ord, sessions, pc, cur>> => OnceInv'
  /\ RowInv /\ UNCHANGED <<rows, ord>> => RowInv'
  /\ CurInv /\ UNCHANGED <<pc, bar, cur, ord, rows, placed>> => CurInv'
BY DEF BrokerType, RowsType, BookType, ProcessType, LoopType, OnceInv, RowInv, CurInv

-----------------------------------------------------------------------------
\* The invariant is inductive.

\* No order is sent before the first cycle.
LEMMA Initially == Init => IInv
<1> SUFFICES ASSUME Init PROVE IInv
  OBVIOUS
<1>1. BrokerType /\ BookType /\ ProcessType
  <2>1. BrokerType
    BY Bounds DEF Init, BrokerType, Orders
  <2>2. BookType
    BY DEF Init, BookType
  <2>3. ProcessType
    <3>1. faults \in 0 .. MaxFaults
      BY Bounds DEF Init
    <3> QED
      BY <3>1 DEF Init, ProcessType
  <2> QED
    BY <2>1, <2>2, <2>3
<1>2. RowsType
  BY DEF Init, RowsType, NoRow, Row, RowStatus
<1>3. LoopType
  BY DEF Init, LoopType, NoBase
<1>4. OnceInv /\ RowInv /\ CurInv
  BY DEF Init, OnceInv, RowInv, CurInv, NoRow, Loop
<1> QED
  BY <1>1, <1>2, <1>3, <1>4 DEF IInv

\* Every step keeps it.
LEMMA Inductive == IInv /\ [Next]_vars => IInv'
<1> SUFFICES ASSUME BrokerType, RowsType, BookType, ProcessType, LoopType, OnceInv, RowInv, CurInv,
                    [Next]_vars
             PROVE  IInv'
  BY DEF IInv
<1> USE DEF broker, durable, loop
<1>1. ASSUME Next PROVE IInv'
  <2>1. CASE Start
    <3>1. BrokerType' /\ RowsType' /\ BookType' /\ LoopType' /\ RowInv'
      BY <2>1, Frames DEF Start
    <3>2. ProcessType'
      BY <2>1 DEF Start, ProcessType
    <3>3. OnceInv'
      BY <2>1 DEF Start, OnceInv
    <3>4. CurInv'
      BY <2>1 DEF Start, CurInv, Loop
    <3> QED
      BY <3>1, <3>2, <3>3, <3>4 DEF IInv
  <2>2. CASE CycleBegins
    <3>1. \A id \in Ids : (IF hidden[id] > 0 THEN hidden[id] - 1 ELSE 0) \in 0 .. MaxLag
      BY Bounds DEF BrokerType
    <3>2. RowsType' /\ BookType' /\ LoopType' /\ RowInv'
      BY <2>2, Frames DEF CycleBegins, AfterReady
    <3>3. BrokerType'
      BY <2>2, <3>1 DEF CycleBegins, BrokerType
    <3>4. ProcessType'
      BY <2>2, <3>1 DEF CycleBegins, AfterReady, ProcessType
    <3>5. OnceInv'
      BY <2>2, <3>1 DEF CycleBegins, AfterReady, OnceInv
    <3>6. CurInv'
      BY <2>2, <3>1 DEF CycleBegins, AfterReady, CurInv, Loop
    <3> QED
      BY <3>2, <3>3, <3>4, <3>5, <3>6 DEF IInv
  <2>3. CASE ReadPositions
    <3>1. unshown' \subseteq unshown /\ seen' \subseteq Symbols
      BY <2>3, Constants DEF ReadPositions, ShownBut, BrokerType
    <3>2. RowsType' /\ BookType' /\ RowInv'
      BY <2>3, Frames DEF ReadPositions
    <3>3. BrokerType'
      BY <2>3, <3>1 DEF ReadPositions, BrokerType
    <3>4. ProcessType'
      BY <2>3, <3>1 DEF ReadPositions, ProcessType
    <3>5. LoopType'
      BY <2>3, <3>1 DEF ReadPositions, LoopType
    <3>6. OnceInv'
      BY <2>3, <3>1 DEF ReadPositions, OnceInv
    <3>7. CurInv'
      BY <2>3, <3>1 DEF ReadPositions, CurInv, Loop
    <3> QED
      BY <3>2, <3>3, <3>4, <3>5, <3>6, <3>7 DEF IInv
  <2>4. ASSUME NEW found \in SUBSET Lookups, ReconcileWith(found) PROVE IInv'
    <3>1. /\ rows' \in [Ids -> Row] /\ trade' \in [Symbols -> Ids \cup {NoId, Unknown}]
          /\ closing' \subseteq closing
          /\ \A id \in Ids : rows'[id].st = RowsAfter(found)[id].st /\ rows'[id].misses = RowsAfter(found)[id].misses
      BY <2>4, Reconciling
    <3>2. \A id \in Ids : ReadAs(id, rows[id], RowsAfter(found)[id])
      BY RowRead DEF RowsType, RowInv
    <3>3. \A id \in Ids : /\ (rows[id].st = "none") <=> (rows'[id].st = "none")
                          /\ rows'[id].st = "open" => rows'[id].misses <= 2
      BY <3>1, <3>2 DEF ReadAs, NoRow
    <3>4. BrokerType'
      BY <2>4, Frames DEF ReconcileWith, AfterReady
    <3>5. RowsType'
      BY <3>1 DEF RowsType
    <3>6. BookType'
      BY <2>4, <3>1 DEF ReconcileWith, BookType
    <3>7. ProcessType'
      BY <2>4 DEF ReconcileWith, AfterReady, ProcessType
    <3>8. LoopType'
      BY <2>4 DEF ReconcileWith, LoopType
    <3>9. OnceInv'
      BY <2>4, <3>1, <3>2, <3>3 DEF ReconcileWith, AfterReady, OnceInv
    <3>10. RowInv'
      BY <2>4, <3>3 DEF ReconcileWith, RowInv
    <3>11. CurInv'
      BY <2>4, <3>3 DEF ReconcileWith, AfterReady, CurInv, Loop
    <3> QED
      BY <3>4, <3>5, <3>6, <3>7, <3>8, <3>9, <3>10, <3>11 DEF IInv
  <2>5. CASE ForceFlat
    <3>1. BrokerType' /\ RowsType' /\ BookType' /\ LoopType' /\ RowInv'
      BY <2>5, Frames DEF ForceFlat
    <3>2. ProcessType'
      BY <2>5 DEF ForceFlat, ProcessType
    <3>3. OnceInv'
      BY <2>5 DEF ForceFlat, OnceInv
    <3>4. CurInv'
      BY <2>5 DEF ForceFlat, CurInv, Loop
    <3> QED
      BY <3>1, <3>2, <3>3, <3>4 DEF IInv
  <2>6. CASE UnprotectedBlocks
    <3>1. /\ ord' \in [Ids -> Orders]
          /\ \A i \in Ids : (ord'[i] = "none") <=> (ord[i] = "none")
      BY <2>6 DEF UnprotectedBlocks, BrokerType, Orders
    <3>2. Unprotected \subseteq Symbols
      BY DEF Unprotected
    <3>3. RowsType' /\ LoopType'
      BY <2>6, Frames DEF UnprotectedBlocks
    <3>4. BrokerType'
      BY <2>6, <3>1, <3>2 DEF UnprotectedBlocks, BrokerType
    <3>5. BookType'
      BY <2>6, <3>1, <3>2 DEF UnprotectedBlocks, BookType
    <3>6. ProcessType'
      BY <2>6, <3>1, <3>2 DEF UnprotectedBlocks, ProcessType
    <3>7. OnceInv'
      BY <2>6, <3>1, <3>2 DEF UnprotectedBlocks, OnceInv
    <3>8. RowInv'
      BY <2>6, <3>1, <3>2 DEF UnprotectedBlocks, RowInv
    <3>9. CurInv'
      BY <2>6, <3>1, <3>2 DEF UnprotectedBlocks, CurInv, Loop
    <3> QED
      BY <3>3, <3>4, <3>5, <3>6, <3>7, <3>8, <3>9 DEF IInv
  <2>7. CASE BeginEntries
    <3>1. /\ Pending \subseteq Ids /\ Held \subseteq Symbols /\ Shown \subseteq Symbols
          /\ {SymbolOf(id) : id \in Pending} \subseteq Symbols
      BY Constants DEF Pending, Held, Shown, ShownBut
    <3>2. /\ Cardinality(Shown) + Cardinality({SymbolOf(id) : id \in Pending} \ Held) \in Nat
          /\ TotalOf(Held) + Total(Pending) \in Nat /\ TotalOf(Shown) + Total(Pending) \in Nat
      <4>1. \A S \in SUBSET Symbols : Cardinality(S) \in Nat
        BY Constants, FS_Subset, FS_CardinalityType
      <4>2. {SymbolOf(id) : id \in Pending} \ Held \in SUBSET Symbols
        BY <3>1
      <4> QED
        BY <3>1, <4>1, <4>2, Totals
    <3>3. \A n : Admitted(n) \subseteq Edges
      BY DEF Admitted
    <3>4. /\ pc' = "entries" /\ bar <= MaxBars /\ todo' \subseteq Edges \X Symbols
          /\ UNCHANGED <<ord, bar, sessions, rows, seen, cur, placed, halted>>
      BY <2>7, <3>3 DEF BeginEntries
    <3>5. base' \in [positions : SUBSET Symbols, blocked : SUBSET Symbols, slots : Nat, risk : Nat,
                    gross : Nat]
      BY <2>7, <3>1, <3>2 DEF BeginEntries
    <3>6. BrokerType' /\ RowsType' /\ BookType' /\ RowInv'
      BY <2>7, Frames DEF BeginEntries
    <3>7. ProcessType'
      BY <2>7, <3>1, <3>2, <3>3, <3>4, <3>5 DEF BeginEntries, ProcessType
    <3>8. LoopType'
      BY <3>4, <3>5 DEF LoopType
    <3>9. OnceInv'
      BY <3>1, <3>2, <3>3, <3>4, <3>5 DEF OnceInv
    <3>10. CurInv'
      BY <3>1, <3>2, <3>3, <3>4, <3>5 DEF CurInv, Loop
    <3> QED
      BY <3>6, <3>7, <3>8, <3>9, <3>10 DEF IInv
  <2>8. CASE Refuse
    <3>1. BrokerType' /\ RowsType' /\ BookType' /\ RowInv'
      BY <2>8, Frames DEF Refuse
    <3>2. ProcessType'
      BY <2>8 DEF Refuse, ProcessType
    <3>3. LoopType'
      BY <2>8 DEF Refuse, LoopType
    <3>4. OnceInv'
      BY <2>8 DEF Refuse, OnceInv
    <3>5. CurInv'
      BY <2>8 DEF Refuse, CurInv, Loop
    <3> QED
      BY <3>1, <3>2, <3>3, <3>4, <3>5 DEF IInv
  <2>9. CASE SubmitAccepted
    <3>1. /\ cur \in Ids /\ ord[cur] = "none" /\ pc = "vet" /\ ord' \in [Ids -> Orders]
          /\ ord'[cur] # "none" /\ \A i \in Ids \ {cur} : ord'[i] = ord[i]
          /\ UNCHANGED <<sessions, rows, bar>>
      BY <2>9 DEF SubmitAccepted, OnceInv, BrokerType, Orders
    <3>2. hidden' \in [Ids -> 0 .. MaxLag]
      BY <2>9 DEF SubmitAccepted, BrokerType
    <3>3. RowsType' /\ BookType'
      BY <2>9, Frames DEF SubmitAccepted
    <3>4. BrokerType'
      BY <2>9, <3>1, <3>2 DEF SubmitAccepted, BrokerType
    <3>5. ProcessType'
      BY <2>9, <3>1, <3>2 DEF SubmitAccepted, ProcessType
    <3>6. LoopType'
      BY <2>9, <3>1, <3>2 DEF SubmitAccepted, LoopType
    <3>7. OnceInv'
      BY <2>9, <3>1 DEF SubmitAccepted, OnceInv
    <3>8. RowInv'
      BY <3>1, <3>2 DEF RowInv
    <3>9. CurInv'
      BY <2>9, <3>1 DEF SubmitAccepted, CurInv, RowInv, Loop
    <3> QED
      BY <3>3, <3>4, <3>5, <3>6, <3>7, <3>8, <3>9 DEF IInv
  <2>10. CASE SubmitRejected
    <3>1. /\ cur \in Ids /\ ord[cur] = "none" /\ pc = "vet" /\ ord' \in [Ids -> Orders]
          /\ ord'[cur] # "none" /\ \A i \in Ids \ {cur} : ord'[i] = ord[i]
          /\ UNCHANGED <<sessions, rows, bar>>
      BY <2>10 DEF SubmitRejected, OnceInv, BrokerType, Orders
    <3>2. RowsType' /\ BookType'
      BY <2>10, Frames DEF SubmitRejected
    <3>3. BrokerType'
      BY <2>10, <3>1 DEF SubmitRejected, BrokerType
    <3>4. ProcessType'
      BY <2>10, <3>1 DEF SubmitRejected, ProcessType
    <3>5. LoopType'
      BY <2>10, <3>1 DEF SubmitRejected, LoopType
    <3>6. OnceInv'
      BY <2>10, <3>1 DEF SubmitRejected, OnceInv
    <3>7. RowInv'
      BY <3>1 DEF RowInv
    <3>8. CurInv'
      BY <2>10, <3>1 DEF SubmitRejected, CurInv, RowInv, Loop
    <3> QED
      BY <3>2, <3>3, <3>4, <3>5, <3>6, <3>7, <3>8 DEF IInv
  <2>11. CASE RecordOpenOrder
    <3>1. /\ cur \in Ids /\ ord[cur] # "none" /\ pc = "record" /\ pc' = "entries" /\ SymbolOf(cur) \in Symbols
          /\ UNCHANGED <<ord, sessions, bar, placed>>
      BY <2>11, Constants DEF RecordOpenOrder, CurInv
    <3>2. PICK r \in Row : rows' = [rows EXCEPT ![cur] = r] /\ r.misses = 0
      <4> DEFINE known  == cur \in placed
                 filled == known /\ ord[cur] = "filled"
                 row    == [st |-> IF filled THEN "filled" ELSE "open", unresolved |-> ~known,
                            misses |-> 0, legs |-> IF known THEN "known" ELSE "none",
                            logged |-> filled]
      <4>1. known \in BOOLEAN /\ filled \in BOOLEAN /\ (~known) \in BOOLEAN
        OBVIOUS
      <4>2. rows' = [rows EXCEPT ![cur] = row]
        BY <2>11 DEF RecordOpenOrder
      <4>3. row \in Row /\ row.misses = 0
        <5> HIDE DEF known, filled
        <5> QED
          BY <4>1 DEF Row, RowStatus
      <4> HIDE DEF row
      <4> QED
        BY <4>2, <4>3
    <3>3. BrokerType'
      BY <2>11, Frames DEF RecordOpenOrder
    <3>4. RowsType'
      BY <3>1, <3>2 DEF RowsType
    <3>5. BookType'
      BY <2>11, <3>1, <3>2 DEF RecordOpenOrder, BookType
    <3>6. ProcessType'
      BY <2>11, <3>1, <3>2 DEF RecordOpenOrder, ProcessType
    <3>7. LoopType'
      BY <2>11, <3>1, <3>2 DEF RecordOpenOrder, LoopType
    <3>8. OnceInv'
      BY <3>1, <3>2 DEF OnceInv
    <3>9. RowInv'
      BY <3>1, <3>2 DEF RowInv, RowsType
    <3>10. CurInv'
      BY <3>1, <3>2 DEF CurInv, Loop
    <3> QED
      BY <3>3, <3>4, <3>5, <3>6, <3>7, <3>8, <3>9, <3>10 DEF IInv
  <2>12. CASE EndEntries
    <3>1. BrokerType' /\ RowsType' /\ BookType' /\ RowInv'
      BY <2>12, Frames DEF EndEntries, ClearLoop
    <3>2. ProcessType'
      BY <2>12 DEF EndEntries, ClearLoop, ProcessType
    <3>3. LoopType'
      BY <2>12 DEF EndEntries, ClearLoop, LoopType, NoBase
    <3>4. OnceInv'
      BY <2>12 DEF EndEntries, ClearLoop, OnceInv
    <3>5. CurInv'
      BY <2>12 DEF EndEntries, ClearLoop, CurInv, Loop
    <3> QED
      BY <3>1, <3>2, <3>3, <3>4, <3>5 DEF IInv
  <2>13. CASE FlattenEnds
    <3>1. BrokerType' /\ RowsType' /\ BookType' /\ LoopType' /\ RowInv'
      BY <2>13, Frames DEF FlattenEnds
    <3>2. ProcessType'
      BY <2>13 DEF FlattenEnds, ProcessType
    <3>3. OnceInv'
      BY <2>13 DEF FlattenEnds, OnceInv
    <3>4. CurInv'
      BY <2>13 DEF FlattenEnds, CurInv, Loop
    <3> QED
      BY <3>1, <3>2, <3>3, <3>4 DEF IInv
  <2>14. ASSUME NEW id \in Ids, FlattenStep(id) PROVE IInv'
    <3>1. /\ ord' \in [Ids -> Orders]
          /\ \A i \in Ids : (ord'[i] = "none") <=> (ord[i] = "none")
      BY <2>14 DEF FlattenStep, BrokerType, Orders
    <3>2. SymbolOf(id) \in Symbols
      BY Constants
    <3>3. RowsType' /\ ProcessType' /\ LoopType'
      BY <2>14, Frames DEF FlattenStep
    <3>4. BrokerType'
      BY <2>14, <3>1, <3>2 DEF FlattenStep, BrokerType
    <3>5. BookType'
      BY <2>14, <3>1, <3>2 DEF FlattenStep, BookType
    <3>6. OnceInv'
      BY <2>14, <3>1, <3>2 DEF FlattenStep, OnceInv
    <3>7. RowInv'
      BY <2>14, <3>1, <3>2 DEF FlattenStep, RowInv
    <3>8. CurInv'
      BY <2>14, <3>1, <3>2 DEF FlattenStep, CurInv
    <3> QED
      BY <3>3, <3>4, <3>5, <3>6, <3>7, <3>8 DEF IInv
  <2>15. CASE Crash
    <3>1. faults' \in 0 .. MaxFaults
      BY <2>15, Bounds DEF Crash, ProcessType
    <3>2. BrokerType' /\ RowsType' /\ BookType' /\ RowInv'
      BY <2>15, Frames DEF Crash, ClearLoop
    <3>3. ProcessType'
      BY <2>15, <3>1 DEF Crash, ClearLoop, ProcessType
    <3>4. LoopType'
      BY <2>15, <3>1 DEF Crash, ClearLoop, LoopType, NoBase
    <3>5. OnceInv'
      BY <2>15, <3>1 DEF Crash, ClearLoop, OnceInv
    <3>6. CurInv'
      BY <2>15, <3>1 DEF Crash, ClearLoop, CurInv, Loop
    <3> QED
      BY <3>2, <3>3, <3>4, <3>5, <3>6 DEF IInv
  <2>16. CASE ReconcileFails
    <3>1. faults' \in 0 .. MaxFaults
      BY <2>16, Bounds DEF ReconcileFails, ProcessType
    <3>2. BrokerType' /\ RowsType' /\ BookType' /\ RowInv'
      BY <2>16, Frames DEF ReconcileFails, ClearLoop
    <3>3. ProcessType'
      BY <2>16, <3>1 DEF ReconcileFails, ClearLoop, ProcessType
    <3>4. LoopType'
      BY <2>16, <3>1 DEF ReconcileFails, ClearLoop, LoopType, NoBase
    <3>5. OnceInv'
      BY <2>16, <3>1 DEF ReconcileFails, ClearLoop, OnceInv
    <3>6. CurInv'
      BY <2>16, <3>1 DEF ReconcileFails, ClearLoop, CurInv, Loop
    <3> QED
      BY <3>2, <3>3, <3>4, <3>5, <3>6 DEF IInv
  <2>17. CASE SubmitAmbiguous
    <3>1. /\ cur \in Ids /\ ord[cur] = "none" /\ pc = "vet" /\ ord' \in [Ids -> Orders]
          /\ ord'[cur] # "none" /\ \A i \in Ids \ {cur} : ord'[i] = ord[i]
          /\ UNCHANGED <<sessions, rows, bar>>
      BY <2>17 DEF SubmitAmbiguous, OnceInv, BrokerType, Orders
    <3>2. hidden' \in [Ids -> 0 .. MaxLag]
      BY <2>17 DEF SubmitAmbiguous, BrokerType
    <3>3. faults' \in 0 .. MaxFaults
      BY <2>17, Bounds DEF SubmitAmbiguous, ProcessType
    <3>4. RowsType' /\ BookType'
      BY <2>17, Frames DEF SubmitAmbiguous
    <3>5. BrokerType'
      BY <2>17, <3>1, <3>2 DEF SubmitAmbiguous, BrokerType
    <3>6. ProcessType'
      BY <2>17, <3>3 DEF SubmitAmbiguous, ProcessType
    <3>7. LoopType'
      BY <2>17, <3>1, <3>2, <3>3 DEF SubmitAmbiguous, LoopType
    <3>8. OnceInv'
      BY <2>17, <3>1 DEF SubmitAmbiguous, OnceInv
    <3>9. RowInv'
      BY <3>1, <3>2, <3>3 DEF RowInv
    <3>10. CurInv'
      BY <2>17, <3>1 DEF SubmitAmbiguous, CurInv, RowInv, Loop
    <3> QED
      BY <3>4, <3>5, <3>6, <3>7, <3>8, <3>9, <3>10 DEF IInv
  <2>18. CASE RecordFails
    <3>1. faults' \in 0 .. MaxFaults
      BY <2>18, Bounds DEF RecordFails, ProcessType
    <3>2. BrokerType' /\ RowsType' /\ RowInv'
      BY <2>18, Frames DEF RecordFails, ClearLoop
    <3>3. BookType'
      BY <2>18, <3>1 DEF RecordFails, ClearLoop, BookType
    <3>4. ProcessType'
      BY <2>18, <3>1 DEF RecordFails, ClearLoop, ProcessType
    <3>5. LoopType'
      BY <2>18, <3>1 DEF RecordFails, ClearLoop, LoopType, NoBase
    <3>6. OnceInv'
      BY <2>18, <3>1 DEF RecordFails, ClearLoop, OnceInv
    <3>7. CurInv'
      BY <2>18, <3>1 DEF RecordFails, ClearLoop, CurInv, Loop
    <3> QED
      BY <3>2, <3>3, <3>4, <3>5, <3>6, <3>7 DEF IInv
  <2>19. CASE FlattenIncomplete
    <3>1. faults' \in 0 .. MaxFaults
      BY <2>19, Bounds DEF FlattenIncomplete, ProcessType
    <3>2. (reconciled /\ pc = "flatten") \in BOOLEAN
      OBVIOUS
    <3>3. BrokerType' /\ RowsType' /\ LoopType' /\ RowInv'
      BY <2>19, Frames DEF FlattenIncomplete
    <3>4. BookType'
      BY <2>19, <3>1, <3>2 DEF FlattenIncomplete, BookType
    <3>5. ProcessType'
      BY <2>19, <3>1, <3>2 DEF FlattenIncomplete, ProcessType
    <3>6. OnceInv'
      BY <2>19, <3>1, <3>2 DEF FlattenIncomplete, OnceInv
    <3>7. CurInv'
      BY <2>19, <3>1, <3>2 DEF FlattenIncomplete, CurInv, Loop
    <3> QED
      BY <3>3, <3>4, <3>5, <3>6, <3>7 DEF IInv
  <2>20. CASE Resume
    <3>1. /\ BrokerType' /\ RowsType' /\ ProcessType' /\ LoopType' /\ OnceInv' /\ RowInv'
          /\ CurInv'
      BY <2>20, Frames DEF Resume
    <3>2. BookType'
      BY <2>20 DEF Resume, BookType
    <3> QED
      BY <3>1, <3>2 DEF IInv
  <2>21. CASE NewBar
    <3>1. RowsType' /\ BookType' /\ ProcessType' /\ LoopType' /\ OnceInv' /\ RowInv'
      BY <2>21, Frames DEF NewBar
    <3>2. BrokerType'
      BY <2>21, Bounds DEF NewBar, BrokerType
    <3>3. CurInv'
      BY <2>21 DEF NewBar, CurInv, Loop
    <3> QED
      BY <3>1, <3>2, <3>3 DEF IInv
  <2>22. ASSUME NEW e \in Edges, NEW s \in Symbols, RememberSignal(e, s) PROVE IInv'
    <3>1. /\ cur' = <<e, s, bar>> /\ cur' \in Ids /\ sessions' = sessions \cup {Key(cur')} /\ Key(cur') \notin sessions
          /\ pc = "entries" /\ pc' = "vet" /\ UNCHANGED <<ord, rows, bar, placed>>
      BY <2>22 DEF RememberSignal, CurInv, Loop, BrokerType, Ids
    <3>2. BrokerType' /\ RowsType' /\ RowInv'
      BY <2>22, Frames DEF RememberSignal
    <3>3. BookType'
      BY <2>22, <3>1 DEF RememberSignal, BookType
    <3>4. ProcessType'
      BY <2>22, <3>1 DEF RememberSignal, ProcessType
    <3>5. LoopType'
      BY <2>22, <3>1 DEF RememberSignal, LoopType
    <3>6. OnceInv'
      BY <3>1 DEF OnceInv
    <3>7. CurInv'
      BY <3>1 DEF CurInv, Loop
    <3> QED
      BY <3>2, <3>3, <3>4, <3>5, <3>6, <3>7 DEF IInv
  <2>23. ASSUME NEW e \in Edges, NEW s \in Symbols, RememberFails(e, s) PROVE IInv'
    <3>1. faults' \in 0 .. MaxFaults
      BY <2>23, Bounds DEF RememberFails, ProcessType
    <3>2. BrokerType' /\ RowsType' /\ BookType' /\ RowInv'
      BY <2>23, Frames DEF RememberFails, ClearLoop
    <3>3. ProcessType'
      BY <2>23, <3>1 DEF RememberFails, ClearLoop, ProcessType
    <3>4. LoopType'
      BY <2>23, <3>1 DEF RememberFails, ClearLoop, LoopType, NoBase
    <3>5. OnceInv'
      BY <2>23, <3>1 DEF RememberFails, ClearLoop, OnceInv
    <3>6. CurInv'
      BY <2>23, <3>1 DEF RememberFails, ClearLoop, CurInv, Loop
    <3> QED
      BY <3>2, <3>3, <3>4, <3>5, <3>6 DEF IInv
  <2>24. ASSUME NEW id \in Ids, Fill(id) PROVE IInv'
    <3>1. /\ ord' \in [Ids -> Orders]
          /\ \A i \in Ids : (ord'[i] = "none") <=> (ord[i] = "none")
      BY <2>24 DEF Fill, BrokerType, Orders
    <3>2. RowsType' /\ BookType' /\ ProcessType' /\ LoopType'
      BY <2>24, Frames DEF Fill
    <3>3. BrokerType'
      BY <2>24, <3>1 DEF Fill, BrokerType
    <3>4. OnceInv'
      BY <2>24, <3>1 DEF Fill, OnceInv
    <3>5. RowInv'
      BY <2>24, <3>1 DEF Fill, RowInv
    <3>6. CurInv'
      BY <2>24, <3>1 DEF Fill, CurInv
    <3> QED
      BY <3>2, <3>3, <3>4, <3>5, <3>6 DEF IInv
  <2>25. ASSUME NEW id \in Ids, Ends(id) PROVE IInv'
    <3>1. /\ ord' \in [Ids -> Orders]
          /\ \A i \in Ids : (ord'[i] = "none") <=> (ord[i] = "none")
      BY <2>25 DEF Ends, BrokerType, Orders
    <3>2. RowsType' /\ BookType' /\ ProcessType' /\ LoopType'
      BY <2>25, Frames DEF Ends
    <3>3. BrokerType'
      BY <2>25, <3>1 DEF Ends, BrokerType
    <3>4. OnceInv'
      BY <2>25, <3>1 DEF Ends, OnceInv
    <3>5. RowInv'
      BY <2>25, <3>1 DEF Ends, RowInv
    <3>6. CurInv'
      BY <2>25, <3>1 DEF Ends, CurInv
    <3> QED
      BY <3>2, <3>3, <3>4, <3>5, <3>6 DEF IInv
  <2> QED
    BY <2>1, <2>2, <2>3, <2>4, <2>5, <2>6, <2>7, <2>8, <2>9, <2>10, <2>11, <2>12, <2>13, <2>14, <2>15, <2>16, <2>17, <2>18, <2>19, <2>20, <2>21, <2>22, <2>23, <2>24, <2>25, <1>1 DEF Next, Engine
<1>2. CASE UNCHANGED vars
  BY <1>2, Frames DEF IInv, vars
<1> QED
  BY <1>1, <1>2

\* The inductive invariant holds in every reachable state.
THEOREM Invariance == Spec => []IInv
BY Initially, Inductive, PTL DEF Spec

\* Every reachable state is well typed.
THEOREM Typing == Spec => []TypeOK
<1>1. IInv => TypeOK
  BY DEF IInv, BrokerType, RowsType, BookType, ProcessType, LoopType, TypeOK, Orders
<1> QED
  BY <1>1, Invariance, PTL

\* Through any crash, retry or lost answer, at most one entry per session key
\* reaches the broker (remember_signal before submit_order).
THEOREM Once == Spec => []OncePerSession
<1>1. IInv => OncePerSession
  BY DEF IInv, OnceInv, OncePerSession
<1> QED
  BY <1>1, Invariance, PTL

-----------------------------------------------------------------------------
\* Counts and totals of sets of entries.

\* What is taken away from a set of entries does not add to it.
LEMMA Fewer ==
  ASSUME NEW S \in SUBSET Ids, NEW T \in SUBSET S
  PROVE  /\ Cardinality(T) \in Nat /\ Cardinality(S) \in Nat /\ Cardinality(T) <= Cardinality(S)
         /\ Total(T) \in Nat /\ Total(S) \in Nat /\ Total(T) <= Total(S)
<1>1. IsFiniteSet(S) /\ IsFiniteSet(T) /\ Cardinality(T) <= Cardinality(S)
  BY Constants, FS_Subset
<1>2. Sum(WeightOf, T) <= Sum(WeightOf, S)
  <2> DEFINE f == [x \in Ids |-> x]
  <2>1. \A x \in T : f[x] \in S /\ WeightOf[x] = WeightOf[f[x]]
    OBVIOUS
  <2>2. \A x, y \in T : f[x] = f[y] => x = y
    OBVIOUS
  <2> HIDE DEF f
  <2>3. T \in SUBSET Ids /\ \A x \in Ids : WeightOf[x] \in Nat
    BY Constants
  <2> QED
    BY <2>1, <2>2, <2>3, Constants, SumInto
<1> QED
  BY <1>1, <1>2, Totals, FS_CardinalityType

\* Two sets of entries together count and weigh no more than one by one.
LEMMA Together ==
  ASSUME NEW S \in SUBSET Ids, NEW T \in SUBSET Ids
  PROVE  /\ Cardinality(S \cup T) <= Cardinality(S) + Cardinality(T)
         /\ Total(S \cup T) <= Total(S) + Total(T)
<1>1. IsFiniteSet(S) /\ IsFiniteSet(T) /\ IsFiniteSet(S \cap T)
  BY Constants, FS_Subset
<1>2. /\ Cardinality(S \cup T) = Cardinality(S) + Cardinality(T) - Cardinality(S \cap T)
      /\ Cardinality(S \cap T) \in Nat /\ Cardinality(S) \in Nat /\ Cardinality(T) \in Nat
  BY <1>1, FS_Union, FS_CardinalityType
<1>3. Sum(WeightOf, S \cup T) <= Sum(WeightOf, S) + Sum(WeightOf, T)
  BY Constants, SumUnion
<1>4. S \cup T \in SUBSET Ids
  OBVIOUS
<1>5. /\ Total(S) = Sum(WeightOf, S) /\ Total(T) = Sum(WeightOf, T)
      /\ Total(S \cup T) = Sum(WeightOf, S \cup T)
  BY <1>4, Totals
<1>6. Cardinality(S \cup T) <= Cardinality(S) + Cardinality(T)
  BY <1>2
<1> QED
  BY <1>3, <1>5, <1>6

\* One entry counts once and weighs what its symbol weighs.
LEMMA Single ==
  ASSUME NEW id \in Ids
  PROVE  /\ Cardinality({id}) = 1
         /\ Total({id}) = Weight[SymbolOf(id)] /\ Weight[SymbolOf(id)] \in Nat
<1>1. /\ Sum(WeightOf, {}) = 0
      /\ Sum(WeightOf, {id}) = Sum(WeightOf, {id} \ {id}) + WeightOf[id]
  BY Constants, SumOut
<1>2. {id} \ {id} = {} /\ {id} \in SUBSET Ids
  OBVIOUS
<1>3. Total({id}) = Sum(WeightOf, {id}) /\ WeightOf[id] = Weight[SymbolOf(id)]
  BY <1>2, Totals DEF WeightOf
<1>4. WeightOf[id] \in Nat
  BY Constants
<1>5. Sum(WeightOf, {id}) = WeightOf[id]
  <2> DEFINE n == WeightOf[id]
             m == Sum(WeightOf, {id})
  <2>1. m = Sum(WeightOf, {}) + n
    BY <1>1, <1>2
  <2> HIDE DEF n, m
  <2>2. n \in Nat /\ Sum(WeightOf, {}) = 0
    BY <1>1, <1>4 DEF n
  <2>3. m = n
    BY <2>1, <2>2
  <2> QED
    BY <2>3 DEF n, m
<1> QED
  BY <1>3, <1>4, <1>5, FS_Singleton

\* Entries of different symbols count and weigh no more than a set of symbols that
\* has them all.
LEMMA BySymbol ==
  ASSUME NEW S \in SUBSET Ids, NEW T \in SUBSET Symbols,
         \A id \in S : SymbolOf(id) \in T,
         \A a, b \in S : SymbolOf(a) = SymbolOf(b) => a = b
  PROVE  /\ Cardinality(S) <= Cardinality(T) /\ Total(S) <= TotalOf(T)
         /\ Cardinality({SymbolOf(id) : id \in S}) = Cardinality(S)
<1> DEFINE f == [id \in Ids |-> SymbolOf(id)]
           g == [id \in S |-> SymbolOf(id)]
<1>1. IsFiniteSet(S) /\ IsFiniteSet(T)
  BY Constants, FS_Subset
<1>2. /\ \A x \in S : f[x] \in T /\ WeightOf[x] = Weight[f[x]]
      /\ \A x, y \in S : f[x] = f[y] => x = y
  BY DEF WeightOf
<1>3. g \in Injection(S, T)
  BY DEF Injection, IsInjective
<1>4. g \in Surjection(S, {SymbolOf(id) : id \in S}) /\ g \in Injection(S, {SymbolOf(id) : id \in S})
  BY DEF Surjection, Injection, IsInjective
<1> HIDE DEF f, g
<1>5. Sum(WeightOf, S) <= Sum(Weight, T)
  BY <1>2, Constants, SumInto
<1>6. Cardinality(S) <= Cardinality(T)
  BY <1>1, <1>3, FS_Injection
<1>7. Cardinality({SymbolOf(id) : id \in S}) = Cardinality(S)
  BY <1>1, <1>4, FS_Surjection
<1> QED
  BY <1>5, <1>6, <1>7, Totals

-----------------------------------------------------------------------------
\* The caps at the broker, where its answers settle: a fill is in the positions at
\* once, and a new order misses at most two listings, one less than give its row up.

Settles == ~PositionsLag /\ MaxLag <= 2

\* No position trails its fill.
PromptInv == unshown = {}

\* A cycle that went on from "ready" is the second that misses an order at most.
Fresh == {"check", "check_orders", "cycle", "cycle_orders", "account"}

LateInv == pc \in Fresh => \A id \in Ids : hidden[id] <= 1

\* The misses a row of an order that the broker has may have, by what the listings
\* still hide of it: no such row is ever given up.
Misses(at, n) ==
  IF n = 0 THEN 2 ELSE IF n >= 2 \/ at \in {"check", "check_orders"} THEN 0
  ELSE IF at \in {"cycle", "cycle_orders"} THEN 1 ELSE 2

MissInv ==
  \A id \in Ids : ord[id] \notin {"none", "refused"} =>
    /\ rows[id].st # "not_found"
    /\ rows[id].st = "open" => rows[id].misses <= Misses(pc, hidden[id])

\* After the startup cleanup, which the entry loop needs, every entry at the broker
\* has a row, but for the one between its submit and its record.
CleanInv ==
  /\ pc \in {"cycle", "cycle_orders", "account"} \cup Loop => cleaned
  /\ cleaned /\ pc # "shutdown" =>
       \A id \in Live : rows[id].st # "none" \/ (pc = "record" /\ id = cur)

\* What a row says of its order is true, and a fill it knows is logged.
ProofInv ==
  \A id \in Ids : /\ rows[id].st = "dead" => ord[id] = "dead"
                  /\ rows[id].st = "filled" => rows[id].logged
                  /\ rows[id].logged => ord[id] \in Taken

\* A trade is a logged fill of its symbol; an open row that logged none leaves its
\* symbol free, and a position it logged has a trade.
TradeInv ==
  /\ \A s \in Symbols : trade[s] \in Ids => rows[trade[s]].logged /\ SymbolOf(trade[s]) = s
  /\ \A s \in closing : trade[s] # NoId
  /\ \A id \in Ids : rows[id].st = "open" /\ ~rows[id].logged => trade[SymbolOf(id)] = NoId
  /\ \A id \in Live : rows[id].logged => trade[SymbolOf(id)] # NoId
  /\ pc = "record" => trade[SymbolOf(cur)] = NoId

\* One entry at most has its symbol: live, in an open row, or sent and to be recorded.
Engaged(id) == id \in Live \/ rows[id].st = "open" \/ (pc = "record" /\ id = cur)

SoleInv == \A a, b \in Ids : Engaged(a) /\ Engaged(b) /\ SymbolOf(a) = SymbolOf(b) => a = b

\* While the loop takes entries, it knows the symbols that have one.
KnownInv ==
  /\ pc = "vet" => ~halted
  /\ pc \in Loop /\ ~halted =>
       \A id \in Ids : Engaged(id) =>
         \/ SymbolOf(id) \in base.blocked
         \/ \E p \in placed : SymbolOf(p) = SymbolOf(id)
         \/ trade[SymbolOf(id)] # NoId

\* Between the two reads of a reconciliation: the positions cover the fills that are
\* logged, and an open row that could explain one is of a filled order.
SeenInv == pc \in {"check_orders", "cycle_orders"} =>
  \A id \in Ids : /\ rows[id].logged /\ ord[id] = "filled" => SymbolOf(id) \in seen
                  /\ SymbolOf(id) \in seen /\ rows[id].st = "open" => ord[id] \in Taken

\* The base of the loop covers every entry at the broker that the loop did not send.
CoverInv == pc \in Loop /\ ~halted =>
  /\ Cardinality(Live \ placed) <= base.slots
  /\ Total(Live \ placed) <= base.risk /\ Total(Live \ placed) <= base.gross

CapInv == Cardinality(Live) <= MaxPositions /\ Total(Live) <= Cap

CapsInv ==
  /\ PromptInv /\ LateInv /\ MissInv /\ CleanInv /\ ProofInv /\ TradeInv /\ SoleInv
  /\ KnownInv /\ SeenInv /\ CoverInv /\ CapInv

-----------------------------------------------------------------------------
\* The invariant of the caps is inductive.

\* A live entry and what is live after an end are entries.
LEMMA LiveIds == Live \subseteq Ids /\ Live' \subseteq Ids
BY DEF Live, Ids

\* A reconciliation keeps it.
LEMMA Reconciled ==
  ASSUME Settles, BrokerType, RowsType, BookType, RowInv, CurInv, PromptInv, LateInv, MissInv,
         CleanInv, ProofInv, TradeInv, SoleInv, SeenInv, CapInv,
         NEW found, ReconcileWith(found)
  PROVE  CapsInv'
<1> DEFINE new == RowsAfter(found)
<1>1. /\ pc \in {"check_orders", "cycle_orders"}
      /\ pc = "cycle_orders" => pc' = "account"
      /\ pc = "check_orders" => pc' = IF cleaned THEN "cycle" ELSE "flatten"
      /\ UNCHANGED <<ord, hidden, unshown, cleaned, base, placed, halted, cur>>
  BY DEF ReconcileWith, AfterReady, broker
<1>2. \A id \in Ids : ReadAs(id, rows[id], new[id])
  BY RowRead DEF RowsType, RowInv
<1>3. /\ \A s \in closing' : s \in closing /\ trade'[s] = trade[s]
      /\ \A s \in Symbols : trade'[s] = TradeAfter(new, s)
      /\ \A id \in Ids : /\ rows'[id].st = new[id].st /\ rows'[id].misses = new[id].misses
                         /\ rows'[id].logged <=> new[id].logged \/ trade'[SymbolOf(id)] = id
  BY Reconciling
<1> HIDE DEF new
<1>4. \A id \in Ids : /\ (rows[id].st = "none") <=> (rows'[id].st = "none")
                      /\ rows'[id].st = "open" => rows[id].st = "open"
                      /\ new[id].st = "none" => ~new[id].logged
  BY <1>2, <1>3 DEF ReadAs, NoRow
<1>5. \A id \in Ids : ord[id] \in Taken /\ rows[id].st # "none" /\ ~rows[id].logged => rows[id].st = "open"
  BY DEF RowsType, Row, RowStatus, ProofInv, MissInv, Taken
<1>6. \A s \in Symbols : \A id \in FreshFill(s) :
        /\ id \in Ids /\ SymbolOf(id) = s /\ rows[id].st = "open" /\ ~rows[id].logged
        /\ ord[id] \in Taken /\ Visible(id)
  BY <1>5 DEF FreshFill, Taken
<1>7. \A s \in Symbols : \A id \in Explains(new, s) :
        id \in Ids /\ SymbolOf(id) = s /\ new[id].st = "open" /\ rows[id].st = "open"
  BY <1>3, <1>4 DEF Explains
<1>8. \A a, b \in Ids : rows[a].st = "open" /\ rows[b].st = "open" /\ SymbolOf(a) = SymbolOf(b) => a = b
  BY DEF SoleInv, Engaged
<1>9. \A s \in Symbols :
        /\ \/ FreshFill(s) = {} /\ trade'[s] = trade[s]
           \/ trade'[s] \in FreshFill(s)
           \/ s \in seen /\ trade[s] = NoId /\ trade'[s] \in Explains(new, s)
           \/ s \in seen /\ trade[s] = NoId /\ Explains(new, s) = {} /\ trade'[s] = Unknown
           \/ trade'[s] = NoId /\ s \in closing
           \/ /\ trade'[s] = NoId
              /\ \E id \in Ids : ord[id] = "exited" /\ (id = trade[s] \/ id \in FreshFill(s))
        /\ FreshFill(s) # {} => trade'[s] = NoId \/ trade'[s] \in FreshFill(s)
        /\ s \in seen => trade'[s] # NoId
  <2> TAKE s \in Symbols
  <2> HIDE DEF new
  <2>1. trade'[s] = TradeAfter(new, s)
    BY <1>3
  <2> QED
    BY <2>1, TradeRead
<1>10. \A s \in Symbols : trade[s] \in Ids \cup {NoId, Unknown} /\ NoId \notin Ids /\ Unknown \notin Ids
  BY Constants DEF BookType
<1>11. \A id \in Ids : SymbolOf(id) \in Symbols
  BY Constants
\* Every logged row is of an order that was filled.
<1>12. ProofInv'
  <2> SUFFICES ASSUME NEW id \in Ids
               PROVE  /\ rows'[id].st = "dead" => ord[id] = "dead"
                      /\ rows'[id].st = "filled" => rows'[id].logged
                      /\ rows'[id].logged => ord[id] \in Taken
    BY <1>1 DEF ProofInv
  <2>1. /\ ReadAs(id, rows[id], new[id]) /\ rows[id].st \in RowStatus
        /\ rows[id].st = "dead" => ord[id] = "dead"
        /\ rows[id].st = "filled" => rows[id].logged
        /\ rows[id].logged => ord[id] \in Taken
    BY <1>2 DEF ProofInv, RowsType, Row
  <2>2. new[id].st = "dead" => ord[id] = "dead"
    BY <2>1 DEF ReadAs, RowStatus, Terminal, NoRow
  <2>3. new[id].st = "filled" => new[id].logged
    BY <2>1 DEF ReadAs, RowStatus, Terminal, NoRow
  <2>4. new[id].logged => ord[id] \in Taken
    BY <2>1 DEF ReadAs
  <2>5. trade'[SymbolOf(id)] = id => ord[id] \in Taken
    BY <1>6, <1>7, <1>9, <1>10, <1>11, <2>1, <1>1 DEF TradeInv, ProofInv, SeenInv
  <2> QED
    BY <1>3, <2>2, <2>3, <2>4, <2>5
\* A trade is a logged fill of its symbol.
<1>13. TradeInv'
  <2>1. \A s \in Symbols : trade'[s] \in Ids => rows'[trade'[s]].logged /\ SymbolOf(trade'[s]) = s
    BY <1>3, <1>6, <1>7, <1>9, <1>10 DEF TradeInv
  <2>2. \A s \in closing' : trade'[s] # NoId
    BY <1>3 DEF TradeInv
  <2>3. ASSUME NEW id \in Ids, rows'[id].st = "open", ~rows'[id].logged
        PROVE  trade'[SymbolOf(id)] = NoId
    <3>1. /\ rows[id].st = "open" /\ new[id].st = "open" /\ ~new[id].logged /\ trade'[SymbolOf(id)] # id
          /\ ReadAs(id, rows[id], new[id])
      BY <1>2, <1>3, <1>4, <2>3
    <3>2. ~rows[id].logged /\ ~(Visible(id) /\ ord[id] \in Taken)
      BY <3>1 DEF ReadAs
    <3>3. trade[SymbolOf(id)] = NoId
      BY <3>1, <3>2 DEF TradeInv
    <3>4. FreshFill(SymbolOf(id)) = {}
      BY <1>6, <1>8, <1>11, <3>1, <3>2
    <3>5. id \in Explains(new, SymbolOf(id)) /\ Explains(new, SymbolOf(id)) \subseteq {id}
      BY <1>7, <1>8, <1>11, <3>1 DEF Explains
    <3> QED
      BY <1>9, <1>11, <3>1, <3>3, <3>4, <3>5
  <2>4. ASSUME NEW id \in Live, rows'[id].logged PROVE trade'[SymbolOf(id)] # NoId
    <3>1. id \in Ids /\ ReadAs(id, rows[id], new[id]) /\ SymbolOf(id) \in Symbols
      BY <1>2, <1>11, LiveIds
    <3>2. ord[id] = "filled"
      BY <1>1, <1>12, <2>4, <3>1 DEF ProofInv, Live, Taken
    <3>3. CASE rows[id].logged
      BY <1>1, <1>9, <3>1, <3>2, <3>3 DEF SeenInv
    <3>4. CASE trade'[SymbolOf(id)] = id
      BY <1>10, <3>1, <3>4
    <3>5. CASE ~rows[id].logged /\ trade'[SymbolOf(id)] # id
      <4>1. new[id].logged
        BY <1>3, <2>4, <3>1, <3>5
      <4>2. Visible(id) /\ rows[id].st # "none"
        BY <3>1, <3>5, <4>1 DEF ReadAs, NoRow
      <4>3. id \in FreshFill(SymbolOf(id))
        BY <3>1, <3>2, <3>5, <4>2 DEF FreshFill
      <4>4. FreshFill(SymbolOf(id)) = {id}
        BY <1>6, <1>8, <3>1, <4>3
      <4>5. trade[SymbolOf(id)] = NoId /\ SymbolOf(id) \notin closing
        BY <1>6, <3>1, <4>3 DEF TradeInv
      <4> QED
        BY <1>9, <1>10, <3>1, <3>2, <4>4, <4>5
    <3> QED
      BY <3>3, <3>4, <3>5
  <2> QED
    BY <1>1, <2>1, <2>2, <2>3, <2>4 DEF TradeInv, Live
\* An order that the broker has is not given up.
<1>14. MissInv'
  <2> SUFFICES ASSUME NEW id \in Ids, ord[id] \notin {"none", "refused"}
               PROVE  /\ rows'[id].st # "not_found"
                      /\ rows'[id].st = "open" => rows'[id].misses <= Misses(pc', hidden[id])
    BY <1>1 DEF MissInv
  <2>1. /\ ReadAs(id, rows[id], new[id]) /\ rows[id] \in Row /\ hidden[id] \in Nat /\ hidden[id] <= 1
        /\ rows[id].st # "not_found"
        /\ rows[id].st = "open" => rows[id].misses <= Misses(pc, hidden[id])
    BY <1>1, <1>2, Bounds DEF BrokerType, RowsType, MissInv, LateInv, Fresh
  <2>2. /\ Visible(id) <=> hidden[id] = 0
        /\ rows[id].st \in RowStatus /\ rows[id].misses \in Int
    BY <2>1 DEF Visible, Row
  <2>3. CASE hidden[id] = 0
    <3>1. new[id].st # "not_found" /\ (new[id].st = "open" => new[id].misses = 0)
      BY <2>1, <2>2, <2>3 DEF ReadAs, RowStatus, Terminal, NoRow
    <3> QED
      BY <1>1, <1>3, <2>3, <3>1 DEF Misses
  <2>4. CASE hidden[id] = 1
    <3>1. rows[id].st = "open" => rows[id].misses <= IF pc = "check_orders" THEN 0 ELSE 1
      BY <1>1, <2>1, <2>4 DEF Misses
    <3>2. /\ new[id].st # "not_found"
          /\ new[id].st = "open" => new[id].misses <= IF pc = "check_orders" THEN 1 ELSE 2
      BY <1>1, <2>1, <2>2, <2>4, <3>1 DEF ReadAs, RowStatus, Terminal, NoRow
    <3>3. new[id].misses \in Int
      BY <2>1 DEF ReadAs, Row
    <3> QED
      BY <1>1, <1>3, <2>4, <3>2, <3>3 DEF Misses
  <2> QED
    BY <2>1, <2>3, <2>4
<1>15. PromptInv' /\ LateInv' /\ CapInv'
  BY <1>1 DEF PromptInv, LateInv, Fresh, CapInv, Live
<1>16. CleanInv'
  BY <1>1, <1>4, LiveIds DEF CleanInv, Live, Loop
<1>17. SoleInv'
  BY <1>1, <1>4 DEF SoleInv, Engaged, Live
<1>18. KnownInv' /\ SeenInv' /\ CoverInv'
  BY <1>1 DEF KnownInv, SeenInv, CoverInv, Loop
<1> QED
  BY <1>12, <1>13, <1>14, <1>15, <1>16, <1>17, <1>18 DEF CapsInv

\* What a part of the invariant does not mention may change without it.
LEMMA CapsFrames ==
  /\ PromptInv /\ UNCHANGED unshown => PromptInv'
  /\ LateInv /\ UNCHANGED <<pc, hidden>> => LateInv'
  /\ MissInv /\ UNCHANGED <<ord, rows, hidden, pc>> => MissInv'
  /\ CleanInv /\ UNCHANGED <<pc, cleaned, ord, rows, cur>> => CleanInv'
  /\ ProofInv /\ UNCHANGED <<rows, ord>> => ProofInv'
  /\ TradeInv /\ UNCHANGED <<rows, ord, trade, closing, pc, cur>> => TradeInv'
  /\ SoleInv /\ UNCHANGED <<ord, rows, pc, cur>> => SoleInv'
  /\ KnownInv /\ UNCHANGED <<pc, halted, ord, rows, cur, base, placed, trade>> => KnownInv'
  /\ SeenInv /\ UNCHANGED <<pc, rows, ord, seen>> => SeenInv'
  /\ CoverInv /\ UNCHANGED <<pc, halted, ord, placed, base>> => CoverInv'
  /\ CapInv /\ UNCHANGED ord => CapInv'
BY DEF PromptInv, LateInv, MissInv, CleanInv, ProofInv, TradeInv, SoleInv, KnownInv, SeenInv,
       CoverInv, CapInv, Engaged, Live

\* Nothing is at the broker before the first cycle.
LEMMA CapsInitially == Init => CapsInv
<1> SUFFICES ASSUME Init PROVE CapsInv
  OBVIOUS
<1>1. Live = {} /\ \A id \in Ids : ord[id] = "none" /\ rows[id] = NoRow /\ hidden[id] = 0
  BY DEF Init, Live
<1>2. PromptInv /\ LateInv /\ MissInv /\ ProofInv
  BY <1>1 DEF Init, PromptInv, LateInv, Fresh, MissInv, ProofInv, NoRow
<1>3. CleanInv /\ TradeInv /\ SoleInv
  <2>1. CleanInv
    BY <1>1 DEF Init, CleanInv, Loop
  <2>2. TradeInv
    BY <1>1, Constants DEF Init, TradeInv, NoRow
  <2>3. SoleInv
    BY <1>1 DEF Init, SoleInv, Engaged, NoRow
  <2> QED
    BY <2>1, <2>2, <2>3
<1>4. KnownInv /\ SeenInv /\ CoverInv
  BY DEF Init, KnownInv, Loop, SeenInv, CoverInv
<1>5. CapInv
  <2>1. Total({}) = Sum(WeightOf, {}) /\ {} \in SUBSET Ids
    BY Totals
  <2>2. Sum(WeightOf, {}) = 0
    BY Constants, SumOut
  <2> QED
    BY <1>1, <2>1, <2>2, Bounds, FS_EmptySet DEF CapInv
<1> QED
  BY <1>2, <1>3, <1>4, <1>5 DEF CapsInv

\* Every step keeps it.
LEMMA CapsInductive ==
  ASSUME Settles, IInv, CapsInv, [Next]_vars
  PROVE  CapsInv'
<1> SUFFICES ASSUME BrokerType, RowsType, BookType, LoopType, OnceInv, RowInv, CurInv,
                    PromptInv, LateInv, MissInv, CleanInv, ProofInv, TradeInv, SoleInv,
                    KnownInv, SeenInv, CoverInv, CapInv
             PROVE  CapsInv'
  BY DEF IInv, CapsInv
<1> USE DEF broker, durable, loop
<1>1. ASSUME Next PROVE CapsInv'
  <2>1. CASE Start
    <3>1. PromptInv' /\ ProofInv' /\ CapInv'
      BY <2>1, CapsFrames DEF Start
    <3>2. LateInv'
      BY <2>1 DEF Start, LateInv, Fresh
    <3>3. MissInv'
      BY <2>1 DEF Start, MissInv, Misses
    <3>4. CleanInv'
      BY <2>1 DEF Start, CleanInv, Live, Loop
    <3>5. TradeInv'
      BY <2>1 DEF Start, TradeInv, Live
    <3>6. SoleInv'
      BY <2>1 DEF Start, SoleInv, Engaged, Live
    <3>7. KnownInv'
      BY <2>1 DEF Start, KnownInv, Loop
    <3>8. SeenInv'
      BY <2>1 DEF Start, SeenInv
    <3>9. CoverInv'
      BY <2>1 DEF Start, CoverInv, Loop
    <3> QED
      BY <3>1, <3>2, <3>3, <3>4, <3>5, <3>6, <3>7, <3>8, <3>9 DEF CapsInv
  <2>2. CASE CycleBegins
    <3>1. \A id \in Ids : /\ hidden[id] \in 0 .. 2
                          /\ hidden'[id] = IF hidden[id] > 0 THEN hidden[id] - 1 ELSE 0
      BY <2>2, Bounds DEF CycleBegins, BrokerType, Settles
    <3>2. /\ pc = "ready" /\ pc' \in {"check", "cycle", "flatten"} /\ (pc' = "cycle" => cleaned)
          /\ UNCHANGED <<ord, rows, cleaned, cur, base, placed, trade, halted, closing>>
      BY <2>2 DEF CycleBegins, AfterReady
    <3>3. PromptInv' /\ ProofInv' /\ CapInv'
      BY <2>2, CapsFrames DEF CycleBegins, AfterReady
    <3>4. LateInv'
      BY <3>1 DEF LateInv
    <3>5. MissInv'
      <4> SUFFICES ASSUME NEW id \in Ids, ord[id] \notin {"none", "refused"}
                   PROVE  /\ rows[id].st # "not_found"
                          /\ rows[id].st = "open" => rows[id].misses <= Misses(pc', hidden'[id])
        BY <3>2 DEF MissInv
      <4>1. rows[id].st # "not_found" /\ rows[id].misses \in Int
        BY DEF MissInv, RowsType, Row
      <4>2. rows[id].st = "open" => rows[id].misses <= Misses(pc, hidden[id]) /\ rows[id].misses <= 2
        BY DEF MissInv, RowInv
      <4> QED
        BY <3>1, <3>2, <4>1, <4>2 DEF Misses
    <3>6. CleanInv'
      BY <3>1, <3>2 DEF CleanInv, Live, Loop
    <3>7. TradeInv'
      BY <3>1, <3>2 DEF TradeInv, Live
    <3>8. SoleInv'
      BY <3>1, <3>2 DEF SoleInv, Engaged, Live
    <3>9. KnownInv'
      BY <3>1, <3>2 DEF KnownInv, Loop
    <3>10. SeenInv'
      BY <3>1, <3>2 DEF SeenInv
    <3>11. CoverInv'
      BY <3>1, <3>2 DEF CoverInv, Loop
    <3> QED
      BY <3>3, <3>4, <3>5, <3>6, <3>7, <3>8, <3>9, <3>10, <3>11 DEF CapsInv
  <2>3. CASE ReadPositions
    <3>1. /\ unshown' = {} /\ pc \in {"check", "cycle"} /\ pc' \in {"check_orders", "cycle_orders"}
          /\ (pc' = "cycle_orders" <=> pc = "cycle")
          /\ seen' = {SymbolOf(i) : i \in {j \in Ids : ord[j] = "filled"}}
          /\ UNCHANGED <<ord, hidden, rows, cleaned, cur, base, placed, trade, halted, closing>>
      BY <2>3 DEF ReadPositions, PromptInv, ShownBut
    <3>2. ProofInv' /\ CapInv'
      BY <2>3, CapsFrames DEF ReadPositions
    <3>3. PromptInv'
      BY <3>1 DEF PromptInv
    <3>4. LateInv'
      BY <3>1 DEF LateInv, Fresh
    <3>5. MissInv'
      BY <3>1 DEF MissInv, Misses
    <3>6. CleanInv'
      BY <3>1 DEF CleanInv, Live, Loop
    <3>7. TradeInv'
      BY <3>1 DEF TradeInv, Live
    <3>8. SoleInv'
      BY <3>1 DEF SoleInv, Engaged, Live
    <3>9. KnownInv'
      BY <3>1 DEF KnownInv, Loop
    <3>10. SeenInv'
      <4>1. ASSUME NEW id \in Ids, SymbolOf(id) \in seen', rows[id].st = "open" PROVE ord[id] = "filled"
        <5>1. PICK i \in Ids : ord[i] = "filled" /\ SymbolOf(i) = SymbolOf(id)
          BY <3>1, <4>1
        <5> QED
          BY <4>1, <5>1 DEF SoleInv, Engaged, Live
      <4> QED
        BY <3>1, <4>1 DEF SeenInv, Taken
    <3>11. CoverInv'
      BY <3>1 DEF CoverInv, Loop
    <3> QED
      BY <3>2, <3>3, <3>4, <3>5, <3>6, <3>7, <3>8, <3>9, <3>10, <3>11 DEF CapsInv
  <2>4. ASSUME NEW found \in SUBSET Lookups, ReconcileWith(found) PROVE CapsInv'
    BY <2>4, Reconciled
  <2>5. CASE ForceFlat
    <3>1. PromptInv' /\ ProofInv' /\ CapInv'
      BY <2>5, CapsFrames DEF ForceFlat
    <3>2. LateInv'
      BY <2>5 DEF ForceFlat, LateInv, Fresh
    <3>3. MissInv'
      BY <2>5 DEF ForceFlat, MissInv, Misses
    <3>4. CleanInv'
      BY <2>5 DEF ForceFlat, CleanInv, Live, Loop
    <3>5. TradeInv'
      BY <2>5 DEF ForceFlat, TradeInv, Live
    <3>6. SoleInv'
      BY <2>5 DEF ForceFlat, SoleInv, Engaged, Live
    <3>7. KnownInv'
      BY <2>5 DEF ForceFlat, KnownInv, Loop
    <3>8. SeenInv'
      BY <2>5 DEF ForceFlat, SeenInv
    <3>9. CoverInv'
      BY <2>5 DEF ForceFlat, CoverInv, Loop
    <3> QED
      BY <3>1, <3>2, <3>3, <3>4, <3>5, <3>6, <3>7, <3>8, <3>9 DEF CapsInv
  <2>6. CASE UnprotectedBlocks
    <3>1. Live' \subseteq Live
      BY <2>6 DEF UnprotectedBlocks, Live
    <3>2. /\ Cardinality(Live') <= Cardinality(Live) /\ Total(Live') <= Total(Live)
          /\ Cardinality(Live') \in Nat /\ Cardinality(Live) \in Nat
          /\ Total(Live') \in Nat /\ Total(Live) \in Nat
      BY <3>1, LiveIds, Fewer
    <3>3. \A i \in Ids : /\ ord[i] \in Taken => ord'[i] \in Taken /\ (ord'[i] = "filled" => ord[i] = "filled")
                         /\ ord[i] = "dead" => ord'[i] = "dead"
                         /\ ord'[i] \in {"none", "refused"} <=> ord[i] \in {"none", "refused"}
      BY <2>6 DEF UnprotectedBlocks, BrokerType, Taken
    <3>4. /\ pc = "account" /\ pc' \in {"flatten", "ready"} /\ UNCHANGED <<rows, hidden, trade, cur, cleaned>>
          /\ \A s \in closing' : s \in closing \/ trade[s] = Unknown
      BY <2>6 DEF UnprotectedBlocks, Unprotected
    <3>5. PromptInv'
      BY <2>6, CapsFrames DEF UnprotectedBlocks
    <3>6. LateInv'
      BY <3>1, <3>2, <3>3, <3>4 DEF LateInv, Fresh
    <3>7. MissInv'
      BY <3>3, <3>4 DEF MissInv, Misses
    <3>8. CleanInv'
      BY <3>1, <3>4, LiveIds DEF CleanInv, Loop
    <3>9. ProofInv'
      BY <3>3, <3>4 DEF ProofInv
    <3>10. TradeInv'
      BY <3>1, <3>4, Constants DEF TradeInv
    <3>11. SoleInv'
      BY <3>1, <3>4 DEF SoleInv, Engaged
    <3>12. KnownInv'
      BY <3>1, <3>2, <3>3, <3>4 DEF KnownInv, Loop
    <3>13. SeenInv'
      BY <3>1, <3>2, <3>3, <3>4 DEF SeenInv
    <3>14. CoverInv'
      BY <3>1, <3>2, <3>3, <3>4 DEF CoverInv, Loop
    <3>15. CapInv'
      BY <3>2, Bounds DEF CapInv
    <3> QED
      BY <3>5, <3>6, <3>7, <3>8, <3>9, <3>10, <3>11, <3>12, <3>13, <3>14, <3>15
      DEF CapsInv
  <2>7. CASE BeginEntries
    <3>1. /\ base'.slots = Cardinality(Shown) + Cardinality({SymbolOf(id) : id \in Pending} \ Held)
          /\ base'.risk = TotalOf(Held) + Total(Pending) /\ base'.gross = TotalOf(Shown) + Total(Pending)
          /\ base'.blocked = {SymbolOf(id) : id \in Pending}
          /\ pc = "account" /\ pc' = "entries" /\ UNCHANGED <<ord, rows, trade, placed, halted, cur>>
      BY <2>7 DEF BeginEntries
    <3>2. \A id \in Live : /\ id \in Ids /\ SymbolOf(id) \in Symbols
                           /\ ord[id] = "filled" => SymbolOf(id) \in Shown
                           /\ id \notin Pending => ord[id] = "filled" /\ SymbolOf(id) \in Held
                           /\ ord[id] = "working" => id \in Pending /\ SymbolOf(id) \notin Held
      <4> TAKE id \in Live
      <4>1. id \in Ids /\ SymbolOf(id) \in Symbols /\ ord[id] \in {"working", "filled"}
        BY Constants, LiveIds DEF Live
      <4>2. rows[id].st # "none" /\ rows[id].st \in RowStatus
        BY <2>7, <4>1 DEF BeginEntries, CleanInv, RowsType, Row
      <4>3. rows[id].st \in {"open", "filled"}
        BY <4>1, <4>2 DEF RowStatus, MissInv, ProofInv
      <4>4. ord[id] = "working" => rows[id].st = "open" /\ trade[SymbolOf(id)] = NoId
        BY <4>1, <4>3 DEF ProofInv, TradeInv, Taken
      <4>5. rows[id].st = "filled" => ord[id] = "filled" /\ trade[SymbolOf(id)] # NoId
        BY <4>1, <4>4 DEF ProofInv, TradeInv, Taken
      <4>6. ord[id] = "filled" => SymbolOf(id) \in Shown
        BY <4>1 DEF Shown, ShownBut, PromptInv
      <4> QED
        BY <4>1, <4>3, <4>4, <4>5, <4>6 DEF Pending, Held
    <3>3. \A a, b \in Live : SymbolOf(a) = SymbolOf(b) => a = b
      BY LiveIds DEF SoleInv, Engaged
    <3>4. Shown \subseteq Symbols /\ Held \subseteq Symbols /\ Pending \subseteq Ids /\ placed = {}
      BY <2>7, Constants DEF BeginEntries, Shown, ShownBut, Held, Pending, CurInv, Loop
    <3>5. Cardinality(Live) <= Cardinality(Shown) + Cardinality({SymbolOf(id) : id \in Pending} \ Held)
      <4> DEFINE sent == {SymbolOf(id) : id \in Pending} \ Held
      <4>1. sent \subseteq Symbols
        BY <3>4, Constants
      <4>2. \A id \in Live : SymbolOf(id) \in Shown \cup sent
        <5> TAKE id \in Live
        <5>1. ord[id] \in {"working", "filled"}
          BY DEF Live
        <5>2. CASE ord[id] = "filled"
          BY <3>2, <5>2
        <5>3. CASE ord[id] = "working"
          BY <3>2, <5>3
        <5> QED
          BY <5>1, <5>2, <5>3
      <4> HIDE DEF sent
      <4>3. Cardinality(Live) <= Cardinality(Shown \cup sent)
        BY <3>3, <3>4, <4>1, <4>2, LiveIds, BySymbol
      <4>4. IsFiniteSet(Shown) /\ IsFiniteSet(sent) /\ IsFiniteSet(Shown \cap sent) /\ IsFiniteSet(Live)
        BY <3>4, <4>1, Constants, LiveIds, FS_Subset
      <4>5. /\ Cardinality(Shown \cup sent) = Cardinality(Shown) + Cardinality(sent) - Cardinality(Shown \cap sent)
            /\ Cardinality(Shown \cap sent) \in Nat /\ Cardinality(Shown) \in Nat /\ Cardinality(sent) \in Nat
            /\ Cardinality(Live) \in Nat
        BY <4>4, FS_Union, FS_CardinalityType
      <4>6. Cardinality(Live) <= Cardinality(Shown) + Cardinality(sent)
        BY <4>3, <4>5
      <4> QED
        BY <4>6 DEF sent
    <3>6. Total(Live) <= TotalOf(Held) + Total(Pending) /\ Total(Live) <= TotalOf(Shown) + Total(Pending)
      <4> DEFINE known == Live \ Pending
      <4>1. known \subseteq Ids /\ Live \subseteq Ids /\ known \cup Pending \subseteq Ids /\ Live \subseteq known \cup Pending
        BY <3>4, LiveIds
      <4>2. \A id \in known : SymbolOf(id) \in Held /\ SymbolOf(id) \in Shown
        BY <3>2
      <4>3. \A a, b \in known : SymbolOf(a) = SymbolOf(b) => a = b
        BY <3>3
      <4> HIDE DEF known
      <4>4. Total(known) <= TotalOf(Held) /\ Total(known) <= TotalOf(Shown)
        BY <3>4, <4>1, <4>2, <4>3, BySymbol
      <4>5. Total(Live) <= Total(known \cup Pending) /\ Total(known \cup Pending) <= Total(known) + Total(Pending)
        BY <3>4, <4>1, Fewer, Together
      <4>6. /\ Total(Live) \in Nat /\ Total(known) \in Nat /\ Total(Pending) \in Nat
            /\ Total(known \cup Pending) \in Nat /\ TotalOf(Held) \in Nat /\ TotalOf(Shown) \in Nat
        BY <3>4, <4>1, Totals
      <4> QED
        BY <4>4, <4>5, <4>6
    <3>7. PromptInv' /\ ProofInv' /\ CapInv'
      BY <2>7, CapsFrames DEF BeginEntries
    <3>8. LateInv'
      BY <3>1, <3>2, <3>3, <3>4, <3>5, <3>6 DEF LateInv, Fresh
    <3>9. MissInv'
      BY <2>7, <3>1, <3>2, <3>3, <3>4, <3>5, <3>6 DEF BeginEntries, MissInv, Misses
    <3>10. CleanInv'
      BY <2>7, <3>1, <3>2, <3>3, <3>4, <3>5, <3>6 DEF BeginEntries, CleanInv, Live, Loop
    <3>11. TradeInv'
      BY <2>7, <3>1, <3>2, <3>3, <3>4, <3>5, <3>6 DEF BeginEntries, TradeInv, Live
    <3>12. SoleInv'
      BY <3>1, <3>2, <3>3, <3>4, <3>5, <3>6 DEF SoleInv, Engaged, Live
    <3>13. KnownInv'
      <4>1. \A id \in Ids : Engaged(id)' => id \in Live \/ id \in Pending
        BY <3>1 DEF Engaged, Live, Pending
      <4>2. ASSUME NEW id \in Ids, Engaged(id)'
            PROVE  SymbolOf(id) \in base'.blocked \/ trade'[SymbolOf(id)] # NoId
        <5>1. CASE id \in Pending
          BY <3>1, <5>1
        <5>2. CASE id \notin Pending
          BY <3>1, <3>2, <4>1, <4>2, <5>2 DEF Held
        <5> QED
          BY <5>1, <5>2
      <4> QED
        BY <3>1, <4>2 DEF KnownInv
    <3>14. SeenInv'
      BY <3>1, <3>2, <3>3, <3>4, <3>5, <3>6 DEF SeenInv
    <3>15. CoverInv'
      <4>1. Live' \ placed' = Live
        BY <3>1, <3>4 DEF Live
      <4> QED
        BY <3>1, <3>5, <3>6, <4>1 DEF CoverInv
    <3> QED
      BY <3>7, <3>8, <3>9, <3>10, <3>11, <3>12, <3>13, <3>14, <3>15 DEF CapsInv
  <2>8. CASE Refuse
    <3>1. PromptInv' /\ ProofInv' /\ CapInv'
      BY <2>8, CapsFrames DEF Refuse
    <3>2. LateInv'
      BY <2>8 DEF Refuse, LateInv, Fresh
    <3>3. MissInv'
      BY <2>8 DEF Refuse, MissInv, Misses
    <3>4. CleanInv'
      BY <2>8 DEF Refuse, CleanInv, Live, Loop
    <3>5. TradeInv'
      BY <2>8 DEF Refuse, TradeInv, Live
    <3>6. SoleInv'
      BY <2>8 DEF Refuse, SoleInv, Engaged, Live
    <3>7. KnownInv'
      BY <2>8 DEF Refuse, KnownInv, Loop, Engaged, Live
    <3>8. SeenInv'
      BY <2>8 DEF Refuse, SeenInv
    <3>9. CoverInv'
      BY <2>8 DEF Refuse, CoverInv, Loop, Live
    <3> QED
      BY <3>1, <3>2, <3>3, <3>4, <3>5, <3>6, <3>7, <3>8, <3>9 DEF CapsInv
  <2>9. CASE SubmitAccepted
    <3>1. /\ cur \in Ids /\ ord[cur] = "none" /\ rows[cur].st = "none" /\ ~rows[cur].logged
          /\ pc = "vet" /\ ~halted /\ Vetted(cur) /\ UNCHANGED <<cur, rows, trade, closing>>
      BY <2>9 DEF SubmitAccepted, OnceInv, RowInv, KnownInv, ProofInv, Taken
    <3>2. /\ \A i \in Ids \ {cur} : ord'[i] = ord[i]
          /\ \A i \in Ids \ {cur} : hidden'[i] = hidden[i]
          /\ ord'[cur] \in {"working"} /\ hidden'[cur] \in 0 .. MaxLag
      BY <2>9, <3>1 DEF SubmitAccepted, BrokerType
    <3>3. /\ trade[SymbolOf(cur)] = NoId
          /\ \A id \in Ids : Engaged(id) => SymbolOf(id) # SymbolOf(cur)
      <4>1. /\ trade[SymbolOf(cur)] = NoId /\ SymbolOf(cur) \notin base.blocked
            /\ \A p \in placed : SymbolOf(p) # SymbolOf(cur)
        BY <3>1 DEF Vetted, RiskOrder
      <4> QED
        BY <3>1, <4>1 DEF KnownInv, Loop
    <3>4. /\ Live' \subseteq Live \cup {cur} /\ Live' \subseteq (Live \ placed) \cup placed \cup {cur}
          /\ placed \subseteq Ids /\ Live \ placed \subseteq Ids
      BY <2>9, <3>1, <3>2 DEF SubmitAccepted, Live, LoopType
    <3>5. Cardinality(Live') <= MaxPositions /\ Total(Live') <= Cap
      <4> DEFINE rest == Live \ placed
      <4> HIDE DEF rest
      <4>1. /\ rest \subseteq Ids /\ placed \subseteq Ids /\ rest \cup placed \subseteq Ids /\ {cur} \subseteq Ids
            /\ (rest \cup placed) \cup {cur} \subseteq Ids /\ Live' \subseteq (rest \cup placed) \cup {cur}
        BY <3>1, <3>4 DEF rest
      <4>2. /\ Cardinality(Live') \in Nat /\ Cardinality(Live') <= Cardinality((rest \cup placed) \cup {cur})
            /\ Total(Live') \in Nat /\ Total(Live') <= Total((rest \cup placed) \cup {cur})
            /\ Cardinality((rest \cup placed) \cup {cur}) \in Nat /\ Total((rest \cup placed) \cup {cur}) \in Nat
        BY <4>1, Fewer
      <4>3. /\ Cardinality((rest \cup placed) \cup {cur}) <= Cardinality(rest \cup placed) + Cardinality({cur})
            /\ Total((rest \cup placed) \cup {cur}) <= Total(rest \cup placed) + Total({cur})
            /\ Cardinality(rest \cup placed) <= Cardinality(rest) + Cardinality(placed)
            /\ Total(rest \cup placed) <= Total(rest) + Total(placed)
        BY <4>1, Together
      <4>4. /\ Cardinality(rest \cup placed) \in Nat /\ Cardinality(rest) \in Nat /\ Cardinality(placed) \in Nat
            /\ Total(rest \cup placed) \in Nat /\ Total(rest) \in Nat /\ Total(placed) \in Nat
        BY <4>1, Fewer
      <4>5. /\ Cardinality({cur}) = 1 /\ Total({cur}) = Weight[SymbolOf(cur)]
            /\ Weight[SymbolOf(cur)] \in Nat
        BY <3>1, Single
      <4>6. /\ Cardinality(rest) <= base.slots /\ Total(rest) <= base.risk
            /\ base.slots \in Nat /\ base.risk \in Nat
        BY <3>1 DEF CoverInv, LoopType, Loop, rest
      <4>7. /\ base.slots + Cardinality(placed) < MaxPositions
            /\ base.risk + Total(placed) + Weight[SymbolOf(cur)] <= Cap
        BY <3>1 DEF Vetted
      <4>8. Cardinality(Live') <= MaxPositions
        BY <4>2, <4>3, <4>4, <4>5, <4>6, <4>7, Bounds
      <4>9. Total(Live') <= Cap
        BY <4>2, <4>3, <4>4, <4>5, <4>6, <4>7, Bounds
      <4> QED
        BY <4>8, <4>9
    <3>6. PromptInv'
      BY <2>9 DEF SubmitAccepted, PromptInv
    <3>7. LateInv'
      BY <2>9 DEF SubmitAccepted, LateInv, Fresh
    <3>8. MissInv'
      <4> SUFFICES ASSUME NEW id \in Ids, ord'[id] \notin {"none", "refused"}
                   PROVE  /\ rows[id].st # "not_found"
                          /\ rows[id].st = "open" => rows[id].misses <= Misses("record", hidden'[id])
        BY <2>9, <3>1 DEF MissInv, SubmitAccepted
      <4>1. CASE id = cur
        BY <4>1, <3>1
      <4>2. CASE id # cur
        BY <4>2, <3>1, <3>2 DEF MissInv, Misses
      <4> QED
        BY <4>1, <4>2
    <3>9. CleanInv'
      BY <2>9, <3>1, <3>4 DEF SubmitAccepted, CleanInv, Loop, Live
    <3>10. ProofInv'
      BY <3>1, <3>2 DEF ProofInv, Taken
    <3>11. TradeInv'
      BY <2>9, <3>1, <3>2, <3>3, <3>4 DEF SubmitAccepted, TradeInv
    <3>12. SoleInv'
      <4>1. \A id \in Ids : Engaged(id)' => Engaged(id) \/ id = cur
        BY <2>9, <3>1, <3>4 DEF Engaged, SubmitAccepted
      <4> QED
        BY <4>1, <3>3 DEF SoleInv
    <3>13. KnownInv'
      <4>1. \A id \in Ids : Engaged(id)' => Engaged(id) \/ id = cur
        BY <2>9, <3>1, <3>4 DEF Engaged, SubmitAccepted
      <4> QED
        BY <2>9, <4>1, <3>1 DEF KnownInv, Loop, SubmitAccepted
    <3>14. SeenInv'
      BY <2>9 DEF SubmitAccepted, SeenInv
    <3>15. CoverInv'
      <4>1. Live' \ placed' = Live \ placed
        BY <2>9, <3>1, <3>2 DEF Live, SubmitAccepted
      <4> QED
        BY <2>9, <4>1, <3>1 DEF CoverInv, Loop, SubmitAccepted
    <3>16. CapInv'
      BY <3>5 DEF CapInv
    <3> QED
      BY <3>6, <3>7, <3>8, <3>9, <3>10, <3>11, <3>12, <3>13, <3>14, <3>15, <3>16
      DEF CapsInv
  <2>10. CASE SubmitRejected
    <3>1. /\ cur \in Ids /\ ord[cur] = "none" /\ rows[cur].st = "none" /\ ~rows[cur].logged
          /\ pc = "vet" /\ ~halted /\ UNCHANGED <<rows, trade, closing>>
      BY <2>10 DEF SubmitRejected, OnceInv, RowInv, KnownInv, ProofInv, Taken
    <3>2. /\ \A i \in Ids \ {cur} : ord'[i] = ord[i]
          /\ \A i \in Ids \ {cur} : hidden'[i] = hidden[i]
          /\ ord'[cur] \in {"refused"}
      BY <2>10, <3>1 DEF SubmitRejected, BrokerType
    <3>3. Live' = Live
      BY <3>1, <3>2 DEF Live
    <3>4. PromptInv'
      BY <2>10, CapsFrames DEF SubmitRejected
    <3>5. LateInv'
      BY <2>10, <3>1, <3>2, <3>3 DEF SubmitRejected, LateInv, Fresh
    <3>6. MissInv'
      BY <2>10, <3>1, <3>2 DEF SubmitRejected, MissInv, Misses
    <3>7. CleanInv'
      BY <2>10, <3>1, <3>3 DEF SubmitRejected, CleanInv, Loop
    <3>8. ProofInv'
      BY <2>10, <3>1, <3>2 DEF ProofInv, Taken
    <3>9. TradeInv'
      BY <2>10, <3>1, <3>3 DEF SubmitRejected, TradeInv
    <3>10. SoleInv'
      BY <2>10, <3>1, <3>3 DEF SubmitRejected, SoleInv, Engaged
    <3>11. KnownInv'
      BY <2>10, <3>1, <3>3 DEF SubmitRejected, KnownInv, Engaged, Loop
    <3>12. SeenInv'
      BY <2>10, <3>1, <3>2, <3>3 DEF SubmitRejected, SeenInv
    <3>13. CoverInv'
      BY <2>10, <3>1, <3>3 DEF SubmitRejected, CoverInv, Loop
    <3>14. CapInv'
      BY <3>3 DEF CapInv
    <3> QED
      BY <3>4, <3>5, <3>6, <3>7, <3>8, <3>9, <3>10, <3>11, <3>12, <3>13, <3>14 DEF CapsInv
  <2>11. CASE RecordOpenOrder
    <3>1. /\ cur \in Ids /\ SymbolOf(cur) \in Symbols /\ rows[cur].st = "none" /\ ord[cur] # "none"
          /\ pc = "record" /\ pc' = "entries" /\ Engaged(cur) /\ trade[SymbolOf(cur)] = NoId
          /\ UNCHANGED <<ord, closing, cleaned, hidden, base, placed, halted>>
      BY <2>11, Constants DEF RecordOpenOrder, CurInv, Engaged, TradeInv
    <3>2. PICK filled \in BOOLEAN :
            /\ filled => ord[cur] = "filled"
            /\ rows'[cur].st = (IF filled THEN "filled" ELSE "open")
            /\ rows'[cur].misses = 0 /\ rows'[cur].logged = filled
            /\ trade' = IF filled THEN [trade EXCEPT ![SymbolOf(cur)] = cur] ELSE trade
            /\ \A i \in Ids \ {cur} : rows'[i] = rows[i]
      <4> DEFINE f == cur \in placed /\ ord[cur] = "filled"
                 row == [st |-> IF f THEN "filled" ELSE "open", unresolved |-> ~(cur \in placed),
                         misses |-> 0, legs |-> IF cur \in placed THEN "known" ELSE "none",
                         logged |-> f]
      <4>1. f \in BOOLEAN /\ (f => ord[cur] = "filled")
        OBVIOUS
      <4>2. rows' = [rows EXCEPT ![cur] = row]
        BY <2>11 DEF RecordOpenOrder
      <4>3. trade' = IF f THEN [trade EXCEPT ![SymbolOf(cur)] = cur] ELSE trade
        BY <2>11 DEF RecordOpenOrder
      <4> HIDE DEF f
      <4>4. row.st = (IF f THEN "filled" ELSE "open") /\ row.misses = 0 /\ row.logged = f
        OBVIOUS
      <4> HIDE DEF row
      <4>5. rows'[cur] = row /\ \A i \in Ids \ {cur} : rows'[i] = rows[i]
        BY <3>1, <4>2 DEF RowsType
      <4> QED
        BY <4>1, <4>3, <4>4, <4>5
    <3>3. Live' = Live /\ \A id \in Ids : Engaged(id)' => Engaged(id)
      BY <3>1, <3>2 DEF Live, Engaged
    <3>4. \A s \in Symbols : \/ trade'[s] = trade[s]
                             \/ s = SymbolOf(cur) /\ trade'[s] = cur /\ rows'[cur].logged
      BY <3>1, <3>2 DEF BookType
    <3>5. PromptInv' /\ CapInv'
      BY <2>11, CapsFrames DEF RecordOpenOrder
    <3>6. LateInv'
      BY <3>1 DEF LateInv, Fresh
    <3>7. MissInv'
      <4> SUFFICES ASSUME NEW id \in Ids, ord[id] \notin {"none", "refused"}
                   PROVE  /\ rows'[id].st # "not_found"
                          /\ rows'[id].st = "open" => rows'[id].misses <= Misses("entries", hidden[id])
        BY <3>1 DEF MissInv
      <4>1. CASE id = cur
        <5>1. Misses("entries", hidden[id]) \in {0, 2}
          BY DEF Misses
        <5> QED
          BY <3>2, <4>1, <5>1
      <4>2. CASE id # cur
        BY <3>1, <3>2, <4>2 DEF MissInv, Misses
      <4> QED
        BY <4>1, <4>2
    <3>8. CleanInv'
      BY <3>1, <3>2, <3>3, LiveIds DEF CleanInv, Loop
    <3>9. ProofInv'
      BY <3>1, <3>2 DEF ProofInv, Taken
    <3>10. TradeInv'
      <4>1. \A s \in Symbols : trade'[s] \in Ids => rows'[trade'[s]].logged /\ SymbolOf(trade'[s]) = s
        <5> TAKE s \in Symbols
        <5>1. CASE trade'[s] = trade[s] /\ trade[s] \in Ids
          <6>1. trade[s] # cur /\ rows[trade[s]].logged /\ SymbolOf(trade[s]) = s
            BY <3>1, <5>1, Constants DEF TradeInv
          <6> QED
            BY <3>2, <5>1, <6>1
        <5>2. CASE s = SymbolOf(cur) /\ trade'[s] = cur /\ rows'[cur].logged
          BY <5>2
        <5> QED
          BY <3>4, <5>1, <5>2
      <4>2. \A s \in closing : s \in Symbols /\ trade'[s] # NoId
        BY <3>1, <3>4, Constants DEF TradeInv, BookType
      <4>3. ASSUME NEW id \in Ids, rows'[id].st = "open", ~rows'[id].logged PROVE trade'[SymbolOf(id)] = NoId
        <5>1. CASE id = cur
          BY <3>1, <3>2, <4>3, <5>1
        <5>2. CASE id # cur
          <6>1. rows[id].st = "open" /\ ~rows[id].logged /\ SymbolOf(id) \in Symbols
            BY <3>2, <4>3, <5>2, Constants
          <6>2. SymbolOf(id) # SymbolOf(cur)
            BY <3>1, <5>2, <6>1 DEF SoleInv, Engaged
          <6> QED
            BY <3>4, <6>1, <6>2 DEF TradeInv
        <5> QED
          BY <5>1, <5>2
      <4>4. ASSUME NEW id \in Live, rows'[id].logged PROVE trade'[SymbolOf(id)] # NoId
        <5>1. id \in Ids /\ SymbolOf(id) \in Symbols
          BY LiveIds, Constants
        <5>2. CASE id = cur
          BY <3>1, <3>2, <4>4, <5>2, Constants DEF BookType
        <5>3. CASE id # cur
          BY <3>1, <3>2, <3>4, <4>4, <5>1, <5>3, Constants DEF TradeInv
        <5> QED
          BY <5>2, <5>3
      <4> QED
        BY <3>1, <3>3, <4>1, <4>2, <4>3, <4>4 DEF TradeInv
    <3>11. SoleInv'
      BY <3>3 DEF SoleInv
    <3>12. KnownInv'
      <4>1. \A s \in Symbols : trade[s] # NoId => trade'[s] # NoId
        BY <3>1, <3>4, Constants
      <4> QED
        BY <3>1, <3>3, <4>1, Constants DEF KnownInv, Loop
    <3>13. SeenInv'
      BY <3>1 DEF SeenInv
    <3>14. CoverInv'
      BY <3>1, <3>3 DEF CoverInv, Loop
    <3> QED
      BY <3>5, <3>6, <3>7, <3>8, <3>9, <3>10, <3>11, <3>12, <3>13, <3>14 DEF CapsInv
  <2>12. CASE EndEntries
    <3>1. PromptInv' /\ ProofInv' /\ CapInv'
      BY <2>12, CapsFrames DEF EndEntries, ClearLoop
    <3>2. LateInv'
      BY <2>12 DEF EndEntries, ClearLoop, LateInv, Fresh
    <3>3. MissInv'
      BY <2>12 DEF EndEntries, ClearLoop, MissInv, Misses
    <3>4. CleanInv'
      BY <2>12 DEF EndEntries, ClearLoop, CleanInv, Live, Loop
    <3>5. TradeInv'
      BY <2>12 DEF EndEntries, ClearLoop, TradeInv, Live
    <3>6. SoleInv'
      BY <2>12 DEF EndEntries, ClearLoop, SoleInv, Engaged, Live
    <3>7. KnownInv'
      BY <2>12 DEF EndEntries, ClearLoop, KnownInv, Loop
    <3>8. SeenInv'
      BY <2>12 DEF EndEntries, ClearLoop, SeenInv
    <3>9. CoverInv'
      BY <2>12 DEF EndEntries, ClearLoop, CoverInv, Loop
    <3> QED
      BY <3>1, <3>2, <3>3, <3>4, <3>5, <3>6, <3>7, <3>8, <3>9 DEF CapsInv
  <2>13. CASE FlattenEnds
    <3>1. Live = {}
      BY <2>13 DEF FlattenEnds, Flat, Shown, ShownBut, PromptInv, Live
    <3>2. PromptInv' /\ ProofInv' /\ CapInv'
      BY <2>13, CapsFrames DEF FlattenEnds
    <3>3. LateInv'
      BY <2>13, <3>1 DEF FlattenEnds, LateInv, Fresh
    <3>4. MissInv'
      BY <2>13, <3>1 DEF FlattenEnds, MissInv, Misses
    <3>5. CleanInv'
      BY <2>13, <3>1 DEF FlattenEnds, CleanInv, Loop, Live
    <3>6. TradeInv'
      BY <2>13, <3>1 DEF FlattenEnds, TradeInv, Live
    <3>7. SoleInv'
      BY <2>13, <3>1 DEF FlattenEnds, SoleInv, Engaged, Live
    <3>8. KnownInv'
      BY <2>13, <3>1 DEF FlattenEnds, KnownInv, Loop
    <3>9. SeenInv'
      BY <2>13, <3>1 DEF FlattenEnds, SeenInv
    <3>10. CoverInv'
      BY <2>13, <3>1 DEF FlattenEnds, CoverInv, Loop
    <3> QED
      BY <3>2, <3>3, <3>4, <3>5, <3>6, <3>7, <3>8, <3>9, <3>10 DEF CapsInv
  <2>14. ASSUME NEW id \in Ids, FlattenStep(id) PROVE CapsInv'
    <3>1. Live' \subseteq Live
      BY <2>14 DEF FlattenStep, Live
    <3>2. /\ Cardinality(Live') <= Cardinality(Live) /\ Total(Live') <= Total(Live)
          /\ Cardinality(Live') \in Nat /\ Cardinality(Live) \in Nat
          /\ Total(Live') \in Nat /\ Total(Live) \in Nat
      BY <3>1, LiveIds, Fewer
    <3>3. \A i \in Ids : /\ ord[i] \in Taken => ord'[i] \in Taken /\ (ord'[i] = "filled" => ord[i] = "filled")
                         /\ ord[i] = "dead" => ord'[i] = "dead"
                         /\ ord'[i] \in {"none", "refused"} <=> ord[i] \in {"none", "refused"}
      BY <2>14 DEF FlattenStep, BrokerType, Taken
    <3>4. /\ pc \in {"flatten", "shutdown"} /\ UNCHANGED <<pc, rows, hidden, trade, cur, cleaned>>
          /\ \A s \in closing' : s \in closing \/ trade[s] # NoId
      BY <2>14 DEF FlattenStep
    <3>5. PromptInv' /\ LateInv'
      BY <2>14, CapsFrames DEF FlattenStep
    <3>6. MissInv'
      BY <3>3, <3>4 DEF MissInv, Misses
    <3>7. CleanInv'
      BY <3>1, <3>4, LiveIds DEF CleanInv, Loop
    <3>8. ProofInv'
      BY <3>3, <3>4 DEF ProofInv
    <3>9. TradeInv'
      BY <3>1, <3>4, Constants DEF TradeInv
    <3>10. SoleInv'
      BY <3>1, <3>4 DEF SoleInv, Engaged
    <3>11. KnownInv'
      BY <3>1, <3>2, <3>3, <3>4 DEF KnownInv, Loop
    <3>12. SeenInv'
      BY <3>1, <3>2, <3>3, <3>4 DEF SeenInv
    <3>13. CoverInv'
      BY <3>1, <3>2, <3>3, <3>4 DEF CoverInv, Loop
    <3>14. CapInv'
      BY <3>2, Bounds DEF CapInv
    <3> QED
      BY <3>5, <3>6, <3>7, <3>8, <3>9, <3>10, <3>11, <3>12, <3>13, <3>14 DEF CapsInv
  <2>15. CASE Crash
    <3>1. \A n \in Nat : Misses(pc, n) <= Misses(pc', n) /\ Misses(pc, n) \in Nat /\ Misses(pc', n) \in Nat
      BY <2>15 DEF Crash, Misses
    <3>2. PromptInv' /\ ProofInv' /\ CapInv'
      BY <2>15, CapsFrames DEF Crash, ClearLoop
    <3>3. LateInv'
      BY <2>15, <3>1 DEF Crash, ClearLoop, LateInv, Fresh
    <3>4. MissInv'
      BY <2>15, <3>1, Bounds DEF Crash, MissInv, RowsType, Row, BrokerType
    <3>5. CleanInv'
      BY <2>15, <3>1 DEF Crash, ClearLoop, CleanInv, Live, Loop
    <3>6. TradeInv'
      BY <2>15, <3>1 DEF Crash, ClearLoop, TradeInv, Live
    <3>7. SoleInv'
      BY <2>15, <3>1 DEF Crash, ClearLoop, SoleInv, Engaged, Live
    <3>8. KnownInv'
      BY <2>15, <3>1 DEF Crash, ClearLoop, KnownInv, Loop
    <3>9. SeenInv'
      BY <2>15, <3>1 DEF Crash, ClearLoop, SeenInv
    <3>10. CoverInv'
      BY <2>15, <3>1 DEF Crash, ClearLoop, CoverInv, Loop
    <3> QED
      BY <3>2, <3>3, <3>4, <3>5, <3>6, <3>7, <3>8, <3>9, <3>10 DEF CapsInv
  <2>16. CASE ReconcileFails
    <3>1. \A n \in Nat : Misses(pc, n) <= Misses(pc', n) /\ Misses(pc, n) \in Nat /\ Misses(pc', n) \in Nat
      BY <2>16 DEF ReconcileFails, Misses
    <3>2. PromptInv' /\ ProofInv' /\ CapInv'
      BY <2>16, CapsFrames DEF ReconcileFails, ClearLoop
    <3>3. LateInv'
      BY <2>16, <3>1 DEF ReconcileFails, ClearLoop, LateInv, Fresh
    <3>4. MissInv'
      BY <2>16, <3>1, Bounds DEF ReconcileFails, MissInv, RowsType, Row, BrokerType
    <3>5. CleanInv'
      BY <2>16, <3>1 DEF ReconcileFails, ClearLoop, CleanInv, Live, Loop
    <3>6. TradeInv'
      BY <2>16, <3>1 DEF ReconcileFails, ClearLoop, TradeInv, Live
    <3>7. SoleInv'
      BY <2>16, <3>1 DEF ReconcileFails, ClearLoop, SoleInv, Engaged, Live
    <3>8. KnownInv'
      BY <2>16, <3>1 DEF ReconcileFails, ClearLoop, KnownInv, Loop
    <3>9. SeenInv'
      BY <2>16, <3>1 DEF ReconcileFails, ClearLoop, SeenInv
    <3>10. CoverInv'
      BY <2>16, <3>1 DEF ReconcileFails, ClearLoop, CoverInv, Loop
    <3> QED
      BY <3>2, <3>3, <3>4, <3>5, <3>6, <3>7, <3>8, <3>9, <3>10 DEF CapsInv
  <2>17. CASE SubmitAmbiguous
    <3>1. /\ cur \in Ids /\ ord[cur] = "none" /\ rows[cur].st = "none" /\ ~rows[cur].logged
          /\ pc = "vet" /\ ~halted /\ Vetted(cur) /\ UNCHANGED <<cur, rows, trade, closing>>
      BY <2>17 DEF SubmitAmbiguous, OnceInv, RowInv, KnownInv, ProofInv, Taken
    <3>2. /\ \A i \in Ids \ {cur} : ord'[i] = ord[i]
          /\ \A i \in Ids \ {cur} : hidden'[i] = hidden[i]
          /\ ord'[cur] \in {"working", "refused"} /\ hidden'[cur] \in 0 .. MaxLag
      BY <2>17, <3>1 DEF SubmitAmbiguous, BrokerType
    <3>3. /\ trade[SymbolOf(cur)] = NoId
          /\ \A id \in Ids : Engaged(id) => SymbolOf(id) # SymbolOf(cur)
      <4>1. /\ trade[SymbolOf(cur)] = NoId /\ SymbolOf(cur) \notin base.blocked
            /\ \A p \in placed : SymbolOf(p) # SymbolOf(cur)
        BY <3>1 DEF Vetted, RiskOrder
      <4> QED
        BY <3>1, <4>1 DEF KnownInv, Loop
    <3>4. /\ Live' \subseteq Live \cup {cur} /\ Live' \subseteq (Live \ placed) \cup placed \cup {cur}
          /\ placed \subseteq Ids /\ Live \ placed \subseteq Ids
      BY <2>17, <3>1, <3>2 DEF SubmitAmbiguous, Live, LoopType
    <3>5. Cardinality(Live') <= MaxPositions /\ Total(Live') <= Cap
      <4> DEFINE rest == Live \ placed
      <4> HIDE DEF rest
      <4>1. /\ rest \subseteq Ids /\ placed \subseteq Ids /\ rest \cup placed \subseteq Ids /\ {cur} \subseteq Ids
            /\ (rest \cup placed) \cup {cur} \subseteq Ids /\ Live' \subseteq (rest \cup placed) \cup {cur}
        BY <3>1, <3>4 DEF rest
      <4>2. /\ Cardinality(Live') \in Nat /\ Cardinality(Live') <= Cardinality((rest \cup placed) \cup {cur})
            /\ Total(Live') \in Nat /\ Total(Live') <= Total((rest \cup placed) \cup {cur})
            /\ Cardinality((rest \cup placed) \cup {cur}) \in Nat /\ Total((rest \cup placed) \cup {cur}) \in Nat
        BY <4>1, Fewer
      <4>3. /\ Cardinality((rest \cup placed) \cup {cur}) <= Cardinality(rest \cup placed) + Cardinality({cur})
            /\ Total((rest \cup placed) \cup {cur}) <= Total(rest \cup placed) + Total({cur})
            /\ Cardinality(rest \cup placed) <= Cardinality(rest) + Cardinality(placed)
            /\ Total(rest \cup placed) <= Total(rest) + Total(placed)
        BY <4>1, Together
      <4>4. /\ Cardinality(rest \cup placed) \in Nat /\ Cardinality(rest) \in Nat /\ Cardinality(placed) \in Nat
            /\ Total(rest \cup placed) \in Nat /\ Total(rest) \in Nat /\ Total(placed) \in Nat
        BY <4>1, Fewer
      <4>5. /\ Cardinality({cur}) = 1 /\ Total({cur}) = Weight[SymbolOf(cur)]
            /\ Weight[SymbolOf(cur)] \in Nat
        BY <3>1, Single
      <4>6. /\ Cardinality(rest) <= base.slots /\ Total(rest) <= base.risk
            /\ base.slots \in Nat /\ base.risk \in Nat
        BY <3>1 DEF CoverInv, LoopType, Loop, rest
      <4>7. /\ base.slots + Cardinality(placed) < MaxPositions
            /\ base.risk + Total(placed) + Weight[SymbolOf(cur)] <= Cap
        BY <3>1 DEF Vetted
      <4>8. Cardinality(Live') <= MaxPositions
        BY <4>2, <4>3, <4>4, <4>5, <4>6, <4>7, Bounds
      <4>9. Total(Live') <= Cap
        BY <4>2, <4>3, <4>4, <4>5, <4>6, <4>7, Bounds
      <4> QED
        BY <4>8, <4>9
    <3>6. PromptInv'
      BY <2>17 DEF SubmitAmbiguous, PromptInv
    <3>7. LateInv'
      BY <2>17 DEF SubmitAmbiguous, LateInv, Fresh
    <3>8. MissInv'
      <4> SUFFICES ASSUME NEW id \in Ids, ord'[id] \notin {"none", "refused"}
                   PROVE  /\ rows[id].st # "not_found"
                          /\ rows[id].st = "open" => rows[id].misses <= Misses("record", hidden'[id])
        BY <2>17, <3>1 DEF MissInv, SubmitAmbiguous
      <4>1. CASE id = cur
        BY <4>1, <3>1
      <4>2. CASE id # cur
        BY <4>2, <3>1, <3>2 DEF MissInv, Misses
      <4> QED
        BY <4>1, <4>2
    <3>9. CleanInv'
      BY <2>17, <3>1, <3>4 DEF SubmitAmbiguous, CleanInv, Loop, Live
    <3>10. ProofInv'
      BY <3>1, <3>2 DEF ProofInv, Taken
    <3>11. TradeInv'
      BY <2>17, <3>1, <3>2, <3>3, <3>4 DEF SubmitAmbiguous, TradeInv
    <3>12. SoleInv'
      <4>1. \A id \in Ids : Engaged(id)' => Engaged(id) \/ id = cur
        BY <2>17, <3>1, <3>4 DEF Engaged, SubmitAmbiguous
      <4> QED
        BY <4>1, <3>3 DEF SoleInv
    <3>13. KnownInv'
      BY <2>17 DEF SubmitAmbiguous, KnownInv
    <3>14. SeenInv'
      BY <2>17 DEF SubmitAmbiguous, SeenInv
    <3>15. CoverInv'
      BY <2>17 DEF SubmitAmbiguous, CoverInv
    <3>16. CapInv'
      BY <3>5 DEF CapInv
    <3> QED
      BY <3>6, <3>7, <3>8, <3>9, <3>10, <3>11, <3>12, <3>13, <3>14, <3>15, <3>16
      DEF CapsInv
  <2>18. CASE RecordFails
    <3>1. PromptInv' /\ ProofInv' /\ CapInv'
      BY <2>18, CapsFrames DEF RecordFails, ClearLoop
    <3>2. LateInv'
      BY <2>18 DEF RecordFails, ClearLoop, LateInv, Fresh
    <3>3. MissInv'
      BY <2>18 DEF RecordFails, ClearLoop, MissInv, Misses
    <3>4. CleanInv'
      BY <2>18 DEF RecordFails, ClearLoop, CleanInv, Live, Loop
    <3>5. TradeInv'
      BY <2>18 DEF RecordFails, ClearLoop, TradeInv, Live
    <3>6. SoleInv'
      BY <2>18 DEF RecordFails, ClearLoop, SoleInv, Engaged, Live
    <3>7. KnownInv'
      BY <2>18 DEF RecordFails, ClearLoop, KnownInv, Loop
    <3>8. SeenInv'
      BY <2>18 DEF RecordFails, ClearLoop, SeenInv
    <3>9. CoverInv'
      BY <2>18 DEF RecordFails, ClearLoop, CoverInv, Loop
    <3> QED
      BY <3>1, <3>2, <3>3, <3>4, <3>5, <3>6, <3>7, <3>8, <3>9 DEF CapsInv
  <2>19. CASE FlattenIncomplete
    <3>1. PromptInv' /\ ProofInv' /\ CapInv'
      BY <2>19, CapsFrames DEF FlattenIncomplete
    <3>2. LateInv'
      BY <2>19 DEF FlattenIncomplete, LateInv, Fresh
    <3>3. MissInv'
      BY <2>19 DEF FlattenIncomplete, MissInv, Misses
    <3>4. CleanInv'
      BY <2>19 DEF FlattenIncomplete, CleanInv, Live, Loop
    <3>5. TradeInv'
      BY <2>19 DEF FlattenIncomplete, TradeInv, Live
    <3>6. SoleInv'
      BY <2>19 DEF FlattenIncomplete, SoleInv, Engaged, Live
    <3>7. KnownInv'
      BY <2>19 DEF FlattenIncomplete, KnownInv, Loop
    <3>8. SeenInv'
      BY <2>19 DEF FlattenIncomplete, SeenInv
    <3>9. CoverInv'
      BY <2>19 DEF FlattenIncomplete, CoverInv, Loop
    <3> QED
      BY <3>1, <3>2, <3>3, <3>4, <3>5, <3>6, <3>7, <3>8, <3>9 DEF CapsInv
  <2>20. CASE Resume
    <3>1. /\ PromptInv' /\ LateInv' /\ MissInv' /\ CleanInv' /\ ProofInv' /\ TradeInv'
          /\ SoleInv' /\ KnownInv' /\ SeenInv' /\ CoverInv' /\ CapInv'
      BY <2>20, CapsFrames DEF Resume
    <3> QED
      BY <3>1 DEF CapsInv
  <2>21. CASE NewBar
    <3>1. /\ PromptInv' /\ LateInv' /\ MissInv' /\ CleanInv' /\ ProofInv' /\ TradeInv'
          /\ SoleInv' /\ KnownInv' /\ SeenInv' /\ CoverInv' /\ CapInv'
      BY <2>21, CapsFrames DEF NewBar
    <3> QED
      BY <3>1 DEF CapsInv
  <2>22. ASSUME NEW e \in Edges, NEW s \in Symbols, RememberSignal(e, s) PROVE CapsInv'
    <3>1. PromptInv' /\ ProofInv' /\ CapInv'
      BY <2>22, CapsFrames DEF RememberSignal
    <3>2. LateInv'
      BY <2>22 DEF RememberSignal, LateInv, Fresh
    <3>3. MissInv'
      BY <2>22 DEF RememberSignal, MissInv, Misses
    <3>4. CleanInv'
      BY <2>22 DEF RememberSignal, CleanInv, Live, Loop
    <3>5. TradeInv'
      BY <2>22 DEF RememberSignal, TradeInv, Live
    <3>6. SoleInv'
      BY <2>22 DEF RememberSignal, SoleInv, Engaged, Live
    <3>7. KnownInv'
      BY <2>22 DEF RememberSignal, KnownInv, Loop, Engaged, Live
    <3>8. SeenInv'
      BY <2>22 DEF RememberSignal, SeenInv
    <3>9. CoverInv'
      BY <2>22 DEF RememberSignal, CoverInv, Loop, Live
    <3> QED
      BY <3>1, <3>2, <3>3, <3>4, <3>5, <3>6, <3>7, <3>8, <3>9 DEF CapsInv
  <2>23. ASSUME NEW e \in Edges, NEW s \in Symbols, RememberFails(e, s) PROVE CapsInv'
    <3>1. PromptInv' /\ ProofInv' /\ CapInv'
      BY <2>23, CapsFrames DEF RememberFails, ClearLoop
    <3>2. LateInv'
      BY <2>23 DEF RememberFails, ClearLoop, LateInv, Fresh
    <3>3. MissInv'
      BY <2>23 DEF RememberFails, ClearLoop, MissInv, Misses
    <3>4. CleanInv'
      BY <2>23 DEF RememberFails, ClearLoop, CleanInv, Live, Loop
    <3>5. TradeInv'
      BY <2>23 DEF RememberFails, ClearLoop, TradeInv, Live
    <3>6. SoleInv'
      BY <2>23 DEF RememberFails, ClearLoop, SoleInv, Engaged, Live
    <3>7. KnownInv'
      BY <2>23 DEF RememberFails, ClearLoop, KnownInv, Loop
    <3>8. SeenInv'
      BY <2>23 DEF RememberFails, ClearLoop, SeenInv
    <3>9. CoverInv'
      BY <2>23 DEF RememberFails, ClearLoop, CoverInv, Loop
    <3> QED
      BY <3>1, <3>2, <3>3, <3>4, <3>5, <3>6, <3>7, <3>8, <3>9 DEF CapsInv
  <2>24. ASSUME NEW id \in Ids, Fill(id) PROVE CapsInv'
    <3>1. /\ Live' = Live /\ ord[id] = "working" /\ ord'[id] = "filled" /\ \A i \in Ids \ {id} : ord'[i] = ord[i]
          /\ ~rows[id].logged /\ unshown' = {}
          /\ UNCHANGED <<pc, rows, hidden, trade, closing, cur, cleaned, seen, base, placed, halted>>
      BY <2>24 DEF Fill, BrokerType, Live, ProofInv, Taken, PromptInv, Settles
    <3>2. LateInv'
      BY <2>24, CapsFrames DEF Fill
    <3>3. PromptInv'
      BY <3>1 DEF PromptInv
    <3>4. MissInv'
      BY <3>1 DEF MissInv, Misses
    <3>5. CleanInv'
      BY <3>1 DEF CleanInv
    <3>6. ProofInv'
      BY <3>1 DEF ProofInv, Taken
    <3>7. TradeInv'
      BY <3>1 DEF TradeInv
    <3>8. SoleInv'
      BY <3>1 DEF SoleInv, Engaged
    <3>9. KnownInv'
      BY <3>1 DEF KnownInv, Engaged
    <3>10. SeenInv'
      BY <3>1 DEF SeenInv, Taken
    <3>11. CoverInv'
      BY <3>1 DEF CoverInv
    <3>12. CapInv'
      BY <3>1 DEF CapInv
    <3> QED
      BY <3>2, <3>3, <3>4, <3>5, <3>6, <3>7, <3>8, <3>9, <3>10, <3>11, <3>12 DEF CapsInv
  <2>25. ASSUME NEW id \in Ids, Ends(id) PROVE CapsInv'
    <3>1. Live' \subseteq Live
      BY <2>25 DEF Ends, Live
    <3>2. /\ Cardinality(Live') <= Cardinality(Live) /\ Total(Live') <= Total(Live)
          /\ Cardinality(Live') \in Nat /\ Cardinality(Live) \in Nat
          /\ Total(Live') \in Nat /\ Total(Live) \in Nat
      BY <3>1, LiveIds, Fewer
    <3>3. /\ Cardinality(Live' \ placed') <= Cardinality(Live \ placed)
          /\ Total(Live' \ placed') <= Total(Live \ placed)
          /\ Cardinality(Live' \ placed') \in Nat /\ Cardinality(Live \ placed) \in Nat
          /\ Total(Live' \ placed') \in Nat /\ Total(Live \ placed) \in Nat
          /\ base.slots \in Nat /\ base.risk \in Nat /\ base.gross \in Nat
      <4>1. placed' = placed /\ Live' \ placed \subseteq Live \ placed /\ Live \ placed \subseteq Ids
        BY <2>25, <3>1, LiveIds DEF Ends
      <4> QED
        BY <4>1, Fewer DEF LoopType
    <3>4. /\ \A i \in Ids : /\ rows[i].logged /\ ord[i] \in Taken => ord'[i] \in Taken
                            /\ ord'[i] = "filled" => ord[i] = "filled"
                            /\ ord[i] \in Taken => ord'[i] \in Taken
                            /\ ord[i] = "dead" => ord'[i] = "dead"
                            /\ ord'[i] \in {"none", "refused"} <=> ord[i] \in {"none", "refused"}
          /\ unshown' = {}
          /\ UNCHANGED <<pc, rows, hidden, trade, closing, cur, cleaned, seen, base, placed, halted>>
      BY <2>25 DEF Ends, BrokerType, Taken, PromptInv
    <3>5. LateInv'
      BY <2>25, CapsFrames DEF Ends
    <3>6. PromptInv'
      BY <3>1, <3>4 DEF PromptInv
    <3>7. MissInv'
      BY <2>25, <3>1, <3>2, <3>3, <3>4 DEF Ends, MissInv, Misses
    <3>8. CleanInv'
      BY <3>1, <3>4, LiveIds DEF CleanInv
    <3>9. ProofInv'
      BY <2>25, <3>1, <3>2, <3>3, <3>4 DEF Ends, ProofInv, Taken
    <3>10. TradeInv'
      BY <3>1, <3>4 DEF TradeInv
    <3>11. SoleInv'
      BY <3>1, <3>4 DEF SoleInv, Engaged
    <3>12. KnownInv'
      BY <3>1, <3>4 DEF KnownInv, Engaged
    <3>13. SeenInv'
      BY <2>25, <3>1, <3>2, <3>3, <3>4 DEF Ends, SeenInv, Taken
    <3>14. CoverInv'
      BY <3>3, <3>4 DEF CoverInv
    <3>15. CapInv'
      BY <3>2, Bounds DEF CapInv
    <3> QED
      BY <3>5, <3>6, <3>7, <3>8, <3>9, <3>10, <3>11, <3>12, <3>13, <3>14, <3>15
      DEF CapsInv
  <2> QED
    BY <2>1, <2>2, <2>3, <2>4, <2>5, <2>6, <2>7, <2>8, <2>9, <2>10, <2>11, <2>12, <2>13,
       <2>14, <2>15, <2>16, <2>17, <2>18, <2>19, <2>20, <2>21, <2>22, <2>23, <2>24, <2>25,
       <1>1
    DEF Next, Engine
<1>2. CASE UNCHANGED vars
  BY <1>2, CapsFrames DEF CapsInv, vars
<1> QED
  BY <1>1, <1>2

\* The invariant of the caps holds in every reachable state.
LEMMA CapsInvariance == ASSUME Settles PROVE Spec => []CapsInv
<1>1. CapsInv /\ IInv /\ [Next]_vars => CapsInv'
  BY CapsInductive
<1> QED
  BY <1>1, CapsInitially, Invariance, PTL DEF Spec

\* Where the broker's answers settle, the caps of the cycle hold at the broker.
THEOREM Capped == ASSUME Settles PROVE Spec => []WithinCaps
<1>1. CapsInv => WithinCaps
  <2> SUFFICES ASSUME CapsInv PROVE WithinCaps
    OBVIOUS
  <2>1. /\ \A id \in Live : SymbolOf(id) \in Symbols
        /\ \A a, b \in Live : SymbolOf(a) = SymbolOf(b) => a = b
    BY LiveIds, Constants DEF CapsInv, SoleInv, Engaged
  <2>2. Cardinality({SymbolOf(id) : id \in Live}) = Cardinality(Live)
    BY <2>1, LiveIds, BySymbol
  <2> QED
    BY <2>2 DEF CapsInv, CapInv, WithinCaps, LiveSymbols
<1> QED
  BY <1>1, CapsInvariance, PTL

\* The loop takes entries only while every entry at the broker is in a row that
\* counts, or in a trade.
THEOREM Remembered == ASSUME Settles PROVE Spec => []NothingForgotten
<1>1. IInv /\ CapsInv => NothingForgotten
  <2> SUFFICES ASSUME IInv, CapsInv, pc \in {"entries", "vet"}, NEW id \in Live
               PROVE  rows[id].st = "open" \/ trade[SymbolOf(id)] # NoId
    BY DEF NothingForgotten
  <2>1. id \in Ids /\ ord[id] \in {"working", "filled"}
    BY DEF Live
  <2>2. rows[id].st # "none" /\ rows[id].st \in RowStatus
    BY <2>1 DEF CapsInv, CleanInv, Loop, IInv, RowsType, Row
  <2>3. rows[id].st = "open" \/ rows[id].logged
    BY <2>1, <2>2 DEF CapsInv, MissInv, ProofInv, RowStatus
  <2> QED
    BY <2>1, <2>3 DEF CapsInv, TradeInv
<1> QED
  BY <1>1, Invariance, CapsInvariance, PTL
=============================================================================
