------------------------- MODULE ResearchNightProofs -------------------------
(***************************************************************************)
(* Proofs about FactoryCycle and about ResearchNight, which runs it: for   *)
(* every set of slots, every budget and any number of faults, evidence is  *)
(* used once, a finished hypothesis is gone for good and a retired one was *)
(* replaced; and a night reported as one without an edge was observed.     *)
(*                                                                         *)
(* The claims of two cycles are disjoint because the ledger refuses any    *)
(* other claim; what has to be proved is that a cycle holds the claims of  *)
(* all it judges.  A refused claim of the held-out sessions leaves the     *)
(* account, so that a proof rests on more: at the time of a proof nothing  *)
(* can refuse it.  IInv says so: what a task holds out meets no claim of   *)
(* another cycle (OpenInv), the one qualification claim of this cycle is   *)
(* of the same task's sealed window (TargetInv), and no row bears the      *)
(* number of a cycle that has just begun (EarlyInv).                       *)
(***************************************************************************)
EXTENDS ResearchNight, WellFoundedInduction, TLAPS

-----------------------------------------------------------------------------
\* The inductive invariant.

Pcs == {"idle", "slots", "revive", "schedule", "evaluate", "claim", "release", "persist",
        "account", "close", "candidate", "proof", "promote", "retire"}
Early == {"slots", "revive", "schedule", "evaluate", "claim"}
AtVariant == {"close", "candidate", "proof", "promote"}
AtResult == AtVariant \cup {"account", "retire"}

Sessions == 1 .. LastSession
Specs == {"", "seed", "near", "family1", "family2"}
HypothesisRow ==
  [status : Statuses, spec : Specs, notBefore : 0 .. LastSession,
   parent : {None} \cup Hypotheses, rotated : BOOLEAN, reseeded : BOOLEAN]
CandidateStatuses == {"none", "candidate", "backtest_passed", "shadow", "validated", "demoted"}
AccountRow == [n : Nat, h : Hypotheses, v : Variants, verdict : Verdicts]
ClaimRow ==
  [n : Nat, h : Hypotheses, v : Variants, kind : {"heldout", "qualification"},
   sessions : SUBSET Sessions]
RunRow ==
  [n : Nat, h : Hypotheses, v : Variants, lane : {"shadow", "backtest"},
   fit : SUBSET Sessions, held : SUBSET Sessions, sealed : SUBSET Sessions, passes : BOOLEAN]

\* TypeOK, a conjunct for each part of the state.
LedgerType ==
  /\ last \in 0 .. LastSession /\ faults \in 0 .. MaxFaults
  /\ hyp \in [Hypotheses -> HypothesisRow]
  /\ candidate \in [Hypotheses -> [Variants -> CandidateStatuses]]
  /\ closed \subseteq Hypotheses \X Variants
  /\ accounts \subseteq AccountRow /\ claims \subseteq ClaimRow /\ runs \subseteq RunRow
  /\ done \subseteq 0 .. last
  /\ released \subseteq [n : Nat, sessions : SUBSET Sessions]
  /\ ingest \in {None} \cup Hypotheses
\* No row is of a session that is still to come.
PastInv ==
  /\ \A c \in claims : c.sessions \subseteq 1 .. last
  /\ \A r \in runs : r.fit \cup r.held \cup r.sealed \subseteq 1 .. last

\* The state of a cycle.
TaskSet ==
  [h : Hypotheses, mode : {"backtest", "shadow"}, status : Active, variants : SUBSET Variants,
   phase : {"coordinate", "confirmatory"}, fit : SUBSET Sessions, held : SUBSET Sessions,
   sealed : SUBSET Sessions]
VerdictMaps == UNION {[variants -> Verdicts] : variants \in SUBSET Variants}
ResultSet == [task : TaskSet, verdict : VerdictMaps]
Target == Hypotheses \X Variants \X SUBSET Sessions
ProcSet ==
  [pc : Pcs, n : Nat, todo : SUBSET (Slots \cup Hypotheses), tasks : SUBSET TaskSet,
   results : SUBSET ResultSet, target : {None} \cup Target, work : SUBSET Variants,
   child : {None} \cup Hypotheses, mode : {"", "recenter", "scientific", "rotation"},
   rotations : Nat, lost : BOOLEAN]
ProcType ==
  /\ proc \in ProcSet
  /\ proc.pc = "idle" => proc = Idle
  /\ ingest # None => proc.pc = "idle"
  /\ \A r \in proc.results : DOMAIN r.verdict = r.task.variants
  /\ \A t \in proc.tasks : t.fit \cup t.held \cup t.sealed \subseteq 1 .. last
  /\ \A r \in proc.results : r.task.fit \cup r.task.held \cup r.task.sealed \subseteq 1 .. last
\* What is in hand at each line.
PhaseInv ==
  /\ proc.pc \in {"slots", "revive"} => proc.todo \subseteq Slots /\ proc.tasks = {}
  /\ proc.pc = "revive" => proc.child \in Hypotheses
  /\ proc.pc = "schedule" => proc.todo \subseteq Hypotheses
  /\ proc.pc \in {"slots", "revive", "schedule"} => proc.results = {}
  /\ proc.pc \notin {"schedule", "evaluate"} => proc.tasks = {}
  /\ proc.pc \in AtResult => proc.results # {} /\ proc.work \subseteq Result.task.variants
  /\ proc.pc \in AtVariant => proc.work # {}
  /\ proc.pc \in {"claim", "release"} => proc.target \in Target

\* A cycle works on one hypothesis of a slot, and each is active until it is decided.
SoleInv ==
  /\ proc.pc = "schedule" =>
       /\ \A h, k \in proc.todo : SlotOf(h) = SlotOf(k) => h = k
       /\ \A h \in proc.todo, t \in proc.tasks : SlotOf(h) # SlotOf(t.h)
  /\ \A t, u \in proc.tasks : SlotOf(t.h) = SlotOf(u.h) => t = u
  /\ \A t \in proc.tasks, r \in proc.results : SlotOf(t.h) # SlotOf(r.task.h)
  /\ \A r, q \in proc.results : SlotOf(r.task.h) = SlotOf(q.task.h) => r = q
ActiveInv ==
  /\ proc.pc = "schedule" => \A h \in proc.todo : hyp[h].status \in Active
  /\ \A t \in proc.tasks : hyp[t.h].status \in Active
  /\ \A r \in proc.results : hyp[r.task.h].status \in Active

\* No row bears the number of a cycle before it has written one.
Bounded ==
  \E b \in Nat : (\A a \in accounts : a.n <= b) /\ (\A c \in claims : c.n <= b)
EarlyInv ==
  /\ Bounded
  /\ proc.pc \in Early => \A c \in claims : c.n # proc.n
  /\ proc.pc \in Early \cup {"release"} =>
       /\ \A a \in accounts : a.n # proc.n
       /\ \A w \in released : w.n # proc.n

\* The claims of two cycles are disjoint, and what was opened or judged is claimed.
ClaimedInv ==
  /\ \A c, d \in claims : c.n # d.n => c.sessions \cap d.sessions = {}
  /\ \A w \in released :
       \E c \in claims : c.n = w.n /\ c.kind = "qualification" /\ c.sessions = w.sessions
  /\ \A w, x \in released : w.n = x.n => w = x
  /\ \A r \in runs : \A s \in Judged(r) : \E c \in claims : c.n = r.n /\ s \in c.sessions

\* What a task holds out meets neither its own sealed window nor the claim of
\* another cycle.
Open(t) ==
  /\ t.held \cap t.sealed = {}
  /\ \A c \in claims : c.n # proc.n => t.held \cap c.sessions = {}
OpenInv ==
  /\ \A t \in proc.tasks : Open(t)
  /\ \A r \in proc.results : Open(r.task)

\* One window is opened by a cycle: its selected variant's.
Windowed(r) == r.task.h = proc.target[1] /\ r.task.sealed = proc.target[3]
TargetClaimed ==
  \E c \in claims : c.n = proc.n /\ c.kind = "qualification" /\ c.sessions = proc.target[3]
TargetInv ==
  /\ proc.pc \in {"claim", "release"} =>
       \E r \in proc.results : Windowed(r) /\ proc.target[2] \in r.task.variants
  /\ proc.pc = "release" => TargetClaimed
  /\ \A c \in claims :
       proc.pc # "idle" /\ c.n = proc.n /\ c.kind = "qualification" => c.sessions = proc.target[3]
  /\ \A r \in proc.results, v \in Variants :
       v \in r.task.variants /\ r.verdict[v] \in {"passed", "failed"} =>
         Windowed(r) /\ TargetClaimed /\ proc.pc \notin Early \cup {"release"}
  /\ proc.pc \in {"close", "candidate", "proof"} /\ Qualified(V) =>
       \E c \in claims : c.n = proc.n /\ c.sessions = Result.task.held
  /\ proc.pc = "proof" => Qualified(V)

\* The accounts of this cycle are its results; a retirement names a successor.
AccountInv ==
  \A r \in proc.results, a \in accounts :
    a.n = proc.n /\ a.h = r.task.h => a.v \in r.task.variants /\ a.verdict = r.verdict[a.v]
RetireInv ==
  proc.pc = "retire" =>
    /\ proc.child \in Registered /\ Result.task.variants # {}
    /\ proc.mode = "recenter" =>
         \A v \in Result.task.variants :
           Adequate(Result.verdict[v]) /\ Result.verdict[v] # "passed"

IInv ==
  /\ LedgerType /\ PastInv /\ ProcType /\ PhaseInv /\ SoleInv /\ ActiveInv
  /\ EarlyInv /\ ClaimedInv /\ OpenInv /\ TargetInv /\ AccountInv /\ RetireInv
  /\ RetiredIsReplaced

-----------------------------------------------------------------------------
\* Lemmas about numbers and choices.

\* A set of natural numbers that is not empty has a least element.
LEMMA Least ==
  ASSUME NEW T \in SUBSET Nat, T # {}
  PROVE  \E x \in T : \A y \in T : x <= y
<1>1. PICK R : /\ IsWellFoundedOn(R, Nat)
               /\ \A x, y \in Nat : x < y => <<x, y>> \in R
  <2>1. \A x, y \in Nat : x < y => <<x, y>> \in OpToRel(<, Nat)
    BY DEF OpToRel
  <2> QED
    BY <2>1, NatLessThanWellFounded, Zenon
<1>2. PICK x \in T : \A y \in T : ~ (<<y, x>> \in R)
  <2>1. IsWellFoundedOn(R, Nat) /\ T \subseteq Nat /\ T # {}
    BY <1>1
  <2> QED
    BY <2>1, WFMin, Zenon
<1>3. \A y \in T : ~(y < x)
  BY <1>1, <1>2
<1> QED
  BY <1>3

\* A bounded one has a greatest, which is its Max.
LEMMA Greatest ==
  ASSUME NEW T \in SUBSET Nat, T # {}, NEW b \in Nat, \A x \in T : x <= b
  PROVE  Max(T) \in T /\ \A y \in T : y <= Max(T)
<1> DEFINE D == {b - x : x \in T}
<1>1. D \in SUBSET Nat /\ D # {}
  <2>1. \A x \in T : b - x \in Nat
    OBVIOUS
  <2> QED
    BY <2>1
<1>2. PICK d \in D : \A e \in D : d <= e
  BY <1>1, Least
<1>3. PICK m \in T : d = b - m
  OBVIOUS
<1>4. \A y \in T : m >= y
  <2> TAKE y \in T
  <2>1. b - y \in D
    OBVIOUS
  <2>2. b - m <= b - y
    BY <1>2, <1>3, <2>1
  <2>3. m \in Nat /\ y \in Nat
    OBVIOUS
  <2> QED
    BY <2>2, <2>3
<1>5. Max(T) \in T /\ \A y \in T : Max(T) >= y
  BY <1>4 DEF Max
<1> QED
  BY <1>5

\* A hypothesis is a slot and a generation.
LEMMA Parts ==
  ASSUME NEW h \in Hypotheses
  PROVE  /\ SlotOf(h) \in Slots /\ SlotOf(h) \in Nat /\ GenOf(h) \in Gens
         /\ GenOf(h) \in Nat /\ GenOf(h) <= MaxGen /\ h = <<SlotOf(h), GenOf(h)>>
<1>1. PICK s \in Slots, g \in 0 .. MaxGen : h = <<s, g>>
  BY DEF Hypotheses, Gens
<1>2. SlotOf(h) = s /\ GenOf(h) = g
  BY <1>1 DEF SlotOf, GenOf
<1>3. s \in Nat /\ g \in Nat /\ g <= MaxGen
  BY SlotAssumption, BudgetAssumption
<1> QED
  BY <1>1, <1>2, <1>3 DEF Gens

\* The latest of some hypotheses is one of them.
LEMMA LatestIn ==
  ASSUME NEW hs \in SUBSET Hypotheses, hs # {}
  PROVE  Latest(hs) \in hs /\ \A k \in hs : GenOf(k) <= GenOf(Latest(hs))
<1> DEFINE T == {GenOf(h) : h \in hs}
<1>1. T \in SUBSET Nat /\ T # {} /\ MaxGen \in Nat /\ \A x \in T : x <= MaxGen
  BY Parts, BudgetAssumption
<1>2. Max(T) \in T /\ \A y \in T : y <= Max(T)
  BY <1>1, Greatest
<1>3. PICK h \in hs : Max(T) = GenOf(h)
  BY <1>2
<1>4. \A k \in hs : GenOf(k) <= GenOf(h)
  BY <1>2, <1>3
<1> QED
  BY <1>4 DEF Latest

\* The first of some hypotheses, tasks or results by their slot is one of them.
LEMMA FirstHypothesis ==
  ASSUME NEW S \in SUBSET Hypotheses, S # {}
  PROVE  First(S, SlotOf) \in S
<1> DEFINE T == {SlotOf(x) : x \in S}
<1>1. T \in SUBSET Nat /\ T # {}
  BY Parts
<1>2. PICK m \in T : \A y \in T : m <= y
  BY <1>1, Least
<1>3. PICK x \in S : \A y \in S : SlotOf(x) <= SlotOf(y)
  BY <1>2
<1> QED
  BY <1>3 DEF First

\* The task a cycle evaluates next is one of its tasks.
LEMMA FirstTask ==
  ASSUME proc.tasks # {}, \A t \in proc.tasks : t.h \in Hypotheses
  PROVE  Task1 \in proc.tasks
<1> DEFINE T == {SlotOf(t.h) : t \in proc.tasks}
<1>1. T \in SUBSET Nat /\ T # {}
  BY Parts
<1>2. PICK m \in T : \A y \in T : m <= y
  BY <1>1, Least
<1>3. PICK x \in proc.tasks : \A y \in proc.tasks : SlotOf(x.h) <= SlotOf(y.h)
  BY <1>2
<1> QED
  BY <1>3 DEF Task1, First, TaskSlot

\* The result it persists next is one of its results.
LEMMA FirstResult ==
  ASSUME proc.results # {}, \A r \in proc.results : r.task.h \in Hypotheses
  PROVE  Result \in proc.results
<1> DEFINE T == {SlotOf(r.task.h) : r \in proc.results}
<1>1. T \in SUBSET Nat /\ T # {}
  BY Parts
<1>2. PICK m \in T : \A y \in T : m <= y
  BY <1>1, Least
<1>3. PICK x \in proc.results : \A y \in proc.results : SlotOf(x.task.h) <= SlotOf(y.task.h)
  BY <1>2
<1> QED
  BY <1>3 DEF Result, First, ResultSlot

\* The first slot of a list of slots.
LEMMA FirstSlot ==
  ASSUME NEW S \in SUBSET Slots, S # {}
  PROVE  Min(S) \in S
<1>1. S \in SUBSET Nat
  BY SlotAssumption
<1>2. PICK x \in S : \A y \in S : x <= y
  BY <1>1, Least
<1> QED
  BY <1>2 DEF Min

\* The next generation of a slot is beyond every one it has.
LEMMA NextIsFree ==
  ASSUME NEW s \in Slots
  PROVE  /\ NextGen(s) \in Nat
         /\ \A h \in Registered : SlotOf(h) = s => GenOf(h) < NextGen(s)
         /\ <<s, NextGen(s)>> \notin Registered
         /\ NextGen(s) <= MaxGen => <<s, NextGen(s)>> \in Hypotheses
<1>1. InSlot(s) \in SUBSET Hypotheses /\ InSlot(s) = {h \in Registered : SlotOf(h) = s}
  BY DEF InSlot, Registered
<1>2. Registered \subseteq Hypotheses
  BY DEF Registered
<1>3. NextGen(s) \in Nat /\ \A h \in InSlot(s) : GenOf(h) < NextGen(s)
  <2>1. CASE InSlot(s) = {}
    BY <2>1 DEF NextGen
  <2>2. CASE InSlot(s) # {}
    <3>1. /\ Latest(InSlot(s)) \in InSlot(s)
          /\ \A k \in InSlot(s) : GenOf(k) <= GenOf(Latest(InSlot(s)))
      BY <1>1, <2>2, LatestIn
    <3>2. \A k \in InSlot(s) : GenOf(k) \in Nat
      BY <1>1, Parts
    <3>3. NextGen(s) = GenOf(Latest(InSlot(s))) + 1
      BY <2>2 DEF NextGen
    <3> QED
      BY <3>1, <3>2, <3>3
  <2> QED
    BY <2>1, <2>2
<1>4. <<s, NextGen(s)>> \notin Registered
  <2> SUFFICES ASSUME <<s, NextGen(s)>> \in Registered PROVE FALSE
    OBVIOUS
  <2>1. SlotOf(<<s, NextGen(s)>>) = s /\ GenOf(<<s, NextGen(s)>>) = NextGen(s)
    BY DEF SlotOf, GenOf
  <2> QED
    BY <1>1, <1>3, <2>1
<1>5. NextGen(s) <= MaxGen => <<s, NextGen(s)>> \in Hypotheses
  BY <1>3, BudgetAssumption DEF Hypotheses, Gens
<1> QED
  BY <1>1, <1>3, <1>4, <1>5

\* What a task is given is taken from its sessions.
LEMMA SealedIn == ASSUME NEW S PROVE Sealed(S) \subseteq S
BY DEF Sealed
\* What fits is taken from the sessions that are split.
LEMMA FitIn == ASSUME NEW mode, NEW S PROVE Fit(mode, S) \subseteq S
BY DEF Fit

-----------------------------------------------------------------------------
\* What each step makes of the cycle's state.

\* The same cycle, with these fields.
Becomes(at, todo, tasks, results, target, work, child, mode) ==
  /\ proc' \in ProcSet
  /\ proc'.pc = at /\ proc'.n = proc.n /\ proc'.todo = todo /\ proc'.tasks = tasks
  /\ proc'.results = results /\ proc'.target = target /\ proc'.work = work
  /\ proc'.child = child /\ proc'.mode = mode
\* At another line, with the rest as it was.
Steps(at) ==
  Becomes(at, proc.todo, proc.tasks, proc.results, proc.target, proc.work, proc.child, proc.mode)
\* A hypothesis is through.
Drops ==
  Becomes("persist", proc.todo, proc.tasks, proc.results \ {Result}, proc.target, {}, None, "")

\* A cycle that does not run holds nothing.
LEMMA IdleIs ==
  /\ Idle \in ProcSet /\ Idle.pc = "idle" /\ Idle.todo = {} /\ Idle.tasks = {}
  /\ Idle.results = {} /\ Idle.work = {} /\ Idle.target = None /\ Idle.child = None
BY DEF Idle, ProcSet, Pcs

\* A jump changes only the line.
LEMMA GoesTo ==
  ASSUME proc \in ProcSet, NEW at \in Pcs, proc' = Goto(at)
  PROVE  Steps(at)
BY DEF Steps, Becomes, ProcSet, Goto

\* The pieces of the invariant that tell what the state of a cycle is.
Shape == LedgerType /\ ProcType /\ PhaseInv

\* The task, the result and the variant in hand are what their names say.
LEMMA InHand ==
  ASSUME Shape
  PROVE  /\ \A t \in proc.tasks : t \in TaskSet /\ t.h \in Hypotheses
         /\ \A r \in proc.results : r \in ResultSet /\ r.task \in TaskSet /\ r.task.h \in Hypotheses
         /\ proc.tasks # {} => Task1 \in proc.tasks
         /\ proc.results # {} =>
              /\ Result \in proc.results /\ Result.task \in TaskSet /\ H \in Hypotheses
              /\ SlotOf(H) \in Slots /\ GenOf(H) \in Nat
         /\ V \in Variants
         /\ proc.work # {} => V \in proc.work
<1>1. \A t \in proc.tasks : t \in TaskSet /\ t.h \in Hypotheses
  BY DEF Shape, ProcType, ProcSet, TaskSet
<1>2. \A r \in proc.results : r \in ResultSet /\ r.task \in TaskSet
  BY DEF Shape, ProcType, ProcSet, ResultSet
<1>3. \A r \in proc.results : r.task.h \in Hypotheses
  BY <1>2 DEF TaskSet
<1>4. proc.tasks # {} => Task1 \in proc.tasks
  BY <1>1, FirstTask
<1>5. proc.results # {} => Result \in proc.results
  BY <1>3, FirstResult
<1>6. V \in Variants /\ (proc.work # {} => V \in proc.work)
  <2>1. proc.work \subseteq Variants
    BY DEF Shape, ProcType, ProcSet
  <2> QED
    BY <2>1 DEF V, Variants
<1> QED
  BY <1>1, <1>2, <1>3, <1>4, <1>5, <1>6, Parts DEF H

\* Begin: a cycle starts with the slots to fill and with a number no row bears.
LEMMA AtBegin ==
  ASSUME Shape, Bounded, Begin
  PROVE  /\ proc' \in ProcSet /\ proc'.pc = "slots" /\ proc'.todo \subseteq Slots
         /\ proc'.tasks = {} /\ proc'.results = {} /\ proc'.work = {}
         /\ \A a \in accounts : a.n < proc'.n
         /\ \A c \in claims : c.n < proc'.n
<1> DEFINE T == {0} \cup Numbers
<1>1. PICK b \in Nat : (\A a \in accounts : a.n <= b) /\ (\A c \in claims : c.n <= b)
  BY DEF Bounded
<1>2. (\A a \in accounts : a.n \in Nat) /\ (\A c \in claims : c.n \in Nat)
  BY DEF Shape, LedgerType, AccountRow, ClaimRow
<1>3. T \in SUBSET Nat /\ T # {} /\ \A x \in T : x <= b
  BY <1>1, <1>2 DEF Numbers
<1>4. Max(T) \in Nat /\ \A y \in T : y <= Max(T)
  BY <1>3, Greatest
<1>5. (\A a \in accounts : a.n < Max(T) + 1) /\ (\A c \in claims : c.n < Max(T) + 1)
  <2>1. (\A a \in accounts : a.n \in T) /\ (\A c \in claims : c.n \in T)
    BY DEF Numbers
  <2> HIDE DEF T
  <2> QED
    BY <1>2, <1>4, <2>1
<1>6. {s \in Slots : ActiveIn(s) = {}} \subseteq Slots
  OBVIOUS
<1>7. proc' = [Idle EXCEPT !.pc = "slots", !.n = Max(T) + 1, !.todo = {s \in Slots : ActiveIn(s) = {}}]
  BY DEF Begin
<1> HIDE DEF T
<1>8. Max(T) + 1 \in Nat
  BY <1>4
<1> QED
  BY <1>5, <1>6, <1>7, <1>8 DEF Idle, ProcSet, Pcs

\* SeedSlot: a slot is skipped, or a hypothesis it never had is inserted.
LEMMA AtSeedSlot ==
  ASSUME Shape, SeedSlot
  PROVE  /\ proc.pc = "slots"
         /\ \E at \in {"slots", "revive"}, todo \in SUBSET Slots, child \in {None} \cup Hypotheses :
              /\ Becomes(at, todo, proc.tasks, proc.results, proc.target, proc.work, child, proc.mode)
              /\ at = "revive" => child \in Hypotheses
         /\ \/ UNCHANGED hyp
            \/ \E h \in Hypotheses, notBefore \in 0 .. LastSession, parent \in {None} \cup Hypotheses :
                 h \notin Registered /\ Insert(h, "seed", notBefore, parent)
<1> DEFINE s == Min(proc.todo)
           prev == IF InSlot(s) = {} THEN None ELSE Latest(InSlot(s))
<1>1. proc.pc = "slots" /\ proc.todo \subseteq Slots /\ proc.todo # {} /\ proc \in ProcSet
  BY DEF Shape, PhaseInv, ProcType, SeedSlot, At
<1>2. s \in Slots /\ s \in proc.todo
  BY <1>1, FirstSlot
<1>3. prev \in {None} \cup Hypotheses /\ (prev # None => prev \in Hypotheses)
  <2>1. InSlot(s) \in SUBSET Hypotheses
    BY DEF InSlot, Registered
  <2> QED
    BY <2>1, LatestIn
<1>4. \/ /\ proc' = [proc EXCEPT !.todo = @ \ {s}]
         /\ UNCHANGED hyp
      \/ /\ NextGen(s) <= MaxGen
         /\ Insert(<<s, NextGen(s)>>, "seed", IF prev = None THEN 0 ELSE hyp[prev].notBefore, prev)
         /\ proc' = IF prev = None THEN [proc EXCEPT !.todo = @ \ {s}]
                    ELSE [proc EXCEPT !.pc = "revive", !.child = prev]
  <2>1. NextGen(s) \in Nat /\ MaxGen \in Nat
    BY <1>2, NextIsFree, BudgetAssumption
  <2> QED
    BY <2>1 DEF SeedSlot
<1>5. (IF prev = None THEN 0 ELSE hyp[prev].notBefore) \in 0 .. LastSession
  BY <1>3, SessionAssumption DEF Shape, LedgerType, HypothesisRow
<1>6. NextGen(s) <= MaxGen => <<s, NextGen(s)>> \in Hypotheses /\ <<s, NextGen(s)>> \notin Registered
  BY <1>2, NextIsFree
<1> HIDE DEF s, prev
<1>7. proc' = [proc EXCEPT !.todo = @ \ {s}] =>
        Becomes("slots", proc.todo \ {s}, proc.tasks, proc.results, proc.target, proc.work,
                proc.child, proc.mode)
  BY <1>1 DEF Becomes, ProcSet
<1>8. prev # None /\ proc' = [proc EXCEPT !.pc = "revive", !.child = prev] =>
        Becomes("revive", proc.todo, proc.tasks, proc.results, proc.target, proc.work,
                prev, proc.mode)
  BY <1>1, <1>3 DEF Becomes, ProcSet, Pcs
<1>9. proc.child \in {None} \cup Hypotheses
  BY <1>1 DEF ProcSet
<1>10. \E at \in {"slots", "revive"}, todo \in SUBSET Slots, child \in {None} \cup Hypotheses :
              /\ Becomes(at, todo, proc.tasks, proc.results, proc.target, proc.work, child, proc.mode)
              /\ at = "revive" => child \in Hypotheses
  <2>1. CASE proc' = [proc EXCEPT !.todo = @ \ {s}]
    BY <1>1, <1>7, <1>9, <2>1
  <2>2. CASE prev # None /\ proc' = [proc EXCEPT !.pc = "revive", !.child = prev]
    BY <1>1, <1>3, <1>8, <2>2
  <2> QED
    BY <1>4, <2>1, <2>2
<1>11. \/ UNCHANGED hyp
       \/ \E h \in Hypotheses, notBefore \in 0 .. LastSession, parent \in {None} \cup Hypotheses :
            h \notin Registered /\ Insert(h, "seed", notBefore, parent)
  BY <1>3, <1>4, <1>5, <1>6
<1> QED
  BY <1>1, <1>10, <1>11

\* RecordRevive: the event of the predecessor, and on to the next slot.
LEMMA AtRevive ==
  ASSUME Shape, RecordRevive
  PROVE  /\ proc.pc = "revive" /\ proc.child \in Hypotheses
         /\ Becomes("slots", proc.todo \ {SlotOf(proc.child)}, proc.tasks, proc.results,
                    proc.target, proc.work, None, proc.mode)
BY DEF Shape, PhaseInv, ProcType, RecordRevive, At, Becomes, ProcSet, Pcs

\* SlotsDone: one active hypothesis of each slot is to be scheduled, or none.
LEMMA AtSlotsDone ==
  ASSUME Shape, SlotsDone
  PROVE  /\ proc.pc = "slots"
         /\ \/ proc' = Idle
            \/ \E todo \in SUBSET Hypotheses :
                 /\ Becomes("schedule", todo, proc.tasks, proc.results, proc.target, proc.work,
                            proc.child, proc.mode)
                 /\ \A h \in todo : hyp[h].status \in Active
                 /\ \A h, k \in todo : SlotOf(h) = SlotOf(k) => h = k
<1> DEFINE todo == {Latest(ActiveIn(s)) : s \in {q \in Slots : ActiveIn(q) # {}}}
<1>1. proc.pc = "slots" /\ proc \in ProcSet
  BY DEF Shape, ProcType, SlotsDone, At
<1>2. ASSUME NEW s \in Slots, ActiveIn(s) # {}
      PROVE  /\ Latest(ActiveIn(s)) \in Hypotheses
             /\ SlotOf(Latest(ActiveIn(s))) = s
             /\ hyp[Latest(ActiveIn(s))].status \in Active
  <2>1. ActiveIn(s) \in SUBSET Hypotheses
    BY DEF ActiveIn, InSlot, Registered
  <2>2. Latest(ActiveIn(s)) \in ActiveIn(s)
    BY <1>2, <2>1, LatestIn
  <2> QED
    BY <2>2 DEF ActiveIn, InSlot, Registered
<1>3. todo \in SUBSET Hypotheses
  BY <1>2
<1>4. \A h \in todo : hyp[h].status \in Active
  BY <1>2
<1>5. \A h, k \in todo : SlotOf(h) = SlotOf(k) => h = k
  BY <1>2
<1>6. proc' = Idle \/ proc' = [proc EXCEPT !.pc = "schedule", !.todo = todo]
  BY DEF SlotsDone
<1> HIDE DEF todo
<1>7. proc' = [proc EXCEPT !.pc = "schedule", !.todo = todo] =>
        Becomes("schedule", todo, proc.tasks, proc.results, proc.target, proc.work,
                proc.child, proc.mode)
  BY <1>1, <1>3 DEF Becomes, ProcSet, Pcs
<1> QED
  BY <1>1, <1>3, <1>4, <1>5, <1>6, <1>7

\* A task is made of sessions of the corpus that no claim has consumed, and holds out
\* none of those it seals.
LEMMA TaskIs ==
  ASSUME Shape, PastInv, NEW h \in Hypotheses, hyp[h].status \in Active, NEW variants \in SUBSET Variants
  PROVE  LET t == Task(h, variants)
         IN  /\ t \in TaskSet /\ t.h = h /\ t.status = hyp[h].status
             /\ t.fit \cup t.held \cup t.sealed \subseteq 1 .. last
             /\ t.held \cap t.sealed = {}
             /\ \A c \in claims : t.held \cap c.sessions = {}
<1> DEFINE sealed == Sealed(Selected(h))
           development == Selected(h) \ sealed
           fit == Fit(Mode(h), development)
<1>1. Selected(h) \subseteq 1 .. last /\ \A c \in claims : Selected(h) \cap c.sessions = {}
  BY DEF Selected, Consumed
<1>2. sealed \subseteq Selected(h) /\ fit \subseteq development
  BY SealedIn, FitIn
<1>3. 1 .. last \subseteq Sessions
  BY SessionAssumption DEF Shape, LedgerType, Sessions
<1>4. Mode(h) \in {"backtest", "shadow"}
  BY DEF Mode
<1>5. Task(h, variants) =
        [h |-> h, mode |-> Mode(h), status |-> hyp[h].status, variants |-> variants,
         phase |-> IF Mode(h) = "backtest" /\ variants = {"near"} THEN "coordinate"
                   ELSE "confirmatory",
         fit |-> fit, held |-> development \ fit, sealed |-> sealed]
  BY DEF Task
<1>6. /\ fit \in SUBSET Sessions /\ development \ fit \in SUBSET Sessions
      /\ sealed \in SUBSET Sessions /\ fit \cup (development \ fit) \cup sealed \subseteq 1 .. last
      /\ (development \ fit) \cap sealed = {}
      /\ \A c \in claims : (development \ fit) \cap c.sessions = {}
  BY <1>1, <1>2, <1>3
<1> HIDE DEF sealed, development, fit
<1> QED
  BY <1>4, <1>5, <1>6 DEF TaskSet

\* Schedule: a hypothesis waits, or its task is added.
LEMMA AtSchedule ==
  ASSUME Shape, PastInv, ActiveInv, Schedule
  PROVE  /\ proc.pc = "schedule"
         /\ \E h \in proc.todo :
              \/ /\ UNCHANGED hyp
                 /\ Becomes("schedule", proc.todo \ {h}, proc.tasks, proc.results, proc.target,
                            proc.work, proc.child, proc.mode)
              \/ /\ hyp' = [hyp EXCEPT ![h].status = "testing"]
                 /\ \E t \in TaskSet :
                      /\ Becomes("schedule", proc.todo \ {h}, proc.tasks \cup {t}, proc.results,
                                 proc.target, proc.work, proc.child, proc.mode)
                      /\ t.h = h
                      /\ t.fit \cup t.held \cup t.sealed \subseteq 1 .. last
                      /\ t.held \cap t.sealed = {}
                      /\ \A c \in claims : t.held \cap c.sessions = {}
<1> DEFINE h == First(proc.todo, SlotOf)
<1>1. /\ proc.pc = "schedule" /\ proc.todo # {} /\ proc.todo \in SUBSET Hypotheses
      /\ proc \in ProcSet
  BY DEF Shape, PhaseInv, ProcType, Schedule, At
<1>2. h \in proc.todo /\ h \in Hypotheses /\ hyp[h].status \in Active
  BY <1>1, FirstHypothesis DEF ActiveInv
<1>3. \A vs : vs \in (IF Mode(h) = "shadow" THEN {Eligible(h)} ELSE Pools(h)) => vs \in SUBSET Variants
  BY DEF Eligible, Pools, Variants
<1>4. \/ proc' = [proc EXCEPT !.todo = @ \ {h}] /\ UNCHANGED hyp
      \/ /\ hyp' = [hyp EXCEPT ![h].status = "testing"]
         /\ \E vs \in IF Mode(h) = "shadow" THEN {Eligible(h)} ELSE Pools(h) :
              proc' = [proc EXCEPT !.todo = @ \ {h}, !.tasks = @ \cup {Task(h, vs)}]
  BY DEF Schedule
<1> HIDE DEF h
<1>5. proc' = [proc EXCEPT !.todo = @ \ {h}] =>
        Becomes("schedule", proc.todo \ {h}, proc.tasks, proc.results, proc.target,
                proc.work, proc.child, proc.mode)
  BY <1>1 DEF Becomes, ProcSet
<1>6. ASSUME NEW t \in TaskSet, proc' = [proc EXCEPT !.todo = @ \ {h}, !.tasks = @ \cup {t}]
      PROVE  Becomes("schedule", proc.todo \ {h}, proc.tasks \cup {t}, proc.results, proc.target,
                     proc.work, proc.child, proc.mode)
  BY <1>1, <1>6 DEF Becomes, ProcSet
<1>7. CASE proc' = [proc EXCEPT !.todo = @ \ {h}] /\ UNCHANGED hyp
  BY <1>1, <1>2, <1>5, <1>7
<1>8. CASE /\ hyp' = [hyp EXCEPT ![h].status = "testing"]
           /\ \E vs \in IF Mode(h) = "shadow" THEN {Eligible(h)} ELSE Pools(h) :
                proc' = [proc EXCEPT !.todo = @ \ {h}, !.tasks = @ \cup {Task(h, vs)}]
  <2>1. PICK vs \in SUBSET Variants :
               proc' = [proc EXCEPT !.todo = @ \ {h}, !.tasks = @ \cup {Task(h, vs)}]
    BY <1>3, <1>8
  <2>2. PICK t : t = Task(h, vs)
    OBVIOUS
  <2>3. /\ t \in TaskSet /\ t.h = h
        /\ t.fit \cup t.held \cup t.sealed \subseteq 1 .. last
        /\ t.held \cap t.sealed = {}
        /\ \A c \in claims : t.held \cap c.sessions = {}
    BY <1>2, <2>2, TaskIs
  <2>4. Becomes("schedule", proc.todo \ {h}, proc.tasks \cup {t}, proc.results, proc.target,
                proc.work, proc.child, proc.mode)
    BY <1>6, <2>1, <2>2, <2>3
  <2> QED
    BY <1>1, <1>2, <1>8, <2>3, <2>4
<1> QED
  BY <1>4, <1>7, <1>8

\* ScheduleDone: the tasks are evaluated, or there are none.
LEMMA AtScheduleDone ==
  ASSUME Shape, ScheduleDone
  PROVE  proc.pc = "schedule" /\ proc.todo = {} /\ (proc' = Idle \/ Steps("evaluate"))
<1>1. proc \in ProcSet /\ "evaluate" \in Pcs
  BY DEF Shape, ProcType, Pcs
<1> QED
  BY <1>1, GoesTo DEF ScheduleDone, At

\* A verdict map is one of its own domain.
LEMMA MapIs ==
  ASSUME NEW f \in VerdictMaps
  PROVE  DOMAIN f \subseteq Variants /\ f \in [DOMAIN f -> Verdicts]
<1>1. PICK vs \in SUBSET Variants : f \in [vs -> Verdicts]
  BY DEF VerdictMaps
<1> QED
  BY <1>1

\* A map of verdicts over some variants is one of those a result may have.
LEMMA MapIn ==
  ASSUME NEW vs \in SUBSET Variants, NEW f \in [vs -> Verdicts]
  PROVE  f \in VerdictMaps
BY DEF VerdictMaps

\* Evaluate, WorkerFails and ScreenedOut: a task is done with, with a result or without
\* one; none is qualified yet.
LEMMA AtEvaluate ==
  ASSUME Shape, Evaluate \/ WorkerFails \/ ScreenedOut
  PROVE  /\ proc.pc = "evaluate" /\ Task1 \in proc.tasks /\ Task1 \in TaskSet
         /\ \/ Becomes("evaluate", proc.todo, proc.tasks \ {Task1}, proc.results, proc.target,
                       proc.work, proc.child, proc.mode)
            \/ /\ UNCHANGED hyp
               /\ \E r \in ResultSet :
                    /\ Becomes("evaluate", proc.todo, proc.tasks \ {Task1}, proc.results \cup {r},
                               proc.target, proc.work, proc.child, proc.mode)
                    /\ r.task = Task1 /\ DOMAIN r.verdict = r.task.variants
                    /\ \A v \in r.task.variants : r.verdict[v] \notin {"passed", "failed"}
<1>1. proc \in ProcSet /\ proc.pc = "evaluate" /\ Task1 \in proc.tasks /\ Task1 \in TaskSet
  BY InHand DEF Shape, ProcType, Evaluate, WorkerFails, ScreenedOut, At
<1>2. CASE WorkerFails
  <2>1. proc' = [proc EXCEPT !.tasks = @ \ {Task1}, !.lost = TRUE]
    BY <1>2 DEF WorkerFails
  <2> QED
    BY <1>1, <2>1 DEF Becomes, ProcSet
<1>3. CASE ScreenedOut
  <2>1. proc' = [proc EXCEPT !.tasks = @ \ {Task1}]
    BY <1>3 DEF ScreenedOut
  <2> QED
    BY <1>1, <2>1 DEF Becomes, ProcSet
<1>4. CASE Evaluate
  <2> DEFINE Drawn == {"blocked", "thin", "rejected", "inconclusive", "ready"}
  <2>1. PICK f \in [Task1.variants -> Drawn] :
          proc' = [proc EXCEPT !.tasks = @ \ {Task1},
                               !.results = @ \cup {[task |-> Task1, verdict |-> f]}]
    <3>1. PICK f \in [Task1.variants -> IF Task1.held = {} THEN {"thin", "blocked"} ELSE Drawn] :
            proc' = [proc EXCEPT !.tasks = @ \ {Task1},
                                 !.results = @ \cup {[task |-> Task1, verdict |-> f]}]
      BY <1>4 DEF Evaluate
    <3>2. f \in [Task1.variants -> Drawn]
      OBVIOUS
    <3> QED
      BY <3>1, <3>2
  <2>2. Task1.variants \in SUBSET Variants /\ f \in [Task1.variants -> Verdicts]
    BY <1>1 DEF TaskSet, Verdicts
  <2>3. f \in VerdictMaps
    BY <2>2, MapIn
  <2>4. PICK r : r = [task |-> Task1, verdict |-> f]
    OBVIOUS
  <2>5. r \in ResultSet /\ r.task = Task1 /\ r.verdict = f
    BY <1>1, <2>3, <2>4 DEF ResultSet
  <2>6. Becomes("evaluate", proc.todo, proc.tasks \ {Task1}, proc.results \cup {r},
                proc.target, proc.work, proc.child, proc.mode)
    BY <1>1, <2>1, <2>4, <2>5 DEF Becomes, ProcSet
  <2>7. DOMAIN r.verdict = r.task.variants
        /\ \A v \in r.task.variants : r.verdict[v] \notin {"passed", "failed"}
    BY <2>1, <2>5
  <2>8. UNCHANGED hyp
    BY <1>4 DEF Evaluate, ledger
  <2> QED
    BY <1>1, <2>5, <2>6, <2>7, <2>8
<1> QED
  BY <1>2, <1>3, <1>4

\* Select: the window of one variant of a result is to be opened, or none.
LEMMA AtSelect ==
  ASSUME Shape, Select
  PROVE  /\ proc.pc = "evaluate" /\ proc.tasks = {}
         /\ \/ Steps("persist")
            \/ \E r \in proc.results : \E v \in r.task.variants, at \in {"persist", "claim"} :
                 LET target == <<r.task.h, v, r.task.sealed>>
                 IN  /\ target \in Target
                     /\ Becomes(at, proc.todo, proc.tasks, proc.results, target, proc.work,
                                proc.child, proc.mode)
<1>1. proc \in ProcSet /\ proc.pc = "evaluate" /\ proc.tasks = {} /\ {"persist", "claim"} \subseteq Pcs
  BY DEF Shape, ProcType, Select, At, Pcs
<1>2. CASE proc' = Goto("persist")
  BY <1>1, <1>2, GoesTo
<1>3. ASSUME NEW x \in Ready,
             proc' = [proc EXCEPT !.target = <<x[1].task.h, x[2], x[1].task.sealed>>,
                                  !.pc = IF x[1].task.sealed = {} THEN "persist" ELSE "claim"]
      PROVE  \E r \in proc.results : \E v \in r.task.variants, at \in {"persist", "claim"} :
                 LET target == <<r.task.h, v, r.task.sealed>>
                 IN  /\ target \in Target
                     /\ Becomes(at, proc.todo, proc.tasks, proc.results, target, proc.work,
                                proc.child, proc.mode)
  <2>1. PICK r \in proc.results, v \in Variants : x = <<r, v>>
    BY DEF Ready
  <2>2. x[1] = r /\ x[2] = v /\ v \in r.task.variants
    BY <2>1 DEF Ready
  <2>3. r.task \in TaskSet
    BY InHand
  <2>4. PICK target : target = <<r.task.h, v, r.task.sealed>>
    OBVIOUS
  <2>5. target \in Target
    BY <2>1, <2>3, <2>4 DEF Target, TaskSet
  <2>6. PICK at \in {"persist", "claim"} : at = IF r.task.sealed = {} THEN "persist" ELSE "claim"
    OBVIOUS
  <2>7. Becomes(at, proc.todo, proc.tasks, proc.results, target, proc.work, proc.child, proc.mode)
    BY <1>1, <1>3, <2>2, <2>4, <2>5, <2>6 DEF Becomes, ProcSet
  <2> QED
    BY <2>2, <2>4, <2>5, <2>6, <2>7
<1> QED
  BY <1>1, <1>2, <1>3 DEF Select

\* ClaimQualification: the window is claimed, or it stays closed.
LEMMA AtClaim ==
  ASSUME Shape, ClaimQualification
  PROVE  /\ proc.pc = "claim"
         /\ \/ UNCHANGED claims /\ Steps("persist")
            \/ /\ Steps("release") /\ proc.target \in Target
               /\ ~Overlaps(proc.n, "qualification", proc.target[3])
               /\ \E c \in ClaimRow :
                    /\ claims' = claims \cup {c}
                    /\ c.n = proc.n /\ c.kind = "qualification" /\ c.sessions = proc.target[3]
<1>1. /\ proc \in ProcSet /\ proc.pc = "claim" /\ {"persist", "release"} \subseteq Pcs
      /\ proc.target \in Target /\ proc.n \in Nat
  BY DEF Shape, ProcType, PhaseInv, ClaimQualification, At, Pcs, ProcSet
<1>2. PICK c : c = Claim(proc.target[1], proc.target[2], "qualification", proc.target[3])
  OBVIOUS
<1>3. c \in ClaimRow /\ c.n = proc.n /\ c.kind = "qualification" /\ c.sessions = proc.target[3]
  BY <1>1, <1>2 DEF Claim, ClaimRow, Target
<1>4. \/ UNCHANGED claims /\ proc' = Goto("persist")
      \/ /\ ~Overlaps(proc.n, "qualification", proc.target[3])
         /\ claims' = claims \cup {c} /\ proc' = Goto("release")
  BY <1>2 DEF ClaimQualification
<1> QED
  BY <1>1, <1>3, <1>4, GoesTo

\* Recording a verdict changes that of one variant of one hypothesis.
LEMMA VerdictIs ==
  ASSUME NEW r \in ResultSet, DOMAIN r.verdict = r.task.variants,
         NEW h, NEW v, NEW verdict \in Verdicts
  PROVE  LET q == Verdict(r, h, v, verdict)
         IN  /\ q \in ResultSet /\ q.task = r.task /\ DOMAIN q.verdict = q.task.variants
             /\ \A u \in r.task.variants :
                  q.verdict[u] = IF r.task.h = h /\ u = v THEN verdict ELSE r.verdict[u]
<1>1. CASE r.task.h # h
  BY <1>1 DEF Verdict
<1>2. CASE r.task.h = h
  <2>1. /\ r.task \in TaskSet /\ r.verdict \in VerdictMaps
        /\ Verdict(r, h, v, verdict) = [r EXCEPT !.verdict[v] = verdict]
    BY <1>2 DEF ResultSet, Verdict
  <2>2. DOMAIN r.verdict \in SUBSET Variants /\ r.verdict \in [DOMAIN r.verdict -> Verdicts]
    BY <2>1, MapIs
  <2>3. PICK f : f = [r.verdict EXCEPT ![v] = verdict]
    OBVIOUS
  <2>4. f \in [DOMAIN r.verdict -> Verdicts] /\ DOMAIN f = DOMAIN r.verdict
        /\ \A u \in DOMAIN r.verdict : f[u] = IF u = v THEN verdict ELSE r.verdict[u]
    BY <2>2, <2>3
  <2>5. f \in VerdictMaps
    BY <2>2, <2>4, MapIn
  <2>6. Verdict(r, h, v, verdict) = [task |-> r.task, verdict |-> f]
    BY <2>1, <2>3 DEF ResultSet
  <2> QED
    BY <1>2, <2>1, <2>4, <2>5, <2>6 DEF ResultSet
<1> QED
  BY <1>1, <1>2

\* Release: the selected variant gets its verdict.
LEMMA AtRelease ==
  ASSUME Shape, Release
  PROVE  /\ proc.pc = "release" /\ proc.target \in Target
         /\ \E verdict \in {"passed", "failed"} :
              Becomes("persist", proc.todo, proc.tasks,
                      {Verdict(r, proc.target[1], proc.target[2], verdict) : r \in proc.results},
                      proc.target, proc.work, proc.child, proc.mode)
<1>1. /\ proc \in ProcSet /\ proc.pc = "release" /\ proc.target \in Target
      /\ \A r \in proc.results : r \in ResultSet /\ DOMAIN r.verdict = r.task.variants
  BY InHand DEF Shape, ProcType, PhaseInv, Release, At
<1>2. PICK verdict \in {"passed", "failed"} :
        proc' = [proc EXCEPT !.pc = "persist",
                  !.results = {Verdict(r, proc.target[1], proc.target[2], verdict) : r \in @}]
  BY DEF Release
<1>3. verdict \in Verdicts
  BY DEF Verdicts
<1>4. PICK results :
        results = {Verdict(r, proc.target[1], proc.target[2], verdict) : r \in proc.results}
  OBVIOUS
<1>5. results \in SUBSET ResultSet
  BY <1>1, <1>3, <1>4, VerdictIs
<1>6. proc' = [proc EXCEPT !.pc = "persist", !.results = results]
  BY <1>2, <1>4
<1>7. Becomes("persist", proc.todo, proc.tasks, results, proc.target, proc.work, proc.child, proc.mode)
  BY <1>1, <1>5, <1>6 DEF Becomes, ProcSet, Pcs
<1> QED
  BY <1>1, <1>4, <1>7

\* Snapshot: the status read when the task was made is written again.
LEMMA AtSnapshot ==
  ASSUME Shape, Snapshot
  PROVE  /\ proc.pc = "persist" /\ proc.results # {} /\ Result.task.status \in Active
         /\ hyp' = [hyp EXCEPT ![H].status = Result.task.status]
         /\ Becomes("account", proc.todo, proc.tasks, proc.results, proc.target,
                    Result.task.variants, proc.child, proc.mode)
<1>1. proc \in ProcSet /\ proc.pc = "persist" /\ proc.results # {} /\ Result.task \in TaskSet
  BY InHand DEF Shape, ProcType, Snapshot, At
<1>2. PICK variants : variants = Result.task.variants
  OBVIOUS
<1>3. variants \in SUBSET Variants /\ Result.task.status \in Active
  BY <1>1, <1>2 DEF TaskSet
<1>4. proc' = [proc EXCEPT !.pc = "account", !.work = variants]
  BY <1>2 DEF Snapshot
<1>5. Becomes("account", proc.todo, proc.tasks, proc.results, proc.target, variants,
              proc.child, proc.mode)
  BY <1>1, <1>3, <1>4 DEF Becomes, ProcSet, Pcs
<1> QED
  BY <1>1, <1>2, <1>3, <1>5 DEF Snapshot

\* What is in hand at a line of a variant or of a result.
LEMMA AtHand ==
  ASSUME Shape, proc.pc \in AtResult
  PROVE  /\ proc \in ProcSet /\ Result \in proc.results /\ Result.task \in TaskSet
         /\ H \in Hypotheses /\ H = Result.task.h
         /\ proc.work \subseteq Result.task.variants
         /\ V \in Variants /\ (proc.work # {} => V \in Result.task.variants)
         /\ DOMAIN Result.verdict = Result.task.variants
         /\ \A v \in Result.task.variants : VerdictOf(v) \in Verdicts
<1>1. proc.results # {} /\ proc.work \subseteq Result.task.variants /\ proc \in ProcSet
  BY DEF Shape, PhaseInv, ProcType
<1>2. Result \in proc.results /\ Result.task \in TaskSet /\ H \in Hypotheses /\ Result \in ResultSet
  BY <1>1, InHand
<1>3. DOMAIN Result.verdict = Result.task.variants
  BY <1>2 DEF Shape, ProcType
<1>4. Result.verdict \in VerdictMaps
  BY <1>2 DEF ResultSet
<1>5. \A v \in Result.task.variants : VerdictOf(v) \in Verdicts
  BY <1>3, <1>4, MapIs DEF VerdictOf
<1>6. V \in Variants /\ (proc.work # {} => V \in proc.work)
  BY InHand
<1> QED
  BY <1>1, <1>2, <1>3, <1>5, <1>6 DEF H

\* AddAccount: an account of the variant in hand, with the claim of its held-out
\* sessions unless that is refused.
LEMMA AtAccount ==
  ASSUME Shape, AddAccount
  PROVE  /\ proc.pc = "account" /\ proc.work # {} /\ Steps("close")
         /\ \E a \in AccountRow :
              /\ accounts' = accounts \cup {a}
              /\ a.n = proc.n /\ a.h = H /\ a.v = V /\ a.verdict = VerdictOf(V)
         /\ \/ /\ UNCHANGED claims
               /\ Adequate(VerdictOf(V)) => Overlaps(proc.n, "heldout", Result.task.held)
            \/ /\ ~Overlaps(proc.n, "heldout", Result.task.held)
               /\ \E c \in ClaimRow :
                    /\ claims' = claims \cup {c}
                    /\ c.n = proc.n /\ c.kind = "heldout" /\ c.sessions = Result.task.held
<1>1. proc.pc = "account" /\ proc.work # {} /\ proc \in ProcSet /\ proc.pc \in AtResult
  BY DEF Shape, ProcType, AddAccount, At, AtResult
<1>2. /\ Result.task \in TaskSet /\ H \in Hypotheses /\ V \in Variants
      /\ VerdictOf(V) \in Verdicts /\ proc.n \in Nat
  BY <1>1, AtHand DEF ProcSet
<1>3. PICK a : a = [n |-> proc.n, h |-> H, v |-> V, verdict |-> VerdictOf(V)]
  OBVIOUS
<1>4. a \in AccountRow /\ a.n = proc.n /\ a.h = H /\ a.v = V /\ a.verdict = VerdictOf(V)
  BY <1>2, <1>3 DEF AccountRow
<1>5. PICK c : c = Claim(H, V, "heldout", Result.task.held)
  OBVIOUS
<1>6. c \in ClaimRow /\ c.n = proc.n /\ c.kind = "heldout" /\ c.sessions = Result.task.held
  BY <1>2, <1>5 DEF Claim, ClaimRow, TaskSet
<1>7. accounts' = accounts \cup {a} /\ proc' = Goto("close")
  BY <1>3 DEF AddAccount
<1>8. \/ /\ Adequate(VerdictOf(V)) /\ ~Overlaps(proc.n, "heldout", Result.task.held)
         /\ claims' = claims \cup {c}
      \/ /\ ~(Adequate(VerdictOf(V)) /\ ~Overlaps(proc.n, "heldout", Result.task.held))
         /\ UNCHANGED claims
  BY <1>5 DEF AddAccount
<1>9. Steps("close")
  BY <1>1, <1>7, GoesTo DEF Pcs
<1>10. \/ /\ UNCHANGED claims
          /\ Adequate(VerdictOf(V)) => Overlaps(proc.n, "heldout", Result.task.held)
       \/ /\ ~Overlaps(proc.n, "heldout", Result.task.held)
          /\ \E d \in ClaimRow :
               /\ claims' = claims \cup {d}
               /\ d.n = proc.n /\ d.kind = "heldout" /\ d.sessions = Result.task.held
  BY <1>6, <1>8
<1> QED
  BY <1>1, <1>4, <1>7, <1>9, <1>10

\* CloseVariant: nothing but the closures changes.
LEMMA AtCloseVariant ==
  ASSUME Shape, CloseVariant
  PROVE  /\ proc.pc = "close" /\ Steps("candidate")
         /\ closed' \subseteq Hypotheses \X Variants
<1>1. proc.pc = "close" /\ proc \in ProcSet /\ proc.pc \in AtResult
  BY DEF Shape, ProcType, CloseVariant, At, AtResult, AtVariant
<1>2. H \in Hypotheses /\ V \in Variants
  BY <1>1, AtHand
<1>3. closed' = closed \/ closed' = closed \cup {<<H, V>>}
  BY DEF CloseVariant
<1>4. closed' \subseteq Hypotheses \X Variants
  BY <1>2, <1>3 DEF Shape, LedgerType
<1> QED
  BY <1>1, <1>4, GoesTo DEF CloseVariant, Pcs

\* The next variant of the same result.
LEMMA Next1 ==
  ASSUME proc \in ProcSet, proc' = [proc EXCEPT !.pc = "account", !.work = @ \ {V}]
  PROVE  Becomes("account", proc.todo, proc.tasks, proc.results, proc.target,
                 proc.work \ {V}, proc.child, proc.mode)
BY DEF Becomes, ProcSet, Pcs

\* RegisterCandidate: a qualified variant goes on to its proof, another is through.
LEMMA AtRegister ==
  ASSUME Shape, RegisterCandidate
  PROVE  /\ proc.pc = "candidate"
         /\ candidate' \in [Hypotheses -> [Variants -> CandidateStatuses]]
         /\ \/ Steps("proof") /\ Qualified(V)
            \/ Becomes("account", proc.todo, proc.tasks, proc.results, proc.target,
                       proc.work \ {V}, proc.child, proc.mode)
<1>1. proc.pc = "candidate" /\ proc \in ProcSet /\ proc.pc \in AtResult
  BY DEF Shape, ProcType, RegisterCandidate, At, AtResult, AtVariant
<1>2. H \in Hypotheses /\ V \in Variants
  BY <1>1, AtHand
<1>3. candidate' \in [Hypotheses -> [Variants -> CandidateStatuses]]
  <2>1. PICK h \in Hypotheses, v \in Variants : h = H /\ v = V
    BY <1>2
  <2>2. candidate' = [candidate EXCEPT ![h][v] = IF @ = "none" THEN "candidate" ELSE @]
    BY <2>1 DEF RegisterCandidate
  <2> QED
    BY <2>2 DEF Shape, LedgerType, CandidateStatuses
<1>4. \/ Qualified(V) /\ proc' = Goto("proof")
      \/ proc' = [proc EXCEPT !.pc = "account", !.work = @ \ {V}]
  BY DEF RegisterCandidate
<1> QED
  BY <1>1, <1>3, <1>4, GoesTo, Next1 DEF Pcs

\* AppendProof: the proof run is of the sessions of the task in hand.
LEMMA AtProof ==
  ASSUME Shape, TargetInv, AppendProof
  PROVE  /\ proc.pc = "proof" /\ Qualified(V) /\ Steps("promote")
         /\ V \in Result.task.variants
         /\ \E r \in RunRow :
              /\ runs' = runs \cup {r} /\ r.n = proc.n /\ r.fit = Result.task.fit
              /\ r.held = Result.task.held /\ r.sealed = Result.task.sealed
<1>1. /\ proc.pc = "proof" /\ proc \in ProcSet /\ proc.pc \in AtResult /\ Qualified(V)
      /\ proc.work # {}
  BY DEF Shape, ProcType, PhaseInv, TargetInv, AppendProof, At, AtResult, AtVariant
<1>2. /\ Result \in proc.results /\ Result.task \in TaskSet /\ H \in Hypotheses /\ V \in Variants
      /\ proc.n \in Nat /\ V \in Result.task.variants
  BY <1>1, AtHand DEF ProcSet
<1>3. Result.task.sealed = proc.target[3]
  BY <1>1, <1>2 DEF TargetInv, Qualified, VerdictOf, Windowed
<1>4. PICK r : r = [n |-> proc.n, h |-> H, v |-> V, lane |-> Result.task.mode,
                    fit |-> Result.task.fit, held |-> Result.task.held,
                    sealed |-> proc.target[3], passes |-> VerdictOf(V) = "passed"]
  OBVIOUS
<1>5. (VerdictOf(V) = "passed") \in BOOLEAN
  OBVIOUS
<1>6. /\ Result.task.mode \in {"shadow", "backtest"} /\ Result.task.fit \in SUBSET Sessions
      /\ Result.task.held \in SUBSET Sessions /\ Result.task.sealed \in SUBSET Sessions
  BY <1>2 DEF TaskSet
<1>7. /\ r \in RunRow /\ r.n = proc.n /\ r.fit = Result.task.fit /\ r.held = Result.task.held
      /\ r.sealed = Result.task.sealed
  BY <1>2, <1>3, <1>4, <1>5, <1>6 DEF RunRow
<1>8. runs' = runs \cup {r} /\ proc' = Goto("promote")
  BY <1>4 DEF AppendProof
<1>9. Steps("promote")
  BY <1>1, <1>8, GoesTo DEF Pcs
<1> QED
  BY <1>1, <1>2, <1>7, <1>8, <1>9

\* Promote: the variant is through.
LEMMA AtPromote ==
  ASSUME Shape, Promote
  PROVE  /\ proc.pc = "promote"
         /\ candidate' \in [Hypotheses -> [Variants -> CandidateStatuses]]
         /\ Becomes("account", proc.todo, proc.tasks, proc.results, proc.target,
                    proc.work \ {V}, proc.child, proc.mode)
<1>1. proc.pc = "promote" /\ proc \in ProcSet /\ proc.pc \in AtResult
  BY DEF Shape, ProcType, Promote, At, AtResult, AtVariant
<1>2. H \in Hypotheses /\ V \in Variants
  BY <1>1, AtHand
<1>3. candidate' \in [Hypotheses -> [Variants -> CandidateStatuses]]
  <2>1. PICK h \in Hypotheses, v \in Variants : h = H /\ v = V
    BY <1>2
  <2>2. PICK st : st = candidate[h][v]
    OBVIOUS
  <2>3. st \in CandidateStatuses
    BY <2>2 DEF Shape, LedgerType
  <2>4. Promoted(st) \in CandidateStatuses
    BY <2>3 DEF Promoted, CandidateStatuses
  <2>5. \/ candidate' = candidate
        \/ candidate' = [candidate EXCEPT ![h][v] = Promoted(candidate[h][v])]
    BY <2>1 DEF Promote
  <2>6. \/ candidate' = candidate
        \/ candidate' = [candidate EXCEPT ![h][v] = Promoted(st)]
    BY <2>2, <2>5
  <2> QED
    BY <2>4, <2>6 DEF Shape, LedgerType
<1> QED
  BY <1>1, <1>3, Next1 DEF Promote

\* NextResult leaves the result in hand out.
LEMMA Dropped ==
  ASSUME proc \in ProcSet, proc' = NextResult
  PROVE  Drops
BY DEF Drops, Becomes, ProcSet, NextResult, Pcs

\* A decision: the hypothesis gets a status and is through, or gets a successor.
Decision == DecidePassing \/ DecideOpen \/ Recenter \/ Replace \/ Rotate
Decided ==
  /\ \E status \in Active \cup {"bounded_space_exhausted"} :
       hyp' = [hyp EXCEPT ![H].status = status]
  /\ Drops
Succeeded ==
  /\ \/ UNCHANGED hyp
     \/ \E h \in Hypotheses, spec \in Specs, notBefore \in 0 .. LastSession :
          h \notin Registered /\ Insert(h, spec, notBefore, H)
  /\ \/ proc' = Idle
     \/ \E mode \in {"recenter", "scientific", "rotation"}, child \in Hypotheses :
          /\ Becomes("retire", proc.todo, proc.tasks, proc.results, proc.target, proc.work,
                     child, mode)
          /\ hyp'[child].status # "none"
          /\ Result.task.variants # {}
          /\ mode = "recenter" =>
               \A v \in Result.task.variants :
                 Adequate(Result.verdict[v]) /\ Result.verdict[v] # "passed"

\* RegisterChild: a successor of the hypothesis in hand is there, or the cycle ends.
LEMMA AtRegisterChild ==
  ASSUME Shape, proc.pc \in AtResult, NEW child \in Hypotheses, NEW spec \in Specs,
         NEW mode \in {"recenter", "scientific", "rotation"}, Result.task.variants # {},
         mode = "recenter" =>
           \A v \in Result.task.variants :
             Adequate(Result.verdict[v]) /\ Result.verdict[v] # "passed",
         RegisterChild(child, spec, mode)
  PROVE  Succeeded
<1>1. proc \in ProcSet /\ Result.task \in TaskSet /\ H \in Hypotheses
  BY AtHand
<1> DEFINE T == {0} \cup Result.task.fit \cup Result.task.held
<1>2. Max(T) \in 0 .. LastSession
  <2>1. T \in SUBSET Nat /\ T # {} /\ LastSession \in Nat /\ \A x \in T : x <= LastSession
    BY <1>1, SessionAssumption DEF TaskSet, Sessions
  <2>2. Max(T) \in T
    BY <2>1, Greatest
  <2> QED
    BY <2>1, <2>2
<1>3. IF hyp[child].status = "none" THEN Insert(child, spec, Max(T), H) ELSE UNCHANGED hyp
  BY DEF RegisterChild
<1>4. \/ proc' = Idle
      \/ proc' = [proc EXCEPT !.pc = "retire", !.child = child, !.mode = mode]
  BY DEF RegisterChild
<1> HIDE DEF T
<1>5. \/ UNCHANGED hyp
      \/ \E h \in Hypotheses, sp \in Specs, notBefore \in 0 .. LastSession :
           h \notin Registered /\ Insert(h, sp, notBefore, H)
  BY <1>2, <1>3 DEF Registered
<1>6. hyp'[child].status # "none"
  BY <1>3 DEF Insert, Shape, LedgerType
<1>7. proc' = [proc EXCEPT !.pc = "retire", !.child = child, !.mode = mode] =>
        Becomes("retire", proc.todo, proc.tasks, proc.results, proc.target, proc.work, child, mode)
  BY <1>1 DEF Becomes, ProcSet, Pcs
<1>8. \/ proc' = Idle
      \/ \E m \in {"recenter", "scientific", "rotation"}, c \in Hypotheses :
           /\ Becomes("retire", proc.todo, proc.tasks, proc.results, proc.target, proc.work, c, m)
           /\ hyp'[c].status # "none"
           /\ Result.task.variants # {}
           /\ m = "recenter" =>
                \A v \in Result.task.variants :
                  Adequate(Result.verdict[v]) /\ Result.verdict[v] # "passed"
  BY <1>4, <1>6, <1>7
<1> QED
  BY <1>5, <1>8 DEF Succeeded

\* The five decisions give the hypothesis a status or a successor.
LEMMA AtDecision ==
  ASSUME Shape, Decision
  PROVE  /\ proc.pc = "account" /\ proc.work = {}
         /\ Decided \/ Succeeded
<1>1. proc.pc = "account" /\ proc.work = {} /\ proc.pc \in AtResult
  BY DEF Decision, DecidePassing, DecideOpen, Recenter, Replace, Rotate, Deciding, At, AtResult
<1>2. /\ proc \in ProcSet /\ Result.task.status \in Active /\ H \in Hypotheses
      /\ SlotOf(H) \in Slots /\ Result.task \in TaskSet
  BY <1>1, AtHand, Parts DEF TaskSet
<1>3. ASSUME NEW status \in Active \cup {"bounded_space_exhausted"}, SetStatus(status)
      PROVE  Decided
  BY <1>2, <1>3, Dropped DEF SetStatus, Decided
<1>4. CASE DecidePassing
  BY <1>1, <1>3, <1>4 DEF DecidePassing, Active
<1>5. CASE DecideOpen
  BY <1>1, <1>2, <1>3, <1>5 DEF DecideOpen
<1>6. Local # {} => Result.task.variants # {}
  BY DEF Local
<1>7. CASE Recenter
  <2>1. CASE SetStatus(Result.task.status) \/ SetStatus("bounded_space_exhausted")
    BY <1>1, <1>2, <1>3, <2>1
  <2>2. CASE Child \in Hypotheses /\ RegisterChild(Child, "near", "recenter")
    <3>1. Recentering
      BY <1>7 DEF Recenter
    <3>2. Result.task.variants # {}
      BY <1>6, <3>1 DEF Recentering, AllAdequate
    <3>3. \A v \in Result.task.variants :
            Adequate(Result.verdict[v]) /\ Result.verdict[v] # "passed"
      BY <3>1 DEF Recentering, AllAdequate, Passing, Local, VerdictOf
    <3> QED
      BY <1>1, <2>2, <3>2, <3>3, AtRegisterChild DEF Specs
  <2> QED
    BY <1>7, <2>1, <2>2 DEF Recenter
<1>8. CASE Replace
  <2>1. Result.task.variants # {}
    BY <1>6, <1>8 DEF Replace, Negative
  <2>2. \/ Child \in Hypotheses
           /\ \E spec \in {"family1", "family2"} : RegisterChild(Child, spec, "scientific")
        \/ SetStatus("pending_llm_replacement")
    BY <1>8 DEF Replace
  <2>3. CASE SetStatus("pending_llm_replacement")
    BY <1>1, <1>3, <2>3 DEF Active
  <2>4. ASSUME NEW spec \in {"family1", "family2"}, Child \in Hypotheses,
               RegisterChild(Child, spec, "scientific")
        PROVE  Succeeded
    BY <1>1, <2>1, <2>4, AtRegisterChild DEF Specs
  <2> QED
    BY <1>1, <2>2, <2>3, <2>4
<1>9. CASE Rotate
  <2>1. Result.task.variants # {}
    BY <1>6, <1>9 DEF Rotate, Negative, Blocked
  <2>2. CASE SetStatus("pending_generation_limit")
    BY <1>1, <1>3, <2>2 DEF Active
  <2>3. CASE Rotatable /\ RegisterChild(<<SlotOf(H), NextGen(SlotOf(H))>>, "seed", "rotation")
    <3>1. <<SlotOf(H), NextGen(SlotOf(H))>> \in Hypotheses
      BY <1>2, <2>3, NextIsFree DEF Rotatable
    <3> QED
      BY <1>1, <2>1, <2>3, <3>1, AtRegisterChild DEF Specs
  <2> QED
    BY <1>9, <2>2, <2>3 DEF Rotate
<1> QED
  BY <1>1, <1>4, <1>5, <1>7, <1>8, <1>9 DEF Decision

\* Retire: with its evidence the hypothesis is retired, without it the cycle ends.
LEMMA AtRetire ==
  ASSUME Shape, Retire
  PROVE  /\ proc.pc = "retire"
         /\ \/ /\ Evidence /\ Drops
               /\ \E rotated \in BOOLEAN :
                    hyp' = [hyp EXCEPT ![H].status = "retired", ![H].rotated = rotated]
            \/ proc' = Idle /\ UNCHANGED hyp
<1>1. proc.pc = "retire" /\ proc.pc \in AtResult
  BY DEF Retire, At, AtResult
<1>2. proc \in ProcSet
  BY <1>1, AtHand
<1>3. CASE ~Evidence
  BY <1>1, <1>3 DEF Retire
<1>4. CASE Evidence
  <2>1. proc' = [NextResult EXCEPT !.rotations = @ + (IF proc.mode = "rotation" THEN 1 ELSE 0)]
    BY <1>4 DEF Retire
  <2>2. Drops
    <3>0. PICK k \in Nat : k = (IF proc.mode = "rotation" THEN 1 ELSE 0)
      OBVIOUS
    <3>1. PICK n : n = proc.rotations + k
      OBVIOUS
    <3>2. n \in Nat
      <4>1. proc.rotations \in Nat
        BY <1>2 DEF ProcSet
      <4> QED
        BY <3>1, <4>1
    <3>3. proc' = [proc EXCEPT !.pc = "persist", !.results = @ \ {Result}, !.work = {},
                              !.child = None, !.mode = "", !.rotations = n]
      BY <1>2, <2>1, <3>0, <3>1 DEF NextResult, ProcSet
    <3> QED
      BY <1>2, <3>2, <3>3 DEF Drops, Becomes, ProcSet, Pcs
  <2>3. PICK rotated \in BOOLEAN : rotated = (proc.mode = "rotation")
    OBVIOUS
  <2>4. hyp' = [hyp EXCEPT ![H].status = "retired", ![H].rotated = rotated]
    BY <1>4, <2>3 DEF Retire
  <2> QED
    BY <1>1, <1>4, <2>2, <2>4
<1> QED
  BY <1>3, <1>4

-----------------------------------------------------------------------------
\* The control of a cycle: ProcType, PhaseInv, SoleInv and ActiveInv are kept, and a
\* hypothesis that is gone stays gone.

Control == ProcType /\ PhaseInv /\ SoleInv /\ ActiveInv
\* Neither the corpus nor the ingestion moves while a cycle does.
Still == last' = last /\ ingest' = ingest

\* Over the same results the same one is in hand.
LEMMA SameResult == proc'.results = proc.results => Result' = Result
BY DEF Result, First

\* A cycle that has ended.
LEMMA ControlEnds ==
  ASSUME proc' = Idle
  PROVE  Control'
<1>1. /\ proc' \in ProcSet /\ proc'.pc = "idle" /\ proc'.todo = {} /\ proc'.tasks = {}
      /\ proc'.results = {}
  BY IdleIs
<1>2. ProcType'
  BY <1>1 DEF ProcType
<1>3. PhaseInv'
  BY <1>1 DEF PhaseInv, AtResult, AtVariant
<1>4. SoleInv' /\ ActiveInv'
  BY <1>1 DEF SoleInv, ActiveInv
<1> QED
  BY <1>2, <1>3, <1>4 DEF Control

\* Statuses that change without leaving the active set.
StaysActive == \A h \in Hypotheses : hyp[h].status \in Active => hyp'[h].status \in Active

\* A cycle on another line, over the same results.
LEMMA ControlOn ==
  ASSUME Shape, Control, Still, StaysActive, proc.tasks = {}, proc.pc # "idle",
         NEW at \in Pcs \ {"idle", "slots", "revive", "schedule"},
         NEW target, NEW work, NEW child, NEW mode,
         Becomes(at, proc.todo, proc.tasks, proc.results, target, work, child, mode),
         at \in AtResult => proc.results # {} /\ work \subseteq Result.task.variants,
         at \in AtVariant => work # {},
         at \in {"claim", "release"} => target \in Target
  PROVE  Control'
<1>1. /\ proc' \in ProcSet /\ proc'.pc = at /\ proc'.tasks = {} /\ proc'.results = proc.results
      /\ proc'.work = work /\ proc'.target = target /\ ingest' = None /\ last' = last
      /\ Result' = Result
  BY SameResult DEF Becomes, Still, Control, ProcType
<1>2. ProcType'
  BY <1>1 DEF Control, ProcType
<1>3. PhaseInv'
  BY <1>1 DEF PhaseInv
<1>4. SoleInv'
  BY <1>1 DEF Control, SoleInv
<1>5. \A r \in proc.results : r.task.h \in Hypotheses
  BY InHand
<1>6. ActiveInv'
  BY <1>1, <1>5 DEF Control, ActiveInv, StaysActive
<1> QED
  BY <1>2, <1>3, <1>4, <1>6 DEF Control

\* A cycle that has decided a hypothesis.
LEMMA ControlDrops ==
  ASSUME Shape, Control, Still, Drops, proc.pc \in AtResult,
         \A h \in Hypotheses : h # H /\ hyp[h].status \in Active => hyp'[h].status \in Active
  PROVE  Control'
<1>1. /\ proc' \in ProcSet /\ proc'.pc = "persist" /\ proc'.tasks = {}
      /\ proc'.results = proc.results \ {Result} /\ ingest' = None /\ last' = last
  BY DEF Drops, Becomes, Still, Control, ProcType, PhaseInv, AtResult, AtVariant
<1>2. ProcType'
  BY <1>1 DEF Control, ProcType
<1>3. PhaseInv'
  BY <1>1 DEF PhaseInv, AtResult, AtVariant
<1>4. SoleInv'
  BY <1>1 DEF Control, SoleInv
<1>5. ASSUME NEW r \in proc'.results PROVE hyp'[r.task.h].status \in Active
  <2>1. r \in proc.results /\ r # Result /\ Result \in proc.results /\ r.task.h \in Hypotheses
    BY <1>1, AtHand, InHand
  <2>2. r.task.h # H /\ hyp[r.task.h].status \in Active
    BY <2>1 DEF Control, SoleInv, ActiveInv, H
  <2> QED
    BY <2>1, <2>2
<1>6. ActiveInv'
  BY <1>1, <1>5 DEF ActiveInv
<1> QED
  BY <1>2, <1>3, <1>4, <1>6 DEF Control

\* A cycle that begins.
LEMMA ControlBegins ==
  ASSUME Shape, Bounded, Still, Begin
  PROVE  Control'
<1>1. /\ proc' \in ProcSet /\ proc'.pc = "slots" /\ proc'.todo \subseteq Slots
      /\ proc'.tasks = {} /\ proc'.results = {} /\ ingest' = None
  BY AtBegin DEF Still, Begin, Quiet
<1>2. ProcType'
  BY <1>1 DEF ProcType
<1>3. PhaseInv'
  BY <1>1 DEF PhaseInv, AtResult, AtVariant
<1>4. SoleInv' /\ ActiveInv'
  BY <1>1 DEF SoleInv, ActiveInv
<1> QED
  BY <1>2, <1>3, <1>4 DEF Control

\* A cycle that fills the slots and chooses a hypothesis of each.
LEMMA ControlSlots ==
  ASSUME Shape, Control, Still, proc.pc \in {"slots", "revive"},
         NEW at \in {"slots", "revive", "schedule"}, NEW todo, NEW child,
         Becomes(at, todo, proc.tasks, proc.results, proc.target, proc.work, child, proc.mode),
         at \in {"slots", "revive"} => todo \subseteq Slots,
         at = "revive" => child \in Hypotheses,
         at = "schedule" => /\ todo \subseteq Hypotheses
                            /\ \A h \in todo : hyp'[h].status \in Active
                            /\ \A h, k \in todo : SlotOf(h) = SlotOf(k) => h = k
  PROVE  Control'
<1>1. /\ proc' \in ProcSet /\ proc'.pc = at /\ proc'.tasks = {} /\ proc'.results = {}
      /\ proc'.todo = todo /\ proc'.child = child /\ ingest' = None /\ last' = last
  BY DEF Becomes, Still, Control, ProcType, PhaseInv
<1>2. ProcType'
  BY <1>1 DEF ProcType
<1>3. PhaseInv'
  BY <1>1 DEF PhaseInv, AtResult, AtVariant
<1>4. SoleInv' /\ ActiveInv'
  BY <1>1 DEF SoleInv, ActiveInv
<1> QED
  BY <1>2, <1>3, <1>4 DEF Control

\* A cycle that schedules: each hypothesis it chose has a slot of its own.
LEMMA ControlScheduled ==
  ASSUME Shape, PastInv, Control, Still, Schedule
  PROVE  Control' /\ \A h \in Hypotheses : Gone(h) => hyp'[h].status = hyp[h].status
<1>1. PICK h \in proc.todo :
              \/ /\ UNCHANGED hyp
                 /\ Becomes("schedule", proc.todo \ {h}, proc.tasks, proc.results, proc.target,
                            proc.work, proc.child, proc.mode)
              \/ /\ hyp' = [hyp EXCEPT ![h].status = "testing"]
                 /\ \E t \in TaskSet :
                      /\ Becomes("schedule", proc.todo \ {h}, proc.tasks \cup {t}, proc.results,
                                 proc.target, proc.work, proc.child, proc.mode)
                      /\ t.h = h
                      /\ t.fit \cup t.held \cup t.sealed \subseteq 1 .. last
                      /\ t.held \cap t.sealed = {}
                      /\ \A c \in claims : t.held \cap c.sessions = {}
  BY AtSchedule DEF Control
<1>2. /\ proc.pc = "schedule" /\ proc.todo \subseteq Hypotheses /\ proc.results = {}
      /\ h \in Hypotheses /\ hyp[h].status \in Active /\ hyp \in [Hypotheses -> HypothesisRow]
  BY <1>1, AtSchedule DEF Control, PhaseInv, ActiveInv, Shape, LedgerType
<1>3. StaysActive /\ \A k \in Hypotheses : Gone(k) => hyp'[k].status = hyp[k].status
  <2>1. CASE UNCHANGED hyp
    BY <2>1 DEF StaysActive
  <2>2. CASE hyp' = [hyp EXCEPT ![h].status = "testing"]
    <3>1. /\ \A k \in Hypotheses : k # h => hyp'[k] = hyp[k]
          /\ hyp'[h].status = "testing"
      BY <1>2, <2>2 DEF HypothesisRow
    <3> QED
      BY <1>2, <3>1 DEF StaysActive, Gone, Active
  <2> QED
    BY <1>1, <2>1, <2>2
<1>4. PICK tasks : /\ Becomes("schedule", proc.todo \ {h}, tasks, proc.results, proc.target,
                              proc.work, proc.child, proc.mode)
                   /\ proc.tasks \subseteq tasks
                   /\ \A t \in tasks : t \notin proc.tasks =>
                        t.h = h /\ t.fit \cup t.held \cup t.sealed \subseteq 1 .. last
                   /\ \A t, u \in tasks : t \notin proc.tasks /\ u \notin proc.tasks => t = u
  <2>1. CASE Becomes("schedule", proc.todo \ {h}, proc.tasks, proc.results, proc.target,
                     proc.work, proc.child, proc.mode)
    BY <2>1
  <2>2. ASSUME NEW t \in TaskSet, t.h = h, t.fit \cup t.held \cup t.sealed \subseteq 1 .. last,
               Becomes("schedule", proc.todo \ {h}, proc.tasks \cup {t}, proc.results,
                       proc.target, proc.work, proc.child, proc.mode)
        PROVE  \E tasks :
                 /\ Becomes("schedule", proc.todo \ {h}, tasks, proc.results, proc.target,
                            proc.work, proc.child, proc.mode)
                 /\ proc.tasks \subseteq tasks
                 /\ \A x \in tasks : x \notin proc.tasks =>
                      x.h = h /\ x.fit \cup x.held \cup x.sealed \subseteq 1 .. last
                 /\ \A x, u \in tasks : x \notin proc.tasks /\ u \notin proc.tasks => x = u
    <3>1. \A x \in proc.tasks \cup {t} : x \notin proc.tasks => x = t
      OBVIOUS
    <3>2. PICK tasks : tasks = proc.tasks \cup {t}
      OBVIOUS
    <3> QED
      BY <2>2, <3>1, <3>2
  <2> QED
    BY <1>1, <2>1, <2>2
<1>5. /\ proc' \in ProcSet /\ proc'.pc = "schedule" /\ proc'.tasks = tasks /\ proc'.results = {}
      /\ proc'.todo = proc.todo \ {h} /\ ingest' = None /\ last' = last
  BY <1>2, <1>4 DEF Becomes, Still, Control, ProcType
<1>6. ProcType'
  BY <1>4, <1>5 DEF Control, ProcType
<1>7. PhaseInv'
  BY <1>2, <1>5 DEF PhaseInv, AtResult, AtVariant
<1>8. SoleInv'
  <2>1. /\ \A k, g \in proc.todo : SlotOf(k) = SlotOf(g) => k = g
        /\ \A k \in proc.todo, t \in proc.tasks : SlotOf(k) # SlotOf(t.h)
        /\ \A t, u \in proc.tasks : SlotOf(t.h) = SlotOf(u.h) => t = u
    BY <1>2 DEF Control, SoleInv
  <2>2. \A k \in proc.todo \ {h}, t \in tasks : SlotOf(k) # SlotOf(t.h)
    BY <1>4, <2>1
  <2>3. \A t, u \in tasks : SlotOf(t.h) = SlotOf(u.h) => t = u
    BY <1>4, <2>1
  <2> QED
    BY <1>5, <2>1, <2>2, <2>3 DEF SoleInv
<1>9. ActiveInv'
  <2>1. \A t \in tasks : t.h \in Hypotheses /\ hyp[t.h].status \in Active
    BY <1>2, <1>4, InHand DEF Control, ActiveInv
  <2>2. \A k \in proc.todo : hyp[k].status \in Active
    BY <1>2 DEF Control, ActiveInv
  <2> QED
    BY <1>2, <1>3, <1>5, <2>1, <2>2 DEF ActiveInv, StaysActive
<1> QED
  BY <1>3, <1>6, <1>7, <1>8, <1>9 DEF Control

\* A cycle whose tasks are complete.
LEMMA ControlScheduleDone ==
  ASSUME Shape, Control, Still, UNCHANGED hyp, ScheduleDone
  PROVE  Control'
<1>1. CASE proc' = Idle
  BY <1>1, ControlEnds
<1>2. CASE Steps("evaluate")
  <2>1. /\ proc' \in ProcSet /\ proc'.pc = "evaluate" /\ proc'.tasks = proc.tasks
        /\ proc'.results = proc.results /\ ingest' = None /\ last' = last /\ proc.results = {}
    BY <1>2, AtScheduleDone DEF Steps, Becomes, Still, Control, ProcType, PhaseInv
  <2>2. ProcType'
    BY <2>1 DEF Control, ProcType
  <2>3. PhaseInv'
    BY <2>1 DEF PhaseInv, AtResult, AtVariant
  <2>4. SoleInv' /\ ActiveInv'
    BY <2>1 DEF Control, SoleInv, ActiveInv
  <2> QED
    BY <2>2, <2>3, <2>4 DEF Control
<1> QED
  BY <1>1, <1>2, AtScheduleDone

\* A hypothesis is taken out of the tasks; if it has a result, its status is kept.
LEMMA ControlEvaluated ==
  ASSUME Shape, Control, Still, Evaluate \/ WorkerFails \/ ScreenedOut,
         \A h \in Hypotheses : h # Task1.h => hyp'[h] = hyp[h]
  PROVE  Control'
<1>1. /\ proc.pc = "evaluate" /\ Task1 \in proc.tasks
      /\ \A t \in proc.tasks : t.h \in Hypotheses
      /\ \A r \in proc.results : r.task.h \in Hypotheses
  BY AtEvaluate, InHand
<1>2. PICK results :
        /\ Becomes("evaluate", proc.todo, proc.tasks \ {Task1}, results, proc.target,
                   proc.work, proc.child, proc.mode)
        /\ proc.results \subseteq results
        /\ \A r \in results : r \notin proc.results =>
             r.task = Task1 /\ DOMAIN r.verdict = r.task.variants /\ UNCHANGED hyp
        /\ \A r, q \in results : r \notin proc.results /\ q \notin proc.results => r = q
  <2>1. CASE Becomes("evaluate", proc.todo, proc.tasks \ {Task1}, proc.results, proc.target,
                     proc.work, proc.child, proc.mode)
    BY <2>1
  <2>2. ASSUME NEW r \in ResultSet, UNCHANGED hyp,
               Becomes("evaluate", proc.todo, proc.tasks \ {Task1}, proc.results \cup {r},
                       proc.target, proc.work, proc.child, proc.mode),
               r.task = Task1, DOMAIN r.verdict = r.task.variants
        PROVE  \E results :
                 /\ Becomes("evaluate", proc.todo, proc.tasks \ {Task1}, results, proc.target,
                            proc.work, proc.child, proc.mode)
                 /\ proc.results \subseteq results
                 /\ \A x \in results : x \notin proc.results =>
                      x.task = Task1 /\ DOMAIN x.verdict = x.task.variants /\ UNCHANGED hyp
                 /\ \A x, q \in results : x \notin proc.results /\ q \notin proc.results => x = q
    <3>1. \A x \in proc.results \cup {r} : x \notin proc.results => x = r
      OBVIOUS
    <3>2. PICK results : results = proc.results \cup {r}
      OBVIOUS
    <3> QED
      BY <2>2, <3>1, <3>2
  <2> QED
    BY <2>1, <2>2, AtEvaluate
<1>3. /\ proc' \in ProcSet /\ proc'.pc = "evaluate" /\ proc'.tasks = proc.tasks \ {Task1}
      /\ proc'.results = results /\ ingest' = None /\ last' = last
  BY <1>1, <1>2 DEF Becomes, Still, Control, ProcType
<1>4. ProcType'
  BY <1>1, <1>2, <1>3 DEF Control, ProcType
<1>5. PhaseInv'
  BY <1>3 DEF PhaseInv, AtResult, AtVariant
<1>6. SoleInv'
  <2>1. /\ \A t, u \in proc.tasks : SlotOf(t.h) = SlotOf(u.h) => t = u
        /\ \A t \in proc.tasks, r \in proc.results : SlotOf(t.h) # SlotOf(r.task.h)
        /\ \A r, q \in proc.results : SlotOf(r.task.h) = SlotOf(q.task.h) => r = q
    BY DEF Control, SoleInv
  <2>2. \A t \in proc.tasks \ {Task1}, r \in results : SlotOf(t.h) # SlotOf(r.task.h)
    BY <1>1, <1>2, <2>1
  <2>3. \A r, q \in results : SlotOf(r.task.h) = SlotOf(q.task.h) => r = q
    BY <1>1, <1>2, <2>1
  <2> QED
    BY <1>3, <2>1, <2>2, <2>3 DEF SoleInv
<1>7. ActiveInv'
  <2>1. \A t \in proc.tasks \ {Task1} : hyp'[t.h].status \in Active
    <3> TAKE t \in proc.tasks \ {Task1}
    <3>1. t.h # Task1.h /\ hyp[t.h].status \in Active
      BY <1>1 DEF Control, SoleInv, ActiveInv
    <3> QED
      BY <1>1, <3>1
  <2>2. \A r \in results : hyp'[r.task.h].status \in Active
    <3> TAKE r \in results
    <3>1. CASE r \in proc.results
      <4>1. r.task.h # Task1.h /\ hyp[r.task.h].status \in Active
        BY <1>1, <3>1 DEF Control, SoleInv, ActiveInv
      <4> QED
        BY <1>1, <3>1, <4>1
    <3>2. CASE r \notin proc.results
      BY <1>1, <1>2, <3>2 DEF Control, ActiveInv
    <3> QED
      BY <3>1, <3>2
  <2> QED
    BY <1>3, <2>1, <2>2 DEF ActiveInv
<1> QED
  BY <1>4, <1>5, <1>6, <1>7 DEF Control

\* A cycle that opened its window: the results are of the same tasks.
LEMMA ControlReleased ==
  ASSUME Shape, Control, Still, UNCHANGED hyp, Release
  PROVE  Control'
<1>1. /\ proc.pc = "release" /\ proc.tasks = {}
      /\ \A r \in proc.results : r \in ResultSet /\ DOMAIN r.verdict = r.task.variants
  BY AtRelease, InHand DEF Control, PhaseInv, ProcType
<1>2. PICK verdict \in {"passed", "failed"} :
              Becomes("persist", proc.todo, proc.tasks,
                      {Verdict(r, proc.target[1], proc.target[2], verdict) : r \in proc.results},
                      proc.target, proc.work, proc.child, proc.mode)
  BY AtRelease
<1>3. verdict \in Verdicts
  BY DEF Verdicts
<1>4. /\ proc' \in ProcSet /\ proc'.pc = "persist" /\ proc'.tasks = {}
      /\ ingest' = None /\ last' = last
      /\ \A q \in proc'.results : \E r \in proc.results :
           q = Verdict(r, proc.target[1], proc.target[2], verdict)
  BY <1>1, <1>2 DEF Becomes, Still, Control, ProcType
<1>5. \A q \in proc'.results : \E r \in proc.results :
           /\ q = Verdict(r, proc.target[1], proc.target[2], verdict)
           /\ q.task = r.task /\ DOMAIN q.verdict = q.task.variants
  BY <1>1, <1>3, <1>4, VerdictIs
<1>6. ProcType'
  BY <1>4, <1>5 DEF Control, ProcType
<1>7. PhaseInv'
  BY <1>4 DEF PhaseInv, AtResult, AtVariant
<1>8. SoleInv'
  BY <1>4, <1>5 DEF Control, SoleInv
<1>9. ActiveInv'
  BY <1>4, <1>5 DEF Control, ActiveInv
<1> QED
  BY <1>6, <1>7, <1>8, <1>9 DEF Control

\* A step of the night that is none of the factory: it may take the process with it.
Interrupted ==
  /\ UNCHANGED <<last, hyp, candidate, closed, accounts, claims, runs, done, released>>
  /\ faults' \in 0 .. MaxFaults
  /\ UNCHANGED <<proc, ingest>> \/ (proc' = Idle /\ ingest' = None)
Step == Next \/ Interrupted

\* Steps that leave the process as idle as it was.
Around ==
  \/ NewSession \/ IngestMarks
  \/ \E h \in Hypotheses, v \in Variants : IngestPromotes(h, v) \/ Demote(h, v)

\* No cycle runs when the corpus grows or a candidate is promoted or demoted.
LEMMA AroundIsIdle ==
  ASSUME Shape, Around
  PROVE  proc.pc = "idle" /\ proc = Idle /\ proc' = Idle
BY DEF Shape, ProcType, Around, NewSession, IngestMarks, IngestPromotes, Demote, Quiet, At

\* What became of the hypotheses in a step.
Finishes == {"validated", "retired", "bounded_space_exhausted"}
KeepsGone == \A h \in Hypotheses : hyp[h].status \in Finishes => hyp'[h].status \in Finishes

\* A status is set, and the rest of the hypotheses is as it was.
LEMMA StatusSet ==
  ASSUME Shape, NEW h \in Hypotheses, NEW status,
         hyp' = [hyp EXCEPT ![h].status = status]
  PROVE  /\ \A k \in Hypotheses : k # h => hyp'[k] = hyp[k]
         /\ hyp'[h].status = status /\ hyp'[h].parent = hyp[h].parent
         /\ hyp[h].status \notin Finishes \/ status \in Finishes => KeepsGone
         /\ hyp[h].status \in Active /\ status \in Active => StaysActive
         /\ status \in Statuses => hyp' \in [Hypotheses -> HypothesisRow]
<1>1. hyp \in [Hypotheses -> HypothesisRow]
  BY DEF Shape, LedgerType
<1>2. (\A k \in Hypotheses : k # h => hyp'[k] = hyp[k])
      /\ hyp'[h].status = status /\ hyp'[h].parent = hyp[h].parent
  BY <1>1 DEF HypothesisRow
<1>3. status \in Statuses => hyp' \in [Hypotheses -> HypothesisRow]
  BY <1>1 DEF HypothesisRow
<1> QED
  BY <1>2, <1>3 DEF KeepsGone, StaysActive

\* A hypothesis is inserted, and the rest is as it was.
LEMMA Inserted ==
  ASSUME Shape, NEW h \in Hypotheses, h \notin Registered, NEW spec \in Specs,
         NEW notBefore \in 0 .. LastSession, NEW parent \in {None} \cup Hypotheses,
         Insert(h, spec, notBefore, parent)
  PROVE  /\ \A k \in Hypotheses : k # h => hyp'[k] = hyp[k]
         /\ hyp[h].status = "none" /\ hyp'[h].status = "queued" /\ hyp'[h].parent = parent
         /\ KeepsGone /\ StaysActive
         /\ hyp' \in [Hypotheses -> HypothesisRow]
<1>1. hyp \in [Hypotheses -> HypothesisRow] /\ hyp[h].status = "none"
  BY DEF Shape, LedgerType, Registered
<1>2. PICK row : row = [status |-> "queued", spec |-> spec, notBefore |-> notBefore,
                        parent |-> parent, rotated |-> FALSE, reseeded |-> FALSE]
  OBVIOUS
<1>3. row \in HypothesisRow /\ row.status = "queued" /\ row.parent = parent
  BY <1>2 DEF HypothesisRow, Statuses, Active
<1>4. hyp' = [hyp EXCEPT ![h] = row]
  BY <1>2 DEF Insert
<1>5. (\A k \in Hypotheses : k # h => hyp'[k] = hyp[k]) /\ hyp'[h] = row
      /\ hyp' \in [Hypotheses -> HypothesisRow]
  BY <1>1, <1>3, <1>4
<1> QED
  BY <1>1, <1>3, <1>5 DEF KeepsGone, StaysActive, Finishes, Active

\* The active statuses and the final ones are disjoint.
LEMMA ActiveIsNotGone == ASSUME NEW x \in Active PROVE x \notin Finishes /\ x \in Statuses
BY DEF Active, Finishes, Statuses

\* How each step treats the hypotheses.
HypKeeps ==
  /\ KeepsGone
  /\ hyp' \in [Hypotheses -> HypothesisRow]
  /\ \A h \in Hypotheses : hyp[h].status # "none" => /\ hyp'[h].status # "none"
                                                     /\ hyp'[h].parent = hyp[h].parent

\* Steps that leave the hypotheses alone keep them,
LEMMA HypSame ==
  ASSUME Shape, UNCHANGED hyp
  PROVE  HypKeeps /\ StaysActive
BY DEF Shape, LedgerType, HypKeeps, KeepsGone, StaysActive

\* and so do a status that does not revive a finished one
LEMMA HypSet ==
  ASSUME Shape, NEW h \in Hypotheses, NEW status \in Statuses \ {"none"},
         hyp[h].status \notin Finishes \/ status \in Finishes,
         hyp' = [hyp EXCEPT ![h].status = status]
  PROVE  HypKeeps
<1>1. /\ \A k \in Hypotheses : k # h => hyp'[k] = hyp[k]
      /\ hyp'[h].status = status /\ hyp'[h].parent = hyp[h].parent
      /\ KeepsGone /\ hyp' \in [Hypotheses -> HypothesisRow]
  BY StatusSet
<1> QED
  BY <1>1 DEF HypKeeps

\* and the insertion of a new one.
LEMMA HypInserted ==
  ASSUME Shape, NEW h \in Hypotheses, h \notin Registered, NEW spec \in Specs,
         NEW notBefore \in 0 .. LastSession, NEW parent \in {None} \cup Hypotheses,
         Insert(h, spec, notBefore, parent)
  PROVE  HypKeeps /\ StaysActive
BY Inserted DEF HypKeeps

\* Every step of a cycle and every other keeps the control and the hypotheses.
LEMMA ControlStep ==
  ASSUME Shape, PastInv, Control, Bounded, Step
  PROVE  Control' /\ HypKeeps
<1> USE DEF Shape
<1>1. hyp \in [Hypotheses -> HypothesisRow] /\ proc \in ProcSet
  BY DEF LedgerType, ProcType
<1>2. CASE Interrupted
  <2>1. HypKeeps
    BY <1>2, HypSame DEF Interrupted
  <2>2. CASE proc' = Idle
    BY <2>1, <2>2, ControlEnds
  <2>3. CASE UNCHANGED <<proc, ingest>>
    <3>1. Result' = Result
      BY <2>3, SameResult
    <3>2. Control'
      BY <1>2, <2>3, <3>1 DEF Interrupted, Control, ProcType, PhaseInv, SoleInv, ActiveInv
    <3> QED
      BY <2>1, <3>2
  <2> QED
    BY <1>2, <2>2, <2>3 DEF Interrupted
<1>3. CASE Around
  <2>1. Control'
    BY <1>3, AroundIsIdle, ControlEnds
  <2>2. CASE IngestMarks
    <3>1. ingest \in Hypotheses /\ hyp' = [hyp EXCEPT ![ingest].status = "validated"]
      BY <2>2 DEF IngestMarks, LedgerType
    <3> QED
      BY <2>1, <3>1, HypSet DEF Finishes, Statuses
  <2>3. CASE ~IngestMarks
    <3>1. UNCHANGED hyp
      BY <1>3, <2>3 DEF Around, NewSession, IngestPromotes, Demote, ledger
    <3> QED
      BY <2>1, <3>1, HypSame
  <2> QED
    BY <2>2, <2>3
<1>4. CASE Crash
  BY <1>4, ControlEnds, HypSame DEF Crash, ledger
<1>5. CASE Begin
  <2>1. Still /\ UNCHANGED hyp
    BY <1>5 DEF Begin, Still, ledger
  <2> QED
    BY <1>5, <2>1, ControlBegins, HypSame
<1>6. CASE SeedSlot
  <2>1. Still
    BY <1>6 DEF SeedSlot, Still
  <2>2. proc.pc = "slots"
    BY <1>6, AtSeedSlot
  <2>3. Control'
    <3>1. PICK at \in {"slots", "revive"}, todo \in SUBSET Slots, child \in {None} \cup Hypotheses :
              /\ Becomes(at, todo, proc.tasks, proc.results, proc.target, proc.work, child, proc.mode)
              /\ at = "revive" => child \in Hypotheses
      BY <1>6, AtSeedSlot
    <3> QED
      BY <2>1, <2>2, <3>1, ControlSlots
  <2>4. HypKeeps
    BY <1>6, AtSeedSlot, HypSame, HypInserted DEF Specs
  <2> QED
    BY <2>3, <2>4
<1>7. CASE RecordRevive
  <2>1. Still
    BY <1>7 DEF RecordRevive, Still
  <2>2. /\ proc.pc = "revive" /\ proc.child \in Hypotheses
        /\ Becomes("slots", proc.todo \ {SlotOf(proc.child)}, proc.tasks, proc.results,
                   proc.target, proc.work, None, proc.mode)
    BY <1>7, AtRevive
  <2>3. proc.todo \ {SlotOf(proc.child)} \subseteq Slots
    BY <2>2 DEF PhaseInv
  <2>4. Control'
    BY <2>1, <2>2, <2>3, ControlSlots
  <2>5. HypKeeps
    <3>1. PICK h \in Hypotheses, reseeded \in BOOLEAN :
            h = proc.child /\ reseeded = (hyp[proc.child].status = "validated")
      BY <2>2
    <3>2. hyp' = [hyp EXCEPT ![h].reseeded = reseeded]
      BY <1>7, <3>1 DEF RecordRevive
    <3>3. /\ \A k \in Hypotheses : k # h => hyp'[k] = hyp[k]
          /\ hyp'[h].status = hyp[h].status /\ hyp'[h].parent = hyp[h].parent
          /\ hyp' \in [Hypotheses -> HypothesisRow]
      BY <1>1, <3>2 DEF HypothesisRow
    <3> QED
      BY <3>3 DEF HypKeeps, KeepsGone
  <2> QED
    BY <2>4, <2>5
<1>8. CASE SlotsDone
  <2>1. Still /\ UNCHANGED hyp
    BY <1>8 DEF SlotsDone, Still, ledger
  <2>2. CASE proc' = Idle
    BY <2>1, <2>2, ControlEnds, HypSame
  <2>3. ASSUME NEW todo \in SUBSET Hypotheses,
               Becomes("schedule", todo, proc.tasks, proc.results, proc.target, proc.work,
                       proc.child, proc.mode),
               \A h \in todo : hyp[h].status \in Active,
               \A h, k \in todo : SlotOf(h) = SlotOf(k) => h = k
        PROVE  Control'
    <3>1. proc.pc = "slots" /\ \A h \in todo : hyp'[h].status \in Active
      BY <1>8, <2>1, <2>3, AtSlotsDone
    <3> QED
      BY <2>1, <2>3, <3>1, ControlSlots
  <2> QED
    BY <1>8, <2>1, <2>2, <2>3, AtSlotsDone, HypSame
<1>9. CASE Schedule
  <2>1. Still
    BY <1>9 DEF Schedule, Still
  <2>2. Control'
    BY <1>9, <2>1, ControlScheduled
  <2>3. HypKeeps
    <3>1. proc.todo \subseteq Hypotheses /\ \A h \in proc.todo : hyp[h].status \in Active
      BY <1>9, AtSchedule DEF Control, PhaseInv, ActiveInv
    <3>2. UNCHANGED hyp \/ \E h \in proc.todo : hyp' = [hyp EXCEPT ![h].status = "testing"]
      BY <1>9, AtSchedule DEF Control
    <3> QED
      BY <3>1, <3>2, HypSame, HypSet, ActiveIsNotGone DEF Statuses, Active
  <2> QED
    BY <2>2, <2>3
<1>10. CASE ScheduleDone
  <2>1. Still /\ UNCHANGED hyp
    BY <1>10 DEF ScheduleDone, Still, ledger
  <2> QED
    BY <1>10, <2>1, ControlScheduleDone, HypSame
<1>11. CASE Evaluate \/ WorkerFails \/ ScreenedOut
  <2>1. Still
    BY <1>11 DEF Evaluate, WorkerFails, ScreenedOut, Still, ledger
  <2>2. Task1 \in proc.tasks /\ Task1.h \in Hypotheses /\ hyp[Task1.h].status \in Active
    BY <1>11, AtEvaluate, InHand DEF Control, ActiveInv
  <2>3. \/ UNCHANGED hyp
        \/ \E status \in Active \cup {"bounded_space_exhausted"} :
             hyp' = [hyp EXCEPT ![Task1.h].status = status]
    BY <1>11 DEF Evaluate, WorkerFails, ScreenedOut, ledger, Active
  <2>4. HypKeeps
    BY <2>2, <2>3, HypSame, HypSet, ActiveIsNotGone DEF Statuses, Active
  <2>5. \A h \in Hypotheses : h # Task1.h => hyp'[h] = hyp[h]
    BY <2>2, <2>3, StatusSet
  <2> QED
    BY <1>11, <2>1, <2>4, <2>5, ControlEvaluated
<1>12. CASE Select
  <2>1. Still /\ UNCHANGED hyp /\ HypKeeps /\ StaysActive
    BY <1>12, HypSame DEF Select, Still, ledger
  <2>2. proc.pc = "evaluate" /\ proc.tasks = {}
    BY <1>12, AtSelect
  <2>3. CASE Steps("persist")
    BY <2>1, <2>2, <2>3, ControlOn DEF Steps, AtResult, AtVariant, Pcs
  <2>4. ASSUME NEW at \in {"persist", "claim"}, NEW target \in Target,
               Becomes(at, proc.todo, proc.tasks, proc.results, target, proc.work,
                       proc.child, proc.mode)
        PROVE  Control'
    BY <2>1, <2>2, <2>4, ControlOn DEF AtResult, AtVariant, Pcs
  <2> QED
    BY <1>12, <2>1, <2>3, <2>4, AtSelect
<1>13. CASE ClaimQualification
  <2>1. Still /\ UNCHANGED hyp /\ HypKeeps /\ StaysActive
    BY <1>13, HypSame DEF ClaimQualification, Still
  <2>2. proc.pc = "claim" /\ proc.tasks = {}
    BY <1>13, AtClaim DEF PhaseInv
  <2> QED
    BY <1>13, <2>1, <2>2, AtClaim, ControlOn DEF Steps, AtResult, AtVariant, Pcs
<1>14. CASE Release
  <2>1. Still /\ UNCHANGED hyp
    BY <1>14 DEF Release, Still, ledger
  <2> QED
    BY <1>14, <2>1, ControlReleased, HypSame
<1>15. CASE Snapshot
  <2>1. Still
    BY <1>15 DEF Snapshot, Still
  <2>2. /\ proc.pc = "persist" /\ proc.tasks = {} /\ proc.results # {}
        /\ Result.task.status \in Active
        /\ hyp' = [hyp EXCEPT ![H].status = Result.task.status]
    BY <1>15, AtSnapshot DEF PhaseInv
  <2>3. H \in Hypotheses /\ hyp[H].status \in Active
    BY <2>2, InHand DEF Control, ActiveInv, H
  <2>4. HypKeeps /\ StaysActive
    BY <2>2, <2>3, HypSet, StatusSet, ActiveIsNotGone DEF Active
  <2> QED
    <3>1. Becomes("account", proc.todo, proc.tasks, proc.results, proc.target,
                  Result.task.variants, proc.child, proc.mode)
      BY <1>15, AtSnapshot
    <3>2. "account" \in Pcs \ {"idle", "slots", "revive", "schedule"}
          /\ "account" \notin AtVariant /\ "account" \notin {"claim", "release"}
      BY DEF Pcs, AtVariant
    <3>3. proc.pc # "idle"
      BY <2>2
    <3> QED
      BY <2>1, <2>2, <2>4, <3>1, <3>2, <3>3, ControlOn
<1>16. CASE AddAccount \/ CloseVariant \/ RegisterCandidate \/ AppendProof \/ Promote
  <2>1. Still /\ UNCHANGED hyp /\ HypKeeps /\ StaysActive
    BY <1>16, HypSame DEF AddAccount, CloseVariant, RegisterCandidate, AppendProof, Promote, Still
  <2>2. proc.pc \in AtResult /\ proc.tasks = {} /\ proc.results # {}
        /\ proc.work \subseteq Result.task.variants /\ proc.pc # "idle"
    BY <1>16 DEF AddAccount, CloseVariant, RegisterCandidate, AppendProof, Promote, At,
                 AtResult, AtVariant, PhaseInv
  <2>3. CASE Becomes("account", proc.todo, proc.tasks, proc.results, proc.target,
                     proc.work \ {V}, proc.child, proc.mode)
    BY <2>1, <2>2, <2>3, ControlOn DEF AtResult, AtVariant, Pcs
  <2>4. ASSUME NEW at \in {"close", "candidate", "proof", "promote"}, Steps(at), proc.work # {}
        PROVE  Control'
    BY <2>1, <2>2, <2>4, ControlOn DEF Steps, AtResult, AtVariant, Pcs
  <2>5. AddAccount => proc.work # {} /\ Steps("close")
    BY AtAccount
  <2>6. CloseVariant => Steps("candidate") /\ proc.pc = "close"
    BY AtCloseVariant
  <2>7. RegisterCandidate =>
          /\ proc.pc = "candidate"
          /\ \/ Steps("proof")
             \/ Becomes("account", proc.todo, proc.tasks, proc.results, proc.target,
                        proc.work \ {V}, proc.child, proc.mode)
    BY AtRegister
  <2>8. AppendProof => proc.pc = "proof" /\ Steps("promote")
    <3>1. ASSUME AppendProof PROVE proc.pc = "proof" /\ proc' = Goto("promote")
      BY <3>1 DEF AppendProof, At
    <3> QED
      BY <1>1, <3>1, GoesTo DEF Pcs
  <2>9. Promote => Becomes("account", proc.todo, proc.tasks, proc.results, proc.target,
                           proc.work \ {V}, proc.child, proc.mode)
    BY AtPromote
  <2>10. proc.pc \in {"close", "candidate", "proof"} => proc.work # {}
    BY DEF PhaseInv, AtVariant
  <2>11. CASE AddAccount
    BY <2>1, <2>4, <2>5, <2>11
  <2>12. CASE CloseVariant
    BY <2>1, <2>4, <2>6, <2>10, <2>12
  <2>13. CASE RegisterCandidate
    BY <2>1, <2>3, <2>4, <2>7, <2>10, <2>13
  <2>14. CASE AppendProof
    BY <2>1, <2>4, <2>8, <2>10, <2>14
  <2>15. CASE Promote
    BY <2>1, <2>3, <2>9, <2>15
  <2> QED
    BY <1>16, <2>11, <2>12, <2>13, <2>14, <2>15
<1>17. CASE Decision
  <2>1. Still
    BY <1>17 DEF Decision, DecidePassing, DecideOpen, Recenter, Replace, Rotate, SetStatus,
                 RegisterChild, Still
  <2>2. /\ proc.pc = "account" /\ proc.pc \in AtResult /\ proc.tasks = {}
        /\ Decided \/ Succeeded
    BY <1>17, AtDecision DEF AtResult, PhaseInv
  <2>3. /\ H \in Hypotheses /\ hyp[H].status \in Active
        /\ proc.work \subseteq Result.task.variants /\ proc.results # {}
    BY <2>2, AtHand DEF Control, ActiveInv
  <2>4. CASE Decided
    <3>1. PICK status \in Active \cup {"bounded_space_exhausted"} :
            hyp' = [hyp EXCEPT ![H].status = status]
      BY <2>4 DEF Decided
    <3>2. HypKeeps
      BY <2>3, <3>1, HypSet, ActiveIsNotGone DEF Active, Statuses
    <3>3. \A h \in Hypotheses : h # H => hyp'[h] = hyp[h]
      BY <2>3, <3>1, StatusSet
    <3> QED
      BY <2>1, <2>2, <2>4, <3>2, <3>3, ControlDrops DEF Decided
  <2>5. CASE Succeeded
    <3>1. HypKeeps /\ StaysActive
      BY <2>3, <2>5, HypSame, HypInserted DEF Succeeded
    <3>2. CASE proc' = Idle
      BY <3>1, <3>2, ControlEnds
    <3>3. ASSUME NEW mode, NEW child,
                 Becomes("retire", proc.todo, proc.tasks, proc.results, proc.target, proc.work,
                         child, mode)
          PROVE  Control'
      BY <2>1, <2>2, <2>3, <3>1, <3>3, ControlOn DEF AtResult, AtVariant, Pcs
    <3> QED
      BY <2>5, <3>1, <3>2, <3>3 DEF Succeeded
  <2> QED
    BY <2>2, <2>4, <2>5
<1>18. CASE Retire
  <2>1. Still
    BY <1>18 DEF Retire, Still
  <2>2. proc.pc \in AtResult
    BY <1>18, AtRetire DEF AtResult
  <2>3. H \in Hypotheses
    BY <2>2, AtHand
  <2>4. CASE proc' = Idle /\ UNCHANGED hyp
    BY <2>4, ControlEnds, HypSame
  <2>5. ASSUME NEW rotated \in BOOLEAN, Drops,
               hyp' = [hyp EXCEPT ![H].status = "retired", ![H].rotated = rotated]
        PROVE  Control' /\ HypKeeps
    <3>1. /\ \A h \in Hypotheses : h # H => hyp'[h] = hyp[h]
          /\ hyp'[H].status = "retired" /\ hyp'[H].parent = hyp[H].parent
          /\ hyp' \in [Hypotheses -> HypothesisRow]
      <4>1. PICK h \in Hypotheses : h = H
        BY <2>3
      <4>2. PICK row : row = [hyp[h] EXCEPT !.status = "retired", !.rotated = rotated]
        OBVIOUS
      <4>3. row \in HypothesisRow /\ row.status = "retired" /\ row.parent = hyp[h].parent
        <5>1. hyp[h] \in HypothesisRow
          BY <1>1
        <5> QED
          BY <4>2, <5>1 DEF HypothesisRow, Statuses
      <4>4. hyp' = [hyp EXCEPT ![h].status = "retired", ![h].rotated = rotated]
        BY <2>5, <4>1
      <4>5. hyp' = [hyp EXCEPT ![h] = row]
        BY <1>1, <4>2, <4>4 DEF HypothesisRow
      <4> QED
        BY <1>1, <4>1, <4>3, <4>5
    <3>2. HypKeeps
      BY <3>1 DEF HypKeeps, KeepsGone, Finishes
    <3> QED
      BY <2>1, <2>2, <2>5, <3>1, <3>2, ControlDrops
  <2> QED
    BY <1>18, <2>4, <2>5, AtRetire
<1>19. CASE AddCycle
  BY <1>19, ControlEnds, HypSame DEF AddCycle
<1> HIDE DEF Shape
<1> QED
  BY <1>2, <1>3, <1>4, <1>5, <1>6, <1>7, <1>8, <1>9, <1>10, <1>11, <1>12, <1>13, <1>14, <1>15,
     <1>16, <1>17, <1>18, <1>19 DEF Step, Next, Cycle, Around, Decision

-----------------------------------------------------------------------------
\* The ledger: who writes what.

\* Each part of the ledger has few writers.
LEMMA Writers ==
  ASSUME Step
  PROVE  /\ UNCHANGED last \/ NewSession
         /\ UNCHANGED accounts \/ AddAccount
         /\ UNCHANGED claims \/ AddAccount \/ ClaimQualification
         /\ UNCHANGED runs \/ AppendProof
         /\ UNCHANGED released \/ Release
         /\ UNCHANGED closed \/ CloseVariant
         /\ UNCHANGED done \/ AddCycle
         /\ \/ UNCHANGED candidate \/ RegisterCandidate \/ Promote
            \/ \E h \in Hypotheses, v \in Variants : IngestPromotes(h, v) \/ Demote(h, v)
         /\ \/ UNCHANGED ingest \/ ingest' = None
            \/ \E h \in Hypotheses, v \in Variants : IngestPromotes(h, v)
         /\ \/ UNCHANGED faults \/ faults' \in 0 .. MaxFaults
            \/ faults < MaxFaults /\ faults' = faults + 1
<1>1. CASE Interrupted
  BY <1>1 DEF Interrupted
<1>2. CASE Around \/ Crash
  BY <1>2 DEF Around, NewSession, IngestMarks, IngestPromotes, Demote, Crash, ledger
<1>3. CASE Begin \/ SeedSlot \/ RecordRevive \/ SlotsDone \/ Schedule \/ ScheduleDone
  BY <1>3 DEF Begin, SeedSlot, RecordRevive, SlotsDone, Schedule, ScheduleDone, ledger
<1>4. CASE Evaluate \/ WorkerFails \/ ScreenedOut \/ Select \/ Snapshot \/ Retire
  BY <1>4 DEF Evaluate, WorkerFails, ScreenedOut, Select, Snapshot, Retire, ledger
<1>5. CASE ClaimQualification \/ Release \/ AddAccount
  BY <1>5 DEF ClaimQualification, Release, AddAccount, ledger
<1>6. CASE CloseVariant \/ RegisterCandidate \/ AppendProof \/ Promote \/ AddCycle
  BY <1>6 DEF CloseVariant, RegisterCandidate, AppendProof, Promote, AddCycle
<1>7. CASE Decision
  BY <1>7 DEF Decision, DecidePassing, DecideOpen, Recenter, Replace, Rotate, SetStatus,
              RegisterChild
<1> QED
  BY <1>1, <1>2, <1>3, <1>4, <1>5, <1>6, <1>7 DEF Step, Next, Cycle, Around, Decision

\* Every row is typed, and none is of a session that is still to come.
LEMMA LedgerStep ==
  ASSUME Shape, PastInv, TargetInv, HypKeeps, Step
  PROVE  LedgerType' /\ PastInv'
<1>1. /\ last \in 0 .. LastSession /\ LastSession \in Nat /\ MaxFaults \in Nat
      /\ faults \in 0 .. MaxFaults /\ done \subseteq 0 .. last
      /\ accounts \subseteq AccountRow /\ claims \subseteq ClaimRow /\ runs \subseteq RunRow
      /\ closed \subseteq Hypotheses \X Variants /\ ingest \in {None} \cup Hypotheses
      /\ released \subseteq [n : Nat, sessions : SUBSET Sessions]
      /\ candidate \in [Hypotheses -> [Variants -> CandidateStatuses]]
  BY SessionAssumption, BudgetAssumption DEF Shape, LedgerType
<1>2. last' \in 0 .. LastSession /\ last <= last'
  <2>1. NewSession => last < LastSession /\ last' = last + 1
    BY DEF NewSession
  <2> QED
    BY <1>1, <2>1, Writers
<1>3. 1 .. last \subseteq 1 .. last' /\ 0 .. last \subseteq 0 .. last'
  BY <1>1, <1>2
<1>4. faults' \in 0 .. MaxFaults
  BY <1>1, Writers
<1>5. done' \subseteq 0 .. last'
  <2>1. AddCycle => done' \subseteq done \cup {last}
    BY DEF AddCycle
  <2>2. last \in 0 .. last
    BY <1>1
  <2>3. done' \subseteq 0 .. last
    BY <1>1, <2>1, <2>2, Writers
  <2> QED
    BY <1>3, <2>3
<1>6. ingest' \in {None} \cup Hypotheses
  <2>1. \A h, v : IngestPromotes(h, v) => ingest' = h
    BY DEF IngestPromotes
  <2> QED
    BY <1>1, <2>1, Writers
<1>7. closed' \subseteq Hypotheses \X Variants
  BY <1>1, Writers, AtCloseVariant
<1>8. candidate' \in [Hypotheses -> [Variants -> CandidateStatuses]]
  <2>1. ASSUME NEW h \in Hypotheses, NEW v \in Variants, IngestPromotes(h, v) \/ Demote(h, v)
        PROVE  candidate' \in [Hypotheses -> [Variants -> CandidateStatuses]]
    <3>1. PICK st \in {"validated", "demoted"} : candidate' = [candidate EXCEPT ![h][v] = st]
      BY <2>1 DEF IngestPromotes, Demote
    <3> QED
      BY <1>1, <3>1 DEF CandidateStatuses
  <2> QED
    BY <1>1, <2>1, Writers, AtRegister, AtPromote
<1>9. accounts' \subseteq AccountRow
  BY <1>1, Writers, AtAccount
<1>10. claims' \subseteq ClaimRow /\ \A c \in claims' : c.sessions \subseteq 1 .. last
  <2>1. CASE UNCHANGED claims
    BY <1>1, <2>1 DEF PastInv
  <2>2. CASE AddAccount
    <3>1. Result \in proc.results
      BY <2>2, AtAccount, AtHand DEF AtResult
    <3>2. Result.task.held \subseteq 1 .. last
      BY <3>1 DEF Shape, ProcType
    <3> QED
      BY <1>1, <2>2, <3>2, AtAccount DEF PastInv
  <2>3. CASE ClaimQualification
    <3>1. PICK r \in proc.results : r.task.sealed = proc.target[3]
      BY <2>3, AtClaim DEF TargetInv, Windowed
    <3>2. proc.target[3] \subseteq 1 .. last
      BY <3>1 DEF Shape, ProcType
    <3> QED
      BY <1>1, <2>3, <3>2, AtClaim DEF PastInv
  <2> QED
    BY <2>1, <2>2, <2>3, Writers
<1>11. runs' \subseteq RunRow /\ \A r \in runs' : r.fit \cup r.held \cup r.sealed \subseteq 1 .. last
  <2>1. CASE UNCHANGED runs
    BY <1>1, <2>1 DEF PastInv
  <2>2. CASE AppendProof
    <3>1. Result \in proc.results
      BY <2>2, AtProof, AtHand DEF AtResult, AtVariant
    <3>2. Result.task.fit \cup Result.task.held \cup Result.task.sealed \subseteq 1 .. last
      BY <3>1 DEF Shape, ProcType
    <3> QED
      BY <1>1, <2>2, <3>2, AtProof DEF PastInv
  <2> QED
    BY <2>1, <2>2, Writers
<1>12. released' \subseteq [n : Nat, sessions : SUBSET Sessions]
  <2>1. CASE Release
    <3>1. proc.target \in Target /\ proc.n \in Nat
      BY <2>1, AtRelease DEF Shape, ProcType, ProcSet
    <3>2. released' = released \cup {[n |-> proc.n, sessions |-> proc.target[3]]}
      BY <2>1 DEF Release
    <3>3. proc.target[3] \in SUBSET Sessions
      BY <3>1 DEF Target
    <3> QED
      BY <1>1, <3>1, <3>2, <3>3
  <2> QED
    BY <1>1, <2>1, Writers
<1>13. LedgerType'
  BY <1>2, <1>4, <1>5, <1>6, <1>7, <1>8, <1>9, <1>10, <1>11, <1>12 DEF LedgerType, HypKeeps
<1>14. PastInv'
  <2>1. \A c \in claims' : c.sessions \subseteq 1 .. last'
    BY <1>3, <1>10
  <2>2. \A r \in runs' : r.fit \cup r.held \cup r.sealed \subseteq 1 .. last'
    BY <1>3, <1>11
  <2> QED
    BY <2>1, <2>2 DEF PastInv
<1> QED
  BY <1>13, <1>14

-----------------------------------------------------------------------------
\* The course of a cycle, as far as its evidence is concerned.

\* A task that was just scheduled.
Fresh(t) == t.held \cap t.sealed = {} /\ \A c \in claims : t.held \cap c.sessions = {}
\* A result of the opened window.
Opened(r, q) ==
  /\ r.task = q.task
  /\ \A v \in r.task.variants :
       r.verdict[v] = q.verdict[v] \/ (q.task.h = proc.target[1] /\ v = proc.target[2])
Going ==
  /\ proc'.n = proc.n /\ proc.pc # "idle" /\ proc'.pc # "idle"
  /\ proc'.pc \in Early => proc.pc \in Early
  /\ proc'.pc = "claim" => Select
  /\ proc'.pc = "release" => ClaimQualification
  /\ proc'.pc \in {"close", "candidate", "proof"} =>
       AddAccount \/ CloseVariant \/ RegisterCandidate
  /\ proc'.pc = "retire" => Decision
  /\ proc'.target = proc.target \/ Select
  /\ \A t \in proc'.tasks : t \in proc.tasks \/ Fresh(t)
  /\ \A r \in proc'.results :
       \/ r \in proc.results
       \/ /\ proc.pc = "evaluate" /\ r.task \in proc.tasks
          /\ \A v \in r.task.variants : r.verdict[v] \notin {"passed", "failed"}
       \/ Release /\ \E q \in proc.results : Opened(r, q)

\* Another line of the same cycle, over the same tasks and results or fewer.
LEMMA GoesOn ==
  ASSUME NEW at \in Pcs \ (Early \cup {"idle"}), NEW todo, NEW tasks \in SUBSET proc.tasks,
         NEW results \in SUBSET proc.results, NEW target, NEW work, NEW child, NEW mode,
         Becomes(at, todo, tasks, results, target, work, child, mode),
         proc.pc # "idle", target = proc.target \/ Select,
         at = "release" => ClaimQualification,
         at \in {"close", "candidate", "proof"} => AddAccount \/ CloseVariant \/ RegisterCandidate,
         at = "retire" => Decision
  PROVE  Going
<1>1. /\ proc'.n = proc.n /\ proc'.pc = at /\ proc'.tasks = tasks /\ proc'.results = results
      /\ proc'.target = target
  BY DEF Becomes
<1> QED
  BY <1>1 DEF Going, Early

\* A cycle begins, goes on, is interrupted or ends.
LEMMA Course ==
  ASSUME Shape, PastInv, Control, Step
  PROVE  proc' = Idle \/ (Interrupted /\ proc' = proc) \/ Begin \/ Going
<1>1. proc \in ProcSet
  BY DEF Shape, ProcType
<1>2. CASE Interrupted \/ Around \/ Crash \/ AddCycle \/ Begin
  BY <1>2, AroundIsIdle DEF Interrupted, Crash, AddCycle
<1>3. ASSUME NEW at \in {"slots", "revive", "schedule"}, NEW todo, NEW child,
             proc.pc \in {"slots", "revive", "schedule"},
             Becomes(at, todo, proc.tasks, proc.results, proc.target, proc.work, child, proc.mode)
      PROVE  Going
  BY <1>3 DEF Becomes, Going, Early
<1>4. CASE SeedSlot
  BY <1>3, <1>4, AtSeedSlot
<1>5. CASE RecordRevive
  BY <1>3, <1>5, AtRevive
<1>6. CASE SlotsDone
  BY <1>3, <1>6, AtSlotsDone
<1>7. CASE Schedule
  <2>1. proc.pc = "schedule"
    BY <1>7, AtSchedule DEF Control
  <2>2. ASSUME NEW todo,
               Becomes("schedule", todo, proc.tasks, proc.results, proc.target,
                       proc.work, proc.child, proc.mode)
        PROVE  Going
    BY <1>3, <2>1, <2>2
  <2>3. ASSUME NEW todo, NEW t, Fresh(t),
               Becomes("schedule", todo, proc.tasks \cup {t}, proc.results, proc.target,
                       proc.work, proc.child, proc.mode)
        PROVE  Going
    <3>1. /\ proc'.n = proc.n /\ proc'.pc = "schedule" /\ proc'.tasks = proc.tasks \cup {t}
          /\ proc'.results = proc.results /\ proc'.target = proc.target
      BY <2>3 DEF Becomes
    <3> QED
      BY <2>1, <2>3, <3>1 DEF Going, Early
  <2> QED
    BY <1>7, <2>2, <2>3, AtSchedule DEF Control, Fresh
<1>8. CASE ScheduleDone
  <2>1. CASE Steps("evaluate")
    BY <1>8, <2>1, AtScheduleDone DEF Steps, Becomes, Going, Early
  <2> QED
    BY <1>8, <2>1, AtScheduleDone
<1>9. CASE Evaluate \/ WorkerFails \/ ScreenedOut
  <2>1. proc.pc = "evaluate" /\ Task1 \in proc.tasks
    BY <1>9, AtEvaluate
  <2>2. CASE Becomes("evaluate", proc.todo, proc.tasks \ {Task1}, proc.results, proc.target,
                     proc.work, proc.child, proc.mode)
    BY <2>1, <2>2 DEF Becomes, Going, Early
  <2>3. ASSUME NEW r, r.task = Task1,
               \A v \in r.task.variants : r.verdict[v] \notin {"passed", "failed"},
               Becomes("evaluate", proc.todo, proc.tasks \ {Task1}, proc.results \cup {r},
                       proc.target, proc.work, proc.child, proc.mode)
        PROVE  Going
    <3>1. /\ proc'.n = proc.n /\ proc'.pc = "evaluate" /\ proc'.tasks = proc.tasks \ {Task1}
          /\ proc'.results = proc.results \cup {r} /\ proc'.target = proc.target
      BY <2>3 DEF Becomes
    <3> QED
      BY <2>1, <2>3, <3>1 DEF Going, Early
  <2> QED
    BY <1>9, <2>2, <2>3, AtEvaluate
<1>10. CASE Select
  <2>1. proc.pc = "evaluate" /\ proc.tasks = {}
    BY <1>10, AtSelect
  <2>2. ASSUME NEW at \in {"persist", "claim"}, NEW target,
               Becomes(at, proc.todo, proc.tasks, proc.results, target, proc.work,
                       proc.child, proc.mode)
        PROVE  Going
    BY <1>10, <2>1, <2>2 DEF Becomes, Going, Early
  <2> QED
    BY <1>10, <2>2, AtSelect DEF Steps
<1>11. CASE ClaimQualification
  BY <1>11, AtClaim, GoesOn DEF Steps, Pcs, Early
<1>12. CASE Release
  <2>1. /\ proc.pc = "release"
        /\ \A r \in proc.results : r \in ResultSet /\ DOMAIN r.verdict = r.task.variants
    BY <1>12, AtRelease, InHand DEF Shape, ProcType
  <2>2. PICK verdict \in {"passed", "failed"} :
              Becomes("persist", proc.todo, proc.tasks,
                      {Verdict(r, proc.target[1], proc.target[2], verdict) : r \in proc.results},
                      proc.target, proc.work, proc.child, proc.mode)
    BY <1>12, AtRelease
  <2>3. verdict \in Verdicts
    BY DEF Verdicts
  <2>4. /\ proc'.n = proc.n /\ proc'.pc = "persist" /\ proc'.tasks = proc.tasks
        /\ proc'.target = proc.target
        /\ \A r \in proc'.results : \E q \in proc.results :
             r = Verdict(q, proc.target[1], proc.target[2], verdict)
    BY <2>2 DEF Becomes
  <2>5. \A r \in proc'.results : \E q \in proc.results : Opened(r, q)
    BY <2>1, <2>3, <2>4, VerdictIs DEF Opened
  <2> QED
    BY <1>12, <2>1, <2>4, <2>5 DEF Going, Early
<1>13. CASE Snapshot
  BY <1>13, AtSnapshot, GoesOn DEF Pcs, Early
<1>14. CASE AddAccount
  BY <1>14, AtAccount, GoesOn DEF Steps, Pcs, Early
<1>15. CASE CloseVariant
  BY <1>15, AtCloseVariant, GoesOn DEF Steps, Pcs, Early
<1>16. CASE RegisterCandidate
  BY <1>16, AtRegister, GoesOn DEF Steps, Pcs, Early
<1>17. CASE AppendProof
  <2>1. proc.pc = "proof" /\ proc' = Goto("promote")
    BY <1>17 DEF AppendProof, At
  <2>2. Steps("promote")
    BY <1>1, <2>1, GoesTo DEF Pcs
  <2> QED
    BY <2>1, <2>2, GoesOn DEF Steps, Pcs, Early
<1>18. CASE Promote
  BY <1>18, AtPromote, GoesOn DEF Pcs, Early
<1>19. ASSUME Drops, proc.pc # "idle" PROVE Going
  <2>1. proc.results \ {Result} \in SUBSET proc.results /\ proc.tasks \in SUBSET proc.tasks
        /\ "persist" \in Pcs \ (Early \cup {"idle"})
    BY DEF Pcs, Early
  <2> QED
    BY <1>19, <2>1, GoesOn DEF Drops
<1>20. CASE Decision
  <2>1. ASSUME NEW mode, NEW child,
               Becomes("retire", proc.todo, proc.tasks, proc.results, proc.target, proc.work,
                       child, mode)
        PROVE  Going
    BY <1>20, <2>1, AtDecision, GoesOn DEF Pcs, Early
  <2> QED
    BY <1>19, <1>20, <2>1, AtDecision DEF Decided, Succeeded
<1>21. CASE Retire
  BY <1>19, <1>21, AtRetire
<1> QED
  BY <1>2, <1>4, <1>5, <1>6, <1>7, <1>8, <1>9, <1>10, <1>11, <1>12, <1>13, <1>14, <1>15, <1>16,
     <1>17, <1>18, <1>20, <1>21 DEF Step, Next, Cycle, Around, Decision

-----------------------------------------------------------------------------
\* Evidence: what is claimed by whom.

Evident == EarlyInv /\ ClaimedInv /\ OpenInv /\ TargetInv
\* A claim is added by the cycle that runs, and meets no claim of another.
ClaimsGrow ==
  /\ claims \subseteq claims'
  /\ \A c \in claims' : c \notin claims =>
       /\ c.n = proc.n
       /\ c.kind = "qualification" => ClaimQualification /\ c.sessions = proc.target[3]
       /\ \A d \in claims : d.n # proc.n => c.sessions \cap d.sessions = {}
  /\ \A c, d \in claims' : c \notin claims /\ d \notin claims => c = d

\* No claim is lost, and every new one is as ClaimsGrow says.
LEMMA ClaimsAreAdded ==
  ASSUME Shape, Step
  PROVE  ClaimsGrow
<1>1. CASE UNCHANGED claims
  BY <1>1 DEF ClaimsGrow
<1>2. ASSUME NEW c, NEW kind, claims' = claims \cup {c}, c.n = proc.n,
             c.kind = "qualification" => ClaimQualification /\ c.sessions = proc.target[3],
             ~Overlaps(proc.n, kind, c.sessions)
      PROVE  ClaimsGrow
  <2>1. \A d \in claims' : d \notin claims => d = c
    BY <1>2
  <2>2. \A d \in claims : d.n # proc.n => c.sessions \cap d.sessions = {}
    BY <1>2 DEF Overlaps
  <2> QED
    BY <1>2, <2>1, <2>2 DEF ClaimsGrow
<1>3. CASE AddAccount
  BY <1>1, <1>2, <1>3, AtAccount
<1>4. CASE ClaimQualification
  BY <1>1, <1>2, <1>4, AtClaim
<1> QED
  BY <1>1, <1>3, <1>4, Writers

\* No account is lost, and a new one is of the variant in hand.
LEMMA AccountsAreAdded ==
  ASSUME Shape, Step
  PROVE  /\ accounts \subseteq accounts'
         /\ \A a \in accounts' : a \notin accounts =>
              /\ AddAccount /\ proc.pc = "account" /\ a.n = proc.n /\ a.h = H /\ a.v = V
              /\ a.verdict = VerdictOf(V)
<1>1. CASE UNCHANGED accounts
  BY <1>1
<1>2. CASE AddAccount
  BY <1>2, AtAccount
<1> QED
  BY <1>1, <1>2, Writers

\* A step that begins a cycle or ends one writes no evidence.
LEMMA NoEvidence ==
  ASSUME Shape, Step, proc' = Idle \/ Begin \/ (Interrupted /\ proc' = proc)
  PROVE  UNCHANGED <<accounts, claims, runs, released>>
<1>1. Idle.pc = "idle"
  BY IdleIs
<1>2. AddAccount => proc'.pc = "close"
  BY AtAccount DEF Steps, Becomes
<1>3. ClaimQualification => proc'.pc \in {"persist", "release"}
  BY AtClaim DEF Steps, Becomes
<1>4. Release => proc'.pc = "persist"
  BY AtRelease DEF Becomes
<1>5. AppendProof => proc'.pc = "promote"
  <2>1. proc \in ProcSet
    BY DEF Shape, ProcType
  <2> QED
    BY <2>1, GoesTo DEF AppendProof, Steps, Becomes, Pcs
<1>6. CASE proc' = Idle
  BY <1>1, <1>2, <1>3, <1>4, <1>5, <1>6, Writers
<1> QED
  BY <1>6 DEF Begin, ledger, Interrupted

\* No row bears the number of a cycle before it has written one.
LEMMA EarlyStep ==
  ASSUME Shape, PastInv, Control, Evident, Step
  PROVE  EarlyInv'
<1>1. PICK b \in Nat : (\A a \in accounts : a.n <= b) /\ (\A c \in claims : c.n <= b)
  BY DEF Evident, EarlyInv, Bounded
<1>2. /\ \A a \in accounts : a.n \in Nat
      /\ \A c \in claims : c.n \in Nat
      /\ proc.n \in Nat
  BY DEF Shape, LedgerType, AccountRow, ClaimRow, ProcType, ProcSet
<1>3. Bounded'
  <2>1. PICK m \in Nat : b <= m /\ proc.n <= m
    <3>1. CASE b <= proc.n
      BY <1>2, <3>1
    <3>2. CASE proc.n <= b
      BY <1>2, <3>2
    <3> QED
      BY <1>2, <3>1, <3>2
  <2>2. \A a \in accounts' : a.n <= m
    BY <1>1, <1>2, <2>1, AccountsAreAdded
  <2>3. \A c \in claims' : c.n <= m
    BY <1>1, <1>2, <2>1, ClaimsAreAdded DEF ClaimsGrow
  <2> QED
    BY <2>2, <2>3 DEF Bounded
<1>4. CASE proc' = Idle
  <2>1. proc'.pc = "idle"
    BY <1>4, IdleIs
  <2> QED
    BY <1>3, <2>1 DEF EarlyInv, Early
<1>5. CASE Interrupted /\ proc' = proc
  BY <1>3, <1>5 DEF Evident, EarlyInv, Interrupted
<1>6. CASE Begin
  <2>1. /\ proc'.pc = "slots"
        /\ \A a \in accounts : a.n < proc'.n
        /\ \A c \in claims : c.n < proc'.n
        /\ proc'.n \in Nat
    BY <1>6, AtBegin DEF Evident, EarlyInv, ProcSet
  <2>2. \A w \in released : w.n # proc'.n
    BY <1>2, <2>1 DEF Evident, ClaimedInv
  <2>3. UNCHANGED <<accounts, claims, released>>
    BY <1>6, NoEvidence
  <2>4. (\A a \in accounts : a.n # proc'.n) /\ \A c \in claims : c.n # proc'.n
    BY <1>2, <2>1
  <2> QED
    BY <1>3, <2>2, <2>3, <2>4 DEF EarlyInv
<1>7. CASE Going
  <2>1. /\ proc'.n = proc.n
        /\ proc'.pc \in Early => proc.pc \in Early
        /\ proc'.pc = "release" => ClaimQualification /\ proc.pc = "claim"
    BY <1>7, AtClaim DEF Going
  <2>2. proc'.pc \in Early => UNCHANGED claims
    <3>1. ASSUME proc'.pc \in Early PROVE ~AddAccount /\ ~ClaimQualification
      <4>1. AddAccount => proc'.pc = "close"
        BY AtAccount DEF Steps, Becomes
      <4>2. ClaimQualification => proc'.pc \in {"persist", "release"}
        BY AtClaim DEF Steps, Becomes
      <4> QED
        BY <3>1, <4>1, <4>2 DEF Early
    <3> QED
      BY <3>1, Writers
  <2>3. proc'.pc \in Early \cup {"release"} => proc.pc \in Early
    BY <2>1 DEF Early
  <2>4. proc.pc \in Early => UNCHANGED <<accounts, released>>
    <3>1. AddAccount => proc.pc = "account"
      BY AtAccount
    <3>2. Release => proc.pc = "release"
      BY AtRelease
    <3> QED
      BY <3>1, <3>2, Writers DEF Early
  <2> QED
    BY <1>3, <2>1, <2>2, <2>3, <2>4 DEF Evident, EarlyInv
<1> QED
  BY <1>4, <1>5, <1>6, <1>7, Course

\* Tasks stay clear of the claims of other cycles: those are old.
LEMMA OpenStep ==
  ASSUME Shape, PastInv, Control, Evident, Step
  PROVE  OpenInv'
<1>1. ClaimsGrow
  BY ClaimsAreAdded
<1>2. CASE proc' = Idle \/ Begin
  <2>1. proc'.tasks = {} /\ proc'.results = {}
    BY <1>2, IdleIs, AtBegin DEF Evident, EarlyInv
  <2> QED
    BY <2>1 DEF OpenInv
<1>3. CASE Interrupted /\ proc' = proc
  BY <1>3 DEF Evident, OpenInv, Open, Interrupted
<1>4. CASE Going
  <2>1. proc'.n = proc.n
    BY <1>4 DEF Going
  <2>2. ASSUME NEW t, Open(t) PROVE Open(t)'
    BY <1>1, <2>1, <2>2 DEF Open, ClaimsGrow
  <2>3. ASSUME NEW t, Fresh(t) PROVE Open(t)
    BY <2>3 DEF Fresh, Open
  <2>4. \A t \in proc'.tasks : Open(t)
    BY <1>4, <2>3 DEF Going, Evident, OpenInv
  <2>5. \A r \in proc'.results : Open(r.task)
    BY <1>4 DEF Going, Opened, Evident, OpenInv
  <2> QED
    BY <2>2, <2>4, <2>5 DEF OpenInv
<1> QED
  BY <1>2, <1>3, <1>4, Course

\* The claims of two cycles stay disjoint, and what a step opens or judges is claimed.
LEMMA ClaimedStep ==
  ASSUME Shape, PastInv, Control, Evident, Step
  PROVE  ClaimedInv'
<1>1. ClaimsGrow
  BY ClaimsAreAdded
<1>2. \A c, d \in claims' : c.n # d.n => c.sessions \cap d.sessions = {}
  <2> SUFFICES ASSUME NEW c \in claims', NEW d \in claims', c.n # d.n
               PROVE  c.sessions \cap d.sessions = {}
    OBVIOUS
  <2>1. CASE c \in claims /\ d \in claims
    BY <2>1 DEF Evident, ClaimedInv
  <2>2. CASE c \notin claims
    BY <1>1, <2>2 DEF ClaimsGrow
  <2>3. CASE d \notin claims
    BY <1>1, <2>3 DEF ClaimsGrow
  <2> QED
    BY <2>1, <2>2, <2>3
<1>3. /\ \A w \in released' :
           \E c \in claims' : c.n = w.n /\ c.kind = "qualification" /\ c.sessions = w.sessions
      /\ \A w, x \in released' : w.n = x.n => w = x
  <2>1. CASE UNCHANGED released
    BY <1>1, <2>1 DEF Evident, ClaimedInv, ClaimsGrow
  <2>2. CASE Release
    <3>1. PICK w : w = [n |-> proc.n, sessions |-> proc.target[3]]
      OBVIOUS
    <3>2. released' = released \cup {w} /\ w.n = proc.n /\ w.sessions = proc.target[3]
      BY <2>2, <3>1 DEF Release
    <3>3. proc.pc = "release"
      BY <2>2, AtRelease
    <3>4. \A x \in released : x.n # proc.n
      BY <3>3 DEF Evident, EarlyInv
    <3>5. \E c \in claims : c.n = w.n /\ c.kind = "qualification" /\ c.sessions = w.sessions
      BY <3>2, <3>3 DEF Evident, TargetInv, TargetClaimed
    <3>6. \A x \in released' : x \in released \/ x = w
      BY <3>2
    <3>7. \A x \in released :
           \E c \in claims : c.n = x.n /\ c.kind = "qualification" /\ c.sessions = x.sessions
      BY DEF Evident, ClaimedInv
    <3>8. \A x, y \in released : x.n = y.n => x = y
      BY DEF Evident, ClaimedInv
    <3>9. claims \subseteq claims'
      BY <1>1 DEF ClaimsGrow
    <3> QED
      BY <3>2, <3>4, <3>5, <3>6, <3>7, <3>8, <3>9
  <2> QED
    BY <2>1, <2>2, Writers
<1>4. \A r \in runs' : \A s \in Judged(r) : \E c \in claims' : c.n = r.n /\ s \in c.sessions
  <2>1. claims \subseteq claims'
    BY <1>1 DEF ClaimsGrow
  <2>2. \A r \in runs : \A s \in Judged(r) : \E c \in claims : c.n = r.n /\ s \in c.sessions
    BY DEF Evident, ClaimedInv
  <2>3. ASSUME AppendProof, NEW r \in runs', r \notin runs, NEW s \in Judged(r)
        PROVE  \E c \in claims : c.n = r.n /\ s \in c.sessions
    <3>1. /\ proc.pc = "proof" /\ Qualified(V) /\ V \in Result.task.variants /\ V \in Variants
          /\ r.n = proc.n /\ r.held = Result.task.held /\ r.sealed = Result.task.sealed
          /\ Result \in proc.results
      BY <2>3, AtProof, AtHand DEF Evident, AtResult, AtVariant
    <3>2. \E c \in claims : c.n = proc.n /\ c.sessions = Result.task.held
      BY <3>1 DEF Evident, TargetInv
    <3>3. Windowed(Result) /\ TargetClaimed
      BY <3>1 DEF Evident, TargetInv, Qualified, VerdictOf
    <3>4. \E c \in claims : c.n = proc.n /\ c.sessions = Result.task.sealed
      BY <3>3 DEF Windowed, TargetClaimed
    <3> QED
      BY <2>3, <3>1, <3>2, <3>4 DEF Judged
  <2> QED
    BY <2>1, <2>2, <2>3, Writers
<1> QED
  BY <1>2, <1>3, <1>4 DEF ClaimedInv

\* The window a cycle opens is the one it claimed, and what its variant held out is
\* claimed before the proof.
LEMMA TargetStep ==
  ASSUME Shape, PastInv, Control, Evident, Step
  PROVE  TargetInv'
<1>1. ClaimsGrow
  BY ClaimsAreAdded
<1>2. CASE proc' = Idle
  <2>1. proc'.pc = "idle" /\ proc'.results = {}
    BY <1>2, IdleIs
  <2> QED
    BY <2>1 DEF TargetInv
<1>3. CASE Begin
  <2>1. /\ proc'.pc = "slots" /\ proc'.results = {}
        /\ \A c \in claims : c.n < proc'.n
    BY <1>3, AtBegin DEF Evident, EarlyInv
  <2>2. UNCHANGED claims
    BY <1>3, NoEvidence
  <2>3. \A c \in claims : c.n \in Nat
    BY DEF Shape, LedgerType, ClaimRow
  <2>4. \A c \in claims' : c.n # proc'.n
    <3>1. proc'.n \in Nat
      BY <1>3, AtBegin DEF Evident, EarlyInv, ProcSet
    <3> QED
      BY <2>1, <2>2, <2>3, <3>1
  <2> QED
    BY <2>1, <2>4 DEF TargetInv
<1>4. CASE Interrupted /\ proc' = proc
  <2>1. Result' = Result /\ V' = V
    BY <1>4, SameResult DEF V
  <2> QED
    BY <1>4, <2>1 DEF Evident, TargetInv, Interrupted, TargetClaimed, Windowed, Qualified, VerdictOf
<1>5. CASE Going
  <2>1. /\ proc'.n = proc.n /\ proc.pc # "idle"
        /\ proc'.pc \in Early => proc.pc \in Early
        /\ proc'.target = proc.target \/ Select
    BY <1>5 DEF Going
  <2>2. Select => proc.pc = "evaluate" /\ proc.pc \in Early
    BY AtSelect DEF Early
  <2>3. TargetClaimed /\ proc.pc \notin Early => TargetClaimed'
    BY <1>1, <2>1, <2>2 DEF TargetClaimed, ClaimsGrow
  \* The window that is about to be opened.
  <2>4. proc'.pc \in {"claim", "release"} =>
          \E r \in proc'.results : /\ Windowed(r)' /\ proc'.target[2] \in r.task.variants
    <3>1. CASE proc'.pc = "claim"
      <4>1. Select
        BY <1>5, <3>1 DEF Going
      <4>2. ~Steps("persist")
        BY <3>1 DEF Steps, Becomes
      <4>3. PICK r \in proc.results : \E v \in r.task.variants, at \in {"persist", "claim"} :
              Becomes(at, proc.todo, proc.tasks, proc.results, <<r.task.h, v, r.task.sealed>>,
                      proc.work, proc.child, proc.mode)
        BY <4>1, <4>2, AtSelect
      <4>4. PICK v \in r.task.variants : proc'.target = <<r.task.h, v, r.task.sealed>>
        BY <4>3 DEF Becomes
      <4>5. proc'.results = proc.results
        BY <4>3 DEF Becomes
      <4> QED
        BY <4>4, <4>5 DEF Windowed
    <3>2. CASE proc'.pc = "release"
      <4>1. ClaimQualification
        BY <1>5, <3>2 DEF Going
      <4>2. proc.pc = "claim" /\ proc'.results = proc.results /\ proc'.target = proc.target
        BY <4>1, AtClaim DEF Steps, Becomes
      <4> QED
        BY <4>2 DEF Evident, TargetInv, Windowed
    <3> QED
      BY <3>1, <3>2
  <2>5. proc'.pc = "release" => TargetClaimed'
    <3>1. ASSUME proc'.pc = "release" PROVE TargetClaimed'
      <4>1. ClaimQualification
        BY <1>5, <3>1 DEF Going
      <4>2. ~Steps("persist")
        BY <3>1 DEF Steps, Becomes
      <4>3. \E c \in claims' : c.n = proc.n /\ c.kind = "qualification" /\ c.sessions = proc.target[3]
        BY <4>1, <4>2, AtClaim
      <4>4. proc'.target = proc.target
        BY <4>1, AtClaim DEF Steps, Becomes
      <4> QED
        BY <2>1, <4>3, <4>4 DEF TargetClaimed
    <3> QED
      BY <3>1
  \* The only qualification claim of the cycle.
  <2>6. \A c \in claims' : c.n = proc'.n /\ c.kind = "qualification" =>
          c.sessions = proc'.target[3]
    <3> SUFFICES ASSUME NEW c \in claims', c.n = proc.n, c.kind = "qualification"
                 PROVE  c.sessions = proc'.target[3]
      BY <2>1
    <3>1. CASE c \in claims
      <4>1. proc.pc \notin Early /\ c.sessions = proc.target[3]
        BY <2>1, <3>1 DEF Evident, EarlyInv, TargetInv
      <4> QED
        BY <2>1, <2>2, <4>1
    <3>2. CASE c \notin claims
      <4>1. ClaimQualification /\ c.sessions = proc.target[3]
        BY <1>1, <3>2 DEF ClaimsGrow
      <4>2. proc'.target = proc.target
        BY <4>1, AtClaim DEF Steps, Becomes
      <4> QED
        BY <4>1, <4>2
    <3> QED
      BY <3>1, <3>2
  \* A qualified verdict is of the opened window.
  <2>7. \A r \in proc'.results, v \in Variants :
          v \in r.task.variants /\ r.verdict[v] \in {"passed", "failed"} =>
            Windowed(r)' /\ TargetClaimed' /\ proc'.pc \notin Early \cup {"release"}
    <3> SUFFICES ASSUME NEW r \in proc'.results, NEW v \in Variants, v \in r.task.variants,
                        r.verdict[v] \in {"passed", "failed"}
                 PROVE  Windowed(r)' /\ TargetClaimed' /\ proc'.pc \notin Early \cup {"release"}
      OBVIOUS
    <3>1. ASSUME NEW q \in proc.results, q.task = r.task, q.verdict[v] \in {"passed", "failed"}
          PROVE  Windowed(r)' /\ TargetClaimed' /\ proc'.pc \notin Early \cup {"release"}
      <4>1. Windowed(q) /\ TargetClaimed /\ proc.pc \notin Early \cup {"release"}
        BY <3>1 DEF Evident, TargetInv
      <4>2. proc'.pc # "release"
        BY <1>5, <4>1, AtClaim DEF Going, Early
      <4>3. proc'.target = proc.target
        BY <2>1, <2>2, <4>1
      <4> QED
        BY <2>1, <2>3, <3>1, <4>1, <4>2, <4>3 DEF Windowed
    <3>2. CASE r \in proc.results
      BY <3>1, <3>2
    <3>3. ASSUME Release, NEW q \in proc.results, Opened(r, q)
          PROVE  Windowed(r)' /\ TargetClaimed' /\ proc'.pc \notin Early \cup {"release"}
      <4>1. /\ proc.pc = "release" /\ proc'.pc = "persist" /\ proc'.target = proc.target
            /\ q.task = r.task
        BY <3>3, AtRelease DEF Becomes, Opened
      <4>2. CASE q.verdict[v] \in {"passed", "failed"}
        BY <3>1, <4>1, <4>2
      <4>3. CASE q.task.h = proc.target[1]
        <5>1. PICK w \in proc.results : Windowed(w)
          BY <4>1 DEF Evident, TargetInv
        <5>2. w = q
          BY <4>3, <5>1 DEF Control, SoleInv, Windowed
        <5>3. Windowed(q) /\ TargetClaimed
          BY <4>1, <5>1, <5>2 DEF Evident, TargetInv
        <5> QED
          BY <2>3, <4>1, <5>3 DEF Windowed, Early
      <4> QED
        BY <3>3, <4>2, <4>3 DEF Opened
    <3> QED
      BY <1>5, <3>2, <3>3 DEF Going
  \* What the qualified variant held out.
  <2>8. proc'.pc \in {"close", "candidate", "proof"} =>
          /\ Qualified(V)' => \E c \in claims' : c.n = proc'.n /\ c.sessions = (Result.task.held)'
          /\ proc'.pc = "proof" => Qualified(V)'
    <3>1. ASSUME proc'.results = proc.results, proc'.work = proc.work
          PROVE  Result' = Result /\ (Result.task.held)' = Result.task.held
                 /\ (Qualified(V)' <=> Qualified(V))
      BY <3>1, SameResult DEF V, Qualified, VerdictOf
    <3>2. CASE AddAccount
      <4>1. /\ proc.pc = "account" /\ proc.work # {} /\ proc'.pc = "close"
            /\ proc'.results = proc.results /\ proc'.work = proc.work
        BY <3>2, AtAccount DEF Steps, Becomes
      <4>2. Result \in proc.results /\ V \in Result.task.variants /\ V \in Variants
        BY <4>1, AtHand DEF AtResult
      <4>3. ASSUME Qualified(V)
            PROVE  \E c \in claims' : c.n = proc.n /\ c.sessions = Result.task.held
        <5>1. Adequate(VerdictOf(V))
          BY <4>3 DEF Qualified, Adequate
        <5>2. Windowed(Result)
          BY <4>2, <4>3 DEF Evident, TargetInv, Qualified, VerdictOf
        <5>3. Open(Result.task)
          BY <4>2 DEF Evident, OpenInv
        <5>4. ~Overlaps(proc.n, "heldout", Result.task.held)
          <6> SUFFICES ASSUME NEW c \in claims, c.n # proc.n \/ c.kind # "heldout",
                              c.sessions \cap Result.task.held # {}
                       PROVE  FALSE
            BY DEF Overlaps
          <6>1. CASE c.n # proc.n
            BY <5>3, <6>1 DEF Open
          <6>2. CASE c.n = proc.n
            <7>1. c.kind = "qualification"
              BY <6>2 DEF Shape, LedgerType, ClaimRow
            <7>2. c.sessions = proc.target[3]
              BY <2>1, <6>2, <7>1 DEF Evident, TargetInv
            <7> QED
              BY <5>2, <5>3, <7>2 DEF Windowed, Open
          <6> QED
            BY <6>1, <6>2
        <5> QED
          BY <3>2, <5>1, <5>4, AtAccount
      <4> QED
        BY <2>1, <3>1, <4>1, <4>3
    <3>3. CASE CloseVariant
      <4>1. /\ proc.pc = "close" /\ proc'.pc = "candidate"
            /\ proc'.results = proc.results /\ proc'.work = proc.work
        BY <3>3, AtCloseVariant DEF Steps, Becomes
      <4>2. claims \subseteq claims'
        BY <1>1 DEF ClaimsGrow
      <4> QED
        BY <2>1, <3>1, <4>1, <4>2 DEF Evident, TargetInv
    <3>4. CASE RegisterCandidate /\ proc'.pc \in {"close", "candidate", "proof"}
      <4>1. /\ proc.pc = "candidate" /\ Qualified(V)
            /\ proc'.results = proc.results /\ proc'.work = proc.work
        BY <3>4, AtRegister DEF Steps, Becomes
      <4>2. claims \subseteq claims'
        BY <1>1 DEF ClaimsGrow
      <4> QED
        BY <2>1, <3>1, <4>1, <4>2 DEF Evident, TargetInv
    <3> QED
      BY <1>5, <3>2, <3>3, <3>4 DEF Going
  <2> QED
    BY <2>4, <2>5, <2>6, <2>7, <2>8 DEF TargetInv
<1> QED
  BY <1>2, <1>3, <1>4, <1>5, Course


-----------------------------------------------------------------------------
\* The accounts of a cycle and the retirements that rest on them.

\* What the accounts of the cycle say is what its results say.
LEMMA AccountStep ==
  ASSUME Shape, PastInv, Control, Evident, AccountInv, Step
  PROVE  AccountInv'
<1>1. CASE proc' = Idle \/ Begin
  <2>1. proc'.results = {}
    BY <1>1, IdleIs, AtBegin DEF Evident, EarlyInv
  <2> QED
    BY <2>1 DEF AccountInv
<1>2. CASE Interrupted /\ proc' = proc
  BY <1>2 DEF AccountInv, Interrupted
<1>3. CASE Going
  <2> SUFFICES ASSUME NEW r \in proc'.results, NEW a \in accounts',
                      a.n = proc'.n, a.h = r.task.h
               PROVE  a.v \in r.task.variants /\ a.verdict = r.verdict[a.v]
    BY DEF AccountInv
  <2>1. a.n = proc.n
    BY <1>3 DEF Going
  <2>2. CASE a \in accounts /\ r \in proc.results
    BY <2>1, <2>2 DEF AccountInv
  <2>3. CASE a \in accounts /\ r \notin proc.results
    <3>1. proc.pc \in Early \cup {"release"}
      BY <1>3, <2>3, AtRelease DEF Going, Early
    <3> QED
      BY <2>1, <2>3, <3>1 DEF Evident, EarlyInv
  <2>4. CASE a \notin accounts
    <3>1. /\ AddAccount /\ proc.pc = "account" /\ a.h = H /\ a.v = V
          /\ a.verdict = VerdictOf(V)
      BY <2>4, AccountsAreAdded
    <3>2. proc.work # {} /\ proc'.results = proc.results
      BY <3>1, AtAccount DEF Steps, Becomes
    <3>3. Result \in proc.results /\ H = Result.task.h /\ V \in Result.task.variants
      BY <3>1, <3>2, AtHand DEF AtResult
    <3>4. r = Result
      BY <3>1, <3>2, <3>3 DEF Control, SoleInv
    <3> QED
      BY <3>1, <3>3, <3>4 DEF VerdictOf
  <2> QED
    BY <2>2, <2>3, <2>4
<1> QED
  BY <1>1, <1>2, <1>3, Course

\* What a retirement will rest on is settled when it is decided.
LEMMA RetireStep ==
  ASSUME Shape, PastInv, Control, Evident, RetireInv, Step
  PROVE  RetireInv'
<1>1. CASE proc' = Idle \/ Begin
  <2>1. proc'.pc # "retire"
    BY <1>1, IdleIs, AtBegin DEF Evident, EarlyInv
  <2> QED
    BY <2>1 DEF RetireInv
<1>2. CASE Interrupted /\ proc' = proc
  <2>1. Result' = Result /\ Registered' = Registered
    BY <1>2, SameResult DEF Interrupted, Registered
  <2> QED
    BY <1>2, <2>1 DEF RetireInv
<1>3. CASE Going
  <2> SUFFICES ASSUME proc'.pc = "retire" PROVE RetireInv'
    BY DEF RetireInv
  <2>1. Decision
    BY <1>3 DEF Going
  <2>2. ~Decided /\ proc' # Idle
    BY IdleIs DEF Decided, Drops, Becomes
  <2>3. PICK mode \in {"recenter", "scientific", "rotation"}, child \in Hypotheses :
          /\ Becomes("retire", proc.todo, proc.tasks, proc.results, proc.target, proc.work,
                     child, mode)
          /\ hyp'[child].status # "none"
          /\ Result.task.variants # {}
          /\ mode = "recenter" =>
               \A v \in Result.task.variants :
                 Adequate(Result.verdict[v]) /\ Result.verdict[v] # "passed"
    BY <2>1, <2>2, AtDecision DEF Succeeded
  <2>4. Result' = Result /\ proc'.child = child /\ proc'.mode = mode
    BY <2>3, SameResult DEF Becomes
  <2>5. child \in Registered'
    BY <2>3 DEF Registered
  <2> QED
    BY <2>3, <2>4, <2>5 DEF RetireInv
<1> QED
  BY <1>1, <1>2, <1>3, Course

\* Only a retirement that verified its evidence retires a hypothesis.
LEMMA RetiredBy ==
  ASSUME Shape, PastInv, Control, Step, NEW h \in Hypotheses, hyp'[h].status = "retired",
         hyp[h].status # "retired"
  PROVE  Retire /\ Evidence /\ h = H /\ proc.pc = "retire"
<1>1. hyp \in [Hypotheses -> HypothesisRow]
  BY DEF Shape, LedgerType
<1>2. ~ UNCHANGED hyp
  OBVIOUS
<1>3. ASSUME NEW k \in Hypotheses, NEW status, status # "retired",
             hyp' = [hyp EXCEPT ![k].status = status]
      PROVE  FALSE
  BY <1>3, StatusSet
<1>4. ASSUME NEW k \in Hypotheses, k \notin Registered, NEW spec \in Specs,
             NEW notBefore \in 0 .. LastSession, NEW parent \in {None} \cup Hypotheses,
             Insert(k, spec, notBefore, parent)
      PROVE  FALSE
  BY <1>4, Inserted
<1>5. ~Interrupted
  BY <1>2 DEF Interrupted
<1>6. ~Around
  <2>1. ~IngestMarks
    <3> SUFFICES ASSUME IngestMarks PROVE FALSE
      OBVIOUS
    <3>1. ingest \in Hypotheses /\ hyp' = [hyp EXCEPT ![ingest].status = "validated"]
      BY DEF IngestMarks, Shape, LedgerType
    <3> QED
      BY <1>3, <3>1
  <2> QED
    BY <1>2, <2>1 DEF Around, NewSession, IngestPromotes, Demote, ledger
<1>7. ~(Crash \/ Begin \/ SlotsDone \/ ScheduleDone \/ Evaluate \/ Select \/ ClaimQualification
        \/ Release)
  BY <1>2 DEF Crash, Begin, SlotsDone, ScheduleDone, Evaluate, Select, ClaimQualification,
              Release, ledger
<1>8. ~(AddAccount \/ CloseVariant \/ RegisterCandidate \/ AppendProof \/ Promote \/ AddCycle)
  BY <1>2 DEF AddAccount, CloseVariant, RegisterCandidate, AppendProof, Promote, AddCycle
<1>9. ~SeedSlot
  BY <1>2, <1>4, AtSeedSlot DEF Specs
<1>10. ~RecordRevive
  <2> SUFFICES ASSUME RecordRevive PROVE FALSE
    OBVIOUS
  <2>1. PICK k \in Hypotheses, reseeded \in BOOLEAN :
          k = proc.child /\ reseeded = (hyp[proc.child].status = "validated")
    BY AtRevive
  <2>2. hyp' = [hyp EXCEPT ![k].reseeded = reseeded]
    BY <2>1 DEF RecordRevive
  <2>3. hyp'[h].status = hyp[h].status
    BY <1>1, <2>2 DEF HypothesisRow
  <2> QED
    BY <2>3
<1>11. ~Schedule
  <2> SUFFICES ASSUME Schedule PROVE FALSE
    OBVIOUS
  <2>1. proc.todo \subseteq Hypotheses
    BY AtSchedule DEF Control, PhaseInv
  <2> QED
    BY <1>2, <1>3, <2>1, AtSchedule DEF Control
<1>12. ~(WorkerFails \/ ScreenedOut)
  <2> SUFFICES ASSUME WorkerFails \/ ScreenedOut PROVE FALSE
    OBVIOUS
  <2>1. Task1.h \in Hypotheses
    BY AtEvaluate, InHand
  <2>2. \E status \in {"backtest_passed", "queued", "bounded_space_exhausted"} :
          hyp' = [hyp EXCEPT ![Task1.h].status = status]
    BY DEF WorkerFails, ScreenedOut
  <2> QED
    BY <1>3, <2>1, <2>2
<1>13. ~Snapshot
  <2> SUFFICES ASSUME Snapshot PROVE FALSE
    OBVIOUS
  <2>1. H \in Hypotheses /\ Result.task.status # "retired"
    BY AtSnapshot, InHand DEF Active
  <2> QED
    BY <1>3, <2>1, AtSnapshot
<1>14. ~Decision
  <2> SUFFICES ASSUME Decision PROVE FALSE
    OBVIOUS
  <2>2. H \in Hypotheses
    BY AtDecision, AtHand DEF AtResult
  <2>3. ~Decided
    BY <1>3, <2>2 DEF Decided, Active
  <2>4. ~Succeeded
    BY <1>2, <1>4, <2>2 DEF Succeeded
  <2> QED
    BY <2>3, <2>4, AtDecision
<1>15. Retire
  BY <1>5, <1>6, <1>7, <1>8, <1>9, <1>10, <1>11, <1>12, <1>13, <1>14
     DEF Step, Next, Cycle, Around, Decision
<1>16. /\ proc.pc = "retire" /\ Evidence
       /\ \E rotated \in BOOLEAN :
            hyp' = [hyp EXCEPT ![H].status = "retired", ![H].rotated = rotated]
  BY <1>2, <1>15, AtRetire
<1>17. h = H
  <2> SUFFICES ASSUME h # H PROVE FALSE
    OBVIOUS
  <2>1. H \in Hypotheses
    BY <1>16, AtHand DEF AtResult
  <2>2. PICK k \in Hypotheses, rotated \in BOOLEAN :
          k = H /\ hyp' = [hyp EXCEPT ![k].status = "retired", ![k].rotated = rotated]
    BY <1>16, <2>1
  <2>3. hyp'[h] = hyp[h]
    BY <1>1, <2>2
  <2> QED
    BY <2>3
<1> QED
  BY <1>15, <1>16, <1>17

\* A successor and an account once recorded stay, and a retirement has both.
LEMMA ReplacedStep ==
  ASSUME Shape, PastInv, Control, HypKeeps, AccountInv, RetireInv, RetiredIsReplaced, Step
  PROVE  RetiredIsReplaced'
<1> SUFFICES ASSUME NEW h \in Hypotheses, hyp'[h].status = "retired"
             PROVE  /\ \E k \in Registered' : hyp'[k].parent = h
                    /\ \E a \in accounts' : /\ a.h = h /\ Adequate(a.verdict)
                                            /\ a.verdict # "passed"
  BY DEF RetiredIsReplaced
<1>1. /\ \E k \in Registered : hyp[k].parent = h
      /\ \E a \in accounts : a.h = h /\ Adequate(a.verdict) /\ a.verdict # "passed"
  <2>1. CASE hyp[h].status = "retired"
    BY <2>1 DEF RetiredIsReplaced
  <2>2. CASE hyp[h].status # "retired"
    <3>1. Evidence /\ h = H /\ proc.pc = "retire"
      BY <2>2, RetiredBy
    <3>2. /\ proc.child \in Registered /\ Result.task.variants # {}
          /\ proc.mode = "recenter" =>
               \A v \in Result.task.variants :
                 Adequate(Result.verdict[v]) /\ Result.verdict[v] # "passed"
      BY <3>1 DEF RetireInv
    <3>3. Result \in proc.results /\ H = Result.task.h
      BY <3>1, AtHand DEF AtResult
    <3>4. PICK v \in Result.task.variants : TRUE
      BY <3>2
    <3>5. PICK a \in accounts : /\ a.n = proc.n /\ a.h = H /\ a.v = v
                                /\ proc.mode = "recenter" \/ a.verdict = "rejected"
      BY <3>1 DEF Evidence
    <3>6. a.verdict = Result.verdict[v]
      BY <3>3, <3>5 DEF AccountInv
    <3>7. Adequate(a.verdict) /\ a.verdict # "passed"
      <4>1. CASE a.verdict = "rejected"
        BY <4>1 DEF Adequate
      <4>2. CASE proc.mode = "recenter"
        BY <3>2, <3>6, <4>2
      <4> QED
        BY <3>5, <4>1, <4>2
    <3>8. hyp[proc.child].parent = h
      BY <3>1 DEF Evidence
    <3> QED
      BY <3>1, <3>2, <3>5, <3>7, <3>8
  <2> QED
    BY <2>1, <2>2
<1>2. accounts \subseteq accounts'
  BY AccountsAreAdded
<1>3. \A k \in Registered : k \in Registered' /\ hyp'[k].parent = hyp[k].parent
  BY DEF Registered, HypKeeps
<1> QED
  BY <1>1, <1>2, <1>3

-----------------------------------------------------------------------------
\* The invariant, and what it says of the factory.

\* The empty ledger satisfies the invariant,
LEMMA Initially == Init => IInv
<1> SUFFICES ASSUME Init PROVE IInv
  OBVIOUS
<1>1. /\ proc = Idle /\ proc \in ProcSet /\ proc.pc = "idle" /\ proc.tasks = {}
      /\ proc.results = {} /\ proc.todo = {} /\ ingest = None
      /\ accounts = {} /\ claims = {} /\ runs = {} /\ released = {} /\ done = {} /\ closed = {}
  BY IdleIs DEF Init
<1>2. LedgerType
  <2>0. /\ MaxFaults \in Nat /\ FirstSessions \in Nat /\ LastSession \in Nat
        /\ FirstSessions <= LastSession
    BY SessionAssumption, BudgetAssumption
  <2>1. last \in 0 .. LastSession /\ faults \in 0 .. MaxFaults
    <3>1. last = FirstSessions /\ faults = 0
      BY DEF Init
    <3> QED
      BY <2>0, <3>1
  <2>2. hyp \in [Hypotheses -> HypothesisRow]
    <3>1. PICK row : row = [status |-> "none", spec |-> "", notBefore |-> 0,
                            parent |-> None, rotated |-> FALSE, reseeded |-> FALSE]
      OBVIOUS
    <3>2. 0 \in 0 .. LastSession /\ "none" \in Statuses /\ "" \in Specs
      BY <2>0 DEF Statuses, Specs
    <3>4. row \in HypothesisRow
      BY <3>1, <3>2 DEF HypothesisRow
    <3>3. hyp = [h \in Hypotheses |-> row]
      BY <3>1 DEF Init
    <3> QED
      BY <3>3, <3>4
  <2>3. candidate \in [Hypotheses -> [Variants -> CandidateStatuses]]
    BY DEF Init, CandidateStatuses
  <2> QED
    BY <1>1, <2>1, <2>2, <2>3 DEF LedgerType
<1>3. PastInv /\ ProcType /\ SoleInv /\ ActiveInv
  BY <1>1 DEF PastInv, ProcType, SoleInv, ActiveInv
<1>4. PhaseInv
  BY <1>1 DEF PhaseInv, AtResult, AtVariant
<1>5. EarlyInv
  BY <1>1 DEF EarlyInv, Bounded, Early
<1>6. ClaimedInv /\ OpenInv /\ TargetInv /\ AccountInv /\ RetireInv
  BY <1>1 DEF ClaimedInv, OpenInv, TargetInv, AccountInv, RetireInv
<1>7. RetiredIsReplaced
  BY DEF Init, RetiredIsReplaced
<1> QED
  BY <1>2, <1>3, <1>4, <1>5, <1>6, <1>7 DEF IInv

\* and every step keeps it.
LEMMA Inductive ==
  ASSUME IInv, Step
  PROVE  IInv' /\ HypKeeps
<1>1. Shape /\ Control /\ Evident /\ PastInv /\ AccountInv /\ RetireInv /\ RetiredIsReplaced
      /\ TargetInv /\ Bounded
  BY DEF IInv, Shape, Control, Evident, EarlyInv
<1>2. Control' /\ HypKeeps
  BY <1>1, ControlStep
<1>3. LedgerType' /\ PastInv'
  BY <1>1, <1>2, LedgerStep
<1>4. EarlyInv' /\ OpenInv' /\ ClaimedInv' /\ TargetInv'
  BY <1>1, EarlyStep, OpenStep, ClaimedStep, TargetStep
<1>5. AccountInv' /\ RetireInv'
  BY <1>1, AccountStep, RetireStep
<1>6. RetiredIsReplaced'
  BY <1>1, <1>2, ReplacedStep
<1> QED
  BY <1>2, <1>3, <1>4, <1>5, <1>6 DEF IInv, Control

\* A step that changes nothing of the factory is one of its surroundings.
LEMMA Stutters ==
  ASSUME IInv, UNCHANGED <<last, ledger, released, proc, ingest>>,
         UNCHANGED faults \/ Fault
  PROVE  Step
<1>1. faults \in 0 .. MaxFaults /\ MaxFaults \in Nat
  BY BudgetAssumption DEF IInv, LedgerType
<1>2. faults' \in 0 .. MaxFaults
  BY <1>1 DEF Fault
<1> QED
  BY <1>2 DEF Step, Interrupted, ledger

\* So it holds of the factory alone, whose steps are among those.
LEMMA Invariance == Spec => []IInv
<1>1. IInv /\ [Next]_vars => IInv'
  <2> SUFFICES ASSUME IInv, [Next]_vars PROVE IInv'
    OBVIOUS
  <2>1. Step
    BY Stutters DEF Step, vars
  <2> QED
    BY <2>1, Inductive
<1> QED
  BY <1>1, Initially, PTL DEF Spec

\* The invariant contains the types.
LEMMA Shaped == IInv => TypeOK
<1> SUFFICES ASSUME IInv PROVE TypeOK
  OBVIOUS
<1>1. /\ \A a \in accounts : a.verdict \in Verdicts /\ a.n \in Nat
      /\ \A c \in claims : c.kind \in {"heldout", "qualification"}
  BY DEF IInv, LedgerType, AccountRow, ClaimRow
<1> QED
  BY <1>1 DEF IInv, LedgerType, PastInv, TypeOK, HypothesisRow, Specs, CandidateStatuses

\* What two proofs of different cycles are judged on is claimed by different cycles,
\* and a session is claimed by one; the windows of two cycles likewise.
LEMMA ClaimedIsOnce == IInv => EvidenceUsedOnce
<1> SUFFICES ASSUME IInv PROVE EvidenceUsedOnce
  OBVIOUS
<1>1. ClaimedInv
  BY DEF IInv
<1>2. ASSUME NEW r \in runs, NEW q \in runs, r.n # q.n, NEW s \in Judged(r) \cap Judged(q)
      PROVE  FALSE
  <2>1. PICK c \in claims : c.n = r.n /\ s \in c.sessions
    BY <1>1 DEF ClaimedInv
  <2>2. PICK d \in claims : d.n = q.n /\ s \in d.sessions
    BY <1>1 DEF ClaimedInv
  <2>3. c.sessions \cap d.sessions = {}
    BY <1>1, <1>2, <2>1, <2>2 DEF ClaimedInv
  <2> QED
    BY <2>1, <2>2, <2>3
<1>3. ASSUME NEW w \in released, NEW x \in released, w # x
      PROVE  w.sessions \cap x.sessions = {}
  <2>1. w.n # x.n
    BY <1>1, <1>3 DEF ClaimedInv
  <2>2. PICK c \in claims : c.n = w.n /\ c.sessions = w.sessions
    BY <1>1 DEF ClaimedInv
  <2>3. PICK d \in claims : d.n = x.n /\ d.sessions = x.sessions
    BY <1>1 DEF ClaimedInv
  <2>4. c.sessions \cap d.sessions = {}
    BY <1>1, <2>1, <2>2, <2>3 DEF ClaimedInv
  <2> QED
    BY <2>2, <2>3, <2>4
<1> QED
  BY <1>2, <1>3 DEF EvidenceUsedOnce

\* What is kept of the hypotheses is what the action property asks.
LEMMA GoneStays ==
  ASSUME HypKeeps
  PROVE  \A h \in Hypotheses : Gone(h) => Gone(h)'
BY DEF HypKeeps, KeepsGone, Gone, Finishes

\* The factory alone, cycle after cycle (research/strategy_factory.py): whatever dies
\* between two of its transactions, its evidence is used once, a retired hypothesis
\* was replaced, and one that has left the active set never returns to it.
THEOREM Factory == Spec => [](TypeOK /\ EvidenceUsedOnce /\ RetiredIsReplaced) /\ GoneForGood
<1>1. IInv => TypeOK /\ EvidenceUsedOnce /\ RetiredIsReplaced
  BY Shaped, ClaimedIsOnce DEF IInv
<1>2. IInv /\ [Next]_vars => [\A h \in Hypotheses : Gone(h) => Gone(h)']_vars
  <2> SUFFICES ASSUME IInv, [Next]_vars PROVE \A h \in Hypotheses : Gone(h) => Gone(h)'
    OBVIOUS
  <2>1. Step
    BY Stutters DEF Step, vars
  <2> QED
    BY <2>1, Inductive, GoneStays
<1> QED
  BY <1>1, <1>2, Invariance, PTL DEF Spec, GoneForGood

-----------------------------------------------------------------------------
\* The night around it.

BoardSet == [status : CycleStatuses \cup {"none", "running"}, today : BOOLEAN]
NightSet ==
  [stage : Stages, result : Results, mark : Marks, end : CycleStatuses, late : BOOLEAN,
   stopping : BOOLEAN]
NightType == board \in BoardSet /\ night \in NightSet
\* A night without an edge has completed the cycle of its corpus, or says why not.
Observed == last \in done \/ night.result \in Unobserved
ObservedInv ==
  /\ night.stage = "ingest" => Observed
  /\ night.stage = "over" /\ night.end = "completed_no_edge" => Observed
NightInv == IInv /\ NightType /\ ObservedInv

\* Every step of the night is a step of the factory or of its surroundings.
LEMMA NightIsStep ==
  ASSUME IInv, NightNext \/ UNCHANGED nightVars
  PROVE  Step
<1>1. CASE \/ UNCHANGED nightVars \/ NewDay \/ Launch \/ Spawned \/ Record \/ Restart
           \/ Prepare \/ Discover \/ Duplicate \/ Conclude
  <2>1. UNCHANGED vars
    BY <1>1 DEF nightVars, NewDay, Launch, Spawned, Record, Restart, Prepare, Discover,
                Duplicate, Conclude
  <2> QED
    BY <2>1, Stutters DEF vars
<1>2. CASE SpawnFails \/ NothingPrepared \/ StageFails
  BY <1>2, Stutters DEF SpawnFails, NothingPrepared, StageFails
<1>3. CASE Timeout \/ Terminate \/ ContainerDies
  <2>1. Fault /\ (KillJob \/ UNCHANGED <<last, ledger, released, proc, ingest>>)
    BY <1>3 DEF Timeout, Terminate, ContainerDies
  <2>2. CASE UNCHANGED <<last, ledger, released, proc, ingest>>
    BY <2>1, <2>2, Stutters
  <2>3. CASE KillJob
    <3>1. faults \in 0 .. MaxFaults /\ MaxFaults \in Nat
      BY BudgetAssumption DEF IInv, LedgerType
    <3>2. faults' \in 0 .. MaxFaults
      BY <2>1, <3>1 DEF Fault
    <3> QED
      BY <2>3, <3>2 DEF KillJob, Step, Interrupted, ledger
  <2> QED
    BY <2>1, <2>2, <2>3
<1>4. CASE ProcessDies \/ FactoryStep \/ Ingest \/ (NewSession /\ Between)
  BY <1>4 DEF ProcessDies, FactoryStep, Ingest, Step, Next
<1>5. CASE \E h \in Hypotheses, v \in Variants : Demote(h, v) /\ Between
  BY <1>5 DEF Step, Next
<1> QED
  BY <1>1, <1>2, <1>3, <1>4, <1>5 DEF NightNext, Scheduler, Script

\* The status file and the job keep their shape.
LEMMA BoardStep ==
  ASSUME NightType, NightNext \/ UNCHANGED nightVars
  PROVE  NightType'
<1> USE DEF NightType
<1>1. board \in BoardSet /\ night \in NightSet
  OBVIOUS
<1>2. Waits \in NightSet
  BY DEF Waits, NightSet, Stages, Results, Marks, CycleStatuses
<1>3. ASSUME NEW stage \in Stages, GotoStage(stage) PROVE night' \in NightSet
  BY <1>1, <1>3 DEF GotoStage, NightSet
<1>4. ASSUME NEW status \in CycleStatuses, Finish(status) PROVE night' \in NightSet
  BY <1>1, <1>4 DEF Finish, NightSet, Stages
<1>5. ASSUME NEW results \in SUBSET Results, Exits(results) PROVE night' \in NightSet
  <2>1. PICK result \in results, mark \in Marks :
          night' = [night EXCEPT !.stage = "ingest", !.result = result, !.mark = mark]
    BY <1>5 DEF Exits
  <2>2. result \in Results
    OBVIOUS
  <2> QED
    BY <1>1, <2>1, <2>2 DEF NightSet, Stages
<1>6. ASSUME NEW status \in CycleStatuses \cup {"none", "running"}, NEW today \in BOOLEAN,
             board' = [status |-> status, today |-> today]
      PROVE  board' \in BoardSet
  BY <1>6 DEF BoardSet
<1>7. ASSUME night' = [Waits EXCEPT !.stage = IF night.stopping THEN "down" ELSE "wait"]
      PROVE  night' \in NightSet
  <2>1. PICK stage \in Stages : stage = IF night.stopping THEN "down" ELSE "wait"
    BY DEF Stages
  <2>2. night' = [Waits EXCEPT !.stage = stage]
    BY <1>7, <2>1
  <2> QED
    BY <1>2, <2>2 DEF NightSet
<1>8. CASE UNCHANGED nightVars
  BY <1>8 DEF nightVars
<1>9. CASE NewDay
  <2>1. \/ board' = [board EXCEPT !.today = FALSE] /\ UNCHANGED night
        \/ night' = [night EXCEPT !.late = TRUE] /\ UNCHANGED board
    BY <1>9 DEF NewDay
  <2> QED
    BY <1>1, <2>1 DEF BoardSet, NightSet
<1>10. CASE Launch
  BY <1>3, <1>10 DEF Launch, Stages
<1>11. CASE Spawned
  <2>1. night' \in NightSet
    BY <1>3, <1>11 DEF Spawned, Stages
  <2>2. board' = [board EXCEPT !.status = "running"]
    BY <1>11 DEF Spawned
  <2> QED
    BY <2>1, <2>2 DEF BoardSet
<1>12. CASE SpawnFails
  <2>1. night' \in NightSet
    BY <1>7, <1>12 DEF SpawnFails
  <2>2. PICK today \in BOOLEAN : today = ~night.late
    OBVIOUS
  <2>3. board' = [status |-> "failed", today |-> today]
    BY <1>12, <2>2 DEF SpawnFails
  <2> QED
    BY <1>6, <2>1, <2>3 DEF CycleStatuses
<1>13. CASE Record
  <2>1. night' \in NightSet
    BY <1>7, <1>13 DEF Record
  <2>2. PICK today \in BOOLEAN, status \in CycleStatuses : today = ~night.late /\ status = night.end
    BY <1>1 DEF NightSet
  <2>3. board' = [status |-> status, today |-> today]
    BY <1>13, <2>2 DEF Record
  <2> QED
    BY <1>6, <2>1, <2>3
<1>14. CASE Restart
  BY <1>2, <1>14 DEF Restart
<1>15. CASE Timeout \/ ProcessDies \/ StageFails
  <2>1. UNCHANGED board /\ (Finish("timed_out") \/ Finish("failed"))
    BY <1>15 DEF Timeout, ProcessDies, StageFails
  <2> QED
    BY <1>4, <2>1 DEF CycleStatuses
<1>16. CASE Terminate
  <2>1. \/ night' = [night EXCEPT !.stage = "over", !.end = "failed", !.stopping = TRUE]
        \/ night' = [night EXCEPT !.stopping = TRUE]
        \/ GotoStage("down")
    BY <1>16 DEF Terminate
  <2>2. night' \in NightSet
    BY <1>1, <1>3, <2>1 DEF NightSet, Stages, CycleStatuses
  <2> QED
    BY <1>16, <2>2 DEF Terminate
<1>17. CASE ContainerDies
  BY <1>2, <1>17 DEF ContainerDies, NightSet, Stages
<1>18. CASE Prepare \/ Discover
  BY <1>3, <1>18 DEF Prepare, Discover, Stages
<1>19. CASE NothingPrepared
  <2>1. \/ Finish("no_data") \/ Finish("waiting_for_forward_sessions")
        \/ night' = [night EXCEPT !.stage = "over", !.result = "skipped",
                                  !.end = "completed_no_edge"]
    BY <1>19 DEF NothingPrepared
  <2>2. night' \in NightSet
    BY <1>1, <1>4, <2>1 DEF NightSet, Stages, CycleStatuses, Results
  <2> QED
    BY <1>19, <2>2 DEF NothingPrepared
<1>20. CASE FactoryStep
  <2>1. \/ UNCHANGED night
        \/ \E results \in SUBSET Results : Exits(results)
        \/ night' = [night EXCEPT !.stage = "over", !.result = "raised", !.end = "failed"]
    <3>1. /\ {"exhausted"} \in SUBSET Results /\ {"waiting_for_new_data"} \in SUBSET Results
          /\ {"partial_worker_failure"} \in SUBSET Results /\ Completed \in SUBSET Results
      BY DEF Results, Completed
    <3> QED
      BY <1>20, <3>1 DEF FactoryStep
  <2>2. night' \in NightSet
    BY <1>1, <1>5, <2>1 DEF NightSet, Stages, CycleStatuses, Results
  <2> QED
    BY <1>20, <2>2 DEF FactoryStep
<1>21. CASE Duplicate
  <2>1. Completed \in SUBSET Results
    BY DEF Results, Completed
  <2> QED
    BY <1>5, <1>21, <2>1 DEF Duplicate
<1>22. CASE Conclude
  <2>1. \A marks : FinalStatus(marks) \in CycleStatuses
    BY DEF FinalStatus, CycleStatuses
  <2> QED
    BY <1>4, <1>22, <2>1 DEF Conclude
<1>23. CASE Ingest
  BY <1>23 DEF Ingest
<1>24. CASE (NewSession /\ Between) \/ \E h \in Hypotheses, v \in Variants : Demote(h, v) /\ Between
  BY <1>24 DEF Between
<1> QED
  BY <1>8, <1>9, <1>10, <1>11, <1>12, <1>13, <1>14, <1>15, <1>16, <1>17, <1>18, <1>19, <1>20,
     <1>21, <1>22, <1>23, <1>24 DEF NightNext, Scheduler, Script

\* The factory's process works on the corpus it began with, and from its last line it
\* ends with a completed cycle.
LEMMA FactoryLine ==
  ASSUME Shape, Cycle \/ ScreenedOut \/ WorkerFails
  PROVE  /\ UNCHANGED last /\ done \subseteq done'
         /\ proc.pc = "persist" /\ proc'.pc = "idle" => AddCycle
<1>1. CASE Begin \/ SeedSlot \/ RecordRevive \/ SlotsDone \/ Schedule \/ ScheduleDone
  BY <1>1 DEF Begin, SeedSlot, RecordRevive, SlotsDone, Schedule, ScheduleDone, ledger, At, Quiet
<1>2. CASE Evaluate \/ WorkerFails \/ ScreenedOut \/ Select \/ Retire
  BY <1>2 DEF Evaluate, WorkerFails, ScreenedOut, Select, Retire, ledger, At
<1>3. CASE ClaimQualification \/ Release \/ AddAccount
  BY <1>3 DEF ClaimQualification, Release, AddAccount, ledger, At
<1>4. CASE CloseVariant \/ RegisterCandidate \/ AppendProof \/ Promote
  BY <1>4 DEF CloseVariant, RegisterCandidate, AppendProof, Promote, At
<1>5. CASE Decision
  <2>1. proc.pc = "account"
    BY <1>5, AtDecision
  <2>2. UNCHANGED <<last, done>>
    BY <1>5 DEF Decision, DecidePassing, DecideOpen, Recenter, Replace, Rotate, SetStatus,
                RegisterChild
  <2> QED
    BY <2>1, <2>2
<1>6. CASE Snapshot
  <2>1. proc'.pc = "account"
    BY <1>6, AtSnapshot DEF Becomes
  <2>2. UNCHANGED <<last, done>>
    BY <1>6 DEF Snapshot
  <2> QED
    BY <2>1, <2>2
<1>7. CASE AddCycle
  BY <1>7 DEF AddCycle
<1> QED
  BY <1>1, <1>2, <1>3, <1>4, <1>5, <1>6, <1>7 DEF Cycle, Decision

\* A night is told to be without an edge only after its corpus's cycle is complete.
LEMMA ObservedStep ==
  ASSUME IInv, NightType, ObservedInv, NightNext \/ UNCHANGED nightVars
  PROVE  ObservedInv'
<1>1. night \in NightSet /\ board \in BoardSet /\ Shape
  BY DEF NightType, IInv, Shape
<1>2. ASSUME night'.stage \notin {"ingest", "over"} PROVE ObservedInv'
  BY <1>2 DEF ObservedInv
<1>3. ASSUME night'.stage = "over", night'.end # "completed_no_edge" PROVE ObservedInv'
  BY <1>3 DEF ObservedInv
<1>4. ASSUME UNCHANGED last, done \subseteq done', night'.stage = night.stage,
             night'.result = night.result, night'.end = night.end
      PROVE  ObservedInv'
  BY <1>4 DEF ObservedInv, Observed
<1>5. ASSUME NEW status, status # "completed_no_edge", Finish(status) PROVE ObservedInv'
  <2>1. night'.stage = "over" /\ night'.end = status
    BY <1>1, <1>5 DEF Finish, NightSet
  <2> QED
    BY <1>3, <1>5, <2>1
<1>6. ASSUME NEW stage, stage \notin {"ingest", "over"}, GotoStage(stage) PROVE ObservedInv'
  <2>1. night'.stage = stage
    BY <1>1, <1>6 DEF GotoStage, NightSet
  <2> QED
    BY <1>2, <1>6, <2>1
<1>7. ASSUME NEW results, Exits(results),
             last' \in done' \/ results \subseteq Unobserved
      PROVE  ObservedInv'
  <2>1. PICK result \in results, mark \in Marks :
          night' = [night EXCEPT !.stage = "ingest", !.result = result, !.mark = mark]
    BY <1>7 DEF Exits
  <2>2. night'.stage = "ingest" /\ night'.result = result
    BY <1>1, <2>1 DEF NightSet
  <2> QED
    BY <1>7, <2>2 DEF ObservedInv, Observed
<1>8. CASE UNCHANGED nightVars
  BY <1>4, <1>8 DEF nightVars, vars, ledger
<1>9. CASE NewDay
  <2>1. night' = [night EXCEPT !.late = TRUE] \/ UNCHANGED night
    BY <1>9 DEF NewDay
  <2>2. night'.stage = night.stage /\ night'.result = night.result /\ night'.end = night.end
    BY <1>1, <2>1 DEF NightSet
  <2>3. UNCHANGED <<last, done>>
    BY <1>9 DEF NewDay, vars, ledger
  <2> QED
    BY <1>4, <2>2, <2>3
<1>10. CASE Launch \/ Spawned \/ Prepare \/ Discover
  BY <1>6, <1>10 DEF Launch, Spawned, Prepare, Discover
<1>11. CASE SpawnFails \/ Record \/ Restart \/ ContainerDies
  <2>1. night'.stage \in {"down", "wait"}
    <3>1. PICK stage \in {"down", "wait"} : stage = IF night.stopping THEN "down" ELSE "wait"
      OBVIOUS
    <3>2. \/ night' = Waits \/ night' = [Waits EXCEPT !.stage = "down"]
          \/ night' = [Waits EXCEPT !.stage = stage]
      BY <1>11, <3>1 DEF SpawnFails, Record, Restart, ContainerDies
    <3>3. \A st : [Waits EXCEPT !.stage = st].stage = st
      BY DEF Waits
    <3>4. Waits.stage = "wait"
      BY DEF Waits
    <3> QED
      BY <3>2, <3>3, <3>4
  <2> QED
    BY <1>2, <2>1
<1>12. CASE Timeout \/ ProcessDies \/ StageFails
  BY <1>5, <1>12 DEF Timeout, ProcessDies, StageFails
<1>13. CASE Terminate
  <2>1. CASE night' = [night EXCEPT !.stage = "over", !.end = "failed", !.stopping = TRUE]
    <3>1. night'.stage = "over" /\ night'.end = "failed"
      BY <1>1, <2>1 DEF NightSet
    <3> QED
      BY <1>3, <3>1
  <2>2. CASE Stage("launch") /\ night' = [night EXCEPT !.stopping = TRUE]
    <3>1. night'.stage = "launch"
      BY <1>1, <2>2 DEF NightSet, Stage
    <3> QED
      BY <1>2, <3>1
  <2>3. CASE GotoStage("down")
    BY <1>6, <2>3
  <2> QED
    BY <1>13, <2>1, <2>2, <2>3 DEF Terminate
<1>14. CASE NothingPrepared
  <2>1. CASE night' = [night EXCEPT !.stage = "over", !.result = "skipped",
                                    !.end = "completed_no_edge"]
    <3>1. night'.stage = "over" /\ night'.result = "skipped"
      BY <1>1, <2>1 DEF NightSet
    <3> QED
      BY <3>1 DEF ObservedInv, Observed, Unobserved
  <2> QED
    BY <1>5, <1>14, <2>1 DEF NothingPrepared
<1>15. CASE FactoryStep
  <2>1. /\ UNCHANGED last /\ done \subseteq done'
        /\ proc.pc = "persist" /\ proc'.pc = "idle" => AddCycle
    BY <1>1, <1>15, FactoryLine DEF FactoryStep
  <2>2. CASE UNCHANGED night
    BY <1>4, <2>1, <2>2
  <2>3. CASE night' = [night EXCEPT !.stage = "over", !.result = "raised", !.end = "failed"]
    <3>1. night'.stage = "over" /\ night'.end = "failed"
      BY <1>1, <2>3 DEF NightSet
    <3> QED
      BY <1>3, <3>1
  <2>4. CASE Exits({"exhausted"}) \/ Exits({"waiting_for_new_data"})
             \/ Exits({"partial_worker_failure"})
    BY <1>7, <2>4 DEF Unobserved
  <2>5. CASE proc.pc = "persist" /\ proc'.pc = "idle" /\ ~proc.lost /\ Exits(Completed)
    <3>1. last' \in done'
      BY <2>1, <2>5 DEF AddCycle
    <3> QED
      BY <1>7, <2>5, <3>1
  <2> QED
    BY <1>15, <2>2, <2>3, <2>4, <2>5 DEF FactoryStep
<1>16. CASE Duplicate
  <2>1. last' \in done' /\ Exits(Completed)
    BY <1>16 DEF Duplicate, vars, ledger
  <2> QED
    BY <1>7, <2>1
<1>17. CASE Ingest
  <2>1. UNCHANGED <<last, done, night>>
    BY <1>17 DEF Ingest, IngestMarks, IngestPromotes
  <2> QED
    BY <1>4, <2>1
<1>18. CASE Conclude
  <2>1. PICK status : Finish(status)
    BY <1>18 DEF Conclude
  <2>2. night'.stage = "over" /\ night'.result = night.result
    BY <1>1, <2>1 DEF Finish, NightSet
  <2>3. Observed /\ UNCHANGED <<last, done>>
    BY <1>18 DEF Conclude, Stage, ObservedInv, vars, ledger
  <2> QED
    BY <2>2, <2>3 DEF ObservedInv, Observed
<1>19. CASE Between
  BY <1>2, <1>19 DEF Between
<1> QED
  BY <1>8, <1>9, <1>10, <1>11, <1>12, <1>13, <1>14, <1>15, <1>16, <1>17, <1>18, <1>19
     DEF NightNext, Scheduler, Script

\* The invariant of the factory and of the job around it.
LEMMA NightInvariance == NightSpec => []NightInv
<1>1. NightInit => NightInv
  <2> SUFFICES ASSUME NightInit PROVE NightInv
    OBVIOUS
  <2>1. IInv
    BY Initially DEF NightInit
  <2>2. NightType
    BY DEF NightInit, NightType, BoardSet, NightSet, Waits, Stages, Results, Marks, CycleStatuses
  <2>3. ObservedInv
    BY DEF NightInit, ObservedInv, Waits
  <2> QED
    BY <2>1, <2>2, <2>3 DEF NightInv
<1>2. NightInv /\ [NightNext]_nightVars => NightInv'
  <2> SUFFICES ASSUME NightInv, NightNext \/ UNCHANGED nightVars PROVE NightInv'
    OBVIOUS
  <2>1. IInv'
    BY NightIsStep, Inductive DEF NightInv
  <2>2. NightType' /\ ObservedInv'
    BY BoardStep, ObservedStep DEF NightInv
  <2> QED
    BY <2>1, <2>2 DEF NightInv
<1> QED
  BY <1>1, <1>2, PTL DEF NightSpec

-----------------------------------------------------------------------------
\* The properties of the nights.

\* The ledger, the cycle, the status file and the job keep their shapes.
THEOREM Typing == NightSpec => []NightTypeOK
<1>1. NightInv => NightTypeOK
  BY Shaped DEF NightInv, NightType, NightTypeOK, BoardSet, NightSet
<1> QED
  BY <1>1, NightInvariance, PTL

\* Two proofs of different cycles never rest on a common session, and no session is in
\* two opened windows, whatever killed the job in between (the claims of
\* factory_ledger.py, strategy_factory.py).
THEOREM Once == NightSpec => []EvidenceUsedOnce
<1>1. NightInv => EvidenceUsedOnce
  BY ClaimedIsOnce DEF NightInv
<1> QED
  BY <1>1, NightInvariance, PTL

\* A retired hypothesis has a registered successor and the account of a variant that
\* could be judged: retirement verifies its evidence in its own transaction.
THEOREM Replaced == NightSpec => []RetiredIsReplaced
<1>1. NightInv => RetiredIsReplaced
  BY DEF NightInv, IInv
<1> QED
  BY <1>1, NightInvariance, PTL

\* A hypothesis that has left the active set never returns to it, whatever stale status
\* a cycle had read when it scheduled it.
THEOREM StaysGone == NightSpec => GoneForGood
<1>1. NightInv /\ [NightNext]_nightVars => [\A h \in Hypotheses : Gone(h) => Gone(h)']_vars
  <2> SUFFICES ASSUME NightInv, NightNext \/ UNCHANGED nightVars
               PROVE  \A h \in Hypotheses : Gone(h) => Gone(h)'
    OBVIOUS
  <2>1. HypKeeps
    BY NightIsStep, Inductive DEF NightInv
  <2> QED
    BY <2>1, GoneStays
<1> QED
  BY <1>1, NightInvariance, PTL DEF NightSpec, GoneForGood

\* A night recorded as a completed one without an edge (deploy/scheduler.py, after
\* deploy/research-cycle.sh) completed the cycle of its corpus, or the factory's result
\* says why it could not.
THEOREM Negatives == NightSpec => NegativeIsObserved
<1>1. NightInv /\ [NightNext]_nightVars =>
        [Reported("completed_no_edge") =>
           last \in done \/ night.result \in Unobserved]_nightVars
  <2> SUFFICES ASSUME NightInv, NightNext, Reported("completed_no_edge")
               PROVE  last \in done \/ night.result \in Unobserved
    OBVIOUS
  <2>1. board.status = "running" /\ board'.status = "completed_no_edge" /\ board \in BoardSet
    BY DEF Reported, NightInv, NightType
  <2>2. ~UNCHANGED board
    BY <2>1
  <2>3. Record
    <3>1. ~NewDay
      BY <2>1, <2>2 DEF NewDay, BoardSet
    <3>2. ~Spawned
      BY <2>1, <2>2 DEF Spawned, BoardSet
    <3>3. ~SpawnFails
      BY <2>1 DEF SpawnFails
    <3> QED
      BY <2>2, <3>1, <3>2, <3>3
         DEF NightNext, Scheduler, Script, Launch, Restart, Timeout, ProcessDies, Terminate,
             ContainerDies, Prepare, NothingPrepared, Discover, StageFails, FactoryStep,
             Duplicate, Ingest, Conclude, Between
  <2>4. night.stage = "over" /\ night.end = "completed_no_edge"
    BY <2>1, <2>3 DEF Record, Stage
  <2> QED
    BY <2>4 DEF NightInv, ObservedInv, Observed
<1> QED
  BY <1>1, NightInvariance, PTL DEF NightSpec, NegativeIsObserved
=============================================================================
