----------------------------- MODULE FactoryCycle -----------------------------
(***************************************************************************)
(* The strategy factory (research/strategy_factory.py) over its ledger     *)
(* (research/factory_ledger.py). Every slot holds a hypothesis. A cycle    *)
(* gives idle slots a new one, schedules the active ones on the sessions   *)
(* no claim has consumed, replays their variants in workers, opens the     *)
(* sealed window of the one variant it selected, persists every outcome    *)
(* and decides the hypothesis. Every write is a transaction of its own and *)
(* the cycle may die between any two; the next cycle starts from the rows. *)
(* The ingestion of live-shadow evidence runs after the cycle.             *)
(*                                                                         *)
(* Abstractions: one vehicle and one learning epoch. A hypothesis has its  *)
(* root and one neighbour of it, the coordinate phase of its search; the   *)
(* interaction phase, the model's tuning and the lessons are left out. A   *)
(* gate is its verdict, any that the sample admits. Of a sealed window and *)
(* of the partitions only their sessions are kept. Cycles run one at a     *)
(* time, and the corpus a cycle reads was read when it began.              *)
(***************************************************************************)
EXTENDS Integers, FiniteSets, FiniteSetsExt

CONSTANTS
  Slots,             \* the configured slots, a set of numbers
  FirstSessions,     \* sessions in the corpus before the first cycle
  LastSession,       \* bound: sessions in it in the end
  MaxGen,            \* bound: the ladder has hypotheses 0..MaxGen for a slot
  MaxGenerations,    \* max_generations, a slot's mutation budget
  MaxRotations,      \* max_rotations, the family rotations of a slot
  RotationBudget,    \* rotation_budget, the rotations of a cycle
  MaxAttempts,       \* max_confirmatory_attempts
  LlmEnabled,        \* strategy_llm.enabled
  MaxFaults          \* bound: deaths of a process or of a worker, demotions

ASSUME SlotAssumption == Slots \subseteq Nat /\ Slots # {}
ASSUME SessionAssumption ==
  FirstSessions \in Nat /\ LastSession \in Nat /\ FirstSessions <= LastSession
ASSUME BudgetAssumption ==
  {MaxGen, MaxGenerations, MaxRotations, RotationBudget, MaxAttempts, MaxFaults} \subseteq Nat
ASSUME LlmAssumption == LlmEnabled \in BOOLEAN

Variants == {"root", "near"}
Gens == 0..MaxGen
Hypotheses == Slots \X Gens
SlotOf(h) == h[1]
GenOf(h) == h[2]

Active == {"queued", "testing", "backtest_passed", "pending_generation_limit",
           "pending_llm_replacement"}
Statuses == Active \cup {"none", "validated", "retired", "bounded_space_exhausted"}
Verdicts == {"blocked", "thin", "rejected", "inconclusive", "ready", "passed", "failed"}

VARIABLES
  last,       \* the newest session of the corpus, which holds 1..last
  hyp,        \* factory_hypotheses and the latest of their factory_events
  candidate,  \* the edge ledger's status of each variant
  closed,     \* factory_variant_closures
  accounts,   \* factory_accounts
  claims,     \* factory_evidence_claims
  runs,       \* proof runs with a verified gate, in the edge ledger
  done,       \* factory_cycles: the corpora with a complete cycle
  released,   \* history: the sealed windows a process has opened
  proc,       \* the local state of the cycle in progress
  ingest,     \* the hypothesis an ingestion is about to mark, or none
  faults
ledger == <<hyp, candidate, closed, accounts, claims, runs, done>>
vars == <<last, ledger, released, proc, ingest, faults>>

-----------------------------------------------------------------------------
\* What the ledger answers.

Registered == {h \in Hypotheses : hyp[h].status # "none"}
InSlot(s) == {h \in Registered : SlotOf(h) = s}
Latest(hs) == CHOOSE h \in hs : \A k \in hs : GenOf(k) <= GenOf(h)
ActiveIn(s) == {h \in InSlot(s) : hyp[h].status \in Active}
NextGen(s) == IF InSlot(s) = {} THEN 0 ELSE GenOf(Latest(InSlot(s))) + 1

Rotations(s) == Cardinality({h \in InSlot(s) : hyp[h].rotated})
Reseeds(s) == Cardinality({h \in InSlot(s) : hyp[h].reseeded})
GenerationCap(s) == MaxGenerations * (Rotations(s) + Reseeds(s) + 1)

Consumed == UNION {c.sessions : c \in claims}
\* The newest session of the hypothesis's passing forward proofs.
LastBoundary(h) ==
  LET proofs == {r \in runs : r.h = h /\ r.lane = "shadow" /\ r.passes}
  IN Max({0} \cup UNION {r.fit \cup r.held \cup r.sealed : r \in proofs})

Adequate(verdict) == verdict \notin {"blocked", "thin"}
Attempts(h, v) ==
  Cardinality({a \in accounts : a.h = h /\ a.v = v /\ Adequate(a.verdict)
                                /\ a.verdict # "passed"})
AccountAttempts(h, v) == Cardinality({a \in accounts : a.h = h /\ a.v = v})

\* A claim is refused when it shares a session with one of another cycle, or
\* with one of the other kind.
Overlaps(n, kind, sessions) ==
  \E c \in claims : (c.n # n \/ c.kind # kind) /\ c.sessions \cap sessions # {}

Eligible(h) ==
  {v \in Variants : candidate[h][v] \in {"backtest_passed", "shadow", "validated"}}

None == <<>>
Idle == [pc |-> "idle", n |-> 0, todo |-> {}, tasks |-> {}, results |-> {}, target |-> None,
         work |-> {}, child |-> None, mode |-> "", rotations |-> 0, lost |-> FALSE]

Init ==
  /\ last = FirstSessions
  /\ hyp = [h \in Hypotheses |-> [status |-> "none", spec |-> "", notBefore |-> 0,
                                  parent |-> None, rotated |-> FALSE, reseeded |-> FALSE]]
  /\ candidate = [h \in Hypotheses |-> [v \in Variants |-> "none"]]
  /\ closed = {} /\ accounts = {} /\ claims = {} /\ runs = {} /\ done = {}
  /\ released = {} /\ proc = Idle /\ ingest = None /\ faults = 0

-----------------------------------------------------------------------------
\* Around the factory.

At(pc) == proc.pc = pc
Goto(pc) == [proc EXCEPT !.pc = pc]
Quiet == At("idle") /\ ingest = None

\* Another session is recorded.
NewSession ==
  /\ Quiet /\ last < LastSession /\ last' = last + 1
  /\ UNCHANGED <<ledger, released, proc, ingest, faults>>

\* The live-shadow ingestion promotes a candidate, then marks its hypothesis.
IngestPromotes(h, v) ==
  /\ Quiet /\ candidate[h][v] \in {"backtest_passed", "shadow", "demoted"}
  /\ candidate' = [candidate EXCEPT ![h][v] = "validated"]
  /\ ingest' = h
  /\ UNCHANGED <<last, hyp, closed, accounts, claims, runs, done, released, proc, faults>>
IngestMarks ==
  /\ ingest # None /\ ingest' = None
  /\ hyp' = [hyp EXCEPT ![ingest].status = "validated"]
  /\ UNCHANGED <<last, candidate, closed, accounts, claims, runs, done, released, proc, faults>>

\* The edge ledger demotes a degraded candidate.
Demote(h, v) ==
  /\ Quiet /\ candidate[h][v] \in {"shadow", "validated"}
  /\ faults < MaxFaults /\ faults' = faults + 1
  /\ candidate' = [candidate EXCEPT ![h][v] = "demoted"]
  /\ UNCHANGED <<last, hyp, closed, accounts, claims, runs, done, released, proc, ingest>>

-----------------------------------------------------------------------------
\* A cycle begins: nothing to do when this corpus has a complete one. A cycle is
\* known by a number no row bears.
Numbers == {a.n : a \in accounts} \cup {c.n : c \in claims}
Begin ==
  /\ Quiet /\ last \notin done
  /\ proc' = [Idle EXCEPT !.pc = "slots", !.n = Max({0} \cup Numbers) + 1,
                          !.todo = {s \in Slots : ActiveIn(s) = {}}]
  /\ UNCHANGED <<last, ledger, released, ingest, faults>>

\* Insert a hypothesis, queued: at once when it is not there.
Insert(h, spec, notBefore, parent) ==
  hyp' = [hyp EXCEPT ![h] = [status |-> "queued", spec |-> spec, notBefore |-> notBefore,
                             parent |-> parent, rotated |-> FALSE, reseeded |-> FALSE]]

\* An idle slot is given a new hypothesis, while the ladder has one.
SeedSlot ==
  /\ At("slots") /\ proc.todo # {}
  /\ LET s == Min(proc.todo)
         prev == IF InSlot(s) = {} THEN None ELSE Latest(InSlot(s))
     IN IF NextGen(s) > MaxGen
        THEN proc' = [proc EXCEPT !.todo = @ \ {s}] /\ UNCHANGED hyp
        ELSE /\ Insert(<<s, NextGen(s)>>, "seed", IF prev = None THEN 0 ELSE hyp[prev].notBefore,
                       prev)
             /\ proc' = IF prev = None THEN [proc EXCEPT !.todo = @ \ {s}]
                        ELSE [proc EXCEPT !.pc = "revive", !.child = prev]
  /\ UNCHANGED <<last, candidate, closed, accounts, claims, runs, done, released, ingest, faults>>
\* A mutant: the event puts the predecessor back in the queue.
RecordReviveQueued ==
  /\ At("revive")
  /\ hyp' = [hyp EXCEPT ![proc.child].reseeded = (hyp[proc.child].status = "validated"),
                        ![proc.child].status = "queued"]
  /\ proc' = [proc EXCEPT !.pc = "slots", !.todo = @ \ {SlotOf(proc.child)}, !.child = None]
  /\ UNCHANGED <<last, candidate, closed, accounts, claims, runs, done, released, ingest, faults>>
\* The one it replaces gets an event that repeats its status; after a proof, the
\* event counts as a reseed.
RecordRevive ==
  /\ At("revive")
  /\ hyp' = [hyp EXCEPT ![proc.child].reseeded = (hyp[proc.child].status = "validated")]
  /\ proc' = [proc EXCEPT !.pc = "slots", !.todo = @ \ {SlotOf(proc.child)}, !.child = None]
  /\ UNCHANGED <<last, candidate, closed, accounts, claims, runs, done, released, ingest, faults>>
\* A mutant: a queued hypothesis is not counted among the active ones.
SlotsDoneTested ==
  /\ At("slots") /\ proc.todo = {}
  /\ LET tested(s) == {h \in ActiveIn(s) : hyp[h].status # "queued"}
         chosen == {Latest(tested(s)) : s \in {q \in Slots : tested(q) # {}}}
     IN proc' = IF chosen = {} THEN Idle
                ELSE [proc EXCEPT !.pc = "schedule", !.todo = chosen]
  /\ UNCHANGED <<last, ledger, released, ingest, faults>>
SlotsDone ==
  /\ At("slots") /\ proc.todo = {}
  /\ LET chosen == {Latest(ActiveIn(s)) : s \in {q \in Slots : ActiveIn(q) # {}}}
     IN proc' = IF chosen = {} THEN Idle
                ELSE [proc EXCEPT !.pc = "schedule", !.todo = chosen]
  /\ UNCHANGED <<last, ledger, released, ingest, faults>>

-----------------------------------------------------------------------------
\* Scheduling, one hypothesis after another.

\* The member of the lowest slot.
First(S, slot(_)) == CHOOSE x \in S : \A y \in S : slot(x) <= slot(y)
\* The newest fifth of the sessions is sealed, at least one of them.
Sealed(S) ==
  LET reserved == Max({1, Cardinality(S) \div 5})
  IN IF Cardinality(S) <= reserved THEN {}
     ELSE {s \in S : Cardinality({q \in S : q >= s}) <= reserved}
\* The first 70 % of what is left fits, the rest is held out; forward data is
\* held out entirely.
Fit(mode, S) ==
  LET n == Cardinality(S)
      cut == Max({1, Min({n - 1, (n * 7) \div 10})})
  IN IF mode = "shadow" THEN {}
     ELSE {s \in S : Cardinality({q \in S : q <= s}) <= cut}

Mode(h) == IF hyp[h].status = "backtest_passed" THEN "shadow" ELSE "backtest"
Boundary(h) == IF Mode(h) = "shadow" THEN LastBoundary(h) ELSE hyp[h].notBefore
Selected(h) == {s \in 1..last : s > Boundary(h)} \ Consumed

\* The variants of a backtest: the neighbour while it is open and no recorded
\* failure has taken it out of the pool, then the root while it is open.
Pools(h) ==
  LET open == {v \in Variants : <<h, v>> \notin closed}
      seen == \E a \in accounts : a.h = h /\ a.v = "near"
  IN (IF "near" \in open THEN {{"near"}} ELSE {})
     \cup (IF "near" \notin open \/ seen THEN {open \cap {"root"}} ELSE {})

Task(h, variants) ==
  LET mode == Mode(h)
      sealed == Sealed(Selected(h))
      development == Selected(h) \ sealed
  IN [h |-> h, mode |-> mode, status |-> hyp[h].status, variants |-> variants,
      phase |-> IF mode = "backtest" /\ variants = {"near"} THEN "coordinate"
                ELSE "confirmatory",
      fit |-> Fit(mode, development), held |-> development \ Fit(mode, development),
      sealed |-> sealed]

Waiting(h) == (Mode(h) = "shadow" /\ Eligible(h) = {}) \/ Selected(h) = {}
Schedule ==
  /\ At("schedule") /\ proc.todo # {}
  /\ LET h == First(proc.todo, SlotOf)
     IN \/ /\ Waiting(h)
           /\ proc' = [proc EXCEPT !.todo = @ \ {h}] /\ UNCHANGED hyp
        \/ /\ ~Waiting(h)
           /\ hyp' = [hyp EXCEPT ![h].status = "testing"]
           /\ \E variants \in IF Mode(h) = "shadow" THEN {Eligible(h)} ELSE Pools(h) :
                proc' = [proc EXCEPT !.todo = @ \ {h}, !.tasks = @ \cup {Task(h, variants)}]
  /\ UNCHANGED <<last, candidate, closed, accounts, claims, runs, done, released, ingest, faults>>
ScheduleDone ==
  /\ At("schedule") /\ proc.todo = {}
  /\ proc' = IF proc.tasks = {} THEN Idle ELSE Goto("evaluate")
  /\ UNCHANGED <<last, ledger, released, ingest, faults>>

TaskSlot(t) == SlotOf(t.h)
Task1 == First(proc.tasks, TaskSlot)

\* A worker returns the verdict of each variant: thin when it has nothing held
\* out, and blocked when nothing could be executed.
Evaluate ==
  /\ At("evaluate") /\ proc.tasks # {}
  /\ LET t == Task1
         verdicts == IF t.held = {} THEN {"thin", "blocked"}
                     ELSE {"blocked", "thin", "rejected", "inconclusive", "ready"}
     IN \E verdict \in [t.variants -> verdicts] :
          proc' = [proc EXCEPT !.tasks = @ \ {t},
                               !.results = @ \cup {[task |-> t, verdict |-> verdict]}]
  /\ UNCHANGED <<last, ledger, released, ingest, faults>>
\* A worker that fails concludes nothing, and leaves the corpus open.
WorkerFails ==
  /\ At("evaluate") /\ proc.tasks # {} /\ faults < MaxFaults /\ faults' = faults + 1
  /\ hyp' = [hyp EXCEPT ![Task1.h].status =
       IF Task1.mode = "shadow" THEN "backtest_passed" ELSE "queued"]
  /\ proc' = [proc EXCEPT !.tasks = @ \ {Task1}, !.lost = TRUE]
  /\ UNCHANGED <<last, candidate, closed, accounts, claims, runs, done, released, ingest>>
\* No signal at all in any variant: the hypothesis ends without a replay.
ScreenedOut ==
  /\ At("evaluate") /\ proc.tasks # {} /\ Task1.mode = "backtest" /\ Task1.variants # {}
  /\ hyp' = [hyp EXCEPT ![Task1.h].status = "bounded_space_exhausted"]
  /\ proc' = [proc EXCEPT !.tasks = @ \ {Task1}]
  /\ UNCHANGED <<last, candidate, closed, accounts, claims, runs, done, released, ingest, faults>>

\* One variant of the cycle is selected among those whose development passes.
Ready ==
  {x \in proc.results \X Variants : x[2] \in x[1].task.variants /\ x[1].verdict[x[2]] = "ready"}
Select ==
  /\ At("evaluate") /\ proc.tasks = {}
  /\ \/ /\ Ready = {} /\ proc' = Goto("persist")
     \/ \E x \in Ready :
          proc' = [proc EXCEPT !.target = <<x[1].task.h, x[2], x[1].task.sealed>>,
                               !.pc = IF x[1].task.sealed = {} THEN "persist" ELSE "claim"]
  /\ UNCHANGED <<last, ledger, released, ingest, faults>>

Claim(h, v, kind, sessions) ==
  [n |-> proc.n, h |-> h, v |-> v, kind |-> kind, sessions |-> sessions]
\* Its sealed window is claimed before it is opened; a refused claim leaves the
\* window closed.
ClaimQualification ==
  /\ At("claim")
  /\ LET h == proc.target[1]
         sessions == proc.target[3]
     IN IF Overlaps(proc.n, "qualification", sessions)
        THEN proc' = Goto("persist") /\ UNCHANGED claims
        ELSE /\ claims' = claims \cup {Claim(h, proc.target[2], "qualification", sessions)}
             /\ proc' = Goto("release")
  /\ UNCHANGED <<last, hyp, candidate, closed, accounts, runs, done, released, ingest, faults>>

Verdict(r, h, v, verdict) ==
  IF r.task.h = h THEN [r EXCEPT !.verdict[v] = verdict] ELSE r
Release ==
  /\ At("release")
  /\ released' = released \cup {[n |-> proc.n, sessions |-> proc.target[3]]}
  /\ \E verdict \in {"passed", "failed"} :
       proc' = [proc EXCEPT !.pc = "persist",
                  !.results = {Verdict(r, proc.target[1], proc.target[2], verdict) : r \in @}]
  /\ UNCHANGED <<last, ledger, ingest, faults>>

-----------------------------------------------------------------------------
\* Persisting, one hypothesis after another and one variant after another.

ResultSlot(r) == SlotOf(r.task.h)
Result == First(proc.results, ResultSlot)
H == Result.task.h
V == IF "near" \in proc.work THEN "near" ELSE "root"
VerdictOf(v) == Result.verdict[v]
Qualified(v) == VerdictOf(v) \in {"passed", "failed"}

\* A snapshot event repeats the status the hypothesis had when it was scheduled.
Snapshot ==
  /\ At("persist") /\ proc.results # {}
  /\ hyp' = [hyp EXCEPT ![H].status = Result.task.status]
  /\ proc' = [proc EXCEPT !.pc = "account", !.work = Result.task.variants]
  /\ UNCHANGED <<last, candidate, closed, accounts, claims, runs, done, released, ingest, faults>>

\* A mutant: the held-out sessions are not claimed.
AddAccountOnly ==
  /\ At("account") /\ proc.work # {}
  /\ accounts' = accounts \cup {[n |-> proc.n, h |-> H, v |-> V, verdict |-> VerdictOf(V)]}
  /\ claims' = claims
  /\ proc' = Goto("close")
  /\ UNCHANGED <<last, hyp, candidate, closed, runs, done, released, ingest, faults>>
\* The account and the claim of its held-out sessions are one transaction; a
\* refused claim leaves the account.
AddAccount ==
  /\ At("account") /\ proc.work # {}
  /\ accounts' = accounts \cup {[n |-> proc.n, h |-> H, v |-> V, verdict |-> VerdictOf(V)]}
  /\ claims' = IF Adequate(VerdictOf(V)) /\ ~Overlaps(proc.n, "heldout", Result.task.held)
               THEN claims \cup {Claim(H, V, "heldout", Result.task.held)} ELSE claims
  /\ proc' = Goto("close")
  /\ UNCHANGED <<last, hyp, candidate, closed, runs, done, released, ingest, faults>>

\* A rejected variant is closed; an undecided or blocked one when its attempts
\* are used up.
Closes(verdict) ==
  \/ verdict = "rejected"
  \/ verdict = "blocked" /\ AccountAttempts(H, V) >= MaxAttempts
  \/ verdict \in {"inconclusive", "failed"} /\ Attempts(H, V) >= MaxAttempts
CloseVariant ==
  /\ At("close")
  /\ closed' = IF Closes(VerdictOf(V)) THEN closed \cup {<<H, V>>} ELSE closed
  /\ proc' = Goto("candidate")
  /\ UNCHANGED <<last, hyp, candidate, accounts, claims, runs, done, released, ingest, faults>>

RegisterCandidate ==
  /\ At("candidate")
  /\ candidate' = [candidate EXCEPT ![H][V] = IF @ = "none" THEN "candidate" ELSE @]
  /\ proc' = IF Qualified(V) THEN Goto("proof")
             ELSE [proc EXCEPT !.pc = "account", !.work = @ \ {V}]
  /\ UNCHANGED <<last, hyp, closed, accounts, claims, runs, done, released, ingest, faults>>
\* Only the variant whose window was opened gets a proof run.
AppendProof ==
  /\ At("proof")
  /\ runs' = runs \cup
       {[n |-> proc.n, h |-> H, v |-> V, lane |-> Result.task.mode, fit |-> Result.task.fit,
         held |-> Result.task.held, sealed |-> proc.target[3],
         passes |-> VerdictOf(V) = "passed"]}
  /\ proc' = Goto("promote")
  /\ UNCHANGED <<last, hyp, candidate, closed, accounts, claims, done, released, ingest, faults>>
Promoted(status) ==
  CASE Result.task.mode = "backtest" /\ status = "candidate" -> "backtest_passed"
    [] Result.task.mode = "shadow" /\ status \in {"backtest_passed", "demoted"} -> "shadow"
    [] OTHER -> status
Promote ==
  /\ At("promote")
  /\ candidate' = IF VerdictOf(V) = "passed"
                  THEN [candidate EXCEPT ![H][V] = Promoted(@)] ELSE candidate
  /\ proc' = [proc EXCEPT !.pc = "account", !.work = @ \ {V}]
  /\ UNCHANGED <<last, hyp, closed, accounts, claims, runs, done, released, ingest, faults>>

-----------------------------------------------------------------------------
\* The decision on the hypothesis.

Deciding == At("account") /\ proc.work = {}
Local == {VerdictOf(v) : v \in Result.task.variants}
NextResult == [proc EXCEPT !.pc = "persist", !.results = @ \ {Result}, !.work = {},
                           !.child = None, !.mode = ""]
SetStatus(status) ==
  /\ hyp' = [hyp EXCEPT ![H].status = status]
  /\ proc' = NextResult
  /\ UNCHANGED <<last, candidate, closed, accounts, claims, runs, done, released, ingest, faults>>

Passing == "passed" \in Local
AllAdequate == Local # {} /\ \A verdict \in Local : Adequate(verdict)
Recentering == ~Passing /\ Result.task.phase = "coordinate" /\ AllAdequate
Negative == ~Passing /\ ~Recentering /\ Local = {"rejected"}
Blocked ==
  /\ ~Passing /\ ~Recentering /\ Local = {"blocked"}
  /\ Result.task.mode = "backtest" /\ Result.task.phase = "confirmatory"

DecidePassing ==
  /\ Deciding /\ Passing
  /\ SetStatus(IF Result.task.mode = "shadow" THEN "testing" ELSE "backtest_passed")
DecideOpen ==
  /\ Deciding /\ ~Passing /\ ~Recentering /\ ~Negative /\ ~Blocked
  /\ SetStatus(Result.task.status)

\* The successor of the hypothesis is registered. A row of the same identity is
\* kept; another in its place is an integrity error, which ends the cycle.
RegisterChild(child, spec, mode) ==
  /\ proc' = IF hyp[child].status # "none" /\ hyp[child].spec # spec THEN Idle
             ELSE [proc EXCEPT !.pc = "retire", !.child = child, !.mode = mode]
  /\ IF hyp[child].status = "none"
     THEN Insert(child, spec, Max({0} \cup Result.task.fit \cup Result.task.held), H)
     ELSE UNCHANGED hyp
  /\ UNCHANGED <<last, candidate, closed, accounts, claims, runs, done, released, ingest, faults>>

Child == <<SlotOf(H), GenOf(H) + 1>>
WithinCap == GenOf(H) + 1 < GenerationCap(SlotOf(H))
Recenter ==
  /\ Deciding /\ Recentering
  /\ \/ SetStatus(Result.task.status)
     \/ ~WithinCap /\ SetStatus("bounded_space_exhausted")
     \/ WithinCap /\ Child \in Hypotheses /\ RegisterChild(Child, "near", "recenter")

\* The family of a replacement depends on how the hypothesis failed.
Replace ==
  /\ Deciding /\ Negative
  /\ WithinCap /\ Child \in Hypotheses
  /\ \/ \E spec \in {"family1", "family2"} : RegisterChild(Child, spec, "scientific")
     \/ LlmEnabled /\ SetStatus("pending_llm_replacement")

Rotatable ==
  /\ GenOf(H) >= 1 \/ Blocked
  /\ Rotations(SlotOf(H)) < MaxRotations /\ proc.rotations < RotationBudget
  /\ NextGen(SlotOf(H)) <= MaxGen
Rotate ==
  /\ Deciding /\ (Blocked \/ (Negative /\ ~(WithinCap /\ Child \in Hypotheses)))
  /\ IF Rotatable
     THEN RegisterChild(<<SlotOf(H), NextGen(SlotOf(H))>>, "seed", "rotation")
     ELSE SetStatus("pending_generation_limit")

\* A mutant: the successor is enough.
SuccessorOnly == hyp[proc.child].parent = H
\* Retirement verifies the evidence it rests on: the successor, an account of
\* every intended variant in this cycle, and, unless the search was recentered,
\* that each is an adequate rejection; otherwise it raises and the cycle ends.
Evidence ==
  /\ hyp[proc.child].parent = H
  /\ \A v \in Result.task.variants :
       \E a \in accounts : /\ a.n = proc.n /\ a.h = H /\ a.v = v
                           /\ proc.mode = "recenter" \/ a.verdict = "rejected"
Retire ==
  /\ At("retire")
  /\ IF Evidence
     THEN /\ hyp' = [hyp EXCEPT ![H].status = "retired", ![H].rotated = (proc.mode = "rotation")]
          /\ proc' = [NextResult EXCEPT !.rotations =
                        @ + (IF proc.mode = "rotation" THEN 1 ELSE 0)]
     ELSE proc' = Idle /\ UNCHANGED hyp
  /\ UNCHANGED <<last, candidate, closed, accounts, claims, runs, done, released, ingest, faults>>

\* A cycle no worker of which failed is complete.
AddCycle ==
  /\ At("persist") /\ proc.results = {} /\ proc' = Idle
  /\ done' = IF proc.lost THEN done ELSE done \cup {last}
  /\ UNCHANGED <<last, hyp, candidate, closed, accounts, claims, runs, released, ingest, faults>>

\* The process of the cycle or of the ingestion dies.
Crash ==
  /\ ~Quiet /\ faults < MaxFaults /\ faults' = faults + 1
  /\ proc' = Idle /\ ingest' = None
  /\ UNCHANGED <<last, ledger, released>>

Cycle ==
  \/ Begin \/ SeedSlot \/ RecordRevive \/ SlotsDone \/ Schedule \/ ScheduleDone
  \/ Evaluate \/ Select \/ ClaimQualification \/ Release
  \/ Snapshot \/ AddAccount \/ CloseVariant \/ RegisterCandidate \/ AppendProof \/ Promote
  \/ DecidePassing \/ DecideOpen \/ Recenter \/ Replace \/ Rotate \/ Retire \/ AddCycle
Next ==
  \/ NewSession
  \/ \E h \in Hypotheses, v \in Variants : IngestPromotes(h, v) \/ Demote(h, v)
  \/ IngestMarks
  \/ Cycle \/ WorkerFails \/ ScreenedOut \/ Crash

Spec == Init /\ [][Next]_vars
\* The scheduler runs the two processes night after night, one after the other.
FairSpec == Spec /\ WF_vars(Cycle \/ IngestMarks)

-----------------------------------------------------------------------------
\* Properties.

\* The shape of the ledger and of a cycle's own state.
TypeOK ==
  /\ last \in 0..LastSession /\ faults \in 0..MaxFaults
  /\ hyp \in [Hypotheses -> [status : Statuses,
                             spec : {"", "seed", "near", "family1", "family2"},
                             notBefore : 0..LastSession, parent : {None} \cup Hypotheses,
                             rotated : BOOLEAN, reseeded : BOOLEAN]]
  /\ candidate \in [Hypotheses -> [Variants -> {"none", "candidate", "backtest_passed",
                                                "shadow", "validated", "demoted"}]]
  /\ closed \subseteq Hypotheses \X Variants
  /\ \A a \in accounts : a.verdict \in Verdicts /\ a.n \in Nat
  /\ \A c \in claims : c.sessions \subseteq 1..last /\ c.kind \in {"heldout", "qualification"}
  /\ \A r \in runs : r.fit \cup r.held \cup r.sealed \subseteq 1..last
  /\ done \subseteq 0..last /\ ingest \in {None} \cup Hypotheses

\* Two proofs of different cycles never rest on a common session, and no session
\* is in two opened windows, whatever died in between ("confirmatory evidence,
\* not a renewable tuning corpus").
Judged(r) == r.held \cup r.sealed
EvidenceUsedOnce ==
  /\ \A r, q \in runs : r.n # q.n => Judged(r) \cap Judged(q) = {}
  /\ \A w, x \in released : w # x => w.sessions \cap x.sessions = {}

\* A hypothesis that has left the active set never returns to it ("leaves the
\* active set permanently once it proves an edge"), whatever stale status a
\* cycle had read.
Gone(h) == hyp[h].status \in {"validated", "retired", "bounded_space_exhausted"}
GoneForGood == [][\A h \in Hypotheses : Gone(h) => Gone(h)']_vars

\* A retired hypothesis has a registered successor, and one cycle holds the
\* account of a variant of it that could be judged.
RetiredIsReplaced ==
  \A h \in Hypotheses : hyp[h].status = "retired" =>
    /\ \E k \in Registered : hyp[k].parent = h
    /\ \E a \in accounts : a.h = h /\ Adequate(a.verdict) /\ a.verdict # "passed"

\* Whatever dies or is aborted, the cycle of the present corpus is completed, or
\* there is nothing in it that could be scheduled.
NothingToDo ==
  \A s \in Slots : IF ActiveIn(s) = {} THEN NextGen(s) > MaxGen
                   ELSE Waiting(Latest(ActiveIn(s)))
CorpusIsFinished == []<>(last \in done \/ NothingToDo)

\* A forward pass is judged on sessions after every one the backtest it follows
\* was given: "a later corpus must contain sessions strictly after the persisted
\* boundary" (research/README.md:457).
ForwardIsLater ==
  \A r, q \in runs :
    r.lane = "shadow" /\ q.lane = "backtest" /\ q.passes /\ q.n < r.n /\ q.h = r.h /\ q.v = r.v
    => \A s \in Judged(r), b \in q.fit \cup q.held \cup q.sealed : s > b
=============================================================================
