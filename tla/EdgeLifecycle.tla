--------------------------- MODULE EdgeLifecycle ---------------------------
(***************************************************************************)
(* The lifecycle of a research candidate in the edge ledger                *)
(* (research/edge_ledger.py, edge_ledger_proof.py, edge_ledger_store.py)   *)
(* and the jobs that move it: the factory's evaluation, the ingestion of   *)
(* the live-shadow tail (research/live_shadow_ingest.py), the selection of *)
(* a champion, and the demotion of an edge that failed on paper.           *)
(*                                                                         *)
(* Runs, trades, evidence and events are append-only rows; the status of a *)
(* candidate is the one row that is overwritten.  Every insert is its own  *)
(* transaction, and transition() reads the status, checks the latest proof *)
(* and writes in three separate connections.  The research process and the *)
(* trader both run jobs, and any of them may die between two transactions. *)
(*                                                                         *)
(* Sessions are counted in adequate tails: one unit of `day` is enough new *)
(* sessions for a selection window and a disjoint confirmatory window.     *)
(***************************************************************************)
EXTENDS Integers, Sequences, FiniteSets

CONSTANTS
    Candidates,     \* candidate ids; the greater one has the better bound
    Researchers,    \* processes that evaluate, ingest and select
    Trader,         \* the runtime: it selects, and demotes on paper results
    MaxDay,         \* bound: tails the recorder and the shadow log deliver
    MaxRuns,        \* bound: runs of any candidate
    RunBound,       \* bound: runs of each candidate
    MaxFaults       \* bound: deaths of a job

ASSUME EdgeLifecycleAssumption ==
    /\ Candidates \subseteq Nat
    /\ IsFiniteSet(Candidates)
    /\ Trader \notin Researchers
    /\ MaxDay \in Nat
    /\ MaxRuns \in Nat
    /\ RunBound \in [Candidates -> 0 .. MaxRuns]
    /\ MaxFaults \in Nat

VARIABLES
    day,        \* sessions recorded and replayed so far
    status,     \* candidate_state
    runs,       \* runs with their trades, gate and marker, oldest first
    validated,  \* per candidate: runs a validated event names
    demoted_at, \* per candidate: number of runs at its latest demotion event
    fdr,        \* factory_fdr: confirmatory decisions per candidate and tail
    job,        \* per process: the job in progress, its locals and its line
    faults      \* deaths so far

ledger == <<status, runs, validated, demoted_at, fdr>>
vars   == <<day, status, runs, validated, demoted_at, fdr, job, faults>>

Procs      == Researchers \cup {Trader}
Statuses   == {"candidate", "backtest_passed", "shadow", "validated",
               "champion", "demoted", "retired"}
Deployed   == {"validated", "champion"}
Kinds      == {"backtest", "offline", "live"}
Verdicts   == {"pass", "terminal"}
Lines      == {"idle", "append", "rows", "gate", "marker", "status",
               "check", "write", "supersede"}

(* A run: its lane (offline and live runs are of the shadow lane), the
   sessions it consumed, the run whose gate fixed its configuration, and
   which of its rows are durable.                                          *)
Run == [kind : Kinds, start : 0 .. MaxDay, end : 0 .. MaxDay,
        prior : 0 .. MaxRuns, verdict : Verdicts,
        rows : BOOLEAN, gate : BOOLEAN, marker : BOOLEAN]

(* A job: what it is, where it is, the candidate, the run it writes, the
   tail and prior it read, the requested status and the one transition()
   read, and the champions of its snapshot still to be superseded.         *)
Jobs == {"none", "evaluate", "ingest", "demote", "select"}

Job == [kind : Jobs, at : Lines, cand : Candidates \cup {-1},
        run : 0 .. MaxRuns, start : 0 .. MaxDay, end : 0 .. MaxDay,
        prior : 0 .. MaxRuns, to : Statuses, old : SUBSET Candidates]

NoJob == [kind |-> "none", at |-> "idle", cand |-> -1, run |-> 0,
          start |-> 0, end |-> 0, prior |-> 0, to |-> "candidate", old |-> {}]

TypeOK ==
    /\ day \in 0 .. MaxDay
    /\ status \in [Candidates -> Statuses]
    /\ runs \in [Candidates -> Seq(Run)]
    /\ \A c \in Candidates : Len(runs[c]) <= MaxRuns
    /\ validated \in [Candidates -> SUBSET (1 .. MaxRuns)]
    /\ demoted_at \in [Candidates -> 0 .. MaxRuns]
    /\ fdr \in [Candidates -> SUBSET [start : 0 .. MaxDay, end : 0 .. MaxDay,
                                      decision : BOOLEAN]]
    /\ job \in [Procs -> Job]
    /\ faults \in 0 .. MaxFaults

Init ==
    /\ day = 0
    /\ status = [c \in Candidates |-> "candidate"]
    /\ runs = [c \in Candidates |-> <<>>]
    /\ validated = [c \in Candidates |-> {}]
    /\ demoted_at = [c \in Candidates |-> 0]
    /\ fdr = [c \in Candidates |-> {}]
    /\ job = [p \in Procs |-> NoJob]
    /\ faults = 0

-----------------------------------------------------------------------------
(* What the readers of the ledger derive from its rows.                    *)

OfLane(c, lane) ==
    {k \in 1 .. Len(runs[c]) :
        IF lane = "shadow" THEN runs[c][k].kind # "backtest"
        ELSE runs[c][k].kind = "backtest"}

Newest(K) == IF K = {} THEN 0 ELSE CHOOSE k \in K : \A j \in K : j <= k

(* latest_verified_run: the newest run of the lane, and only if it has its
   gate; an older proof does not stand in for it.                          *)
LatestVerified(c, lane) ==
    LET k == Newest(OfLane(c, lane))
    IN  IF k # 0 /\ runs[c][k].gate THEN k ELSE 0

(* _latest_gate of the ingester: the shadow lane first, then the backtest. *)
LatestGate(c) ==
    IF LatestVerified(c, "shadow") # 0 THEN LatestVerified(c, "shadow")
    ELSE LatestVerified(c, "backtest")

(* _live_shadow_authorized: a parity ingestion with marker, gate and a
   durable confirmatory discovery.                                         *)
LiveShadowAuthorized(c, k) ==
    LET r == runs[c][k]
    IN  /\ r.kind = "live" /\ r.gate /\ r.marker
        /\ [start |-> r.start, end |-> r.end, decision |-> TRUE] \in fdr[c]

(* The newest run of the shadow lane is a passing, authorized proof.       *)
ShadowProved(c) ==
    LET k == LatestVerified(c, "shadow")
    IN  k # 0 /\ runs[c][k].verdict = "pass" /\ LiveShadowAuthorized(c, k)

Eligible(c) == status[c] \in Deployed /\ ShadowProved(c)

(* _latest_boundary: the newest session a backtest or a validated, complete
   live run has consumed, whatever the status is now.                      *)
LatestBoundary(c) ==
    LET consumed == {k \in 1 .. Len(runs[c]) :
                        \/ runs[c][k].kind = "backtest"
                        \/ /\ k \in validated[c]
                           /\ runs[c][k].gate /\ runs[c][k].marker}
        ends     == {runs[c][k].end : k \in consumed}
    IN  IF ends = {} THEN 0 ELSE CHOOSE e \in ends : \A f \in ends : f <= e

(* The run id of an ingestion is a digest of candidate and tail.           *)
RunOfTail(c, start, end) ==
    Newest({k \in 1 .. Len(runs[c]) :
               /\ runs[c][k].kind = "live"
               /\ runs[c][k].start = start
               /\ runs[c][k].end = end})

-----------------------------------------------------------------------------
(* transition(): read and check in two connections, write in a third.      *)

Allowed(from) ==
    CASE from = "candidate"       -> {"backtest_passed", "retired"}
      [] from = "backtest_passed" -> {"shadow", "retired"}
      [] from = "shadow"          -> {"validated", "demoted", "retired"}
      [] from = "validated"       -> {"champion", "demoted", "retired"}
      [] from = "champion"        -> {"validated", "demoted", "retired"}
      [] from = "demoted"         -> {"shadow", "retired"}
      [] from = "retired"         -> {}

(* The proof a target status requires of the latest run.                   *)
GateAllows(c, to) ==
    LET shadow == LatestVerified(c, "shadow")
        back   == LatestVerified(c, "backtest")
        last   == Len(runs[c])
    IN  CASE to = "backtest_passed" ->
                 back # 0 /\ runs[c][back].verdict = "pass"
          [] to = "shadow" ->
                 /\ shadow # 0 /\ runs[c][shadow].verdict = "pass"
                 /\ status[c] = "demoted" => shadow > demoted_at[c]
          [] to \in Deployed -> ShadowProved(c)
          [] to = "retired" ->
                 last # 0 /\ runs[c][last].gate
                          /\ runs[c][last].verdict = "terminal"
          [] OTHER -> TRUE

(* Where a job goes on after the transition it asked for has returned.     *)
AfterWrite(j) ==
    CASE j.kind = "ingest" /\ j.to = "shadow" ->
             [j EXCEPT !.at = "check", !.to = "validated"]
      [] j.kind = "select" -> [j EXCEPT !.at = "supersede"]
      [] OTHER -> NoJob

(* Where a job goes on when transition() raised ValueError: the ingester
   reads the status again and accepts it if another writer set it.         *)
AfterRefusal(j) ==
    IF j.kind = "ingest" /\ status[j.cand] = j.to THEN AfterWrite(j) ELSE NoJob

CheckTransition(p) ==
    LET j == job[p]
    IN  /\ j.at = "check"
        /\ job' = [job EXCEPT ![p] =
              IF j.to \in Allowed(status[j.cand]) /\ GateAllows(j.cand, j.to)
              THEN [j EXCEPT !.at = "write"]
              ELSE AfterRefusal(j)]
        /\ UNCHANGED <<day, ledger, faults>>

(* The unconditional upsert with its event.  Only the ingester's validated
   event names its run.                                                    *)
WriteTransition(p) ==
    LET j == job[p]
    IN  /\ j.at = "write"
        /\ status' = [status EXCEPT ![j.cand] = j.to]
        /\ validated' = IF j.kind = "ingest" /\ j.to = "validated"
                        THEN [validated EXCEPT ![j.cand] = @ \cup {j.run}]
                        ELSE validated
        /\ demoted_at' = IF j.to = "demoted"
                         THEN [demoted_at EXCEPT ![j.cand] = Len(runs[j.cand])]
                         ELSE demoted_at
        /\ job' = [job EXCEPT ![p] = AfterWrite(j)]
        /\ UNCHANGED <<day, runs, fdr, faults>>

-----------------------------------------------------------------------------
(* The factory and the laboratory: one evaluation, one run.                *)

(* A candidate that never passed is backtested, any other one is replayed
   forward over sessions newer than its runs.  append_run.                 *)
BeginEvaluation(p, c) ==
    LET kind == IF status[c] = "candidate" THEN "backtest" ELSE "offline"
        seen == {runs[c][k].end : k \in 1 .. Len(runs[c])}
    IN  /\ p \in Researchers
        /\ job[p] = NoJob
        /\ status[c] # "retired"
        /\ Len(runs[c]) < RunBound[c]
        /\ kind = "offline" => \A e \in seen : e < day
        /\ \E v \in Verdicts :
              runs' = [runs EXCEPT ![c] = Append(@,
                  [kind |-> kind, start |-> 0, end |-> day, prior |-> 0,
                   verdict |-> v, rows |-> FALSE, gate |-> FALSE,
                   marker |-> FALSE])]
        /\ job' = [job EXCEPT ![p] = [NoJob EXCEPT
              !.kind = "evaluate", !.at = "rows", !.cand = c,
              !.run = Len(runs[c]) + 1]]
        /\ UNCHANGED <<day, status, validated, demoted_at, fdr, faults>>

(* Mutant: the gate is recorded without the durable trades it describes.    *)
AppendTradesInMemory(p) ==
    LET j == job[p]
    IN  /\ j.at = "rows"
        /\ job' = [job EXCEPT ![p].at = "gate"]
        /\ UNCHANGED <<day, ledger, faults>>

(* append_trade for every row of the run that is not durable yet.          *)
AppendTrades(p) ==
    LET j == job[p]
    IN  /\ j.at = "rows"
        /\ runs' = [runs EXCEPT ![j.cand][j.run].rows = TRUE]
        /\ job' = [job EXCEPT ![p].at = "gate"]
        /\ UNCHANGED <<day, status, validated, demoted_at, fdr, faults>>

(* Mutant: the ingester verifies its proof in memory and records it last.   *)
RecordVerifiedGateLater(p) ==
    LET j == job[p]
    IN  /\ j.at = "gate"
        /\ runs' = IF j.kind = "ingest" THEN runs
                   ELSE [runs EXCEPT ![j.cand][j.run].gate = TRUE]
        /\ job' = [job EXCEPT ![p].at =
                      IF j.kind = "ingest" THEN "marker" ELSE "status"]
        /\ UNCHANGED <<day, status, validated, demoted_at, fdr, faults>>

(* record_verified_gate; the ingester accepts one that is already there.   *)
RecordVerifiedGate(p) ==
    LET j == job[p]
    IN  /\ j.at = "gate"
        /\ runs' = [runs EXCEPT ![j.cand][j.run].gate = TRUE]
        /\ job' = [job EXCEPT ![p].at =
                      IF j.kind = "ingest" THEN "marker" ELSE "status"]
        /\ UNCHANGED <<day, status, validated, demoted_at, fdr, faults>>

(* The status an evaluation asks for, from its verdict and the status it
   reads once the gate is durable; "candidate" stands for none.            *)
Verdict(c, k) ==
    LET r == runs[c][k]
        s == status[c]
    IN  CASE r.verdict = "pass" /\ r.kind = "backtest" /\ s = "candidate" ->
                 "backtest_passed"
          [] r.verdict = "pass" /\ r.kind = "offline"
                                /\ s \in {"backtest_passed", "demoted"} ->
                 "shadow"
          [] r.verdict = "terminal" /\ s \in {"candidate", "backtest_passed"} ->
                 "retired"
          [] r.verdict = "terminal" /\ s \in {"shadow"} \cup Deployed ->
                 "demoted"
          [] OTHER -> "candidate"

ApplyVerdict(p) ==
    LET j  == job[p]
        to == Verdict(j.cand, j.run)
    IN  /\ j.kind = "evaluate" /\ j.at = "status"
        /\ job' = [job EXCEPT ![p] =
              IF to = "candidate" THEN NoJob
              ELSE [j EXCEPT !.at = "check", !.to = to]]
        /\ UNCHANGED <<day, ledger, faults>>

-----------------------------------------------------------------------------
(* The live-shadow ingester.                                               *)

(* _candidate_ids: what is not eligible and has a proof to build on.        *)
Ingestible(c) ==
    /\ status[c] \in {"backtest_passed", "shadow", "demoted"} \cup Deployed
    /\ ~Eligible(c)
    /\ LatestGate(c) # 0

(* The complete tail of replayed sessions after the boundary.               *)
TailOf(c) == [start |-> LatestBoundary(c), end |-> day]

(* Both halves of the tail, selection and confirmatory, are large enough.   *)
Adequate(tail) == tail.end > tail.start

(* The selection and confirmatory gates of _one, up to the durable decision of
   record_fdr_decision, which a retry of the same tail reads back.  A tail
   whose gate fails ends the job here.                                     *)
TestTail(p, c) ==
    LET tail   == TailOf(c)
        tested == {d \in fdr[c] : d.start = tail.start /\ d.end = tail.end}
    IN  /\ p \in Researchers
        /\ job[p] = NoJob
        /\ Ingestible(c)
        /\ Adequate(tail)
        /\ \E ok \in BOOLEAN :
              /\ \A d \in tested : d.decision = ok
              /\ fdr' = [fdr EXCEPT ![c] =
                            @ \cup {[start |-> tail.start, end |-> tail.end,
                                     decision |-> ok]}]
              /\ job' = [job EXCEPT ![p] =
                    IF ok THEN [NoJob EXCEPT
                        !.kind = "ingest", !.at = "append", !.cand = c,
                        !.start = tail.start, !.end = tail.end,
                        !.prior = LatestGate(c)]
                    ELSE NoJob]
        /\ UNCHANGED <<day, status, runs, validated, demoted_at, faults>>

(* Mutant: a run found under the tail's id is always taken for a conflict.  *)
AppendLiveRunGivesUp(p) ==
    LET j == job[p]
        c == j.cand
    IN  /\ j.at = "append"
        /\ IF RunOfTail(c, j.start, j.end) = 0 /\ Len(runs[c]) < RunBound[c]
           THEN /\ runs' = [runs EXCEPT ![c] = Append(@,
                       [kind |-> "live", start |-> j.start, end |-> j.end,
                        prior |-> j.prior, verdict |-> "pass",
                        rows |-> FALSE, gate |-> FALSE, marker |-> FALSE])]
                /\ job' = [job EXCEPT ![p].at = "rows",
                                      ![p].run = Len(runs[c]) + 1]
           ELSE runs' = runs /\ job' = [job EXCEPT ![p] = NoJob]
        /\ UNCHANGED <<day, status, validated, demoted_at, fdr, faults>>

(* append_run under the tail's run id, or the run found there: the retry
   goes on with it if its immutable identity, the prior proof included, is
   the same, and gives up otherwise (_existing_run_error).                 *)
AppendLiveRun(p) ==
    LET j == job[p]
        c == j.cand
        k == RunOfTail(c, j.start, j.end)
    IN  /\ j.at = "append"
        /\ \/ /\ k = 0 /\ Len(runs[c]) < RunBound[c]
              /\ runs' = [runs EXCEPT ![c] = Append(@,
                     [kind |-> "live", start |-> j.start, end |-> j.end,
                      prior |-> j.prior, verdict |-> "pass",
                      rows |-> FALSE, gate |-> FALSE, marker |-> FALSE])]
              /\ job' = [job EXCEPT ![p].at = "rows",
                                    ![p].run = Len(runs[c]) + 1]
           \/ /\ k = 0 /\ Len(runs[c]) >= RunBound[c]
              /\ runs' = runs /\ job' = [job EXCEPT ![p] = NoJob]
           \/ /\ k # 0
              /\ runs' = runs
              /\ job' = [job EXCEPT ![p] =
                     IF runs[c][k].prior = j.prior
                     THEN [j EXCEPT !.at = "rows", !.run = k]
                     ELSE NoJob]
        /\ UNCHANGED <<day, status, validated, demoted_at, fdr, faults>>

(* record_shadow_ingestion.                                                *)
RecordShadowIngestion(p) ==
    LET j == job[p]
    IN  /\ j.at = "marker"
        /\ runs' = [runs EXCEPT ![j.cand][j.run].marker = TRUE]
        /\ job' = [job EXCEPT ![p].at = "status"]
        /\ UNCHANGED <<day, status, validated, demoted_at, fdr, faults>>

(* The status is read again and only the missing transitions are asked for. *)
PromoteIngested(p) ==
    LET j == job[p]
        s == status[j.cand]
    IN  /\ j.kind = "ingest" /\ j.at = "status"
        /\ job' = [job EXCEPT ![p] =
              CASE s \in {"backtest_passed", "demoted"} ->
                       [j EXCEPT !.at = "check", !.to = "shadow"]
                [] s = "shadow" -> [j EXCEPT !.at = "check", !.to = "validated"]
                [] OTHER -> NoJob]
        /\ UNCHANGED <<day, ledger, faults>>

-----------------------------------------------------------------------------
(* Champion selection and demotion.                                        *)

(* select_champion ranks the deployed candidates whose newest run of any
   lane is a passing authorized proof.                                     *)
Scored == {c \in Candidates :
              /\ status[c] \in Deployed
              /\ runs[c] # <<>>
              /\ LatestVerified(c, "shadow") = Len(runs[c])
              /\ ShadowProved(c)}

Best(S) == CHOOSE c \in S : \A d \in S : d <= c

(* Mutant: the champions of the snapshot are left in place.                 *)
BeginSelectionKeepsOld(p) ==
    LET best == Best(Scored)
    IN  /\ job[p] = NoJob
        /\ Scored # {}
        /\ status[best] # "champion"
        /\ job' = [job EXCEPT ![p] = [NoJob EXCEPT
              !.kind = "select", !.cand = best, !.to = "champion",
              !.at = "check"]]
        /\ UNCHANGED <<day, ledger, faults>>

(* One snapshot of the statuses decides the champion and whom it replaces. *)
BeginSelection(p) ==
    LET best   == Best(Scored)
        others == {c \in Candidates \ {best} : status[c] = "champion"}
    IN  /\ job[p] = NoJob
        /\ Scored # {}
        /\ status[best] # "champion" \/ others # {}
        /\ job' = [job EXCEPT ![p] = [NoJob EXCEPT
              !.kind = "select", !.cand = best, !.to = "champion",
              !.at = IF status[best] = "champion" THEN "supersede" ELSE "check",
              !.old = others]]
        /\ UNCHANGED <<day, ledger, faults>>

(* The next champion of the snapshot returns to the validated pool.        *)
Supersede(p) ==
    LET j == job[p]
    IN  /\ j.at = "supersede"
        /\ \/ /\ j.old = {}
              /\ job' = [job EXCEPT ![p] = NoJob]
           \/ \E c \in j.old :
                 job' = [job EXCEPT ![p] = [j EXCEPT
                     !.at = "check", !.cand = c, !.to = "validated",
                     !.old = @ \ {c}]]
        /\ UNCHANGED <<day, ledger, faults>>

(* ingest_paper_outcome in the trader and the trial review in research read
   a deployed candidate whose paper results ask for its demotion.          *)
DemotionDue(p, c) ==
    /\ job[p] = NoJob
    /\ status[c] \in Deployed
    /\ job' = [job EXCEPT ![p] = [NoJob EXCEPT
          !.kind = "demote", !.at = "check", !.cand = c, !.to = "demoted"]]
    /\ UNCHANGED <<day, ledger, faults>>

-----------------------------------------------------------------------------
(* The environment.                                                        *)

(* The recorder and the shadow log complete another tail.                  *)
NewSessions ==
    /\ day < MaxDay
    /\ day' = day + 1
    /\ UNCHANGED <<ledger, job, faults>>

(* A process dies, or an exception ends its job: what it wrote stays.      *)
JobDies(p) ==
    /\ faults < MaxFaults
    /\ job[p] # NoJob
    /\ job' = [job EXCEPT ![p] = NoJob]
    /\ faults' = faults + 1
    /\ UNCHANGED <<day, ledger>>

-----------------------------------------------------------------------------

Continue(p) ==
    \/ CheckTransition(p)
    \/ WriteTransition(p)
    \/ AppendTrades(p)
    \/ RecordVerifiedGate(p)
    \/ ApplyVerdict(p)
    \/ AppendLiveRun(p)
    \/ RecordShadowIngestion(p)
    \/ PromoteIngested(p)
    \/ Supersede(p)

Next ==
    \/ NewSessions
    \/ \E p \in Procs :
        \/ Continue(p)
        \/ BeginSelection(p)
        \/ JobDies(p)
        \/ \E c \in Candidates :
              \/ BeginEvaluation(p, c)
              \/ TestTail(p, c)
              \/ DemotionDue(p, c)

Spec == Init /\ [][Next]_vars

(* A job that lives goes on, the trader refreshes its champion again and
   again, and the research cycle ingests every candidate's tail.           *)
FairSpec ==
    /\ Spec
    /\ \A p \in Procs : WF_vars(Continue(p)) /\ SF_vars(BeginSelection(p))
    /\ \A p \in Researchers, c \in Candidates : SF_vars(TestTail(p, c))

-----------------------------------------------------------------------------
(* Properties.                                                             *)

(* Whatever transitions interleave, a candidate is deployed only if it has,
   or had, a passing live-shadow proof with its trades, its gate, its marker
   and a confirmatory discovery (transition, _live_shadow_authorized).     *)
DeployedIsProved ==
    \A c \in Candidates : status[c] \in Deployed =>
        \E k \in 1 .. Len(runs[c]) :
            /\ LiveShadowAuthorized(c, k)
            /\ runs[c][k].rows /\ runs[c][k].verdict = "pass"

(* The pieces of a proof become durable in order, also across deaths and
   retries: no gate without its trades, no marker without its gate, no
   validated event without its marker (_reconcile_run).                    *)
ProofInOrder ==
    \A c \in Candidates :
        /\ \A k \in 1 .. Len(runs[c]) :
              /\ runs[c][k].gate => runs[c][k].rows
              /\ runs[c][k].marker => runs[c][k].gate
        /\ \A k \in validated[c] : k \in 1 .. Len(runs[c]) /\ runs[c][k].marker

(* No live run stays without its gate while the proof it was built on is
   still the latest: a retry completes it (or a newer run replaces it, or
   its candidate is retired).                                              *)
Partial(c) ==
    LET k == Len(runs[c])
    IN  /\ k # 0
        /\ runs[c][k].kind = "live"
        /\ ~runs[c][k].gate
        /\ runs[c][k].prior = LatestGate(c)
        /\ status[c] # "retired"

PartialRunCompletes == \A c \in Candidates : []<>~Partial(c)

(* Two champions of a vehicle, which a selection that died between its two
   transitions leaves, do not last (select_champion).                      *)
Champions == {c \in Candidates : status[c] = "champion"}

OneChampionAtLast == []<>(Cardinality(Champions) <= 1)

=============================================================================
