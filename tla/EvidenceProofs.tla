---------------------------- MODULE EvidenceProofs ----------------------------
(***************************************************************************)
(* Theorems about the evidence of the research plane, for every value of   *)
(* the constants: about the edge ledger (EdgeLifecycle), the live-shadow   *)
(* poll (ShadowPoll) and the recorder with its backfill (Recorder).  Each  *)
(* part strengthens the properties of its module to an inductive           *)
(* invariant, with one lemma per conjunct and one step per action.         *)
(*                                                                         *)
(* The edge ledger.  transition() checks a proof in one transaction and    *)
(* writes the status in another, so that the proof that was checked has to *)
(* survive whatever other processes append in between; and a job that died *)
(* leaves a run half written, which a later job goes on with.  IInv says   *)
(* of every job at every line which rows of its run are durable (JobInv)   *)
(* and that a write of a deployed status that is still to come rests on a  *)
(* proof (WriteInv).                                                       *)
(*                                                                         *)
(* The poll.  It may die between any two of its writes, and rows arrive    *)
(* while it runs.  PollInv says what the rows read are between the log and *)
(* the offset (ReadInv), and why whatever is in view when the floor moves  *)
(* is decided and replayed (ViewInv, SessionInv, FloorInv).                *)
(*                                                                         *)
(* The recorder.  It may die between any two writes, too, and a backfill   *)
(* or another capture policy may come before it is restarted.  CorpusInv   *)
(* says that the recent keys are those of the partitions (RecentInv), that *)
(* a batch is new (BatchInv), and that every quote before the last         *)
(* recorded minute is dealt with or asked for (BehindInv); the other       *)
(* conjuncts say the same of the watermark, the checkpoint and the window  *)
(* in hand (PastMarkInv, RequestInv, WindowInv, FilledInv).                *)
(***************************************************************************)
EXTENDS EdgeLifecycle, ShadowPoll, Recorder, FiniteSetTheorems, SequenceTheorems,
        WellFoundedInduction, TLAPS

-----------------------------------------------------------------------------
\* The inductive invariant.

\* TypeOK, a conjunct for each part of the state.
WorldType ==
  /\ day \in 0 .. MaxDay
  /\ status \in [Candidates -> Statuses]
  /\ demoted_at \in [Candidates -> 0 .. MaxRuns]
  /\ faults \in 0 .. MaxFaults
RunsType ==
  /\ runs \in [Candidates -> Seq(Run)]
  /\ \A c \in Candidates : Len(runs[c]) <= MaxRuns
EventType ==
  /\ validated \in [Candidates -> SUBSET (1 .. MaxRuns)]
  /\ fdr \in [Candidates -> SUBSET [start : 0 .. MaxDay, end : 0 .. MaxDay,
                                    decision : BOOLEAN]]
JobType == job \in [Procs -> Job]

\* What a job at a line knows: its kind, its candidate, and which rows of the run
\* in hand are durable.
JobKnows(j, book) ==
  /\ j.at # "idle" => j.cand \in Candidates
  /\ j.at \in {"append", "marker"} => j.kind = "ingest"
  /\ j.at \in {"rows", "gate", "status"} => j.kind \in {"evaluate", "ingest"}
  /\ j.at = "supersede" => j.kind = "select"
  /\ \/ j.at \in {"rows", "gate", "marker", "status"}
     \/ j.at \in {"check", "write"} /\ j.kind = "ingest"
     => j.run \in 1 .. Len(book[j.cand])
  /\ j.at \in {"gate", "marker", "status"} => book[j.cand][j.run].rows
  /\ j.at \in {"marker", "status"} => book[j.cand][j.run].gate
  /\ j.at \in {"status", "check", "write"} /\ j.kind = "ingest"
     => book[j.cand][j.run].marker
JobInv == \A p \in Procs : JobKnows(job[p], runs)

\* The candidate has a complete, passing and authorized live-shadow proof.
Proved(c) ==
  \E k \in 1 .. Len(runs[c]) :
    LiveShadowAuthorized(c, k) /\ runs[c][k].rows /\ runs[c][k].verdict = "pass"

\* A transition to a deployed status that has been checked and is to be written
\* rests on a proof, whatever has happened since.
WriteInv ==
  \A p \in Procs : job[p].at = "write" /\ job[p].to \in Deployed => Proved(job[p].cand)

IInv ==
  /\ WorldType /\ RunsType /\ EventType /\ JobType
  /\ JobInv /\ WriteInv /\ ProofInOrder /\ DeployedIsProved

-----------------------------------------------------------------------------
\* Lemmas about numbers.

\* A set of natural numbers that is not empty has a least element.
LEMMA Least ==
  ASSUME NEW T \in SUBSET Nat, T # {}
  PROVE  \E x \in T : \A y \in T : x <= y
<1>1. PICK R : /\ IsWellFoundedOn(R, Nat)
               /\ \A x, y \in Nat : x < y => <<x, y>> \in R
  <2>1. \A x, y \in Nat : x < y => <<x, y>> \in OpToRel(<, Nat)
    BY DEF OpToRel
  <2> QED
    BY <2>1, NatLessThanWellFounded, Zenon
<1>2. PICK x \in T : \A y \in T : ~ (<<y, x>> \in R)
  <2>1. IsWellFoundedOn(R, Nat) /\ T \subseteq Nat /\ T # {}
    BY <1>1
  <2> QED
    BY <2>1, WFMin, Zenon
<1>3. \A y \in T : ~(y < x)
  BY <1>1, <1>2
<1> QED
  BY <1>3

\* A finite one has a greatest element as well: a subset of it without one, of the
\* least size, would leave a smaller one when an element is taken out.
LEMMA Greatest ==
  ASSUME NEW S \in SUBSET Nat, IsFiniteSet(S), S # {}
  PROVE  \E x \in S : \A y \in S : y <= x
<1> DEFINE Bad(T) == T # {} /\ \A x \in T : \E y \in T : ~(y <= x)
           N == {n \in Nat : \E T \in SUBSET S : Cardinality(T) = n /\ Bad(T)}
<1>1. \A T \in SUBSET S : IsFiniteSet(T) /\ Cardinality(T) \in Nat
  BY FS_Subset, FS_CardinalityType
<1>2. SUFFICES ASSUME Bad(S) PROVE FALSE
  OBVIOUS
<1>3. N # {}
  BY <1>1, <1>2
<1>4. PICK n \in N : \A m \in N : n <= m
  BY <1>3, Least
<1>5. PICK T \in SUBSET S : Cardinality(T) = n /\ Bad(T)
  BY <1>4
<1>6. PICK x \in T : TRUE
  BY <1>5
<1>7. IsFiniteSet(T \ {x}) /\ Cardinality(T \ {x}) = n - 1
  BY <1>1, <1>5, <1>6, FS_RemoveElement
<1>8. ~Bad(T \ {x})
  BY <1>1, <1>4, <1>7
<1>9. CASE T \ {x} = {}
  BY <1>5, <1>6, <1>9
<1>10. CASE T \ {x} # {}
  <2>1. PICK z \in T \ {x} : \A y \in T \ {x} : y <= z
    BY <1>8, <1>10
  <2> QED
    BY <1>5, <1>6, <2>1
<1> QED
  BY <1>9, <1>10

\* The greatest element of a set of numbers up to a bound is one of them.
LEMMA Greater ==
  ASSUME NEW n \in Nat, NEW S \in SUBSET (0 .. n), S # {}
  PROVE  (CHOOSE x \in S : \A y \in S : y <= x) \in S
<1>1. IsFiniteSet(0 .. n)
  BY FS_Interval
<1>2. IsFiniteSet(S)
  BY <1>1, FS_Subset
<1>3. S \in SUBSET Nat
  OBVIOUS
<1>4. \E x \in S : \A y \in S : y <= x
  BY <1>2, <1>3, Greatest
<1> QED
  BY <1>4

-----------------------------------------------------------------------------
\* Lemmas about the operators of the model.

\* The constants are numbers; no candidate is the id of none.
LEMMA Constants ==
  /\ MaxDay \in Nat /\ MaxRuns \in Nat /\ MaxFaults \in Nat
  /\ Candidates \subseteq Nat /\ -1 \notin Candidates
  /\ \A c \in Candidates : RunBound[c] \in Nat /\ RunBound[c] <= MaxRuns
BY EdgeLifecycleAssumption DEF EdgeLifecycleAssumption

\* The newest of a set of runs is one of them, or 0 when there is none.
LEMMA NewestRun ==
  ASSUME NEW n \in Nat, NEW K \in SUBSET (1 .. n)
  PROVE  /\ Newest(K) \in 0 .. n
         /\ Newest(K) # 0 => Newest(K) \in K
<1>1. CASE K = {}
  BY <1>1 DEF Newest
<1>2. CASE K # {}
  <2>1. K \in SUBSET (0 .. n)
    OBVIOUS
  <2>2. (CHOOSE k \in K : \A j \in K : j <= k) \in K
    BY <1>2, <2>1, Greater
  <2>3. Newest(K) = CHOOSE k \in K : \A j \in K : j <= k
    BY <1>2 DEF Newest
  <2>4. Newest(K) \in K
    BY <2>2, <2>3
  <2>5. Newest(K) \in 1 .. n
    BY <2>4
  <2> QED
    BY <2>4, <2>5
<1> QED
  BY <1>1, <1>2

\* The latest verified run of a lane is a run of the candidate with a gate, or 0;
\* so is the gate an ingestion builds on (latest_verified_run, _latest_gate).
LEMMA LatestRuns ==
  ASSUME RunsType, NEW c \in Candidates
  PROVE  /\ \A lane \in {"shadow", "backtest"} :
              /\ LatestVerified(c, lane) \in 0 .. Len(runs[c])
              /\ LatestVerified(c, lane) # 0 => runs[c][LatestVerified(c, lane)].gate
         /\ LatestGate(c) \in 0 .. MaxRuns
<1>1. Len(runs[c]) \in Nat /\ Len(runs[c]) <= MaxRuns
  BY DEF RunsType
<1>2. ASSUME NEW lane \in {"shadow", "backtest"}
      PROVE  /\ LatestVerified(c, lane) \in 0 .. Len(runs[c])
             /\ LatestVerified(c, lane) # 0 => runs[c][LatestVerified(c, lane)].gate
  <2>1. OfLane(c, lane) \in SUBSET (1 .. Len(runs[c]))
    BY DEF OfLane
  <2>2. Newest(OfLane(c, lane)) \in 0 .. Len(runs[c])
    BY <1>1, <2>1, NewestRun
  <2> QED
    BY <2>2, <1>1 DEF LatestVerified
<1>3. LatestGate(c) \in 0 .. MaxRuns
  BY <1>1, <1>2, Constants DEF LatestGate
<1> QED
  BY <1>2, <1>3

\* The boundary of an ingestion is a day (_latest_boundary).
LEMMA Boundaries ==
  ASSUME RunsType, NEW c \in Candidates
  PROVE  LatestBoundary(c) \in 0 .. MaxDay
<1> DEFINE K    == {k \in 1 .. Len(runs[c]) :
                      \/ runs[c][k].kind = "backtest"
                      \/ k \in validated[c] /\ runs[c][k].gate /\ runs[c][k].marker}
           ends == {runs[c][k].end : k \in K}
<1>1. \A k \in 1 .. Len(runs[c]) : runs[c][k] \in Run
  BY DEF RunsType
<1>2. ends \subseteq 0 .. MaxDay
  BY <1>1 DEF Run
<1>3. LatestBoundary(c) = IF ends = {} THEN 0 ELSE CHOOSE e \in ends : \A f \in ends : f <= e
  BY DEF LatestBoundary
<1> HIDE DEF ends
<1>4. CASE ends = {}
  BY <1>3, <1>4, Constants
<1>5. CASE ends # {}
  <2>1. (CHOOSE e \in ends : \A f \in ends : f <= e) \in ends
    BY <1>2, <1>5, Constants, Greater
  <2> QED
    BY <1>2, <1>3, <1>5, <2>1
<1> QED
  BY <1>4, <1>5

\* What a step may do to the runs: it adds to them, or records rows, a gate or a
\* marker; what a run is and what it has stays.
Grows ==
  \A c \in Candidates :
    /\ Len(runs[c]) <= Len(runs'[c])
    /\ \A k \in 1 .. Len(runs[c]) :
         /\ runs'[c][k].kind = runs[c][k].kind
         /\ runs'[c][k].start = runs[c][k].start /\ runs'[c][k].end = runs[c][k].end
         /\ runs'[c][k].verdict = runs[c][k].verdict
         /\ runs[c][k].rows => runs'[c][k].rows
         /\ runs[c][k].gate => runs'[c][k].gate
         /\ runs[c][k].marker => runs'[c][k].marker

\* A proof stays one (the rows of the ledger are append-only).
LEMMA ProofStays ==
  ASSUME RunsType, RunsType', Grows, NEW c \in Candidates, fdr[c] \subseteq fdr'[c], Proved(c)
  PROVE  Proved(c)'
<1>1. PICK k \in 1 .. Len(runs[c]) :
        LiveShadowAuthorized(c, k) /\ runs[c][k].rows /\ runs[c][k].verdict = "pass"
  BY DEF Proved
<1>2. k \in 1 .. Len(runs'[c])
  BY DEF Grows, RunsType
<1>3. /\ runs'[c][k].kind = runs[c][k].kind
      /\ runs'[c][k].start = runs[c][k].start /\ runs'[c][k].end = runs[c][k].end
      /\ runs'[c][k].verdict = runs[c][k].verdict
      /\ runs[c][k].rows => runs'[c][k].rows
      /\ runs[c][k].gate => runs'[c][k].gate
      /\ runs[c][k].marker => runs'[c][k].marker
  BY DEF Grows
<1>4. LiveShadowAuthorized(c, k)'
  BY <1>1, <1>3 DEF LiveShadowAuthorized
<1> QED
  BY <1>1, <1>2, <1>3, <1>4 DEF Proved

\* append_run: one run more, and the others as they were.
LEMMA Appending ==
  ASSUME RunsType, NEW c \in Candidates, NEW r \in Run, Len(runs[c]) < MaxRuns,
         runs' = [runs EXCEPT ![c] = Append(@, r)]
  PROVE  /\ RunsType' /\ Grows
         /\ Len(runs'[c]) = Len(runs[c]) + 1 /\ runs'[c][Len(runs[c]) + 1] = r
         /\ \A d \in Candidates : \A k \in 1 .. Len(runs[d]) : runs'[d][k] = runs[d][k]
         /\ \A d \in Candidates \ {c} : runs'[d] = runs[d]
<1>1. runs[c] \in Seq(Run) /\ Len(runs[c]) \in Nat
  BY DEF RunsType
<1>2. /\ runs'[c] = Append(runs[c], r)
      /\ \A d \in Candidates \ {c} : runs'[d] = runs[d]
  BY DEF RunsType
<1>3. /\ runs'[c] \in Seq(Run) /\ Len(runs'[c]) = Len(runs[c]) + 1
      /\ \A k \in 1 .. Len(runs[c]) : runs'[c][k] = runs[c][k]
      /\ runs'[c][Len(runs[c]) + 1] = r
  BY <1>1, <1>2, AppendProperties
<1>4. runs' \in [Candidates -> Seq(Run)]
  BY <1>2, <1>3 DEF RunsType
<1>5. RunsType'
  BY <1>1, <1>2, <1>3, <1>4, Constants DEF RunsType
<1>6. \A d \in Candidates : \A k \in 1 .. Len(runs[d]) : runs'[d][k] = runs[d][k]
  BY <1>2, <1>3
<1>7. \A d \in Candidates : Len(runs[d]) <= Len(runs'[d])
  BY <1>1, <1>2, <1>3, <1>5 DEF RunsType
<1> QED
  BY <1>2, <1>3, <1>5, <1>6, <1>7 DEF Grows

\* What a job knows stays true while others write.
LEMMA JobStays ==
  ASSUME RunsType, RunsType', Grows, NEW j \in Job, JobKnows(j, runs)
  PROVE  JobKnows(j, runs')
<1>1. CASE j.at = "idle"
  BY <1>1 DEF JobKnows
<1>2. CASE j.at # "idle"
  <2>1. j.cand \in Candidates
    BY <1>2 DEF JobKnows
  <2>2. /\ Len(runs[j.cand]) \in Nat /\ Len(runs'[j.cand]) \in Nat
        /\ Len(runs[j.cand]) <= Len(runs'[j.cand])
        /\ \A k \in 1 .. Len(runs[j.cand]) :
             /\ runs[j.cand][k].rows => runs'[j.cand][k].rows
             /\ runs[j.cand][k].gate => runs'[j.cand][k].gate
             /\ runs[j.cand][k].marker => runs'[j.cand][k].marker
    BY <2>1 DEF RunsType, Grows
  <2> QED
    BY <2>2 DEF JobKnows
<1> QED
  BY <1>1, <1>2

\* A step of one process: it is enough that its own job knows what it should, that
\* a write it has before it is covered, and that a status it sets is.
LEMMA Advancing ==
  ASSUME RunsType, JobType, JobInv, WriteInv, DeployedIsProved, RunsType', Grows,
         \A c \in Candidates : fdr[c] \subseteq fdr'[c],
         NEW p \in Procs, NEW j \in Job, job' = [job EXCEPT ![p] = j], JobKnows(j, runs'),
         j.at = "write" /\ j.to \in Deployed => Proved(j.cand)',
         \A c \in Candidates : status'[c] = status[c]
                               \/ (status'[c] \in Deployed => Proved(c)')
  PROVE  JobType' /\ JobInv' /\ WriteInv' /\ DeployedIsProved'
<1>1. job'[p] = j /\ \A q \in Procs \ {p} : job'[q] = job[q]
  BY DEF JobType
<1>2. JobType'
  BY DEF JobType
<1>3. JobInv'
  <2>1. \A q \in Procs \ {p} : JobKnows(job'[q], runs')
    BY <1>1, JobStays DEF JobType, JobInv
  <2> QED
    BY <1>1, <2>1 DEF JobInv
<1>4. \A c \in Candidates : Proved(c) => Proved(c)'
  BY ProofStays
<1>5. WriteInv'
  <2> SUFFICES ASSUME NEW q \in Procs, job'[q].at = "write", job'[q].to \in Deployed
               PROVE  Proved(job[q].cand)'
    BY DEF WriteInv
  <2>1. CASE q = p
    BY <1>1, <2>1 DEF Proved, LiveShadowAuthorized
  <2>2. CASE q # p
    <3>1. job'[q] = job[q]
      BY <1>1, <2>2
    <3>2. job[q].cand \in Candidates /\ Proved(job[q].cand)
      BY <3>1 DEF WriteInv, JobInv, JobKnows
    <3> QED
      BY <1>4, <3>1, <3>2 DEF Proved, LiveShadowAuthorized
  <2> QED
    BY <2>1, <2>2
<1>6. DeployedIsProved'
  <2>1. \A c \in Candidates : status[c] \in Deployed => Proved(c)
    BY DEF DeployedIsProved, Proved
  <2>2. \A c \in Candidates : status'[c] \in Deployed => Proved(c)'
    BY <1>4, <2>1
  <2> QED
    BY <2>2 DEF DeployedIsProved, Proved
<1> QED
  BY <1>2, <1>3, <1>5, <1>6

\* When no row is written, a process may move on as long as its job knows enough.
LEMMA Moving ==
  ASSUME IInv, NEW p \in Procs, NEW j \in Job, job' = [job EXCEPT ![p] = j],
         UNCHANGED <<day, ledger>>, faults' \in 0 .. MaxFaults, JobKnows(j, runs),
         j.at = "write" /\ j.to \in Deployed => Proved(j.cand)
  PROVE  IInv'
<1> USE DEF ledger
<1>1. WorldType' /\ RunsType' /\ EventType' /\ ProofInOrder'
  BY DEF IInv, WorldType, RunsType, EventType, ProofInOrder
<1>2. Grows
  BY DEF IInv, RunsType, Grows
<1>3. j.at = "write" /\ j.to \in Deployed => Proved(j.cand)'
  BY DEF Proved, LiveShadowAuthorized
<1>4. JobType' /\ JobInv' /\ WriteInv' /\ DeployedIsProved'
  BY <1>1, <1>2, <1>3, Advancing DEF IInv
<1> QED
  BY <1>1, <1>4 DEF IInv

\* An idle process knows nothing and has nothing to write.
LEMMA Ending ==
  NoJob \in Job /\ \A book : JobKnows(NoJob, book) /\ NoJob.at = "idle"
BY Constants DEF NoJob, Job, Jobs, Lines, Statuses, JobKnows

\* A gate on the latest forward run is there when a deployed status is checked.
LEMMA Checking ==
  ASSUME RunsType, ProofInOrder, NEW c \in Candidates, NEW to \in Deployed, GateAllows(c, to)
  PROVE  Proved(c)
<1>1. ShadowProved(c)
  BY DEF GateAllows, Deployed
<1> DEFINE k == LatestVerified(c, "shadow")
<1>2. /\ k # 0 /\ k \in 0 .. Len(runs[c]) /\ runs[c][k].gate
      /\ runs[c][k].verdict = "pass" /\ LiveShadowAuthorized(c, k)
  BY <1>1, LatestRuns DEF ShadowProved
<1> HIDE DEF k
<1>3. k \in 1 .. Len(runs[c])
  BY <1>2 DEF RunsType
<1>4. runs[c][k].rows
  BY <1>2, <1>3 DEF ProofInOrder
<1> QED
  BY <1>2, <1>3, <1>4 DEF Proved

-----------------------------------------------------------------------------
\* The invariant is inductive.

\* An empty ledger and idle processes.
LEMMA Initially == Init => IInv
<1> SUFFICES ASSUME Init PROVE IInv
  OBVIOUS
<1>1. WorldType /\ EventType
  BY Constants DEF Init, WorldType, EventType, Statuses
<1>2. RunsType
  BY Constants, EmptySeq DEF Init, RunsType
<1>3. JobType /\ JobInv /\ WriteInv
  BY Ending DEF Init, JobType, JobInv, WriteInv, NoJob
<1>4. ProofInOrder /\ DeployedIsProved
  BY DEF Init, ProofInOrder, DeployedIsProved, Deployed
<1> QED
  BY <1>1, <1>2, <1>3, <1>4 DEF IInv

\* The status transaction: a deployed status rests on the proof WriteInv speaks of,
\* and the validated event names a run with its marker.
LEMMA Writing ==
  ASSUME IInv, NEW p \in Procs, WriteTransition(p)
  PROVE  IInv'
<1>1. PICK j \in Job : j = job[p] /\ JobKnows(j, runs)
  BY DEF IInv, JobType, JobInv
<1>2. PICK c \in Candidates : c = j.cand /\ j.at = "write"
  BY <1>1 DEF WriteTransition, JobKnows
<1>3. /\ status' = [status EXCEPT ![c] = j.to]
      /\ validated' = IF j.kind = "ingest" /\ j.to = "validated"
                      THEN [validated EXCEPT ![c] = @ \cup {j.run}] ELSE validated
      /\ demoted_at' = IF j.to = "demoted" THEN [demoted_at EXCEPT ![c] = Len(runs[c])]
                       ELSE demoted_at
      /\ job' = [job EXCEPT ![p] = AfterWrite(j)]
      /\ UNCHANGED <<day, runs, fdr, faults>>
  BY <1>1, <1>2 DEF WriteTransition
<1>4. WorldType /\ RunsType /\ EventType /\ JobType /\ JobInv /\ WriteInv /\ ProofInOrder
      /\ DeployedIsProved
  BY DEF IInv
<1>5. Len(runs[c]) \in Nat /\ Len(runs[c]) <= MaxRuns
  BY <1>4 DEF RunsType
<1>6. j.to \in Statuses
  BY DEF Job
<1>7. WorldType'
  BY <1>3, <1>4, <1>5, <1>6, Constants DEF WorldType
<1>8. RunsType' /\ Grows
  BY <1>3, <1>4 DEF RunsType, Grows
<1>9. j.kind = "ingest" => j.run \in 1 .. Len(runs[c]) /\ runs[c][j.run].marker
  BY <1>1, <1>2 DEF JobKnows
<1>10. j.kind = "ingest" => j.run \in 1 .. MaxRuns
  BY <1>5, <1>9, Constants
<1>11. \A d \in Candidates : validated'[d] = validated[d]
         \/ (d = c /\ j.kind = "ingest" /\ validated'[d] = validated[d] \cup {j.run})
  BY <1>3, <1>4 DEF EventType
<1>12. EventType'
  BY <1>3, <1>4, <1>10 DEF EventType
<1>13. AfterWrite(j) \in Job /\ JobKnows(AfterWrite(j), runs') /\ AfterWrite(j).at # "write"
  <2>1. CASE j.kind = "ingest" /\ j.to = "shadow"
    <3>1. AfterWrite(j) = [j EXCEPT !.at = "check", !.to = "validated"]
      BY <2>1 DEF AfterWrite
    <3> QED
      BY <1>1, <1>2, <1>3, <2>1, <3>1 DEF Job, Lines, Statuses, JobKnows
  <2>2. CASE j.kind = "select"
    <3>1. AfterWrite(j) = [j EXCEPT !.at = "supersede"]
      BY <2>2 DEF AfterWrite
    <3> QED
      BY <1>1, <1>2, <1>3, <2>2, <3>1 DEF Job, Lines, JobKnows
  <2>3. CASE ~(j.kind = "ingest" /\ j.to = "shadow") /\ j.kind # "select"
    <3>1. AfterWrite(j) = NoJob
      BY <2>3 DEF AfterWrite
    <3> QED
      BY <3>1, Ending
  <2> QED
    BY <2>1, <2>2, <2>3
<1>14. j.to \in Deployed => Proved(c)'
  <2>1. j.to \in Deployed => Proved(c)
    BY <1>1, <1>2, <1>4 DEF WriteInv
  <2> QED
    BY <1>3, <2>1 DEF Proved, LiveShadowAuthorized
<1>15. \A d \in Candidates : status'[d] = status[d] \/ (status'[d] \in Deployed => Proved(d)')
  <2>1. status'[c] = j.to /\ \A d \in Candidates \ {c} : status'[d] = status[d]
    BY <1>3, <1>4 DEF WorldType
  <2> QED
    BY <1>14, <2>1
<1>16. ProofInOrder'
  BY <1>3, <1>4, <1>9, <1>11 DEF ProofInOrder
<1>17. JobType' /\ JobInv' /\ WriteInv' /\ DeployedIsProved'
  BY <1>3, <1>4, <1>8, <1>13, <1>15, Advancing
<1> QED
  BY <1>7, <1>8, <1>12, <1>16, <1>17 DEF IInv

\* A new run has none of its rows yet (append_run).
LEMMA Beginning ==
  ASSUME IInv, NEW p \in Procs, NEW c \in Candidates, NEW r \in Run, NEW j \in Job,
         Len(runs[c]) < RunBound[c], ~r.rows, ~r.gate, ~r.marker,
         runs' = [runs EXCEPT ![c] = Append(@, r)], job' = [job EXCEPT ![p] = j],
         j.at = "rows", j.kind \in {"evaluate", "ingest"}, j.cand = c,
         j.run = Len(runs[c]) + 1,
         UNCHANGED <<day, status, validated, demoted_at, fdr, faults>>
  PROVE  IInv'
<1>1. Len(runs[c]) \in Nat /\ Len(runs[c]) < MaxRuns
  BY Constants DEF IInv, RunsType
<1>2. /\ RunsType' /\ Grows
      /\ Len(runs'[c]) = Len(runs[c]) + 1 /\ runs'[c][Len(runs[c]) + 1] = r
      /\ \A d \in Candidates : \A k \in 1 .. Len(runs[d]) : runs'[d][k] = runs[d][k]
      /\ \A d \in Candidates \ {c} : runs'[d] = runs[d]
  BY <1>1, Appending DEF IInv
<1>3. WorldType' /\ EventType'
  BY DEF IInv, WorldType, EventType
<1>4. JobKnows(j, runs')
  BY <1>1, <1>2 DEF JobKnows
<1>5. JobType' /\ JobInv' /\ WriteInv' /\ DeployedIsProved'
  BY <1>2, <1>4, Advancing DEF IInv
<1>6. ProofInOrder'
  <2>1. \A d \in Candidates : \A k \in 1 .. Len(runs'[d]) :
          \/ k \in 1 .. Len(runs[d]) /\ runs'[d][k] = runs[d][k]
          \/ runs'[d][k] = r
    BY <1>1, <1>2 DEF IInv, RunsType
  <2>2. \A d \in Candidates : 1 .. Len(runs[d]) \subseteq 1 .. Len(runs'[d])
    BY <1>2 DEF IInv, RunsType, Grows
  <2> QED
    BY <1>2, <2>1, <2>2 DEF IInv, ProofInOrder
<1> QED
  BY <1>2, <1>3, <1>5, <1>6 DEF IInv

\* Rows, a gate or a marker are recorded for the run in hand, each over the one
\* before.
LEMMA Filling ==
  ASSUME IInv, NEW p \in Procs, NEW c \in Candidates, NEW k \in 1 .. Len(runs[c]),
         NEW r \in Run, NEW j \in Job,
         runs' = [runs EXCEPT ![c] = [runs[c] EXCEPT ![k] = r]], job' = [job EXCEPT ![p] = j],
         r.kind = runs[c][k].kind, r.start = runs[c][k].start, r.end = runs[c][k].end,
         r.verdict = runs[c][k].verdict, runs[c][k].rows => r.rows,
         runs[c][k].gate => r.gate, runs[c][k].marker => r.marker,
         r.gate => r.rows, r.marker => r.gate,
         j.at \in {"gate", "marker", "status"}, j.kind \in {"evaluate", "ingest"},
         j.cand = c, j.run = k, j.at = "marker" => j.kind = "ingest",
         r.rows, j.at # "gate" => r.gate, j.at = "status" /\ j.kind = "ingest" => r.marker,
         UNCHANGED <<day, status, validated, demoted_at, fdr, faults>>
  PROVE  IInv'
<1>1. /\ RunsType' /\ runs'[c][k] = r
      /\ \A d \in Candidates : /\ Len(runs'[d]) = Len(runs[d])
                               /\ \A i \in 1 .. Len(runs[d]) :
                                    runs'[d][i] = IF d = c /\ i = k THEN r ELSE runs[d][i]
  <2>1. runs[c] \in Seq(Run) /\ Len(runs[c]) \in Nat
    BY DEF IInv, RunsType
  <2>2. /\ runs'[c] = [runs[c] EXCEPT ![k] = r]
        /\ \A d \in Candidates \ {c} : runs'[d] = runs[d]
    BY DEF IInv, RunsType
  <2>3. /\ runs'[c] \in Seq(Run) /\ Len(runs'[c]) = Len(runs[c])
        /\ \A i \in 1 .. Len(runs[c]) : runs'[c][i] = IF i = k THEN r ELSE runs[c][i]
    BY <2>1, <2>2, ExceptSeq
  <2>4. runs' \in [Candidates -> Seq(Run)]
    BY <2>2, <2>3 DEF IInv, RunsType
  <2>5. RunsType'
    BY <2>2, <2>3, <2>4 DEF IInv, RunsType
  <2> QED
    BY <2>2, <2>3, <2>5
<1>2. Grows
  BY <1>1 DEF IInv, RunsType, Grows
<1>3. WorldType' /\ EventType'
  BY DEF IInv, WorldType, EventType
<1>4. JobKnows(j, runs')
  BY <1>1 DEF JobKnows
<1>5. JobType' /\ JobInv' /\ WriteInv' /\ DeployedIsProved'
  BY <1>1, <1>2, <1>4, Advancing DEF IInv
<1>6. ProofInOrder'
  BY <1>1 DEF IInv, ProofInOrder
<1> QED
  BY <1>1, <1>3, <1>5, <1>6 DEF IInv

\* Every step keeps the invariant.
LEMMA Inductive == IInv /\ [Next]_vars => IInv'
<1> SUFFICES ASSUME IInv, [Next]_vars PROVE IInv'
  OBVIOUS
<1> USE DEF ledger
<1>1. \A p \in Procs : job[p] \in Job /\ JobKnows(job[p], runs)
  BY DEF IInv, JobType, JobInv
<1>2. faults \in 0 .. MaxFaults
  BY DEF IInv, WorldType
<1>3. ASSUME NEW p \in Procs, CheckTransition(p) PROVE IInv'
  <2> DEFINE j == job[p]
             ok == j.to \in Allowed(status[j.cand]) /\ GateAllows(j.cand, j.to)
             i == IF ok THEN [j EXCEPT !.at = "write"] ELSE AfterRefusal(j)
  <2>1. j.at = "check" /\ job' = [job EXCEPT ![p] = i] /\ UNCHANGED <<day, ledger, faults>>
    BY <1>3 DEF CheckTransition
  <2>2. i \in Job /\ JobKnows(i, runs)
    <3>1. CASE ok
      BY <1>1, <2>1, <3>1 DEF Job, Lines, JobKnows
    <3>2. CASE ~ok /\ i = NoJob
      BY <3>2, Ending
    <3>3. CASE ~ok /\ i # NoJob
      <4>1. j.kind = "ingest" /\ i = AfterWrite(j)
        BY <3>3 DEF AfterRefusal
      <4>2. i = [j EXCEPT !.at = "check", !.to = "validated"]
        BY <3>3, <4>1 DEF AfterWrite
      <4> HIDE DEF i
      <4> QED
        BY <1>1, <2>1, <4>1, <4>2 DEF Job, Lines, Statuses, JobKnows
    <3> QED
      BY <3>1, <3>2, <3>3
  <2>3. i.at = "write" => ok /\ i.to = j.to /\ i.cand = j.cand
    BY <1>1, <2>1 DEF AfterRefusal, AfterWrite, NoJob, Job
  <2>4. i.at = "write" /\ i.to \in Deployed => Proved(i.cand)
    BY <1>1, <2>1, <2>3, Checking DEF IInv, JobKnows
  <2> HIDE DEF i
  <2> QED
    BY <1>2, <2>1, <2>2, <2>4, Moving
<1>4. ASSUME NEW p \in Procs, WriteTransition(p) PROVE IInv'
  BY <1>4, Writing
<1>5. ASSUME NEW p \in Procs, NEW c \in Candidates, BeginEvaluation(p, c) PROVE IInv'
  <2>1. PICK v \in Verdicts, kind \in {"backtest", "offline"} :
          runs' = [runs EXCEPT ![c] = Append(@,
                    [kind |-> kind, start |-> 0, end |-> day, prior |-> 0, verdict |-> v,
                     rows |-> FALSE, gate |-> FALSE, marker |-> FALSE])]
    BY <1>5 DEF BeginEvaluation
  <2> DEFINE r == [kind |-> kind, start |-> 0, end |-> day, prior |-> 0, verdict |-> v,
                   rows |-> FALSE, gate |-> FALSE, marker |-> FALSE]
             j == [NoJob EXCEPT !.kind = "evaluate", !.at = "rows", !.cand = c,
                                !.run = Len(runs[c]) + 1]
  <2>2. /\ Len(runs[c]) < RunBound[c] /\ job' = [job EXCEPT ![p] = j]
        /\ UNCHANGED <<day, status, validated, demoted_at, fdr, faults>>
    BY <1>5 DEF BeginEvaluation
  <2>3. Len(runs[c]) \in Nat /\ Len(runs[c]) + 1 \in 0 .. MaxRuns
    BY <2>2, Constants DEF IInv, RunsType
  <2>4. r \in Run /\ ~r.rows /\ ~r.gate /\ ~r.marker
    BY Constants DEF IInv, WorldType, Run, Kinds
  <2>5. /\ j \in Job /\ j.at = "rows" /\ j.kind = "evaluate" /\ j.cand = c
        /\ j.run = Len(runs[c]) + 1
    BY <2>3, Ending DEF NoJob, Job, Jobs, Lines
  <2>6. runs' = [runs EXCEPT ![c] = Append(@, r)]
    BY <2>1
  <2> HIDE DEF r, j
  <2> QED
    BY <2>2, <2>4, <2>5, <2>6, Beginning
<1>6. ASSUME NEW p \in Procs, AppendTrades(p) PROVE IInv'
  <2> DEFINE c == job[p].cand
             k == job[p].run
             r == [runs[c][k] EXCEPT !.rows = TRUE]
             j == [job[p] EXCEPT !.at = "gate"]
  <2>1. /\ job[p].at = "rows"
        /\ runs' = [runs EXCEPT ![c][k].rows = TRUE]
        /\ job' = [job EXCEPT ![p] = j]
        /\ UNCHANGED <<day, status, validated, demoted_at, fdr, faults>>
    BY <1>6 DEF AppendTrades
  <2>2. c \in Candidates /\ k \in 1 .. Len(runs[c]) /\ job[p].kind \in {"evaluate", "ingest"}
    BY <1>1, <2>1 DEF JobKnows
  <2>3. runs[c][k] \in Run /\ runs[c] \in Seq(Run)
    BY <2>2 DEF IInv, RunsType
  <2>4. /\ runs[c][k].gate => runs[c][k].rows
        /\ runs[c][k].marker => runs[c][k].gate
    BY <2>2 DEF IInv, ProofInOrder
  <2>5. /\ r \in Run /\ r.rows /\ r.kind = runs[c][k].kind /\ r.start = runs[c][k].start
        /\ r.end = runs[c][k].end /\ r.verdict = runs[c][k].verdict
        /\ r.gate = runs[c][k].gate /\ r.marker = runs[c][k].marker
    BY <2>3 DEF Run
  <2>6. runs' = [runs EXCEPT ![c] = [runs[c] EXCEPT ![k] = r]]
    BY <2>1, Zenon
  <2>7. /\ j \in Job /\ j.at = "gate" /\ j.kind = job[p].kind /\ j.cand = c /\ j.run = k
    BY <1>1 DEF Job, Lines
  <2> HIDE DEF c, k, r, j
  <2> QED
    BY <2>1, <2>2, <2>4, <2>5, <2>6, <2>7, Filling
<1>7. ASSUME NEW p \in Procs, RecordVerifiedGate(p) PROVE IInv'
  <2> DEFINE c == job[p].cand
             k == job[p].run
             r == [runs[c][k] EXCEPT !.gate = TRUE]
             at == IF job[p].kind = "ingest" THEN "marker" ELSE "status"
             j == [job[p] EXCEPT !.at = at]
  <2>1. /\ job[p].at = "gate"
        /\ runs' = [runs EXCEPT ![c][k].gate = TRUE]
        /\ job' = [job EXCEPT ![p] = j]
        /\ UNCHANGED <<day, status, validated, demoted_at, fdr, faults>>
    BY <1>7 DEF RecordVerifiedGate
  <2>2. /\ c \in Candidates /\ k \in 1 .. Len(runs[c]) /\ runs[c][k].rows
        /\ job[p].kind \in {"evaluate", "ingest"}
    BY <1>1, <2>1 DEF JobKnows
  <2>3. runs[c][k] \in Run /\ runs[c] \in Seq(Run)
    BY <2>2 DEF IInv, RunsType
  <2>4. /\ r \in Run /\ r.gate /\ r.kind = runs[c][k].kind /\ r.start = runs[c][k].start
        /\ r.end = runs[c][k].end /\ r.verdict = runs[c][k].verdict
        /\ r.rows = runs[c][k].rows /\ r.marker = runs[c][k].marker
    BY <2>3 DEF Run
  <2>5. runs' = [runs EXCEPT ![c] = [runs[c] EXCEPT ![k] = r]]
    BY <2>1, Zenon
  <2>6. j \in Job /\ j.at = at /\ j.kind = job[p].kind /\ j.cand = c /\ j.run = k
    BY <1>1 DEF Job, Lines
  <2> HIDE DEF c, k, r, j
  <2>7. /\ j.at \in {"marker", "status"} /\ (j.at = "marker" => j.kind = "ingest")
        /\ (j.at = "status" => j.kind # "ingest")
    BY <2>6
  <2> QED
    BY <2>1, <2>2, <2>4, <2>5, <2>6, <2>7, Filling
<1>8. ASSUME NEW p \in Procs, ApplyVerdict(p) PROVE IInv'
  <2> DEFINE to == Verdict(job[p].cand, job[p].run)
             j == IF to = "candidate" THEN NoJob ELSE [job[p] EXCEPT !.at = "check", !.to = to]
  <2>1. /\ job[p].kind = "evaluate" /\ job[p].at = "status" /\ job' = [job EXCEPT ![p] = j]
        /\ UNCHANGED <<day, ledger, faults>>
    BY <1>8 DEF ApplyVerdict
  <2>2. to \in Statuses
    BY DEF Verdict, Statuses
  <2>3. j \in Job /\ JobKnows(j, runs) /\ j.at # "write"
    <3>1. CASE to = "candidate"
      BY <3>1, Ending
    <3>2. CASE to # "candidate"
      <4> HIDE DEF to
      <4> QED
        BY <1>1, <2>1, <2>2, <3>2 DEF Job, Lines, JobKnows
    <3> QED
      BY <3>1, <3>2
  <2> HIDE DEF j
  <2> QED
    BY <1>2, <2>1, <2>3, Moving
<1>9. ASSUME NEW p \in Procs, NEW c \in Candidates, TestTail(p, c) PROVE IInv'
  <2> DEFINE tail == TailOf(c)
  <2>1. PICK ok \in BOOLEAN :
          /\ fdr' = [fdr EXCEPT ![c] =
                       @ \cup {[start |-> tail.start, end |-> tail.end, decision |-> ok]}]
          /\ job' = [job EXCEPT ![p] =
                IF ok THEN [NoJob EXCEPT !.kind = "ingest", !.at = "append", !.cand = c,
                                         !.start = tail.start, !.end = tail.end,
                                         !.prior = LatestGate(c)]
                ELSE NoJob]
    BY <1>9 DEF TestTail
  <2> DEFINE j == IF ok THEN [NoJob EXCEPT !.kind = "ingest", !.at = "append", !.cand = c,
                                           !.start = tail.start, !.end = tail.end,
                                           !.prior = LatestGate(c)]
                  ELSE NoJob
  <2>2. UNCHANGED <<day, status, runs, validated, demoted_at, faults>>
    BY <1>9 DEF TestTail
  <2>3. tail.start \in 0 .. MaxDay /\ tail.end \in 0 .. MaxDay /\ LatestGate(c) \in 0 .. MaxRuns
    BY Boundaries, LatestRuns DEF IInv, WorldType, TailOf
  <2> HIDE DEF tail
  <2>4. EventType' /\ \A d \in Candidates : fdr[d] \subseteq fdr'[d]
    BY <2>1, <2>2, <2>3 DEF IInv, EventType
  <2>5. j \in Job /\ JobKnows(j, runs) /\ j.at # "write"
    <3>1. CASE ok
      BY <2>3, <3>1, Ending DEF NoJob, Job, Jobs, Lines, JobKnows
    <3>2. CASE ~ok
      BY <3>2, Ending
    <3> QED
      BY <3>1, <3>2
  <2>6. WorldType' /\ RunsType' /\ Grows /\ ProofInOrder'
    BY <2>2 DEF IInv, WorldType, RunsType, Grows, ProofInOrder
  <2>7. JobKnows(j, runs')
    BY <2>2, <2>5
  <2>8. job' = [job EXCEPT ![p] = j]
    BY <2>1
  <2> HIDE DEF j
  <2>9. JobType' /\ JobInv' /\ WriteInv' /\ DeployedIsProved'
    BY <2>2, <2>4, <2>5, <2>6, <2>7, <2>8, Advancing DEF IInv
  <2> QED
    BY <2>4, <2>6, <2>9 DEF IInv
<1>10. ASSUME NEW p \in Procs, AppendLiveRun(p) PROVE IInv'
  <2> DEFINE c == job[p].cand
             k == RunOfTail(c, job[p].start, job[p].end)
             r == [kind |-> "live", start |-> job[p].start, end |-> job[p].end,
                   prior |-> job[p].prior, verdict |-> "pass",
                   rows |-> FALSE, gate |-> FALSE, marker |-> FALSE]
  <2>1. /\ job[p].at = "append" /\ UNCHANGED <<day, status, validated, demoted_at, fdr, faults>>
        /\ \/ /\ Len(runs[c]) < RunBound[c] /\ runs' = [runs EXCEPT ![c] = Append(@, r)]
              /\ job' = [job EXCEPT ![p].at = "rows", ![p].run = Len(runs[c]) + 1]
           \/ runs' = runs /\ job' = [job EXCEPT ![p] = NoJob]
           \/ /\ k # 0 /\ runs' = runs
              /\ job' = [job EXCEPT ![p] = [job[p] EXCEPT !.at = "rows", !.run = k]]
    BY <1>10 DEF AppendLiveRun
  <2>2. c \in Candidates /\ job[p].kind = "ingest" /\ job[p] \in Job
    BY <1>1, <2>1 DEF JobKnows
  <2>3. Len(runs[c]) \in Nat /\ Len(runs[c]) <= MaxRuns
    BY <2>2 DEF IInv, RunsType
  <2>4. k # 0 => k \in 1 .. Len(runs[c])
    <3> DEFINE K == {i \in 1 .. Len(runs[c]) : /\ runs[c][i].kind = "live"
                                               /\ runs[c][i].start = job[p].start
                                               /\ runs[c][i].end = job[p].end}
    <3>1. k = Newest(K) /\ K \in SUBSET (1 .. Len(runs[c]))
      BY DEF RunOfTail
    <3> HIDE DEF K
    <3> QED
      BY <2>3, <3>1, NewestRun
  <2>5. CASE /\ Len(runs[c]) < RunBound[c] /\ runs' = [runs EXCEPT ![c] = Append(@, r)]
             /\ job' = [job EXCEPT ![p].at = "rows", ![p].run = Len(runs[c]) + 1]
    <3> DEFINE j == [job[p] EXCEPT !.at = "rows", !.run = Len(runs[c]) + 1]
    <3>1. r \in Run /\ ~r.rows /\ ~r.gate /\ ~r.marker
      BY <2>2 DEF Job, Run, Kinds, Verdicts
    <3>2. Len(runs[c]) + 1 \in 0 .. MaxRuns
      BY <2>2, <2>3, <2>5, Constants
    <3>3. /\ j \in Job /\ j.at = "rows" /\ j.kind = "ingest" /\ j.cand = c
          /\ j.run = Len(runs[c]) + 1
      BY <2>2, <3>2 DEF Job, Lines
    <3>4. job' = [job EXCEPT ![p] = j]
      BY <2>5 DEF IInv, JobType
    <3> HIDE DEF c, r, j
    <3> QED
      BY <2>1, <2>2, <2>5, <3>1, <3>3, <3>4, Beginning
  <2>6. CASE runs' = runs /\ job' = [job EXCEPT ![p] = NoJob]
    BY <1>2, <2>1, <2>6, Ending, Moving
  <2>7. CASE /\ k # 0 /\ runs' = runs
             /\ job' = [job EXCEPT ![p] = [job[p] EXCEPT !.at = "rows", !.run = k]]
    <3> HIDE DEF k
    <3> DEFINE j == [job[p] EXCEPT !.at = "rows", !.run = k]
    <3>1. k \in 0 .. MaxRuns /\ k \in 1 .. Len(runs[c])
      BY <2>3, <2>4, <2>7, Constants
    <3>2. j \in Job /\ j.at = "rows" /\ j.kind = "ingest" /\ j.cand = c /\ j.run = k
      BY <2>2, <3>1 DEF Job, Lines
    <3>3. JobKnows(j, runs)
      BY <2>2, <3>1, <3>2 DEF JobKnows
    <3>4. job' = [job EXCEPT ![p] = j]
      BY <2>7
    <3> HIDE DEF j
    <3> QED
      BY <1>2, <2>1, <2>7, <3>2, <3>3, <3>4, Moving
  <2> QED
    BY <2>1, <2>5, <2>6, <2>7
<1>11. ASSUME NEW p \in Procs, RecordShadowIngestion(p) PROVE IInv'
  <2> DEFINE c == job[p].cand
             k == job[p].run
             r == [runs[c][k] EXCEPT !.marker = TRUE]
             j == [job[p] EXCEPT !.at = "status"]
  <2>1. /\ job[p].at = "marker"
        /\ runs' = [runs EXCEPT ![c][k].marker = TRUE]
        /\ job' = [job EXCEPT ![p] = j]
        /\ UNCHANGED <<day, status, validated, demoted_at, fdr, faults>>
    BY <1>11 DEF RecordShadowIngestion
  <2>2. /\ c \in Candidates /\ k \in 1 .. Len(runs[c]) /\ runs[c][k].rows /\ runs[c][k].gate
        /\ job[p].kind = "ingest"
    BY <1>1, <2>1 DEF JobKnows
  <2>3. runs[c][k] \in Run /\ runs[c] \in Seq(Run)
    BY <2>2 DEF IInv, RunsType
  <2>4. /\ r \in Run /\ r.marker /\ r.kind = runs[c][k].kind /\ r.start = runs[c][k].start
        /\ r.end = runs[c][k].end /\ r.verdict = runs[c][k].verdict /\ r.rows /\ r.gate
    BY <2>2, <2>3 DEF Run
  <2>5. runs' = [runs EXCEPT ![c] = [runs[c] EXCEPT ![k] = r]]
    BY <2>1, Zenon
  <2>6. j \in Job /\ j.at = "status" /\ j.kind = "ingest" /\ j.cand = c /\ j.run = k
    BY <1>1, <2>2 DEF Job, Lines
  <2> HIDE DEF c, k, r, j
  <2> QED
    BY <2>1, <2>2, <2>4, <2>5, <2>6, Filling
<1>12. ASSUME NEW p \in Procs, PromoteIngested(p) PROVE IInv'
  <2> DEFINE s == status[job[p].cand]
             j == CASE s \in {"backtest_passed", "demoted"} ->
                         [job[p] EXCEPT !.at = "check", !.to = "shadow"]
                    [] s = "shadow" -> [job[p] EXCEPT !.at = "check", !.to = "validated"]
                    [] OTHER -> NoJob
  <2>1. /\ job[p].kind = "ingest" /\ job[p].at = "status" /\ job' = [job EXCEPT ![p] = j]
        /\ UNCHANGED <<day, ledger, faults>>
    BY <1>12 DEF PromoteIngested
  <2>2. \/ j = [job[p] EXCEPT !.at = "check", !.to = "shadow"]
        \/ j = [job[p] EXCEPT !.at = "check", !.to = "validated"]
        \/ j = NoJob
    OBVIOUS
  <2> HIDE DEF j
  <2>3. j \in Job /\ JobKnows(j, runs) /\ j.at # "write"
    BY <1>1, <2>1, <2>2, Ending DEF Job, Lines, Statuses, JobKnows
  <2> QED
    BY <1>2, <2>1, <2>3, Moving
<1>13. ASSUME NEW p \in Procs, Supersede(p) PROVE IInv'
  <2>1. /\ job[p].at = "supersede" /\ UNCHANGED <<day, ledger, faults>>
        /\ \/ job' = [job EXCEPT ![p] = NoJob]
           \/ \E c \in job[p].old :
                job' = [job EXCEPT ![p] = [job[p] EXCEPT !.at = "check", !.cand = c,
                                             !.to = "validated", !.old = @ \ {c}]]
    BY <1>13 DEF Supersede
  <2>2. CASE job' = [job EXCEPT ![p] = NoJob]
    BY <1>2, <2>1, <2>2, Ending, Moving
  <2>3. ASSUME NEW c \in job[p].old,
               job' = [job EXCEPT ![p] = [job[p] EXCEPT !.at = "check", !.cand = c,
                                            !.to = "validated", !.old = @ \ {c}]]
        PROVE  IInv'
    <3> DEFINE j == [job[p] EXCEPT !.at = "check", !.cand = c, !.to = "validated",
                                   !.old = @ \ {c}]
    <3>1. c \in Candidates
      BY <1>1 DEF Job
    <3>2. job[p].kind = "select"
      BY <1>1, <2>1 DEF JobKnows
    <3>3. j \in Job /\ j.at = "check" /\ JobKnows(j, runs)
      BY <1>1, <3>1, <3>2 DEF Job, Lines, Statuses, JobKnows
    <3>4. job' = [job EXCEPT ![p] = j]
      BY <2>3
    <3> HIDE DEF j
    <3> QED
      BY <1>2, <2>1, <3>3, <3>4, Moving
  <2> QED
    BY <2>1, <2>2, <2>3
<1>14. ASSUME NEW p \in Procs, BeginSelection(p) PROVE IInv'
  <2> DEFINE best == Best(Scored)
             others == {c \in Candidates \ {best} : status[c] = "champion"}
             at == IF status[best] = "champion" THEN "supersede" ELSE "check"
             j == [NoJob EXCEPT !.kind = "select", !.cand = best, !.to = "champion",
                                !.at = at, !.old = others]
  <2>1. Scored # {} /\ job' = [job EXCEPT ![p] = j] /\ UNCHANGED <<day, ledger, faults>>
    BY <1>14 DEF BeginSelection
  <2>2. best \in Candidates
    <3>1. Scored \in SUBSET Candidates /\ IsFiniteSet(Candidates)
      BY EdgeLifecycleAssumption DEF Scored, EdgeLifecycleAssumption
    <3>2. IsFiniteSet(Scored)
      BY <3>1, FS_Subset
    <3>3. \E c \in Scored : \A d \in Scored : d <= c
      BY <2>1, <3>1, <3>2, Constants, Greatest
    <3>4. best \in Scored
      BY <3>3 DEF Best
    <3> QED
      BY <3>1, <3>4
  <2>3. others \in SUBSET Candidates /\ at \in {"check", "supersede"}
    OBVIOUS
  <2> HIDE DEF best, others, at
  <2>4. j \in Job /\ j.at # "write" /\ JobKnows(j, runs)
    BY <2>2, <2>3, Ending DEF NoJob, Job, Jobs, Lines, Statuses, JobKnows
  <2> HIDE DEF j
  <2> QED
    BY <1>2, <2>1, <2>4, Moving
<1>15. ASSUME NEW p \in Procs, NEW c \in Candidates, DemotionDue(p, c) PROVE IInv'
  <2> DEFINE j == [NoJob EXCEPT !.kind = "demote", !.at = "check", !.cand = c,
                                !.to = "demoted"]
  <2>1. job' = [job EXCEPT ![p] = j] /\ UNCHANGED <<day, ledger, faults>>
    BY <1>15 DEF DemotionDue
  <2>2. j \in Job /\ j.at # "write" /\ JobKnows(j, runs)
    BY Ending DEF NoJob, Job, Jobs, Lines, Statuses, JobKnows
  <2> HIDE DEF j
  <2> QED
    BY <1>2, <2>1, <2>2, Moving
<1>16. ASSUME NEW p \in Procs, JobDies(p) PROVE IInv'
  <2>1. /\ job' = [job EXCEPT ![p] = NoJob] /\ UNCHANGED <<day, ledger>>
        /\ faults' \in 0 .. MaxFaults
    BY <1>2, <1>16, Constants DEF JobDies
  <2> QED
    BY <2>1, Ending, Moving
<1>17. CASE NewSessions \/ UNCHANGED vars
  <2>1. /\ UNCHANGED <<ledger, job, faults>> /\ day' \in 0 .. MaxDay
    BY <1>17, Constants DEF NewSessions, vars, IInv, WorldType
  <2>2. WorldType' /\ RunsType' /\ EventType' /\ JobType'
    BY <2>1 DEF IInv, WorldType, RunsType, EventType, JobType
  <2>3. JobInv' /\ WriteInv' /\ ProofInOrder' /\ DeployedIsProved'
    BY <2>1 DEF IInv, JobInv, WriteInv, Proved, ProofInOrder, DeployedIsProved,
                LiveShadowAuthorized
  <2> QED
    BY <2>2, <2>3 DEF IInv
<1> QED
  BY <1>3, <1>4, <1>5, <1>6, <1>7, <1>8, <1>9, <1>10, <1>11, <1>12, <1>13, <1>14, <1>15,
     <1>16, <1>17
  DEF Next, Continue

-----------------------------------------------------------------------------
\* What holds in every state, for every instance.

\* The strengthened invariant: what each job knows of the run in hand, and the proof
\* under every status it is about to write (transition, _reconcile_run).
THEOREM Invariance == Spec => []IInv
BY Initially, Inductive, PTL DEF Spec

\* The candidates, their runs and the jobs have the values the code gives them.
THEOREM Typing == Spec => []TypeOK
<1>1. IInv => TypeOK
  BY DEF IInv, TypeOK, WorldType, RunsType, EventType, JobType
<1> QED
  BY <1>1, Invariance, PTL

\* Whatever transitions interleave, a candidate is deployed only over a passing,
\* authorized live-shadow proof with its trades, gate and marker.
THEOREM Deployment == Spec => []DeployedIsProved
<1>1. IInv => DeployedIsProved
  BY DEF IInv
<1> QED
  BY <1>1, Invariance, PTL

\* The pieces of a proof become durable in order, whatever died in between: no gate
\* without its trades, no marker without its gate, no validated event without its
\* marker.
THEOREM Order == Spec => []ProofInOrder
<1>1. IInv => ProofInOrder
  BY DEF IInv
<1> QED
  BY <1>1, Invariance, PTL

-----------------------------------------------------------------------------
\* What Max and Min of FiniteSetsExt are of the sets they are applied to.
LEMMA GreaterOfTwo ==
  ASSUME NEW a \in Int, NEW b \in Int
  PROVE  Max({a, b}) = IF a >= b THEN a ELSE b
<1>1. PICK x \in {a, b} : \A y \in {a, b} : x >= y
  OBVIOUS
<1>2. Max({a, b}) \in {a, b} /\ \A y \in {a, b} : Max({a, b}) >= y
  BY <1>1 DEF Max
<1> QED
  BY <1>2

\* The greatest element of a set of integers up to a bound is one of them.
LEMMA MaxOfBounded ==
  ASSUME NEW n \in Nat, NEW S \in SUBSET (-1..n), S # {}
  PROVE  Max(S) \in S /\ \A y \in S : y <= Max(S)
<1> DEFINE T == {x + 1 : x \in S}
<1>0. \A x \in S : x \in Int /\ -1 <= x /\ x <= n
  OBVIOUS
<1>1. T \in SUBSET (0..(n + 1)) /\ T # {}
  <2>1. ASSUME NEW z \in T PROVE z \in 0..(n + 1)
    <3>1. PICK x \in S : z = x + 1
      OBVIOUS
    <3> QED
      BY <1>0, <3>1
  <2>2. T # {}
    OBVIOUS
  <2> QED
    BY <2>1, <2>2
<1>2. IsFiniteSet(T)
  <2>1. IsFiniteSet(0..(n + 1))
    BY FS_Interval
  <2> QED
    BY <1>1, <2>1, FS_Subset
<1>3. T \in SUBSET Nat
  BY <1>1
<1>4. PICK x \in T : \A y \in T : y <= x
  BY <1>1, <1>2, <1>3, Greatest
<1>5. x - 1 \in S /\ \A y \in S : x - 1 >= y
  <2>1. PICK z \in S : x = z + 1
    BY <1>4
  <2>2. \A y \in S : y + 1 \in T
    OBVIOUS
  <2> HIDE DEF T
  <2>3. x \in Int /\ x - 1 = z /\ \A y \in S : y + 1 <= x
    BY <1>0, <1>4, <2>1, <2>2
  <2> QED
    BY <1>0, <2>1, <2>3
<1>6. Max(S) \in S /\ \A y \in S : Max(S) >= y
  BY <1>5 DEF Max
<1> QED
  BY <1>6

\* The least element of a set of natural numbers is one of them.
LEMMA MinOfNaturals ==
  ASSUME NEW S \in SUBSET Nat, S # {}
  PROVE  Min(S) \in S /\ \A y \in S : Min(S) <= y
<1>1. PICK x \in S : \A y \in S : x <= y
  BY Least
<1> QED
  BY <1>1 DEF Min

-----------------------------------------------------------------------------
\* The shadow poll: the inductive invariant.

PollStates == {"idle", "skip", "skipThrough", "commit", "quarantine", "offsets", "activate",
               "load", "session", "open", "replay", "repair", "evidence", "close", "prune",
               "floor"}
SourceType ==
  /\ corpus \in Seq(Rows) /\ offset \in 0..Len(corpus) /\ today \in Sessions
  /\ registered \in BOOLEAN
  /\ invalid \subseteq Rows /\ skipped \in 0..today
  /\ batches \in Nat /\ events \in [Rows -> 0..batches]
  /\ floor \in 0..(batches + 1) /\ since \in 0..(batches + 1)
EvidenceType ==
  /\ opened \subseteq decided /\ decided \subseteq InLog /\ books \subseteq opened
  /\ diff \in [Sessions -> [status : {"none", "match", "mismatch", "incomplete"},
                            digest : SUBSET Rows, rows : SUBSET Rows, at : Nat]]
  /\ \A s \in Sessions : /\ diff[s].digest \subseteq diff[s].rows
                         /\ diff[s].rows \subseteq OfSession(InLog, s)
  /\ repair \subseteq Sessions /\ pruned \subseteq Sessions
Polls ==
  [pc : PollStates, active : BOOLEAN, unread : BOOLEAN, view : SUBSET Rows,
   again : SUBSET Sessions, upto : Nat, todo : SUBSET Sessions, fresh : SUBSET Rows,
   shadow : SUBSET Rows, replayed : SUBSET Sessions, blocked : BOOLEAN, ingested : BOOLEAN]
PollType ==
  /\ poll \in Polls
  /\ pollFaults \in 0..MaxPollFaults
  /\ poll.pc = "open" => poll.fresh \subseteq opened

\* No row is of a session to come, and a row of the log was in the corpus.
RowsInv ==
  /\ \A i \in 1..Len(corpus) : corpus[i].s <= today
  /\ \A r \in InLog : r.s <= today
\* What is read and not yet behind the offset.
ReadInv ==
  /\ poll.pc \in {"skip", "skipThrough", "quarantine", "offsets"} => poll.upto <= Len(corpus)
  /\ poll.pc \in {"quarantine", "offsets"} =>
       \A i \in (offset + 1)..poll.upto :
         corpus[i] \in poll.fresh \/ corpus[i].s <= skipped
\* The candidate of a poll, and of the time from which rows are its business.
CandidateInv ==
  /\ since # 0 => registered
  /\ poll.pc # "idle" => poll.active = registered
  /\ poll.pc = "activate" => ~poll.active
  /\ poll.pc \in {"load", "session", "open", "replay", "repair", "evidence", "close", "floor"}
       => poll.active
  /\ poll.pc \in {"skip", "skipThrough"} => Pending > MaxPending

\* A row the floor may leave behind.
Resolved(r) ==
  r.s <= skipped \/ r.s \in pruned \/ (r \in decided /\ diff[r.s].status # "none")
BehindFloor(r) == since # 0 /\ since <= events[r] /\ events[r] < floor
FloorInv ==
  \/ poll.pc \in {"idle", "skip", "skipThrough"} /\ Pending > MaxPending
  \/ \A r \in InLog : BehindFloor(r) => Resolved(r)

\* The rows in view are those from the floor on; unless something blocks the
\* floor, each is resolved, cannot be, or is of a session that is still to do.
Viewing == poll.active /\ poll.pc \in {"session", "open", "replay", "repair", "evidence",
                                       "close", "prune", "floor"}
ViewInv ==
  Viewing =>
    /\ poll.view = View
    /\ ~poll.blocked /\ poll.again = {} =>
         \A r \in poll.view : ~Usable(r.s) \/ r.s \in poll.todo \/ Resolved(r)
    /\ poll.pc \in {"prune", "floor"} => poll.todo = {}
\* The session in hand: its rows are decided before its replay is written.
SessionInv ==
  /\ poll.pc \in {"open", "replay", "repair", "evidence", "close"} =>
       /\ poll.todo # {}
       /\ poll.again = {} => OfSession(poll.view, Session) \subseteq decided
  /\ poll.pc \in {"repair", "evidence", "close"} => diff[Session].status # "none"

PollInv ==
  /\ SourceType /\ EvidenceType /\ PollType
  /\ RowsInv /\ ReadInv /\ NoRowSkipped /\ CandidateInv /\ FloorInv /\ ViewInv /\ SessionInv

-----------------------------------------------------------------------------
\* The shadow poll: the initial states.

\* At first no row is logged, no candidate is registered and no poll runs.
LEMMA PollInitially == PollInit => PollInv
<1> SUFFICES ASSUME PollInit PROVE PollInv
  OBVIOUS
<1> USE SessionAssumption, BoundAssumption DEF PollInit
<1>1. InLog = {} /\ Len(corpus) = 0 /\ corpus \in Seq(Rows)
  BY DEF InLog
<1>2. SourceType
  BY <1>1 DEF SourceType, Sessions
<1>3. EvidenceType
  BY <1>1 DEF EvidenceType, NoDiff, OfSession
<1>4. PollType
  BY DEF PollType, Polls, Idle, PollStates
<1>5. RowsInv /\ ReadInv /\ NoRowSkipped
  BY <1>1 DEF RowsInv, ReadInv, NoRowSkipped, Idle
<1>6. CandidateInv /\ FloorInv /\ ViewInv /\ SessionInv
  BY <1>1 DEF CandidateInv, FloorInv, ViewInv, SessionInv, Viewing, Idle
<1> QED
  BY <1>2, <1>3, <1>4, <1>5, <1>6 DEF PollInv

-----------------------------------------------------------------------------
\* The shadow poll: the source. One lemma for each part of the invariant.

\* The actions of the poll that leave the source and the floor alone.
Working ==
  \/ Load \/ Decide \/ OpenBooks \/ NotClosed \/ Replay \/ Repair \/ Evidence \/ CloseBooks
  \/ Memoize \/ Prune \/ EvaluationFails \/ ReplayFails \/ Crash

\* Between its reading and its floor, a poll changes neither the log nor what it reads from.
LEMMA WorkingFrame ==
  ASSUME Working
  PROVE  UNCHANGED <<recorder, source, floor, since>>
BY DEF Working, Load, Decide, OpenBooks, NotClosed, Replay, Repair, Evidence, CloseBooks,
       Memoize, Prune, EvaluationFails, ReplayFails, Crash

\* The corpus, the offset, the skipped sessions and the events keep their shape.
LEMMA SourceStep ==
  ASSUME PollInv, PollNext \/ UNCHANGED pollVars
  PROVE  SourceType'
<1> USE SessionAssumption DEF PollInv, recorder, source
<1>1. ASSUME NEW r \in Rows, RecordRow(r) PROVE SourceType'
  <2>1. corpus' \in Seq(Rows) /\ Len(corpus') = Len(corpus) + 1
    BY <1>1 DEF RecordRow, SourceType
  <2> QED
    BY <1>1, <2>1 DEF RecordRow, SourceType
<1>2. ASSUME NEW r \in Rows, Correct(r) PROVE SourceType'
  BY <1>2 DEF Correct, SourceType
<1>3. CASE NewDay
  <2>1. today' = today + 1 /\ today \in 1..LastSession /\ today < LastSession
    BY <1>3 DEF NewDay, SourceType, Sessions
  <2> QED
    BY <1>3, <2>1 DEF NewDay, SourceType, Sessions
<1>11. CASE Register
  BY <1>11 DEF Register, SourceType
<1>4. CASE PollBegins \/ SkipFloor \/ SkipThrough
  BY <1>4 DEF PollBegins, SkipFloor, SkipThrough, SourceType, Sessions, NextBatch
<1>5. CASE CommitBatch
  BY <1>5 DEF CommitBatch, SourceType, NextBatch
<1>6. CASE SaveQuarantine
  BY <1>6 DEF SaveQuarantine, SourceType, PollType, Polls, RefusedRows
<1>7. CASE SaveOffsets
  BY <1>7 DEF SaveOffsets, SourceType, PollType, Polls, ReadTo, ReadInv, At
<1>8. CASE Activate
  BY <1>8, GreaterOfTwo DEF Activate, SourceType, NextBatch
<1>9. CASE AdvanceFloor
  <2>1. CASE Settled
    <3> DEFINE E == {events[r] : r \in poll.view}
    <3>1. E \in SUBSET (0..batches) /\ E # {}
      BY <2>1 DEF SourceType, PollType, Polls, Settled
    <3> HIDE DEF E
    <3>2. Max(E) \in 0..batches
      <4>1. E \in SUBSET (-1..batches) /\ batches \in Nat
        BY <3>1 DEF SourceType
      <4> QED
        BY <3>1, <4>1, MaxOfBounded
    <3>3. floor' = Max({floor, 1 + Max(E)})
      BY <1>9, <2>1 DEF AdvanceFloor, E
    <3>4. batches \in Nat /\ floor \in 0..(batches + 1) /\ 1 + Max(E) \in 1..(batches + 1)
      BY <3>2 DEF SourceType
    <3>5. floor' \in 0..(batches + 1)
      BY <3>3, <3>4, GreaterOfTwo
    <3> QED
      BY <1>9, <3>5 DEF AdvanceFloor, SourceType
  <2> QED
    BY <1>9, <2>1 DEF AdvanceFloor, SourceType
<1>10. CASE Working \/ UNCHANGED pollVars
  BY <1>10, WorkingFrame DEF SourceType, pollVars
<1> QED
  BY <1>1, <1>2, <1>3, <1>4, <1>5, <1>6, <1>7, <1>8, <1>9, <1>10, <1>11
  DEF PollNext, Poll, Working

\* What a replay is given is in the log; what an evaluation enters on, and what
\* a replay enters on, are rows it was given.
LEMMA InputsInLog ==
  ASSUME PollInv, NEW s \in Sessions, Viewing
  PROVE  /\ Inputs(s) \subseteq OfSession(InLog, s)
         /\ Evaluated(s) \subseteq EligibleRows(s) /\ EligibleRows(s) \subseteq InLog
         /\ Entries(Inputs(s)) \subseteq Inputs(s)
BY DEF PollInv, ViewInv, View, Inputs, OfSession, Evaluated, EligibleRows, Entries, InLog

\* The log only grows.
LEMMA LogGrows ==
  ASSUME PollInv, PollNext \/ UNCHANGED pollVars
  PROVE  InLog \subseteq InLog' /\ \A r \in InLog : events'[r] = events[r]
<1>1. CASE UNCHANGED events
  BY <1>1 DEF InLog
<1>2. CASE CommitBatch
  BY <1>2 DEF CommitBatch, InLog, PollInv, SourceType, NextBatch
<1> QED
  BY <1>1, <1>2, WorkingFrame
  DEF PollNext, Poll, Working, pollVars, source, RecordRow, Correct, NewDay, Register,
      PollBegins, SkipFloor, SkipThrough, SaveQuarantine, SaveOffsets, Activate, AdvanceFloor

\* The session in hand is one of those to do.
LEMMA SessionInHand ==
  ASSUME PollInv, poll.todo # {}
  PROVE  Session \in poll.todo /\ Session \in Sessions
<1>1. poll.todo \subseteq Sessions /\ Sessions \subseteq Nat
  BY DEF PollInv, PollType, Polls, Sessions
<1>2. poll.todo \in SUBSET Nat
  BY <1>1
<1> QED
  BY <1>1, <1>2, MinOfNaturals DEF Session

\* Decisions are about logged rows, books about opened ones, diffs about their session.
LEMMA EvidenceStep ==
  ASSUME PollInv, PollNext \/ UNCHANGED pollVars
  PROVE  EvidenceType'
<1> USE DEF PollInv, EvidenceType, arm, evidence
<1>1. \A s \in Sessions :
        OfSession(InLog, s) \subseteq OfSession(InLog, s)'
  BY LogGrows DEF OfSession
<1>2. CASE UNCHANGED <<arm, evidence>>
  BY <1>1, <1>2, LogGrows
<1>3. CASE Decide
  <2>1. Session \in Sessions /\ Viewing
    BY <1>3, SessionInHand DEF Decide, Viewing, At, CandidateInv
  <2>2. /\ decided' = decided \cup EligibleRows(Session)
        /\ opened' = opened \cup (Evaluated(Session) \ decided)
        /\ UNCHANGED <<books, evidence, source>>
    BY <1>3 DEF Decide
  <2> QED
    BY <1>1, <2>1, <2>2, InputsInLog, LogGrows
<1>4. CASE OpenBooks
  BY <1>1, <1>4, LogGrows DEF OpenBooks, PollType, Polls, At
<1>5. CASE Replay \/ ReplayFails
  <2>1. Session \in Sessions /\ Viewing
    BY <1>5, SessionInHand DEF Replay, ReplayFails, Viewing, At, CandidateInv, SessionInv
  <2>2. PICK verdict \in {"match", "mismatch", "incomplete"} :
          diff' = [diff EXCEPT ![Session] = ReplayOf(Session, verdict)]
    BY <1>5 DEF Replay, ReplayFails, Parity
  <2>3. UNCHANGED <<arm, repair, pruned, source>>
    BY <1>5 DEF Replay, ReplayFails
  <2>4. /\ ReplayOf(Session, verdict).digest \subseteq ReplayOf(Session, verdict).rows
        /\ ReplayOf(Session, verdict).rows \subseteq OfSession(InLog, Session)
        /\ ReplayOf(Session, verdict) \in
             [status : {"none", "match", "mismatch", "incomplete"},
              digest : SUBSET Rows, rows : SUBSET Rows, at : Nat]
    BY <2>1, InputsInLog DEF ReplayOf, SourceType, OfSession, InLog
  <2> HIDE DEF ReplayOf
  <2> QED
    BY <1>1, <2>1, <2>2, <2>3, <2>4, LogGrows
<1>6. CASE Repair
  <2>1. Session \in Sessions
    BY <1>6, SessionInHand DEF Repair, At, SessionInv
  <2> QED
    BY <1>1, <1>6, <2>1, LogGrows DEF Repair
<1>7. CASE Evidence
  BY <1>1, <1>7, LogGrows DEF Evidence
<1>8. CASE CloseBooks
  BY <1>1, <1>8, LogGrows DEF CloseBooks
<1>9. CASE Prune
  <2>1. /\ diff' = [s \in Sessions |-> IF s \in Old THEN NoDiff ELSE diff[s]]
        /\ pruned' = pruned \cup Old /\ UNCHANGED <<arm, repair>>
    BY <1>9 DEF Prune
  <2>2. Old \subseteq Sessions
    BY DEF Old
  <2> QED
    BY <1>1, <2>1, <2>2, LogGrows DEF NoDiff
<1> QED
  BY <1>2, <1>3, <1>4, <1>5, <1>6, <1>7, <1>8, <1>9
  DEF PollNext, Poll, pollVars, RecordRow, Correct, NewDay, Register, PollBegins, SkipFloor,
      SkipThrough, CommitBatch, SaveQuarantine, SaveOffsets, Activate, AdvanceFloor, Load,
      NotClosed, Memoize, EvaluationFails, Crash

\* A poll that ended is idle.
LEMMA IdlePoll == Idle \in Polls /\ Idle.pc = "idle"
BY DEF Idle, Polls, PollStates

\* The local state of a poll keeps its shape.
LEMMA PollTypeStep ==
  ASSUME PollInv, PollNext \/ UNCHANGED pollVars
  PROVE  PollType'
<1> USE DEF PollInv, PollType, Polls, PollStates, Goto
<1>1. CASE UNCHANGED <<poll, pollFaults, opened>>
  BY <1>1
<1>2. CASE PollBegins
  <2>1. PICK pc \in PollStates :
          poll' = [Idle EXCEPT !.active = registered, !.upto = Len(corpus), !.pc = pc]
    BY <1>2 DEF PollBegins
  <2>2. registered \in BOOLEAN /\ Len(corpus) \in Nat /\ pollFaults' = pollFaults
    BY <1>2 DEF PollBegins, SourceType
  <2>3. poll'.pc # "open"
    BY <1>2 DEF PollBegins, Idle
  <2> QED
    BY <2>1, <2>2, <2>3 DEF Idle
<1>3. CASE SkipFloor \/ SkipThrough \/ SaveQuarantine \/ SaveOffsets \/ Activate
  BY <1>3 DEF SkipFloor, SkipThrough, SaveQuarantine, SaveOffsets, Activate, At
<1>4. CASE CommitBatch
  <2>1. Batch \subseteq Rows /\ Len(corpus) \in Nat
    BY DEF Batch, SourceType
  <2> QED
    BY <1>4, <2>1 DEF CommitBatch, At
<1>5. CASE Load
  <2>1. View \subseteq Rows /\ Again \subseteq Sessions /\ Forward \subseteq Sessions
    BY DEF View, InLog, Again, Forward
  <2> QED
    BY <1>5, <2>1 DEF Load, At
<1>6. CASE Decide
  <2>1. Viewing /\ Session \in Sessions
    BY <1>6, SessionInHand DEF Decide, Viewing, CandidateInv, At
  <2>2. Evaluated(Session) \subseteq Rows /\ opened' = opened \cup (Evaluated(Session) \ decided)
    BY <1>6, <2>1, InputsInLog DEF InLog, Decide
  <2>3. opened' \subseteq Rows
    BY <2>2 DEF EvidenceType, InLog
  <2>4. \E shadow \in SUBSET Rows :
          poll' = [poll EXCEPT !.pc = "open", !.fresh = Evaluated(Session) \ decided,
                               !.shadow = shadow]
    BY <1>6, <2>2, <2>3 DEF Decide, OfSession
  <2> QED
    BY <1>6, <2>2, <2>4 DEF Decide
<1>7. CASE OpenBooks \/ Replay \/ Evidence
  BY <1>7 DEF OpenBooks, Replay, Evidence, At
<1>11. MaxPollFaults \in Nat
  BY BoundAssumption
<1>12. CASE EvaluationFails
  <2>1. pollFaults' \in 0..MaxPollFaults
    BY <1>11, <1>12 DEF EvaluationFails
  <2>2. poll' = [poll EXCEPT !.todo = {}, !.blocked = TRUE] /\ poll.pc = "session"
    BY <1>12 DEF EvaluationFails, At
  <2> QED
    BY <2>1, <2>2
<1>13. CASE ReplayFails
  <2>1. pollFaults' \in 0..MaxPollFaults
    BY <1>11, <1>13 DEF ReplayFails
  <2>2. poll' = [poll EXCEPT !.pc = "repair", !.blocked = TRUE]
    BY <1>13 DEF ReplayFails
  <2> QED
    BY <2>1, <2>2
<1>8. CASE NotClosed
  BY <1>8 DEF NotClosed, NextSession, At
<1>14. CASE Repair
  BY <1>14 DEF Repair, NextSession, At
<1>9. CASE CloseBooks
  <2>1. Session \in Sessions
    BY <1>9, SessionInHand DEF CloseBooks, At, SessionInv
  <2> QED
    BY <1>9, <2>1 DEF CloseBooks, NextSession, At
<1>10. CASE Memoize
  BY <1>10 DEF Memoize, At
<1>15. CASE Prune \/ AdvanceFloor
  <2>1. /\ poll' = Idle \/ poll' = [poll EXCEPT !.pc = "floor"]
        /\ pollFaults' = pollFaults
    BY <1>15 DEF Prune, AdvanceFloor
  <2> QED
    BY <2>1, IdlePoll
<1>16. CASE Crash
  <2>1. poll' = Idle /\ pollFaults' \in 0..MaxPollFaults
    BY <1>11, <1>16 DEF Crash
  <2> QED
    BY <2>1, IdlePoll
<1> QED
  BY <1>1, <1>2, <1>3, <1>4, <1>5, <1>6, <1>7, <1>8, <1>9, <1>10, <1>12, <1>13,
     <1>14, <1>15, <1>16
  DEF PollNext, Poll, pollVars, arm, RecordRow, Correct, NewDay, Register

\* No row is of a session to come (RecordRow, NewDay).
LEMMA RowsStep ==
  ASSUME PollInv, PollNext \/ UNCHANGED pollVars
  PROVE  RowsInv'
<1> USE DEF PollInv, RowsInv, recorder, source
<1>1. ASSUME NEW r \in Rows, RecordRow(r) PROVE RowsInv'
  <2>1. /\ corpus' = corpus \o <<r>> /\ corpus \in Seq(Rows) /\ r.s <= today
        /\ UNCHANGED <<today, events>>
    BY <1>1 DEF RecordRow, SourceType
  <2> QED
    BY <2>1 DEF InLog
<1>2. CASE NewDay
  <2>1. today' = today + 1 /\ today \in Nat /\ UNCHANGED <<corpus, events>>
    BY <1>2 DEF NewDay, SourceType, Sessions
  <2>2. \A r \in Rows : r.s \in Nat
    BY DEF Rows, Sessions
  <2>3. \A i \in 1..Len(corpus) : corpus[i] \in Rows
    BY DEF SourceType
  <2> QED
    BY <2>1, <2>2, <2>3 DEF InLog
<1>3. CASE CommitBatch
  <2>1. \A r \in Batch : r.s <= today
    BY DEF Batch, SourceType
  <2> QED
    BY <1>3, <2>1 DEF CommitBatch, InLog
<1>4. CASE UNCHANGED <<corpus, today, events>>
  BY <1>4 DEF InLog
<1> QED
  BY <1>1, <1>2, <1>3, <1>4, WorkingFrame
  DEF PollNext, Poll, Working, pollVars, Correct, Register, PollBegins, SkipFloor, SkipThrough,
      SaveQuarantine, SaveOffsets, Activate, AdvanceFloor

\* What was read stays in the batch, or behind the skipped sessions, until the offset is saved.
LEMMA ReadStep ==
  ASSUME PollInv, PollNext \/ UNCHANGED pollVars
  PROVE  ReadInv'
<1> USE DEF PollInv, ReadInv, recorder, source, Goto
<1>1. CASE SkipThrough
  <2>1. /\ poll'.upto = poll.upto /\ skipped' = today /\ UNCHANGED <<corpus, offset>>
        /\ poll.pc = "skipThrough"
    BY <1>1 DEF SkipThrough, At, PollType, Polls
  <2>2. offset \in Nat /\ poll.upto <= Len(corpus)
    BY <2>1 DEF SourceType
  <2> QED
    BY <2>1, <2>2 DEF RowsInv, PollType, Polls
<1>2. CASE CommitBatch
  <2>1. poll'.upto = Len(corpus) /\ poll'.fresh = Batch /\ UNCHANGED <<corpus, offset, skipped>>
    BY <1>2 DEF CommitBatch, PollType, Polls
  <2> QED
    BY <2>1 DEF Batch, SourceType
<1>3. CASE SaveQuarantine
  BY <1>3 DEF SaveQuarantine, At, PollType, Polls
<1>4. poll'.pc \notin {"skip", "skipThrough", "quarantine", "offsets"} => ReadInv'
  OBVIOUS
<1>5. CASE UNCHANGED <<poll, corpus, offset, skipped>>
  BY <1>5
<1>6. ASSUME NEW r \in Rows, RecordRow(r) PROVE ReadInv'
  <2>1. /\ Len(corpus') = Len(corpus) + 1 /\ UNCHANGED poll
        /\ poll.pc \notin {"quarantine", "offsets"}
    BY <1>6 DEF RecordRow, Reading, SourceType
  <2> QED
    BY <2>1 DEF PollType, Polls, SourceType
<1>7. CASE SaveOffsets \/ Activate \/ AdvanceFloor \/ Load
  <2>1. poll'.pc \in {"load", "activate", "prune", "idle", "session"}
    BY <1>7, IdlePoll DEF SaveOffsets, Activate, AdvanceFloor, Load, PollType, Polls
  <2> QED
    BY <2>1, <1>4
<1>10. CASE PollBegins
  BY <1>10 DEF PollBegins, Idle, SourceType
<1>12. CASE SkipFloor
  BY <1>12 DEF SkipFloor, At, PollType, Polls
<1>8. CASE Decide \/ OpenBooks \/ NotClosed \/ Replay \/ Repair \/ Evidence \/ CloseBooks
  BY <1>8, <1>4 DEF Decide, OpenBooks, NotClosed, Replay, Repair, Evidence, CloseBooks,
                    NextSession, PollType, Polls
<1>9. CASE Memoize \/ ReplayFails
  BY <1>9, <1>4 DEF Memoize, ReplayFails, PollType, Polls
<1>14. CASE Crash
  BY <1>14, <1>4, IdlePoll DEF Crash
<1>13. CASE Prune
  <2>1. poll' = Idle \/ poll' = [poll EXCEPT !.pc = "floor"]
    BY <1>13 DEF Prune
  <2> QED
    BY <2>1, <1>4, IdlePoll DEF PollType, Polls
<1>11. CASE EvaluationFails
  BY <1>11, <1>4 DEF EvaluationFails, PollType, Polls, At
<1> QED
  BY <1>1, <1>2, <1>3, <1>5, <1>6, <1>7, <1>8, <1>9, <1>10, <1>11, <1>12, <1>13,
     <1>14
  DEF PollNext, Poll, pollVars, Correct, NewDay, Register

\* The offset passes a row only after it is in the log, quarantined or skipped (SaveOffsets).
LEMMA SkippedStep ==
  ASSUME PollInv, PollNext \/ UNCHANGED pollVars
  PROVE  NoRowSkipped'
<1> USE DEF PollInv, NoRowSkipped, recorder, source, Goto
<1>1. ASSUME NEW r \in Rows, RecordRow(r) PROVE NoRowSkipped'
  <2>1. /\ corpus' = corpus \o <<r>> /\ corpus \in Seq(Rows) /\ offset \in 0..Len(corpus)
        /\ UNCHANGED <<offset, events, invalid, skipped>>
    BY <1>1 DEF RecordRow, SourceType
  <2>2. \A i \in 1..offset : corpus'[i] = corpus[i]
    BY <2>1
  <2> QED
    BY <2>1, <2>2 DEF InLog
<1>2. CASE UNCHANGED <<corpus, offset, events, invalid, skipped>>
  BY <1>2 DEF InLog
<1>3. CASE SkipThrough
  <2>1. skipped' = today /\ skipped \in 0..today /\ UNCHANGED <<corpus, offset, events, invalid>>
    BY <1>3 DEF SkipThrough, SourceType
  <2>2. \A i \in 1..offset : i \in 1..Len(corpus)
    BY DEF SourceType
  <2> QED
    BY <2>1, <2>2 DEF RowsInv
<1>4. CASE CommitBatch
  BY <1>4, LogGrows DEF CommitBatch
<1>5. CASE SaveQuarantine
  <2>1. /\ UNCHANGED <<corpus, offset, events, skipped>>
        /\ invalid' = (invalid \ (poll.fresh \ RefusedRows)) \cup RefusedRows
    BY <1>5 DEF SaveQuarantine
  <2>2. \A r \in invalid : r \notin invalid' => r \in InLog
    BY <2>1 DEF RefusedRows, InLog, SourceType
  <2> QED
    BY <2>1, <2>2 DEF InLog
<1>6. CASE SaveOffsets
  <2>1. /\ UNCHANGED <<corpus, events, invalid, skipped>> /\ poll.pc = "offsets"
        /\ offset' = offset \/ (offset' = poll.upto /\ RefusedRows = {})
    BY <1>6 DEF SaveOffsets, ReadTo, At
  <2>2. CASE offset' = offset
    BY <2>1, <2>2 DEF InLog
  <2>3. CASE offset' = poll.upto /\ RefusedRows = {}
    <3>1. poll.fresh \subseteq InLog
      BY <2>3 DEF RefusedRows, InLog, PollType, Polls
    <3>2. /\ \A i \in (offset + 1)..poll.upto : corpus[i] \in InLog \/ corpus[i].s <= skipped
          /\ offset \in Nat /\ poll.upto \in Nat
      BY <2>1, <3>1 DEF ReadInv, SourceType, PollType, Polls
    <3>3. \A i \in 1..poll.upto : i \in 1..offset \/ i \in (offset + 1)..poll.upto
      BY <3>2
    <3> QED
      BY <2>1, <2>3, <3>2, <3>3 DEF InLog
  <2> QED
    BY <2>1, <2>2, <2>3
<1> QED
  BY <1>1, <1>2, <1>3, <1>4, <1>5, <1>6, WorkingFrame
  DEF PollNext, Poll, Working, pollVars, Correct, NewDay, Register, PollBegins, SkipFloor,
      Activate, AdvanceFloor

\* A poll works with the candidate that is registered.
LEMMA CandidateStep ==
  ASSUME PollInv, PollNext \/ UNCHANGED pollVars
  PROVE  CandidateInv'
<1> USE DEF PollInv, CandidateInv, recorder, source, Goto, PollType, Polls
<1>1. ASSUME NEW r \in Rows, RecordRow(r) PROVE CandidateInv'
  <2>1. Len(corpus') = Len(corpus) + 1 /\ Len(corpus) \in Nat /\ offset \in Nat
    BY <1>1 DEF RecordRow, SourceType
  <2>2. UNCHANGED <<poll, offset, since, registered>> /\ MaxPending \in Nat
    BY <1>1, BoundAssumption DEF RecordRow
  <2> QED
    BY <2>1, <2>2 DEF Pending
<1>2. CASE UNCHANGED <<poll, since, registered, corpus, offset>>
  BY <1>2 DEF Pending
<1>3. CASE Register
  BY <1>3 DEF Register, At
<1>4. CASE PollBegins
  <2>1. poll'.active = registered /\ UNCHANGED <<registered, corpus, offset>>
    BY <1>4, IdlePoll DEF PollBegins
  <2>2. poll'.pc = IF Pending > MaxPending THEN "skip" ELSE "commit"
    BY <1>4, IdlePoll DEF PollBegins
  <2>3. since' # 0 => registered
    BY <1>4 DEF PollBegins
  <2> QED
    BY <2>1, <2>2, <2>3 DEF Pending
<1>5. CASE SkipFloor
  BY <1>5 DEF SkipFloor, At, Pending
<1>11. CASE SkipThrough \/ CommitBatch \/ SaveQuarantine \/ Activate
  <2>1. /\ poll'.pc \in {"quarantine", "offsets", "prune"} /\ poll'.active = poll.active
        /\ poll.pc # "idle" /\ UNCHANGED <<registered, since>>
    BY <1>11 DEF SkipThrough, CommitBatch, SaveQuarantine, Activate, At
  <2> QED
    BY <2>1
<1>6. CASE SaveOffsets
  <2>1. /\ poll'.pc = IF poll.active THEN "load" ELSE "activate"
        /\ poll'.active = poll.active /\ UNCHANGED <<registered, since>> /\ poll.pc = "offsets"
    BY <1>6 DEF SaveOffsets, At
  <2> QED
    BY <2>1
<1>7. CASE Load \/ Decide \/ OpenBooks \/ NotClosed \/ Replay \/ EvaluationFails \/ ReplayFails
  BY <1>7 DEF Load, Decide, OpenBooks, NotClosed, NextSession, Replay, EvaluationFails,
              ReplayFails, At
<1>8. CASE Repair \/ Evidence \/ CloseBooks \/ Memoize
  BY <1>8 DEF Repair, Evidence, CloseBooks, NextSession, Memoize, At
<1>9. CASE Prune
  <2>1. /\ poll' = IF poll.active THEN [poll EXCEPT !.pc = "floor"] ELSE Idle
        /\ UNCHANGED <<registered, since>> /\ poll.pc = "prune"
    BY <1>9 DEF Prune, At
  <2> QED
    BY <2>1, IdlePoll
<1>10. CASE AdvanceFloor \/ Crash
  BY <1>10, IdlePoll DEF AdvanceFloor, Crash
<1> QED
  BY <1>1, <1>2, <1>3, <1>4, <1>5, <1>6, <1>7, <1>8, <1>9, <1>10, <1>11
  DEF PollNext, Poll, pollVars, Correct, NewDay

\* What is resolved stays resolved.
LEMMA StaysResolved ==
  ASSUME PollInv, PollNext \/ UNCHANGED pollVars, NEW r \in InLog, Resolved(r)
  PROVE  Resolved(r)'
<1> USE DEF PollInv, Resolved, arm, evidence, source
<1>1. r.s \in Sessions /\ r.s \in Nat
  BY DEF InLog, Rows, Sessions
<1>2. CASE UNCHANGED <<skipped, pruned, decided, diff>>
  BY <1>2
<1>3. CASE SkipThrough
  BY <1>1, <1>3 DEF SkipThrough, SourceType, Sessions
<1>4. CASE Decide
  BY <1>4 DEF Decide
<1>5. CASE Replay \/ ReplayFails
  <2>1. Session \in Sessions
    BY <1>5, SessionInHand DEF Replay, ReplayFails, At, SessionInv
  <2>2. PICK verdict \in {"match", "mismatch", "incomplete"} :
          diff' = [diff EXCEPT ![Session] = ReplayOf(Session, verdict)]
    BY <1>5 DEF Replay, ReplayFails, Parity
  <2>3. UNCHANGED <<skipped, pruned, decided>>
    BY <1>5 DEF Replay, ReplayFails
  <2>4. ReplayOf(Session, verdict).status # "none"
    BY DEF ReplayOf
  <2> HIDE DEF ReplayOf
  <2> QED
    BY <1>1, <2>1, <2>2, <2>3, <2>4 DEF EvidenceType
<1>6. CASE Prune
  <2>1. /\ diff' = [s \in Sessions |-> IF s \in Old THEN NoDiff ELSE diff[s]]
        /\ pruned' = pruned \cup Old /\ UNCHANGED <<skipped, decided>>
    BY <1>6 DEF Prune
  <2> QED
    BY <1>1, <2>1
<1> QED
  BY <1>2, <1>3, <1>4, <1>5, <1>6
  DEF PollNext, Poll, pollVars, RecordRow, Correct, NewDay, Register, PollBegins, SkipFloor,
      CommitBatch, SaveQuarantine, SaveOffsets, Activate, AdvanceFloor, Load, OpenBooks,
      NotClosed, Repair, Evidence, CloseBooks, Memoize, EvaluationFails, Crash

\* The floor moves only past rows that are resolved (AdvanceFloor).
LEMMA FloorStep ==
  ASSUME PollInv, PollNext \/ UNCHANGED pollVars
  PROVE  FloorInv'
<1> USE DEF PollInv
<1>1. /\ InLog \subseteq Rows /\ batches \in Nat
      /\ \A r \in InLog : events[r] \in 1..batches
      /\ \A r \in Rows : r \notin InLog => events[r] = 0
      /\ since \in Nat /\ floor \in 0..(batches + 1)
  BY DEF InLog, SourceType
\* As long as the rows in the log and the floor stay, nothing new is behind it.
<1>2. ASSUME \A r \in InLog : BehindFloor(r) => Resolved(r), UNCHANGED <<events, floor, since>>
      PROVE  FloorInv'
  BY <1>2, StaysResolved DEF FloorInv, BehindFloor, InLog
<1>3. ASSUME \A r \in InLog : BehindFloor(r) => Resolved(r),
             InLog' = InLog, UNCHANGED events,
             \A r \in InLog : BehindFloor(r)' => BehindFloor(r) \/ Resolved(r)
      PROVE  FloorInv'
  BY <1>3, StaysResolved DEF FloorInv
<1>4. ASSUME NEW r \in Rows, RecordRow(r) PROVE FloorInv'
  <2>1. Len(corpus') = Len(corpus) + 1 /\ Len(corpus) \in Nat /\ offset \in Nat
    BY <1>4 DEF RecordRow, SourceType
  <2>2. UNCHANGED <<poll, offset, events, floor, since>> /\ MaxPending \in Nat
    BY <1>4, BoundAssumption DEF RecordRow, source
  <2>3. Pending > MaxPending => Pending' > MaxPending
    BY <2>1, <2>2 DEF Pending
  <2> QED
    BY <1>2, <2>2, <2>3 DEF FloorInv
<1>5. CASE UNCHANGED <<poll, corpus, offset, events, floor, since>>
  BY <1>2, <1>5 DEF FloorInv, Pending
<1>6. CASE PollBegins
  <2>1. poll'.pc = IF Pending > MaxPending THEN "skip" ELSE "commit"
    BY <1>6, IdlePoll DEF PollBegins, Polls
  <2>2. /\ UNCHANGED <<corpus, offset, events, floor>>
        /\ since' = since \/ (since = 0 /\ since' = batches + 1)
    BY <1>6 DEF PollBegins, recorder, source, NextBatch
  <2>3. CASE Pending > MaxPending
    BY <2>1, <2>2, <2>3 DEF FloorInv, Pending
  <2>4. CASE ~(Pending > MaxPending)
    <3>1. \A r \in InLog : BehindFloor(r) => Resolved(r)
      BY <2>4 DEF FloorInv
    <3>2. \A r \in InLog : BehindFloor(r)' => BehindFloor(r)
      BY <1>1, <2>2 DEF BehindFloor
    <3>3. InLog' = InLog
      BY <2>2 DEF InLog
    <3> QED
      BY <1>3, <2>2, <3>1, <3>2, <3>3
  <2> QED
    BY <2>3, <2>4
<1>7. CASE SkipFloor
  <2>1. poll'.pc = "skipThrough" /\ UNCHANGED <<corpus, offset>> /\ poll.pc = "skip"
    BY <1>7 DEF SkipFloor, At, Goto, recorder, source, PollType, Polls
  <2> QED
    BY <2>1 DEF FloorInv, CandidateInv, Pending
<1>8. CASE SkipThrough
  <2>1. skipped' = today /\ UNCHANGED <<events, floor, since>>
    BY <1>8 DEF SkipThrough
  <2>2. \A r \in InLog' : Resolved(r)'
    BY <2>1 DEF Resolved, RowsInv, InLog
  <2> QED
    BY <2>2 DEF FloorInv
<1>9. CASE CommitBatch
  <2>1. \A r \in InLog : BehindFloor(r) => Resolved(r)
    BY <1>9 DEF FloorInv, CommitBatch, At
  <2>2. UNCHANGED <<floor, since>>
        /\ \A r \in Rows : events'[r] = events[r] \/ events'[r] = batches + 1
    BY <1>9 DEF CommitBatch, SourceType, NextBatch
  <2>3. \A r \in InLog' : BehindFloor(r)' => r \in InLog /\ BehindFloor(r)
    BY <1>1, <2>2 DEF BehindFloor, InLog
  <2> QED
    BY <2>1, <2>3, StaysResolved DEF FloorInv
<1>10. CASE Activate
  <2>1. since = 0 /\ since' = 0
    BY <1>10 DEF Activate, At, CandidateInv, PollType, Polls
  <2> QED
    BY <2>1 DEF FloorInv, BehindFloor
<1>11. CASE AdvanceFloor
  <2>1. /\ \A r \in InLog : BehindFloor(r) => Resolved(r)
        /\ poll.pc = "floor" /\ UNCHANGED <<events, since>> /\ InLog' = InLog
    BY <1>11 DEF FloorInv, AdvanceFloor, At, source, InLog
  <2>2. CASE ~Settled
    BY <1>2, <1>11, <2>1, <2>2 DEF AdvanceFloor
  <2>3. CASE Settled
    <3> DEFINE E == {events[r] : r \in poll.view}
    <3>1. Viewing
      BY <2>1 DEF Viewing, CandidateInv
    <3>2. poll.view \subseteq InLog /\ \A r \in InLog : events[r] >= floor => r \in poll.view
      BY <3>1 DEF ViewInv, View
    <3>3. E \in SUBSET (0..batches) /\ E # {}
      BY <1>1, <2>3, <3>2 DEF Settled
    <3>4. Max(E) \in E /\ Max(E) \in 0..batches
      <4> HIDE DEF E
      <4>1. E \in SUBSET (-1..batches) /\ batches \in Nat
        BY <1>1, <3>3
      <4> QED
        BY <3>3, <4>1, MaxOfBounded
    <3> HIDE DEF E
    <3>5. floor' = Max({floor, 1 + Max(E)})
      BY <1>11, <2>3 DEF AdvanceFloor, E
    <3>6. \A r \in poll.view : Resolved(r)
      BY <2>1, <2>3, <3>1 DEF Settled, ViewInv, Usable
    <3>7. \A r \in InLog : BehindFloor(r)' => BehindFloor(r) \/ Resolved(r)
      BY <1>1, <2>1, <3>2, <3>6 DEF BehindFloor
    <3> QED
      BY <1>3, <2>1, <3>7
  <2> QED
    BY <2>2, <2>3
<1>12. CASE \/ SaveQuarantine \/ SaveOffsets \/ Load \/ Decide \/ OpenBooks \/ NotClosed
            \/ Replay \/ Repair \/ Evidence \/ CloseBooks \/ Memoize \/ Prune
            \/ EvaluationFails \/ ReplayFails
  <2>1. poll.pc \notin {"idle", "skip", "skipThrough"} /\ UNCHANGED <<events, floor, since>>
    BY <1>12 DEF SaveQuarantine, SaveOffsets, Load, Decide, OpenBooks, NotClosed, Replay,
                 Repair, Evidence, CloseBooks, Memoize, Prune, EvaluationFails, ReplayFails,
                 At, source
  <2> QED
    BY <1>2, <2>1 DEF FloorInv
<1>13. CASE Crash
  <2>1. poll'.pc = "idle" /\ UNCHANGED <<corpus, offset, events, floor, since>>
    BY <1>13, IdlePoll DEF Crash, recorder, source
  <2> QED
    BY <1>2, <2>1 DEF FloorInv, Pending
<1> QED
  BY <1>4, <1>5, <1>6, <1>7, <1>8, <1>9, <1>10, <1>11, <1>12, <1>13
  DEF PollNext, Poll, pollVars, recorder, source, Correct, NewDay, Register

\* What a poll has in view stays the rows from the floor on, and its sessions get done.
LEMMA ViewStep ==
  ASSUME PollInv, PollNext \/ UNCHANGED pollVars
  PROVE  ViewInv'
<1> USE DEF PollInv
<1>1. poll'.pc \notin {"session", "open", "replay", "repair", "evidence", "close", "prune",
                       "floor"} \/ ~poll'.active => ViewInv'
  BY DEF ViewInv, Viewing
<1>2. \A r \in InLog : r \in Rows /\ r.s \in Sessions
  BY DEF InLog, Rows
\* A step that goes on with the same view and works off no session.
<1>3. ASSUME Viewing, UNCHANGED <<events, floor, invalid, skipped>>,
             poll'.view = poll.view, poll'.again = poll.again, poll'.todo = poll.todo,
             poll.blocked => poll'.blocked,
             poll'.pc \in {"prune", "floor"} => poll.todo = {}
      PROVE  ViewInv'
  BY <1>3, StaysResolved DEF ViewInv, View, InLog, Usable
<1>4. CASE Load
  <2>1. /\ poll' = [poll EXCEPT !.pc = "session", !.view = View, !.again = Again,
                                !.todo = Forward \cup Again, !.blocked = poll'.blocked]
        /\ UNCHANGED <<events, floor, invalid, skipped>>
    BY <1>4 DEF Load, source, PollType, Polls
  <2>2. /\ poll'.pc = "session" /\ poll'.view = View /\ poll'.todo = Forward \cup Again
    BY <2>1 DEF PollType, Polls
  <2>3. \A r \in View : ~Usable(r.s) \/ r.s \in Forward
    BY <1>2 DEF View, Forward, OfSession
  <2> QED
    BY <2>1, <2>2, <2>3 DEF ViewInv, View, InLog, Usable
<1>5. CASE Decide
  <2>1. /\ poll.pc = "session" /\ poll'.pc = "open" /\ UNCHANGED <<events, floor, invalid, skipped>>
        /\ poll'.view = poll.view /\ poll'.again = poll.again /\ poll'.todo = poll.todo
        /\ poll'.blocked = poll.blocked
    BY <1>5 DEF Decide, At, source, PollType, Polls
  <2> QED
    BY <1>3, <2>1 DEF Viewing, CandidateInv
<1>6. CASE OpenBooks \/ Replay \/ Evidence
  <2>1. /\ poll.pc \in {"open", "replay", "evidence"} /\ poll'.pc \in {"replay", "repair", "close"}
        /\ UNCHANGED <<events, floor, invalid, skipped>>
        /\ poll'.view = poll.view /\ poll'.again = poll.again /\ poll'.todo = poll.todo
        /\ poll'.blocked = poll.blocked
    BY <1>6 DEF OpenBooks, Replay, Evidence, At, Goto, source, PollType, Polls
  <2> QED
    BY <1>3, <2>1 DEF Viewing, CandidateInv
\* What blocks the floor.
<1>7. ASSUME Viewing, UNCHANGED <<events, floor, invalid, skipped>>,
             poll'.view = poll.view, poll'.blocked,
             poll'.pc \in {"prune", "floor"} => poll'.todo = {}
      PROVE  ViewInv'
  BY <1>7 DEF ViewInv, View, InLog
<1>8. CASE NotClosed \/ EvaluationFails \/ ReplayFails
  <2>1. /\ poll.pc \in {"session", "replay"} /\ UNCHANGED <<events, floor, invalid, skipped>>
        /\ poll'.view = poll.view /\ poll'.blocked /\ poll'.pc \notin {"prune", "floor"}
    BY <1>8 DEF NotClosed, NextSession, EvaluationFails, ReplayFails, At, source, PollType, Polls
  <2> QED
    BY <1>7, <2>1 DEF Viewing, CandidateInv
<1>9. CASE Repair
  <2>1. /\ poll.pc = "repair" /\ UNCHANGED <<events, floor, invalid, skipped>>
    BY <1>9 DEF Repair, At, source
  <2>2. Viewing
    BY <2>1 DEF Viewing, CandidateInv
  <2>3. CASE diff[Session].status = "incomplete"
    <3>1. poll'.view = poll.view /\ poll'.blocked /\ poll'.pc = "session"
      BY <1>9, <2>3 DEF Repair, NextSession, PollType, Polls
    <3> QED
      BY <1>7, <2>1, <2>2, <3>1
  <2>4. CASE diff[Session].status # "incomplete"
    <3>1. poll' = [poll EXCEPT !.pc = "evidence"]
      BY <1>9, <2>4 DEF Repair, Goto
    <3> QED
      BY <1>3, <2>1, <2>2, <3>1 DEF PollType, Polls
  <2> QED
    BY <2>3, <2>4
\* The session in hand is done: its rows are decided and its replay is written.
<1>10. CASE CloseBooks
  <2>1. /\ poll.pc = "close" /\ poll'.pc = "session" /\ UNCHANGED <<events, floor, invalid, skipped>>
        /\ poll'.view = poll.view /\ poll'.again = poll.again /\ poll'.todo = poll.todo \ {Session}
        /\ poll'.blocked = poll.blocked
    BY <1>10 DEF CloseBooks, At, NextSession, source, PollType, Polls
  <2>2. Viewing
    BY <2>1 DEF Viewing, CandidateInv
  <2>3. poll.view \subseteq InLog
    BY <2>2 DEF ViewInv, View
  <2>4. poll.again = {} => \A r \in poll.view : r.s = Session => Resolved(r)
    BY <2>1 DEF SessionInv, OfSession, Resolved
  <2>5. ~poll'.blocked /\ poll'.again = {} =>
          \A r \in poll'.view : ~Usable(r.s)' \/ r.s \in poll'.todo \/ Resolved(r)'
    BY <2>1, <2>2, <2>3, <2>4, StaysResolved DEF ViewInv, Usable
  <2> QED
    BY <2>1, <2>2, <2>5 DEF ViewInv, View, InLog
<1>11. CASE Memoize
  <2>1. /\ poll.pc = "session" /\ poll'.pc = "prune" /\ poll.todo = {}
        /\ UNCHANGED <<events, floor, invalid, skipped>>
        /\ poll'.view = poll.view /\ poll'.again = poll.again /\ poll'.todo = poll.todo
        /\ poll.blocked => poll'.blocked
    BY <1>11 DEF Memoize, At, source, PollType, Polls
  <2> QED
    BY <1>3, <2>1 DEF Viewing, CandidateInv
<1>12. CASE Prune
  <2>1. /\ poll' = IF poll.active THEN [poll EXCEPT !.pc = "floor"] ELSE Idle
        /\ poll.pc = "prune" /\ UNCHANGED <<events, floor, invalid, skipped>>
    BY <1>12 DEF Prune, At, Goto, source
  <2>2. CASE ~poll.active
    BY <1>1, <2>1, <2>2, IdlePoll
  <2>3. CASE poll.active
    <3>1. Viewing
      BY <2>1, <2>3 DEF Viewing
    <3>2. poll' = [poll EXCEPT !.pc = "floor"]
      BY <2>1, <2>3
    <3> QED
      BY <1>3, <2>1, <3>1, <3>2 DEF ViewInv, PollType, Polls
  <2> QED
    BY <2>2, <2>3
<1>13. CASE UNCHANGED <<poll, events, floor, invalid, skipped>>
  BY <1>13, StaysResolved DEF ViewInv, Viewing, View, InLog, Usable
<1>14. CASE PollBegins
  BY <1>1, <1>14, IdlePoll DEF PollBegins, Polls
<1>15. CASE SkipFloor \/ SkipThrough \/ CommitBatch \/ SaveQuarantine
  <2>1. poll'.pc \in {"skipThrough", "quarantine", "offsets"}
    BY <1>15 DEF SkipFloor, SkipThrough, CommitBatch, SaveQuarantine, Goto, PollType, Polls
  <2> QED
    BY <1>1, <2>1
<1>16. CASE SaveOffsets
  BY <1>1, <1>16 DEF SaveOffsets, PollType, Polls
<1>17. CASE Activate
  BY <1>1, <1>17 DEF Activate, At, Goto, PollType, Polls, CandidateInv
<1>18. CASE AdvanceFloor \/ Crash
  BY <1>1, <1>18, IdlePoll DEF AdvanceFloor, Crash
<1> QED
  BY <1>4, <1>5, <1>6, <1>8, <1>9, <1>10, <1>11, <1>12, <1>13, <1>14, <1>15, <1>16, <1>17,
     <1>18
  DEF PollNext, Poll, pollVars, source, RecordRow, Correct, NewDay, Register

\* The session in hand has its rows decided before its diff is written.
LEMMA SessionStep ==
  ASSUME PollInv, PollNext \/ UNCHANGED pollVars
  PROVE  SessionInv'
<1> USE DEF PollInv
<1>1. poll'.pc \notin {"open", "replay", "repair", "evidence", "close"} => SessionInv'
  BY DEF SessionInv
<1>2. CASE Decide
  <2>1. /\ poll.todo # {} /\ poll.pc = "session" /\ poll'.pc = "open"
        /\ poll'.view = poll.view /\ poll'.again = poll.again /\ poll'.todo = poll.todo
        /\ decided' = decided \cup EligibleRows(Session)
    BY <1>2 DEF Decide, At, PollType, Polls
  <2>2. poll.again = {} => OfSession(poll.view, Session) \subseteq decided'
    BY <2>1 DEF EligibleRows, Inputs
  <2>3. Session' = Session
    BY <2>1 DEF Session
  <2> QED
    BY <2>1, <2>2, <2>3 DEF SessionInv, OfSession
<1>3. CASE OpenBooks
  <2>1. /\ poll.pc = "open" /\ poll'.pc = "replay" /\ decided' = decided
        /\ poll'.view = poll.view /\ poll'.again = poll.again /\ poll'.todo = poll.todo
    BY <1>3 DEF OpenBooks, At, Goto, PollType, Polls
  <2> QED
    BY <2>1 DEF SessionInv, OfSession, Session
<1>4. CASE Replay \/ ReplayFails
  <2>1. /\ poll.pc = "replay" /\ poll'.pc = "repair" /\ decided' = decided
        /\ poll'.view = poll.view /\ poll'.again = poll.again /\ poll'.todo = poll.todo
    BY <1>4 DEF Replay, ReplayFails, At, Goto, arm, PollType, Polls
  <2>2. Session \in Sessions /\ Session' = Session
    BY <2>1, SessionInHand DEF SessionInv, Session
  <2>3. PICK verdict \in {"match", "mismatch", "incomplete"} :
          diff' = [diff EXCEPT ![Session] = ReplayOf(Session, verdict)]
    BY <1>4 DEF Replay, ReplayFails, Parity
  <2>4. ReplayOf(Session, verdict).status # "none"
    BY DEF ReplayOf
  <2>5. diff'[Session].status # "none"
    BY <2>2, <2>3, <2>4 DEF EvidenceType
  <2> QED
    BY <2>1, <2>2, <2>5 DEF SessionInv, OfSession
<1>5. CASE Repair
  <2>1. \/ poll'.pc = "session"
        \/ /\ poll.pc = "repair" /\ poll'.pc = "evidence" /\ UNCHANGED <<decided, diff>>
           /\ poll'.view = poll.view /\ poll'.again = poll.again /\ poll'.todo = poll.todo
    BY <1>5 DEF Repair, At, Goto, NextSession, arm, PollType, Polls
  <2> QED
    BY <1>1, <2>1 DEF SessionInv, OfSession, Session
<1>6. CASE Evidence
  <2>1. /\ poll.pc = "evidence" /\ poll'.pc = "close" /\ UNCHANGED <<decided, diff>>
        /\ poll'.view = poll.view /\ poll'.again = poll.again /\ poll'.todo = poll.todo
    BY <1>6 DEF Evidence, At, Goto, arm, PollType, Polls
  <2> QED
    BY <2>1 DEF SessionInv, OfSession, Session
<1>7. CASE UNCHANGED <<poll, decided, diff>>
  BY <1>7 DEF SessionInv, OfSession, Session
<1>8. CASE PollBegins \/ SkipFloor \/ SkipThrough \/ CommitBatch \/ SaveQuarantine
  BY <1>1, <1>8, IdlePoll
  DEF PollBegins, SkipFloor, SkipThrough, CommitBatch, SaveQuarantine, Goto, PollType, Polls
<1>9. CASE SaveOffsets \/ Activate \/ Load \/ NotClosed \/ CloseBooks \/ Memoize
  <2>1. poll'.pc \in {"load", "activate", "prune", "session"}
    BY <1>9 DEF SaveOffsets, Activate, Load, NotClosed, CloseBooks, NextSession, Memoize, Goto,
                PollType, Polls
  <2> QED
    BY <1>1, <2>1
<1>10. CASE EvaluationFails
  BY <1>1, <1>10 DEF EvaluationFails, At, PollType, Polls
<1>11. CASE Prune
  <2>1. poll' = Idle \/ poll' = [poll EXCEPT !.pc = "floor"]
    BY <1>11 DEF Prune, Goto
  <2> QED
    BY <1>1, <2>1, IdlePoll DEF PollType, Polls
<1>12. CASE AdvanceFloor \/ Crash
  BY <1>1, <1>12, IdlePoll DEF AdvanceFloor, Crash
<1> QED
  BY <1>2, <1>3, <1>4, <1>5, <1>6, <1>7, <1>8, <1>9, <1>10, <1>11, <1>12
  DEF PollNext, Poll, pollVars, arm, evidence, RecordRow, Correct, NewDay, Register

-----------------------------------------------------------------------------
\* The shadow poll: what holds in every state.

\* The strengthened invariant: what each step of a poll knows of the log, the view and
\* the session in hand (LiveShadowRunner._poll_once).
THEOREM PollInvariance == PollSpec => []PollInv
<1>1. PollInv /\ [PollNext]_pollVars => PollInv'
  <2> SUFFICES ASSUME PollInv, PollNext \/ UNCHANGED pollVars PROVE PollInv'
    OBVIOUS
  <2> QED
    BY SourceStep, EvidenceStep, PollTypeStep, RowsStep, ReadStep, SkippedStep, CandidateStep,
       FloorStep, ViewStep, SessionStep DEF PollInv
<1> QED
  BY PollInitially, <1>1, PTL DEF PollSpec

\* The tables and the poll have the shape the code gives them.
THEOREM PollTyping == PollSpec => []PollTypeOK
<1>1. PollInv => PollTypeOK
  <2> SUFFICES ASSUME PollInv PROVE PollTypeOK
    OBVIOUS
  <2>1. /\ corpus \in Seq(Rows) /\ offset \in 0..Len(corpus) /\ today \in Sessions
        /\ invalid \subseteq Rows /\ skipped \in 0..LastSession /\ pruned \subseteq Sessions
    BY SessionAssumption DEF PollInv, SourceType, EvidenceType, Sessions
  <2>2. /\ events \in [Rows -> 0..batches]
        /\ floor \in 0..(batches + 1) /\ since \in 0..(batches + 1)
    BY DEF PollInv, SourceType
  <2>3. /\ opened \subseteq decided /\ decided \subseteq InLog /\ books \subseteq opened
        /\ \A s \in Sessions : /\ diff[s].status \in {"none", "match", "mismatch", "incomplete"}
                               /\ diff[s].digest \subseteq diff[s].rows
                               /\ diff[s].rows \subseteq OfSession(InLog, s)
    BY DEF PollInv, EvidenceType
  <2>4. repair \subseteq Sessions /\ poll.todo \subseteq Sessions /\ pollFaults \in 0..MaxPollFaults
    BY DEF PollInv, EvidenceType, PollType, Polls
  <2> QED
    BY <2>1, <2>2, <2>3, <2>4 DEF PollTypeOK
<1> QED
  BY <1>1, PollInvariance, PTL

\* Whatever dies between the log, the quarantine and the offset, no row of the corpus
\* is left behind unread.
THEOREM RowsKept == PollSpec => []NoRowSkipped
<1>1. PollInv => NoRowSkipped
  BY DEF PollInv
<1> QED
  BY <1>1, PollInvariance, PTL

\* The event floor leaves no row of the arm behind without a decision and a replay,
\* unless its session is excluded as a whole or is about to be.
THEOREM FloorHeld == PollSpec => []FloorBehindEvidence
<1>1. PollInv => FloorBehindEvidence
  BY DEF PollInv, FloorInv, FloorBehindEvidence, BehindFloor, Resolved
<1> QED
  BY <1>1, PollInvariance, PTL

-----------------------------------------------------------------------------
\* The recorder: the inductive invariant.

Minutes == Ticks \cup {NoMark}
Steps == {"idle", "rekey", "reindex", "plan", "open", "fetch", "mark", "append", "commit",
          "publish", "clear"}
CacheType ==
  /\ index \in [wm : Minutes, sources : SUBSET Days, fresh : BOOLEAN]
  /\ recent \in [keys : SUBSET Keys, wm : Minutes, fresh : BOOLEAN]
CorpusType ==
  /\ clock \in Ticks /\ policy \in Policies
  /\ rows \in [Keys -> 0..1] /\ late \subseteq Keys /\ markers \subseteq Days
WindowType ==
  pending # NoWindow =>
    /\ pending \in [start : Nat, end : Nat, policy : Policies]
    /\ pending.start < pending.end
CycleType ==
  /\ cycle \in [pc : Steps, now : Ticks, wm : Minutes, sources : SUBSET Days, horizon : Int,
                cursor : Int, retry : Int, end : Int, kind : {"bar", "quote"},
                batch : SUBSET Keys, tardy : SUBSET Keys, windows : Nat]
  /\ cycle.tardy \subseteq cycle.batch
BackfillType ==
  /\ backfill \in [pc : {"idle", "day", "unlink", "write", "publish"}, day : Nat, last : Days,
                   overwrite : BOOLEAN, sources : SUBSET Days, written : SUBSET Days]
  /\ backfill.pc \in {"unlink", "write"} => backfill.day \in Days

\* One lock: a cycle and a backfill exclude each other.
Exclusion == cycle.pc = "idle" \/ backfill.pc = "idle"

\* The recent keys are those of the partitions inside the window of a watermark.
RecentInv ==
  /\ recent.fresh => recent.keys = RecentOf(Stored, recent.wm)
  /\ cycle.pc \in Steps \ {"idle", "rekey", "commit"} => recent.fresh /\ recent.wm = cycle.wm
  /\ cycle.pc = "commit" => recent.keys = RecentOf(Stored \ cycle.batch, cycle.wm)
  /\ \/ cycle.pc \in {"open", "fetch"}
     \/ cycle.pc \in {"mark", "append", "commit", "publish"} /\ cycle.kind = "bar"
     => cycle.horizon = Floor(cycle.wm)

\* What is about to be recorded is not recorded, and what was appended is.
BatchInv ==
  /\ cycle.pc \in {"mark", "append"} => cycle.batch \cap Stored = {}
  /\ cycle.pc = "commit" => cycle.batch \subseteq Stored
  /\ backfill.pc = "write" => backfill.day \notin Partitions

\* A day with a late row is marked, or its overwrite is under way or died.
LateInv ==
  /\ \A k \in late : \/ Day(k) \in markers \cup unmarked
                     \/ backfill.pc = "unlink" /\ Day(k) = backfill.day
  /\ cycle.pc = "append" => \A k \in cycle.tardy : Day(k) \in markers
  /\ backfill.pc = "write" => backfill.day \in markers

\* No watermark is past the last recorded minute.
Reached(wm) == wm = NoMark \/ \E k \in Stored : wm <= Minute(k)
MarkInv ==
  /\ index.fresh => Reached(index.wm)
  /\ cycle.pc # "idle" => Reached(cycle.wm)

\* A quote is dealt with when it is recorded or was passed over.
Handled(t) == <<"quote", t>> \in Stored \/ t \in forgone
Asked(t) == /\ pending # NoWindow /\ pending.start <= t
            /\ t <= pending.end \/ pending.policy = "forward_only"
\* Before what is recorded, every quote is dealt with or asked for.
BehindInv == \A k \in Stored, t \in Quoted : t <= Minute(k) => Handled(t) \/ Asked(t)
\* Between a watermark and these keys, every quote is dealt with or in the
\* checkpoint itself.
PastMark(keys, wm) ==
  \A k \in keys, t \in Quoted :
    wm < t /\ t <= Minute(k)
      => Handled(t) \/ (pending # NoWindow /\ pending.start <= t /\ t <= pending.end)
PastMarkInv ==
  /\ index.fresh => PastMark(Stored, index.wm)
  /\ cycle.pc # "idle" =>
       PastMark(IF cycle.pc = "commit" THEN Stored \ cycle.batch ELSE Stored, cycle.wm)
\* Before a checkpoint, and before a request that is to be written down,
\* everything is dealt with.
RequestInv ==
  /\ pending # NoWindow => \A t \in Quoted : t < pending.start => Handled(t)
  /\ cycle.pc = "open" =>
       /\ pending = IF cycle.retry = NoMark THEN NoWindow
                    ELSE [start |-> cycle.cursor, end |-> cycle.retry, policy |-> policy]
       /\ cycle.retry # NoMark => policy # "forward_only"
       /\ Requested # NoWindow => \A t \in Quoted : t < Requested.start => Handled(t)

\* In a window: the checkpoint is that of the request, what is asked for ends
\* with the request, and what is fetched lies inside it.
InWindow == cycle.pc \in {"fetch", "mark", "append", "commit", "publish", "clear"}
WindowInv ==
  InWindow =>
    /\ pending # NoWindow /\ pending.start = cycle.cursor /\ pending.policy = policy
    /\ pending.end <= cycle.end
    /\ policy # "forward_only" \/ (cycle.pc = "fetch" /\ cycle.kind = "bar")
       => cycle.end = pending.end
    /\ \A k \in Stored, t \in Quoted :
         t <= Minute(k) => Handled(t) \/ (cycle.cursor <= t /\ t <= cycle.end)
    /\ cycle.pc \in {"mark", "append", "commit"} =>
         \A k \in cycle.batch : /\ cycle.cursor <= Minute(k)
                                /\ Minute(k) <= IF cycle.kind = "bar" THEN pending.end
                                                ELSE cycle.end
\* The quotes of a request are recorded before it is over.
FilledInv ==
  \/ cycle.pc \in {"mark", "append", "commit", "publish"} /\ cycle.kind = "quote"
  \/ cycle.pc = "clear"
  => \A t \in Quoted :
       cycle.cursor <= t /\ t <= cycle.end
         => \/ <<"quote", t>> \in Stored
            \/ cycle.pc \in {"mark", "append"} /\ <<"quote", t>> \in cycle.batch

CorpusInv ==
  /\ CorpusType /\ CacheType /\ WindowType /\ CycleType /\ BackfillType
  /\ Exclusion /\ RecentInv /\ BatchInv /\ LateInv /\ MarkInv
  /\ BehindInv /\ PastMarkInv /\ RequestInv /\ WindowInv /\ FilledInv

-----------------------------------------------------------------------------
\* The recorder: time, keys and windows.

\* The constants are numbers, and every quote is of a session.
LEMMA Calendar ==
  /\ Period \in Nat /\ Period > 0 /\ SessionLength \in Nat /\ SessionLength > 0
  /\ LastTick \in Nat /\ Window \in Nat /\ Window > 0 /\ Horizon \in Nat /\ MaxLag \in Nat
  /\ MaxWindows \in Nat /\ Quoted \subseteq Ticks /\ \A t \in Quoted : InSession(t)
BY TimeAssumption, QuotedAssumption DEF Period

\* A minute lies in the period of its day.
LEMMA Days1 ==
  ASSUME NEW t \in Nat
  PROVE  DayOf(t) \in Nat /\ Open(DayOf(t)) <= t /\ t < Open(DayOf(t)) + Period
<1> DEFINE P == Period
<1>1. P \in Nat /\ P > 0
  BY Calendar
<1> HIDE DEF P
<1>2. t \div P \in Nat /\ (t \div P) * P <= t /\ t < (t \div P) * P + P
  BY <1>1
<1> QED
  BY <1>2 DEF DayOf, Open, P

\* A later minute is not of an earlier day.
LEMMA Days2 ==
  ASSUME NEW a \in Nat, NEW b \in Nat, a <= b
  PROVE  DayOf(a) <= DayOf(b)
<1> DEFINE P == Period
<1>1. P \in Nat /\ P > 0
  BY Calendar
<1> HIDE DEF P
<1>2. a \div P <= b \div P
  BY <1>1
<1> QED
  BY <1>2 DEF DayOf, P

\* A later day does not open earlier, and no session is empty.
LEMMA Days3 ==
  ASSUME NEW d \in Nat, NEW e \in Nat, d <= e
  PROVE  Open(d) \in Nat /\ Close(d) \in Nat /\ Open(d) <= Open(e) /\ Open(d) < Close(d)
<1> DEFINE P == Period
<1>1. P \in Nat /\ P > 0 /\ SessionLength \in Nat /\ SessionLength > 0
  BY Calendar
<1> HIDE DEF P
<1>2. d * P \in Nat /\ d * P <= e * P
  BY <1>1
<1> QED
  BY <1>1, <1>2 DEF Open, Close, P

\* A key is of a minute of a session, and a quote of the minutes that have one.
LEMMA KeyFacts ==
  /\ \A k \in Keys : /\ Minute(k) \in Ticks /\ InSession(Minute(k)) /\ Day(k) \in Days
                     /\ k[1] \in {"bar", "quote"}
                     /\ k[1] = "quote" => Minute(k) \in Quoted
                     /\ k = <<k[1], Minute(k)>>
  /\ \A t \in Quoted : <<"quote", t>> \in Keys /\ Minute(<<"quote", t>>) = t
  /\ DayOf(LastTick) \in Nat /\ Days \subseteq Nat
  /\ \A t \in Ticks : DayOf(t) \in Days
<1>1. \A t \in Ticks : DayOf(t) \in Days
  BY Days1, Days2, Calendar DEF Ticks, Days
<1>2. DayOf(LastTick) \in Nat
  BY Days1, Calendar
<1> QED
  BY <1>1, <1>2, Calendar DEF Keys, Minute, Day, Days

\* The newest minute of some keys bounds them, and one of them has it.
LEMMA NewestFacts ==
  ASSUME NEW S \in SUBSET Keys
  PROVE  /\ NewestMinute(S) \in Minutes /\ NewestMinute(S) \in Int
         /\ \A k \in S : Minute(k) <= NewestMinute(S)
         /\ NewestMinute(S) = NoMark \/ \E k \in S : Minute(k) = NewestMinute(S)
<1> DEFINE M == {NoMark} \cup {Minute(k) : k \in S}
<1>1. M \in SUBSET (-1..LastTick) /\ M # {} /\ LastTick \in Nat
  BY KeyFacts, Calendar DEF Ticks, NoMark
<1>2. Max(M) \in M /\ \A y \in M : y <= Max(M)
  BY <1>1, MaxOfBounded
<1>3. NewestMinute(S) = Max(M)
  BY DEF NewestMinute
<1>4. \A k \in S : Minute(k) \in M
  OBVIOUS
<1>5. \A y \in M : y = NoMark \/ \E k \in S : Minute(k) = y
  OBVIOUS
<1>6. Max(M) \in Minutes /\ Max(M) \in Int
  BY <1>1, <1>2 DEF Minutes, Ticks, NoMark
<1> HIDE DEF M
<1> QED
  BY <1>2, <1>3, <1>4, <1>5, <1>6

\* A window is not the absence of one.
LEMMA RecordIsWindow ==
  ASSUME NEW a, NEW b, NEW c
  PROVE  /\ [start |-> a, end |-> b] # NoWindow
         /\ [start |-> a, end |-> b, policy |-> c] # NoWindow
BY DEF NoWindow

\* Min of two numbers.
LEMMA LesserOfTwo ==
  ASSUME NEW a \in Int, NEW b \in Int
  PROVE  Min({a, b}) = IF a <= b THEN a ELSE b
<1>1. PICK x \in {a, b} : \A y \in {a, b} : x <= y
  OBVIOUS
<1>2. Min({a, b}) \in {a, b} /\ \A y \in {a, b} : Min({a, b}) <= y
  BY <1>1 DEF Min
<1> QED
  BY <1>2

\* The windows a request can be: parts of a session, in the past of the clock.
LEMMA LatestFacts ==
  ASSUME NEW start \in Int, NEW now \in Ticks, LatestIn(start, now) # NoWindow
  PROVE  /\ LatestIn(start, now) \in [start : Nat, end : Nat]
         /\ LatestIn(start, now).start < LatestIn(start, now).end
<1> DEFINE days == {d \in Days : Max({start, Open(d)}) < Min({now, Close(d)})}
           d == Max(days)
<1>1. days # {} /\ LatestIn(start, now) = [start |-> Max({start, Open(d)}),
                                           end |-> Min({now, Close(d)})]
  BY DEF LatestIn
<1>2. days \in SUBSET (-1..DayOf(LastTick)) /\ DayOf(LastTick) \in Nat
  BY KeyFacts DEF Days
<1>3. d \in days
  BY <1>1, <1>2, MaxOfBounded
<1>4. d \in Nat /\ Max({start, Open(d)}) < Min({now, Close(d)})
  BY <1>3, KeyFacts
<1> HIDE DEF d, days
<1>5. Open(d) \in Nat /\ Close(d) \in Nat /\ now \in Nat
  BY <1>4, Days3, Calendar DEF Ticks
<1>6. Max({start, Open(d)}) \in Nat /\ Min({now, Close(d)}) \in Nat
  BY <1>5, GreaterOfTwo, LesserOfTwo
<1> QED
  BY <1>1, <1>4, <1>6

\* A bounded window of catch-up is not empty and skips no quote after the cursor.
LEMMA NextFacts ==
  ASSUME NEW cursor \in Int, NEW now \in Ticks, NextIn(cursor, now) # NoWindow
  PROVE  /\ NextIn(cursor, now) \in [start : Nat, end : Nat]
         /\ NextIn(cursor, now).start < NextIn(cursor, now).end
         /\ \A t \in Quoted : t < NextIn(cursor, now).start => t < cursor
<1> DEFINE days == {d \in Days : Close(d) > cursor}
           d == Min(days)
           start == Max({cursor, Open(d)})
           end == Min({start + Window, Close(d), now})
<1>1. days # {} /\ end > start /\ NextIn(cursor, now) = [start |-> start, end |-> end]
  <2>1. days # {} /\ ~(end <= start) /\ NextIn(cursor, now) = [start |-> start, end |-> end]
    BY DEF NextIn
  <2>2. start \in Int /\ end \in Int
    <3>1. d \in days
      BY <2>1, KeyFacts, MinOfNaturals
    <3>2. d \in Nat
      BY <3>1, KeyFacts
    <3> HIDE DEF d, days
    <3>3. Open(d) \in Nat /\ Close(d) \in Nat
      BY <3>2, Days3
    <3>4. start \in Int
      BY <3>3, GreaterOfTwo
    <3> HIDE DEF start
    <3>5. start + Window \in Int /\ now \in Int
      BY <3>4, Calendar DEF Ticks
    <3>6. \E x \in {start + Window, Close(d), now} :
            \A y \in {start + Window, Close(d), now} : x <= y
      BY <3>3, <3>5
    <3>7. end \in {start + Window, Close(d), now}
      BY <3>6 DEF Min
    <3> QED
      BY <3>3, <3>4, <3>5, <3>7
  <2> QED
    BY <2>1, <2>2
<1>2. d \in days /\ \A e \in days : d <= e
  BY <1>1, KeyFacts, MinOfNaturals
<1>3. d \in Nat
  BY <1>2, KeyFacts
<1>4. Open(d) \in Nat /\ Close(d) \in Nat
  BY <1>3, Days3
<1>5. start \in Nat /\ (start = cursor \/ start = Open(d))
  BY <1>4, GreaterOfTwo
<1>6. ASSUME NEW t \in Quoted, t < start, ~(t < cursor) PROVE FALSE
  <2>1. t \in Nat /\ t \in Ticks /\ DayOf(t) \in Days /\ DayOf(t) \in Nat
    BY <1>6, KeyFacts, Calendar DEF Ticks
  <2>2. t < Close(DayOf(t)) /\ Close(DayOf(t)) \in Nat
    BY <1>6, <2>1, Days3, Calendar DEF InSession
  <2>3. DayOf(t) \in days
    BY <1>6, <2>1, <2>2
  <2>4. d <= DayOf(t)
    BY <1>2, <2>3
  <2> HIDE DEF d, days
  <2>5. Open(d) <= Open(DayOf(t)) /\ Open(DayOf(t)) <= t
    BY <1>3, <2>1, <2>4, Days1, Days3
  <2>6. Open(DayOf(t)) \in Nat
    BY <2>1, Days3
  <2> QED
    BY <1>4, <1>5, <1>6, <2>1, <2>5, <2>6
<1>7. end \in Nat
  <2> HIDE DEF d, start
  <2>1. start + Window \in Nat /\ now \in Nat
    BY <1>5, Calendar DEF Ticks
  <2>2. \E x \in {start + Window, Close(d), now} :
          \A y \in {start + Window, Close(d), now} : x <= y
    BY <1>4, <2>1
  <2>3. end \in {start + Window, Close(d), now}
    BY <2>2 DEF Min
  <2> QED
    BY <1>4, <2>1, <2>3
<1> HIDE DEF start, end
<1> QED
  BY <1>1, <1>5, <1>6, <1>7

\* What is stored are keys, and their days have partitions.
LEMMA FileFacts ==
  /\ Stored \subseteq Keys /\ Partitions \subseteq Days
  /\ \A k \in Stored : Day(k) \in Partitions
BY KeyFacts DEF Stored, Partitions

\* At first nothing is recorded and nothing runs.
LEMMA RecorderInitially == RecorderInit => CorpusInv
<1> SUFFICES ASSUME RecorderInit PROVE CorpusInv
  OBVIOUS
<1> USE DEF RecorderInit
<1>1. Stored = {} /\ 0 \in Ticks /\ 0 \in Days
  BY KeyFacts, Calendar DEF Stored, Ticks, Days
<1>2. CorpusType
  BY <1>1 DEF CorpusType
<1>3. CacheType /\ WindowType
  BY DEF CacheType, WindowType, Minutes
<1>4. CycleType
  BY <1>1 DEF CycleType, NoCycle, Steps, Minutes, NoMark
<1>5. BackfillType
  BY <1>1 DEF BackfillType, NoBackfill
<1>6. Exclusion /\ RecentInv /\ BatchInv /\ LateInv
  BY DEF Exclusion, RecentInv, BatchInv, LateInv, NoCycle, NoBackfill, Steps
<1>7. MarkInv /\ BehindInv /\ PastMarkInv /\ RequestInv /\ WindowInv /\ FilledInv
  BY <1>1 DEF MarkInv, BehindInv, PastMarkInv, RequestInv, WindowInv, InWindow, FilledInv,
              NoCycle, PastMark
<1> QED
  BY <1>2, <1>3, <1>4, <1>5, <1>6, <1>7 DEF CorpusInv

-----------------------------------------------------------------------------
\* The recorder: what a write does, and what a cycle or a backfill knows.

\* A write of keys that are not recorded yet.
LEMMA Recording ==
  ASSUME CorpusType, NEW keys \in SUBSET Keys, NEW tardy, keys \cap Stored = {},
         Record(keys, tardy)
  PROVE  /\ rows' \in [Keys -> 0..1] /\ Stored' = Stored \cup keys
         /\ late' = late \cup (keys \cap tardy)
         /\ \/ keys = {} /\ UNCHANGED caches
            \/ Stale
<1>1. /\ rows' = [k \in Keys |-> IF k \in keys THEN rows[k] + 1 ELSE rows[k]]
      /\ late' = late \cup (keys \cap tardy)
      /\ IF keys = {} THEN UNCHANGED caches ELSE Stale
  BY DEF Record
<1>2. \A k \in Keys : rows[k] \in 0..1 /\ (k \in keys => rows[k] = 0)
  BY DEF CorpusType, Stored
<1>3. rows' \in [Keys -> 0..1]
  BY <1>1, <1>2
<1>4. Stored' = Stored \cup keys
  BY <1>1, <1>2 DEF Stored
<1> QED
  BY <1>1, <1>3, <1>4

\* A write makes both caches stale and leaves what they say.
LEMMA StaleFacts ==
  ASSUME CacheType, Stale
  PROVE  /\ index' = [wm |-> index.wm, sources |-> index.sources, fresh |-> FALSE]
         /\ recent' = [keys |-> recent.keys, wm |-> recent.wm, fresh |-> FALSE]
BY DEF CacheType, Stale

\* The session of a backfill is not recorded when it is written.
LEMMA SessionIsNew ==
  ASSUME CorpusInv, backfill.pc = "write"
  PROVE  DayBars(backfill.day) \subseteq Keys /\ DayBars(backfill.day) \cap Stored = {}
BY FileFacts DEF CorpusInv, BatchInv, DayBars, Partitions

\* What a cycle prepares is the index or a scan of the partitions.
LEMMA PreparedFacts ==
  ASSUME CorpusInv
  PROVE  /\ Prepared.wm \in Minutes /\ Prepared.sources \subseteq Days
         /\ Scanned.wm \in Minutes /\ Scanned.sources \subseteq Days
         /\ Scanned.wm = NewestMinute(Stored)
         /\ Prepared.wm = IF CachesMatch THEN index.wm ELSE Scanned.wm
         /\ CachesMatch => index.fresh /\ recent.fresh /\ recent.wm = index.wm
<1>1. NewestMinute(Stored) \in Minutes
  BY NewestFacts, FileFacts
<1> QED
  BY <1>1 DEF CorpusInv, CorpusType, CacheType, Prepared, Scanned, CachesMatch

\* A killed recorder leaves rows of the batch it was appending, a killed backfill rows
\* of the session it was writing.
LEMMA Flushing ==
  ASSUME CorpusInv, NEW flushed, \/ KillRecorder(flushed) \/ KillBackfill(flushed)
  PROVE  flushed \in SUBSET Keys /\ flushed \cap Stored = {}
<1>1. CASE KillRecorder(flushed)
  BY <1>1 DEF KillRecorder, InCycle, CorpusInv, CycleType, BatchInv
<1>2. CASE KillBackfill(flushed)
  BY <1>2, SessionIsNew DEF KillBackfill, InBackfill
<1> QED
  BY <1>1, <1>2

-----------------------------------------------------------------------------
\* The recorder: the types.

\* Rows, markers and late keys keep their shape, and no key is recorded twice.
LEMMA CorpusTypeStep ==
  ASSUME CorpusInv, RecorderNext \/ UNCHANGED recorderVars
  PROVE  CorpusType'
<1> USE DEF CorpusInv, CorpusType, files
<1>1. ASSUME NEW keys \in SUBSET Keys, NEW tardy, keys \cap Stored = {}, Record(keys, tardy),
             UNCHANGED <<clock, policy, markers>>
      PROVE  CorpusType'
  BY <1>1, Recording
<1>2. CASE Mark
  <2>1. {Day(k) : k \in cycle.tardy} \subseteq Days
    BY KeyFacts DEF CycleType
  <2> QED
    BY <1>2, <2>1 DEF Mark, Others
<1>3. CASE AppendRows
  BY <1>1, <1>3 DEF AppendRows, Others, InCycle, CycleType, BatchInv
<1>4. CASE RemoveMarker \/ MarkSession
  <2>1. backfill.day \in Days
    <3>1. backfill.day \in Nat /\ backfill.last \in 0..DayOf(LastTick)
      BY DEF BackfillType, Days
    <3>2. backfill.day <= backfill.last
      BY <1>4 DEF RemoveMarker, MarkSession
    <3> QED
      BY <3>1, <3>2, KeyFacts DEF Days
  <2> QED
    BY <1>4, <2>1 DEF RemoveMarker, MarkSession, Beside
<1>5. CASE RemovePartition
  BY <1>5 DEF RemovePartition, Beside
<1>6. CASE WriteSession
  BY <1>1, <1>6, SessionIsNew DEF WriteSession, Beside, InBackfill
<1>7. CASE RepairProvenance
  <2>1. {Day(k) : k \in late} \subseteq Days
    BY KeyFacts
  <2> QED
    BY <1>7, <2>1 DEF RepairProvenance
<1>8. CASE Tick
  BY <1>8, Calendar DEF Tick, Ticks
<1>9. ASSUME NEW p \in Policies, SetPolicy(p) PROVE CorpusType'
  BY <1>9 DEF SetPolicy
<1>10. ASSUME NEW flushed, KillRecorder(flushed) PROVE CorpusType'
  BY <1>1, <1>10, Flushing DEF KillRecorder
<1>11. ASSUME NEW flushed, KillBackfill(flushed) PROVE CorpusType'
  BY <1>1, <1>11, Flushing DEF KillBackfill
<1>12. CASE UNCHANGED <<clock, policy, files>>
  BY <1>12
<1> QED
  BY <1>2, <1>3, <1>4, <1>5, <1>6, <1>7, <1>8, <1>9, <1>10, <1>11, <1>12
  DEF RecorderNext, Cycle, Backfill, recorderVars, Others, Beside, Begin, Rekey, Reindex, Plan,
      Checkpoint, NothingToRequest, Fetch, Refuse, CommitKeys, PublishIndex, Retire,
      BeginBackfill, SkipSession, ScanAll, PublishBackfill, FetchFails, SessionFetchFails

\* The two caches keep their shape.
LEMMA CacheTypeStep ==
  ASSUME CorpusInv, RecorderNext \/ UNCHANGED recorderVars
  PROVE  CacheType'
<1> USE DEF CorpusInv, caches
<1>1. \A S \in SUBSET Keys, wm \in Minutes : RecentOf(S, wm) \subseteq Keys
  BY DEF RecentOf
<1>2. \A S \in SUBSET Keys, wm \in Minutes :
        [keys |-> RecentOf(S, wm), wm |-> wm, fresh |-> TRUE]
          \in [keys : SUBSET Keys, wm : Minutes, fresh : BOOLEAN]
  BY <1>1
<1>3. CASE Stale \/ UNCHANGED caches
  <2>1. CASE Stale
    <3>1. index.wm \in Minutes /\ index.sources \in SUBSET Days /\ recent.keys \in SUBSET Keys
          /\ recent.wm \in Minutes
      BY DEF CacheType
    <3>2. /\ index' = [wm |-> index.wm, sources |-> index.sources, fresh |-> FALSE]
          /\ recent' = [keys |-> recent.keys, wm |-> recent.wm, fresh |-> FALSE]
      BY <2>1, StaleFacts
    <3> QED
      BY <3>1, <3>2 DEF CacheType
  <2> QED
    BY <1>3, <2>1 DEF CacheType
<1>4. CASE Rekey
  BY <1>2, <1>4, FileFacts DEF Rekey, CacheType, CycleType
<1>5. CASE Reindex \/ PublishIndex
  <2>1. /\ index' = [wm |-> cycle.wm, sources |-> cycle.sources, fresh |-> TRUE]
        /\ recent' = recent
    BY <1>5 DEF Reindex, PublishIndex
  <2>2. cycle.wm \in Minutes /\ cycle.sources \in SUBSET Days
    BY DEF CycleType
  <2> QED
    BY <2>1, <2>2 DEF CacheType
<1>6. CASE CommitKeys
  <2>1. cycle'.wm = Advanced(cycle)
    BY <1>6 DEF CommitKeys, CycleType
  <2>2. cycle.wm \in Minutes /\ cycle.wm \in Int /\ NewestMinute(cycle.batch) \in Minutes
        /\ NewestMinute(cycle.batch) \in Int
    BY NewestFacts DEF CycleType, Minutes, Ticks, NoMark
  <2>3. cycle'.wm \in Minutes
    BY <2>1, <2>2, GreaterOfTwo DEF Advanced
  <2>4. recent.keys \cup cycle.batch \in SUBSET Keys
    BY DEF CacheType, CycleType
  <2> QED
    BY <1>2, <1>6, <2>3, <2>4 DEF CommitKeys, CacheType
<1>7. ASSUME NEW overwrite \in BOOLEAN, BeginBackfill(overwrite) PROVE CacheType'
  <2>1. recent' = recent \/ recent' = [keys |-> RecentOf(Stored, Prepared.wm), wm |-> Prepared.wm,
                                       fresh |-> TRUE]
    BY <1>7 DEF BeginBackfill
  <2>2. recent' \in [keys : SUBSET Keys, wm : Minutes, fresh : BOOLEAN]
    BY <1>2, <2>1, PreparedFacts, FileFacts DEF CacheType
  <2>3. index' = [wm |-> Prepared.wm, sources |-> Prepared.sources, fresh |-> TRUE]
    BY <1>7 DEF BeginBackfill
  <2> QED
    BY <2>2, <2>3, PreparedFacts DEF CacheType
<1>8. CASE ScanAll
  BY <1>2, <1>8, PreparedFacts, FileFacts DEF ScanAll, CacheType
<1>9. CASE PublishBackfill
  <2>1. backfill.sources \cup backfill.written \in SUBSET Days
    BY DEF BackfillType
  <2> QED
    BY <1>9, <2>1, PreparedFacts DEF PublishBackfill, CacheType
<1>10. CASE RepairProvenance
  <2>1. markers' \cap Partitions \in SUBSET Days
    BY FileFacts
  <2>2. IF CachesMatch THEN recent.keys \in SUBSET Keys ELSE Stored \in SUBSET Keys
    BY FileFacts DEF CacheType
  <2>3. recent' \in [keys : SUBSET Keys, wm : Minutes, fresh : BOOLEAN]
    BY <1>2, <1>10, <2>2, PreparedFacts DEF RepairProvenance
  <2> QED
    BY <1>10, <2>1, <2>3, PreparedFacts DEF RepairProvenance, CacheType
<1>11. CASE \/ AppendRows \/ WriteSession
            \/ \E flushed \in SUBSET cycle.batch : KillRecorder(flushed)
            \/ \E flushed \in SUBSET DayBars(backfill.day) : KillBackfill(flushed)
  BY <1>3, <1>11 DEF AppendRows, WriteSession, KillRecorder, KillBackfill, Record
<1>12. CASE RemovePartition
  BY <1>3, <1>12 DEF RemovePartition
<1> QED
  BY <1>3, <1>4, <1>5, <1>6, <1>7, <1>8, <1>9, <1>10, <1>11, <1>12
  DEF RecorderNext, Cycle, Backfill, recorderVars, Begin, Plan, Checkpoint,
      NothingToRequest, Fetch, Refuse, Mark, Retire, SkipSession, RemoveMarker, MarkSession,
      Tick, SetPolicy, FetchFails, SessionFetchFails

\* An idle recorder has the shape of one.
LEMMA NoCycleIsCycle ==
  /\ NoCycle \in [pc : Steps, now : Ticks, wm : Minutes, sources : SUBSET Days, horizon : Int,
                  cursor : Int, retry : Int, end : Int, kind : {"bar", "quote"},
                  batch : SUBSET Keys, tardy : SUBSET Keys, windows : Nat]
  /\ NoCycle.pc = "idle" /\ NoCycle.tardy = {} /\ NoCycle.batch = {}
BY Calendar DEF NoCycle, Steps, Minutes, NoMark, Ticks

\* The numbers a cycle computes with.
LEMMA CycleNumbers ==
  ASSUME CorpusInv
  PROVE  /\ Now \in Ticks /\ Start \in Int /\ Floor(cycle.wm) \in Int
         /\ Advanced(cycle) \in Minutes /\ QuoteEnd \in Int
         /\ cycle.wm \in Int /\ clock \in Int
<1> USE DEF CorpusInv
<1>1. /\ cycle.wm \in Int /\ clock \in Ticks /\ clock \in Int /\ cycle.now \in Ticks
      /\ cycle.end \in Int /\ cycle.wm \in Minutes
  BY DEF CycleType, CorpusType, Minutes, Ticks, NoMark
<1>2. Now \in Ticks /\ Now \in Int
  BY <1>1 DEF Now, Ticks
<1>3. Start \in Int
  BY <1>1, <1>2, Calendar DEF Start, WindowType
<1>4. Floor(cycle.wm) \in Int
  BY <1>1, Calendar DEF Floor
<1>5. Advanced(cycle) \in Minutes
  <2>1. NewestMinute(cycle.batch) \in Minutes /\ NewestMinute(cycle.batch) \in Int
    BY NewestFacts DEF CycleType
  <2> QED
    BY <1>1, <2>1, GreaterOfTwo DEF Advanced
<1>6. QuoteEnd \in Int
  <2>1. CASE InSession(cycle.end - 1)
    <3> DEFINE close == Close(DayOf(cycle.end - 1))
    <3>1. close \in Int
      <4>1. cycle.end - 1 \in Int /\ Period \in Int /\ Period > 0 /\ SessionLength \in Int
        BY <1>1, Calendar
      <4> QED
        BY <4>1 DEF Close, Open, DayOf
    <3> HIDE DEF close
    <3>2. Max({clock, cycle.end}) \in Int
      BY <1>1, GreaterOfTwo
    <3>3. Min({Max({clock, cycle.end}), close}) \in Int
      BY <3>1, <3>2, LesserOfTwo
    <3> QED
      BY <1>1, <3>3 DEF QuoteEnd, close
  <2> QED
    BY <1>1, <2>1 DEF QuoteEnd
<1> QED
  BY <1>1, <1>2, <1>3, <1>4, <1>5, <1>6

\* What a cycle requests is a window of the past.
LEMMA RequestFacts ==
  ASSUME CorpusInv, cycle.pc = "open", Requested # NoWindow
  PROVE  /\ Requested.start \in Nat /\ Requested.end \in Nat
         /\ Requested.start < Requested.end
<1> USE DEF CorpusInv
<1>1. cycle.cursor \in Int /\ cycle.now \in Ticks
  BY DEF CycleType
<1>2. CASE cycle.retry # NoMark
  <2>1. pending = [start |-> cycle.cursor, end |-> cycle.retry, policy |-> policy]
    BY <1>2 DEF RequestInv
  <2>2. pending.start \in Nat /\ pending.end \in Nat /\ pending.start < pending.end
    BY <2>1, RecordIsWindow DEF WindowType
  <2> QED
    BY <1>2, <2>1, <2>2 DEF Requested
<1>3. CASE cycle.retry = NoMark /\ policy = "forward_only"
  BY <1>1, <1>3, LatestFacts DEF Requested
<1>4. CASE cycle.retry = NoMark /\ policy # "forward_only"
  BY <1>1, <1>4, NextFacts DEF Requested
<1> QED
  BY <1>2, <1>3, <1>4

\* The local state of a cycle keeps its shape.
LEMMA CycleTypeStep ==
  ASSUME CorpusInv, RecorderNext \/ UNCHANGED recorderVars
  PROVE  CycleType'
<1> USE DEF CorpusInv, CycleType
<1> DEFINE Cycles ==
      [pc : Steps, now : Ticks, wm : Minutes, sources : SUBSET Days, horizon : Int,
       cursor : Int, retry : Int, end : Int, kind : {"bar", "quote"},
       batch : SUBSET Keys, tardy : SUBSET Keys, windows : Nat]
<1>1. CASE cycle' = NoCycle
  BY <1>1, NoCycleIsCycle
<1>2. CASE UNCHANGED cycle
  BY <1>2
<1>3. CASE Begin
  <2>1. PICK pc \in {"plan", "rekey"} :
          cycle' = [NoCycle EXCEPT !.pc = pc, !.now = clock, !.wm = Prepared.wm,
                                   !.sources = Prepared.sources]
    BY <1>3 DEF Begin
  <2>2. clock \in Ticks /\ Prepared.wm \in Minutes /\ Prepared.sources \in SUBSET Days
    BY PreparedFacts DEF CorpusType
  <2> QED
    BY <2>1, <2>2, NoCycleIsCycle DEF Steps
<1>4. CASE Rekey \/ Reindex
  BY <1>4 DEF Rekey, Reindex, Steps
<1>5. CASE Plan
  <2>1. PICK retry \in Int :
          cycle' = [cycle EXCEPT !.pc = "open", !.now = Now, !.cursor = Start,
                                 !.horizon = Floor(cycle.wm), !.retry = retry]
    <3>1. NoMark \in Int /\ (pending # NoWindow => pending.end \in Int)
      BY DEF NoMark, WindowType
    <3>2. pending' = NoWindow \/ pending' = pending
      BY <1>5 DEF Plan
    <3> QED
      BY <1>5, <3>1, <3>2 DEF Plan
  <2> QED
    BY <2>1, CycleNumbers DEF Steps
<1>6. CASE Checkpoint
  <2>1. /\ cycle.pc = "open" /\ Requested # NoWindow
        /\ cycle' = [cycle EXCEPT !.pc = "fetch", !.kind = "bar",
                                  !.cursor = Requested.start, !.end = Requested.end]
    BY <1>6 DEF Checkpoint, InCycle
  <2>2. Requested.start \in Int /\ Requested.end \in Int
    BY <2>1, RequestFacts
  <2> QED
    BY <2>1, <2>2 DEF Steps
<1>7. CASE Fetch
  <2>1. Unrecorded \subseteq Keys /\ Tardy(Unrecorded) \subseteq Unrecorded
    BY DEF Unrecorded, Response, Tardy
  <2>2. PICK end \in Int :
          LET got == [cycle EXCEPT !.end = end]
          IN cycle' = IF Unrecorded = {} THEN AfterIngest(got)
                      ELSE [got EXCEPT !.batch = Unrecorded, !.tardy = Tardy(Unrecorded),
                                       !.pc = IF Tardy(Unrecorded) = {} THEN "append"
                                              ELSE "mark"]
    BY <1>7, CycleNumbers DEF Fetch
  <2> DEFINE got == [cycle EXCEPT !.end = end]
  <2>3. got \in Cycles /\ got.tardy = cycle.tardy /\ got.batch = cycle.batch
    BY <2>2
  <2> HIDE DEF got
  <2>4. CASE Unrecorded = {}
    <3>1. cycle' = AfterIngest(got)
      BY <2>2, <2>4 DEF got
    <3> QED
      BY <2>3, <3>1 DEF AfterIngest, Steps
  <2>5. CASE Unrecorded # {}
    <3>1. PICK pc \in {"append", "mark"} :
            cycle' = [got EXCEPT !.batch = Unrecorded, !.tardy = Tardy(Unrecorded), !.pc = pc]
      BY <2>2, <2>5 DEF got
    <3> QED
      BY <2>1, <2>3, <3>1 DEF Steps
  <2> QED
    BY <2>4, <2>5
<1>8. CASE Mark
  <2>1. {Day(k) : k \in cycle.tardy} \subseteq Days
    BY KeyFacts
  <2>2. cycle' = [cycle EXCEPT !.pc = "append",
                               !.sources = @ \cup {Day(k) : k \in cycle.tardy}]
    BY <1>8 DEF Mark
  <2> QED
    BY <2>1, <2>2 DEF Steps
<1>9. CASE AppendRows
  BY <1>9 DEF AppendRows, Steps
<1>10. CASE CommitKeys
  <2>1. cycle' = [cycle EXCEPT !.pc = "publish", !.wm = Advanced(cycle)]
    BY <1>10 DEF CommitKeys
  <2> QED
    BY <2>1, CycleNumbers DEF Steps
<1>11. CASE PublishIndex
  BY <1>11 DEF PublishIndex, AfterIngest, Steps
<1>12. CASE Retire
  <2>1. cycle' = NoCycle \/
        cycle' = [cycle EXCEPT !.pc = "open", !.cursor = cycle.end, !.retry = NoMark,
                               !.horizon = Floor(cycle.wm), !.windows = @ + 1]
    BY <1>12 DEF Retire
  <2>2. Floor(cycle.wm) \in Int /\ NoMark \in Int
    BY CycleNumbers DEF NoMark
  <2>3. CASE cycle' = [cycle EXCEPT !.pc = "open", !.cursor = cycle.end, !.retry = NoMark,
                                    !.horizon = Floor(cycle.wm), !.windows = @ + 1]
    <3>1. cycle.windows + 1 \in Nat /\ cycle.end \in Int
      OBVIOUS
    <3> QED
      BY <2>2, <2>3, <3>1 DEF Steps
  <2> QED
    BY <1>1, <2>1, <2>3
<1> QED
  BY <1>1, <1>2, <1>3, <1>4, <1>5, <1>6, <1>7, <1>8, <1>9, <1>10, <1>11, <1>12
  DEF RecorderNext, Cycle, Backfill, recorderVars, Others, Beside, NothingToRequest, Refuse,
      BeginBackfill, SkipSession, RemoveMarker, RemovePartition, MarkSession, WriteSession,
      ScanAll, PublishBackfill, RepairProvenance, Tick, SetPolicy, FetchFails,
      SessionFetchFails, KillRecorder, KillBackfill

\* The local state of a backfill keeps its shape.
LEMMA BackfillTypeStep ==
  ASSUME CorpusInv, RecorderNext \/ UNCHANGED recorderVars
  PROVE  BackfillType'
<1> USE DEF CorpusInv, BackfillType
<1>1. NoBackfill \in [pc : {"idle", "day", "unlink", "write", "publish"}, day : Nat, last : Days,
                      overwrite : BOOLEAN, sources : SUBSET Days, written : SUBSET Days]
      /\ NoBackfill.pc = "idle" /\ NoBackfill.day = 0
  BY KeyFacts DEF NoBackfill, Days
<1>2. CASE backfill' = NoBackfill
  BY <1>1, <1>2
<1>3. CASE UNCHANGED backfill
  BY <1>3
<1>4. ASSUME NEW overwrite \in BOOLEAN, BeginBackfill(overwrite) PROVE BackfillType'
  <2>1. /\ Completed # {}
        /\ backfill' = [NoBackfill EXCEPT !.pc = "day", !.last = Max(Completed),
                                          !.overwrite = overwrite, !.sources = Prepared.sources]
    BY <1>4 DEF BeginBackfill
  <2>2. Max(Completed) \in Days
    <3>1. Completed \subseteq Days /\ Completed \in SUBSET (-1..DayOf(LastTick))
      BY KeyFacts DEF Completed, Days
    <3> QED
      BY <2>1, <3>1, KeyFacts, MaxOfBounded
  <2>3. Prepared.sources \in SUBSET Days
    BY PreparedFacts
  <2> QED
    BY <1>1, <2>1, <2>2, <2>3
<1>5. CASE SkipSession
  <2>1. backfill' = [backfill EXCEPT !.day = @ + 1] /\ backfill.pc = "day"
    BY <1>5 DEF SkipSession, InBackfill
  <2>2. backfill.day + 1 \in Nat
    OBVIOUS
  <2> QED
    BY <2>1, <2>2
<1>6. CASE RemoveMarker \/ MarkSession
  <2>1. backfill.day \in Days
    <3>1. backfill.day \in Nat /\ backfill.last \in 0..DayOf(LastTick)
      BY DEF Days
    <3>2. backfill.day <= backfill.last
      BY <1>6 DEF RemoveMarker, MarkSession
    <3> QED
      BY <3>1, <3>2, KeyFacts DEF Days
  <2>2. PICK pc \in {"unlink", "write"} : backfill' = [backfill EXCEPT !.pc = pc]
    BY <1>6 DEF RemoveMarker, MarkSession
  <2> QED
    BY <2>1, <2>2
<1>7. CASE RemovePartition
  BY <1>7 DEF RemovePartition
<1>8. CASE WriteSession
  <2>1. /\ backfill' = [backfill EXCEPT !.pc = "day", !.day = @ + 1,
                                        !.written = @ \cup {backfill.day}]
        /\ backfill.pc = "write"
    BY <1>8 DEF WriteSession, InBackfill
  <2>2. backfill.day + 1 \in Nat /\ backfill.written \cup {backfill.day} \in SUBSET Days
    BY <2>1
  <2> QED
    BY <2>1, <2>2
<1>9. CASE ScanAll
  BY <1>9 DEF ScanAll
<1> QED
  BY <1>2, <1>3, <1>4, <1>5, <1>6, <1>7, <1>8, <1>9
  DEF RecorderNext, Cycle, Backfill, recorderVars, Others, Beside, Begin, Rekey, Reindex, Plan,
      Checkpoint, NothingToRequest, Fetch, Refuse, Mark, AppendRows, CommitKeys, PublishIndex,
      Retire, PublishBackfill, RepairProvenance, Tick, SetPolicy, FetchFails,
      SessionFetchFails, KillRecorder, KillBackfill

\* A checkpoint is a window of the past (Checkpoint).
LEMMA WindowTypeStep ==
  ASSUME CorpusInv, RecorderNext \/ UNCHANGED recorderVars
  PROVE  WindowType'
<1> USE DEF CorpusInv, WindowType
<1>1. CASE pending' = pending \/ pending' = NoWindow
  BY <1>1
<1>2. CASE Checkpoint
  <2>1. /\ cycle.pc = "open" /\ Requested # NoWindow /\ policy \in Policies
        /\ pending' = [start |-> Requested.start, end |-> Requested.end, policy |-> policy]
    BY <1>2 DEF Checkpoint, InCycle, CorpusType
  <2>2. Requested.start \in Nat /\ Requested.end \in Nat /\ Requested.start < Requested.end
    BY <2>1, RequestFacts
  <2> QED
    BY <2>1, <2>2
<1> QED
  BY <1>1, <1>2
  DEF RecorderNext, Cycle, Backfill, recorderVars, Others, Beside, Begin, Rekey, Reindex, Plan,
      NothingToRequest, Fetch, Refuse, Mark, AppendRows, CommitKeys, PublishIndex, Retire,
      BeginBackfill, SkipSession, RemoveMarker, RemovePartition, MarkSession, WriteSession,
      ScanAll, PublishBackfill, RepairProvenance, Tick, SetPolicy, FetchFails,
      SessionFetchFails, KillRecorder, KillBackfill

\* The corpus lock keeps a cycle and a backfill apart.
LEMMA ExclusionStep ==
  ASSUME CorpusInv, RecorderNext \/ UNCHANGED recorderVars
  PROVE  Exclusion'
<1> USE DEF CorpusInv, Exclusion
<1>1. CASE UNCHANGED <<cycle, backfill>> \/ cycle' = NoCycle \/ backfill' = NoBackfill
  BY <1>1 DEF NoCycle, NoBackfill
<1>2. CASE UNCHANGED backfill /\ cycle.pc # "idle"
  BY <1>2
<1>3. CASE UNCHANGED cycle /\ backfill.pc # "idle"
  BY <1>3
<1>4. CASE Begin \/ (\E overwrite \in BOOLEAN : BeginBackfill(overwrite))
  BY <1>4 DEF Begin, BeginBackfill, LockFree, Others, Beside
<1>5. CASE Cycle /\ ~Begin
  BY <1>2, <1>5
  DEF Cycle, Others, InCycle, Rekey, Reindex, Plan, Checkpoint, NothingToRequest, Fetch, Refuse,
      Mark, AppendRows, CommitKeys, PublishIndex, Retire
<1>6. CASE Backfill
  BY <1>1, <1>3, <1>6
  DEF Backfill, Beside, InBackfill, SkipSession, RemoveMarker, RemovePartition, MarkSession,
      WriteSession, ScanAll, PublishBackfill
<1> QED
  BY <1>1, <1>4, <1>5, <1>6
  DEF RecorderNext, recorderVars, RepairProvenance, Tick, SetPolicy, FetchFails,
      SessionFetchFails, KillRecorder, KillBackfill

-----------------------------------------------------------------------------
\* The recorder: no key twice, no late row in a day without a marker.

\* The recent keys of a later watermark follow from those of an earlier one.
LEMMA FloorFacts ==
  ASSUME NEW wm \in Minutes, NEW S \in SUBSET Keys
  PROVE  /\ Floor(wm) \in Int
         /\ \A w \in Minutes, T \in SUBSET Keys : wm <= w =>
              RecentOf(RecentOf(S, wm) \cup T, w) = RecentOf(S \cup T, w)
<1>1. wm \in Int /\ (wm # NoMark => wm >= 0) /\ Horizon \in Nat
  BY Calendar DEF Minutes, Ticks, NoMark
<1>2. Floor(wm) \in Int /\ (wm = NoMark => Floor(wm) = -1)
      /\ (wm # NoMark => Floor(wm) = wm - Horizon)
  BY <1>1 DEF Floor, NoMark
<1>3. ASSUME NEW w \in Minutes, NEW T \in SUBSET Keys, wm <= w
      PROVE  RecentOf(RecentOf(S, wm) \cup T, w) = RecentOf(S \cup T, w)
  <2>1. w \in Int /\ Floor(w) = IF w = NoMark THEN NoMark ELSE w - Horizon
    BY DEF Minutes, Ticks, NoMark, Floor
  <2>2. \A k \in Keys : Minute(k) \in Int /\ Minute(k) >= 0
    BY KeyFacts, Calendar DEF Ticks
  <2>3. \A k \in Keys : Minute(k) >= Floor(w) => Minute(k) >= Floor(wm)
    BY <1>1, <1>2, <1>3, <2>1, <2>2 DEF NoMark
  <2> QED
    BY <2>3 DEF RecentOf
<1> QED
  BY <1>2, <1>3

\* The recent keys stay those of the partitions (Rekey, CommitKeys, ScanAll, RepairProvenance).
LEMMA RecentStep ==
  ASSUME CorpusInv, RecorderNext \/ UNCHANGED recorderVars
  PROVE  RecentInv'
<1> USE DEF CorpusInv
<1>1. Stored \in SUBSET Keys /\ cycle.wm \in Minutes
  BY FileFacts DEF CycleType
\* The first conjunct, on its own, where the caches or the files change.
<1> DEFINE Fresh == recent.fresh => recent.keys = RecentOf(Stored, recent.wm)
           Held == cycle.pc \in Steps \ {"idle", "rekey", "commit"} =>
                     recent.fresh /\ recent.wm = cycle.wm
           Level == \/ cycle.pc \in {"open", "fetch"}
                    \/ cycle.pc \in {"mark", "append", "commit", "publish"} /\ cycle.kind = "bar"
                    => cycle.horizon = Floor(cycle.wm)
<1>2. Fresh /\ Held /\ Level
  BY DEF RecentInv
<1>3. ASSUME Fresh', Held', Level', cycle'.pc # "commit" PROVE RecentInv'
  BY <1>3 DEF RecentInv
<1>4. ASSUME Fresh', cycle'.pc = "idle" PROVE RecentInv'
  BY <1>4 DEF RecentInv
<1>5. ASSUME UNCHANGED <<rows, recent>> PROVE Fresh'
  BY <1>2, <1>5 DEF Stored, RecentOf
<1>6. ASSUME Stale PROVE Fresh'
  BY <1>6, StaleFacts
<1>7. CASE UNCHANGED <<rows, recent, cycle>>
  BY <1>7 DEF RecentInv, Stored
<1>8. CASE cycle' = NoCycle /\ UNCHANGED <<rows, recent>>
  BY <1>4, <1>5, <1>8, NoCycleIsCycle
<1>9. CASE Begin
  <2>1. /\ cycle' = [NoCycle EXCEPT !.pc = IF CachesMatch THEN "plan" ELSE "rekey",
                                    !.now = clock, !.wm = Prepared.wm,
                                    !.sources = Prepared.sources]
        /\ UNCHANGED <<rows, recent>>
    BY <1>9 DEF Begin, files, caches
  <2>2. /\ cycle'.pc = IF CachesMatch THEN "plan" ELSE "rekey"
        /\ cycle'.wm = Prepared.wm
    BY <2>1 DEF NoCycle
  <2>3. Held' /\ Level' /\ cycle'.pc # "commit"
    BY <2>1, <2>2, PreparedFacts
  <2> QED
    BY <1>3, <1>5, <2>1, <2>3
<1>10. CASE Rekey
  <2>1. /\ cycle' = [cycle EXCEPT !.pc = "reindex"] /\ rows' = rows
        /\ recent' = [keys |-> RecentOf(Stored, cycle.wm), wm |-> cycle.wm, fresh |-> TRUE]
    BY <1>10 DEF Rekey, files
  <2>2. cycle'.pc = "reindex" /\ cycle'.wm = cycle.wm /\ Stored' = Stored
    BY <2>1 DEF CycleType, Stored
  <2>3. Fresh' /\ Held' /\ Level'
    BY <2>1, <2>2 DEF RecentOf
  <2> QED
    BY <1>3, <2>2, <2>3
<1>11. CASE Reindex
  <2>1. /\ cycle.pc = "reindex" /\ cycle'.pc = "plan" /\ cycle'.wm = cycle.wm
        /\ UNCHANGED <<rows, recent>>
    BY <1>11 DEF Reindex, InCycle, files, CycleType
  <2>2. Held' /\ Level'
    BY <1>2, <2>1 DEF Steps
  <2> QED
    BY <1>3, <1>5, <2>1, <2>2
<1>12. CASE Plan
  <2>1. /\ cycle.pc = "plan" /\ cycle'.pc = "open" /\ cycle'.wm = cycle.wm
        /\ cycle'.horizon = Floor(cycle.wm) /\ UNCHANGED <<rows, recent>>
    BY <1>12 DEF Plan, InCycle, files, caches, CycleType
  <2>2. Held' /\ Level'
    BY <1>2, <2>1 DEF Steps, Floor
  <2> QED
    BY <1>3, <1>5, <2>1, <2>2
<1>13. CASE Checkpoint
  <2>1. /\ cycle.pc = "open" /\ cycle'.pc = "fetch" /\ cycle'.wm = cycle.wm
        /\ cycle'.horizon = cycle.horizon /\ UNCHANGED <<rows, recent>>
    BY <1>13 DEF Checkpoint, InCycle, files, caches, CycleType
  <2>2. Held' /\ Level'
    BY <1>2, <2>1 DEF Steps, Floor
  <2> QED
    BY <1>3, <1>5, <2>1, <2>2
<1>14. CASE Fetch
  <2>1. /\ cycle.pc = "fetch" /\ UNCHANGED <<rows, recent>>
        /\ cycle'.pc \in {"fetch", "clear", "mark", "append"}
        /\ cycle'.wm = cycle.wm /\ cycle'.horizon = cycle.horizon
    <3>1. PICK end \in Int :
            LET got == [cycle EXCEPT !.end = end]
            IN cycle' = IF Unrecorded = {} THEN AfterIngest(got)
                        ELSE [got EXCEPT !.batch = Unrecorded, !.tardy = Tardy(Unrecorded),
                                         !.pc = IF Tardy(Unrecorded) = {} THEN "append"
                                                ELSE "mark"]
      BY <1>14, CycleNumbers DEF Fetch, CycleType
    <3> DEFINE got == [cycle EXCEPT !.end = end]
    <3>2. /\ cycle.pc = "fetch" /\ UNCHANGED <<rows, recent>>
      BY <1>14 DEF Fetch, InCycle, files, caches
    <3>3. CASE Unrecorded = {}
      BY <3>1, <3>2, <3>3 DEF AfterIngest, CycleType
    <3>4. CASE Unrecorded # {}
      BY <3>1, <3>2, <3>4 DEF CycleType
    <3> QED
      BY <3>2, <3>3, <3>4
  <2>2. Held' /\ Level'
    BY <1>2, <2>1 DEF Steps, Floor
  <2> QED
    BY <1>3, <1>5, <2>1, <2>2
<1>15. CASE Mark
  <2>1. /\ cycle.pc = "mark" /\ cycle'.pc = "append" /\ cycle'.wm = cycle.wm
        /\ cycle'.kind = cycle.kind
        /\ cycle'.horizon = cycle.horizon /\ UNCHANGED <<rows, recent>>
    BY <1>15 DEF Mark, InCycle, caches, CycleType
  <2>2. Held' /\ Level'
    BY <1>2, <2>1 DEF Steps, Floor
  <2> QED
    BY <1>3, <1>5, <2>1, <2>2
<1>16. CASE AppendRows
  <2>1. /\ cycle.pc = "append" /\ cycle'.pc = "commit" /\ cycle'.wm = cycle.wm
        /\ cycle'.kind = cycle.kind /\ cycle'.batch = cycle.batch
        /\ cycle'.horizon = cycle.horizon /\ Record(cycle.batch, cycle.tardy)
    BY <1>16 DEF AppendRows, InCycle, CycleType
  <2>2. /\ cycle.batch \in SUBSET Keys /\ cycle.batch \cap Stored = {}
    BY <2>1 DEF CycleType, BatchInv
  <2>3. /\ Stored' = Stored \cup cycle.batch
        /\ (cycle.batch = {} /\ UNCHANGED caches) \/ Stale
    BY <2>1, <2>2, Recording
  <2>4. /\ recent'.keys = recent.keys /\ recent'.wm = recent.wm
        /\ recent'.fresh = FALSE \/ (recent' = recent /\ Stored' = Stored)
    BY <2>3, StaleFacts DEF caches
  <2>5. recent.keys = RecentOf(Stored, cycle.wm)
    BY <1>2, <2>1 DEF Steps
  <2>6. Stored' \ cycle'.batch = Stored
    BY <2>1, <2>2, <2>3
  <2>7. Fresh' /\ Level'
    BY <1>2, <2>1, <2>4 DEF Floor
  <2>8. recent'.keys = RecentOf(Stored' \ cycle'.batch, cycle'.wm)
    BY <2>1, <2>4, <2>5, <2>6
  <2> QED
    BY <2>1, <2>7, <2>8 DEF RecentInv, RecentOf, Floor
<1>17. CASE CommitKeys
  <2>1. /\ cycle.pc = "commit" /\ cycle' = [cycle EXCEPT !.pc = "publish", !.wm = Advanced(cycle)]
        /\ recent' = [keys |-> RecentOf(recent.keys \cup cycle.batch, cycle'.wm),
                      wm |-> cycle'.wm, fresh |-> TRUE]
        /\ rows' = rows
    BY <1>17 DEF CommitKeys, InCycle, files
  <2>2. /\ cycle'.pc = "publish" /\ cycle'.wm = Advanced(cycle) /\ cycle'.kind = cycle.kind
        /\ cycle'.horizon = cycle.horizon /\ Stored' = Stored
    BY <2>1 DEF CycleType, Stored
  <2>3. /\ recent.keys = RecentOf(Stored \ cycle.batch, cycle.wm)
        /\ cycle.batch \subseteq Stored
    BY <2>1 DEF RecentInv, BatchInv
  <2>4. Advanced(cycle) \in Minutes /\ cycle.wm <= Advanced(cycle)
        /\ (cycle.kind = "bar" => Advanced(cycle) = cycle.wm)
    <3>1. cycle.wm \in Int /\ NewestMinute(cycle.batch) \in Int
      BY CycleNumbers, NewestFacts DEF CycleType
    <3> QED
      BY <3>1, CycleNumbers, GreaterOfTwo DEF Advanced
  <2>5. RecentOf(recent.keys \cup cycle.batch, cycle'.wm) = RecentOf(Stored, cycle'.wm)
    <3>1. Stored \ cycle.batch \in SUBSET Keys /\ cycle.batch \in SUBSET Keys
          /\ (Stored \ cycle.batch) \cup cycle.batch = Stored
      BY <1>1, <2>3
    <3> DEFINE S == Stored \ cycle.batch
               w == Advanced(cycle)
    <3>2. S \in SUBSET Keys /\ w \in Minutes /\ cycle.wm \in Minutes /\ cycle.wm <= w
      BY <1>1, <2>4, <3>1
    <3> HIDE DEF S, w
    <3>3. \A T \in SUBSET Keys : RecentOf(RecentOf(S, cycle.wm) \cup T, w) = RecentOf(S \cup T, w)
      BY <3>2, FloorFacts
    <3>4. RecentOf(RecentOf(S, cycle.wm) \cup cycle.batch, w) = RecentOf(S \cup cycle.batch, w)
      BY <3>1, <3>3
    <3> QED
      BY <2>2, <2>3, <3>1, <3>4 DEF S, w
  <2>6. Fresh' /\ Held'
    BY <2>1, <2>2, <2>5 DEF RecentOf
  <2>7. Level'
    BY <1>2, <2>1, <2>2, <2>4
  <2> QED
    BY <1>3, <2>2, <2>6, <2>7
<1>18. CASE PublishIndex
  <2>1. /\ cycle.pc = "publish" /\ cycle' = AfterIngest(cycle) /\ UNCHANGED <<rows, recent>>
    BY <1>18 DEF PublishIndex, InCycle, files
  <2>2. /\ cycle'.wm = cycle.wm /\ cycle'.horizon = cycle.horizon
        /\ cycle'.pc = IF cycle.kind = "bar" THEN "fetch" ELSE "clear"
    BY <2>1 DEF AfterIngest, CycleType
  <2>3. Held' /\ Level'
    BY <1>2, <2>1, <2>2 DEF Steps, Floor
  <2> QED
    BY <1>3, <1>5, <2>1, <2>2, <2>3
<1>19. CASE Retire
  <2>1. /\ cycle.pc = "clear" /\ UNCHANGED <<rows, recent>>
        /\ cycle' = NoCycle \/ (/\ cycle'.pc = "open" /\ cycle'.wm = cycle.wm
                                /\ cycle'.horizon = Floor(cycle.wm))
    BY <1>19 DEF Retire, InCycle, files, caches, CycleType
  <2>2. CASE cycle' = NoCycle
    BY <1>8, <2>1, <2>2
  <2>3. CASE cycle'.pc = "open" /\ cycle'.wm = cycle.wm /\ cycle'.horizon = Floor(cycle.wm)
    <3>1. Held' /\ Level'
      BY <1>2, <2>1, <2>3 DEF Steps, Floor
    <3> QED
      BY <1>3, <1>5, <2>1, <2>3, <3>1
  <2> QED
    BY <2>1, <2>2, <2>3
<1>20. ASSUME NEW overwrite \in BOOLEAN, BeginBackfill(overwrite) PROVE RecentInv'
  <2>1. /\ cycle'.pc = "idle" /\ Stored' = Stored
        /\ recent' = IF CachesMatch THEN recent
                     ELSE [keys |-> RecentOf(Stored, Prepared.wm), wm |-> Prepared.wm,
                           fresh |-> TRUE]
    BY <1>20 DEF BeginBackfill, LockFree, Beside, files, Stored
  <2>2. Fresh'
    BY <1>2, <2>1 DEF RecentOf
  <2> QED
    BY <1>4, <2>1, <2>2
<1>21. CASE SkipSession \/ RemoveMarker \/ MarkSession \/ PublishBackfill
  <2>1. cycle'.pc = "idle" /\ UNCHANGED <<rows, recent>>
    BY <1>21 DEF SkipSession, RemoveMarker, MarkSession, PublishBackfill, InBackfill, Beside,
                 files, caches, Exclusion
  <2> QED
    BY <1>4, <1>5, <2>1
<1>22. CASE RemovePartition
  <2>1. cycle'.pc = "idle" /\ Stale
    BY <1>22 DEF RemovePartition, InBackfill, Beside, Exclusion
  <2> QED
    BY <1>4, <1>6, <2>1
\* A write outside a cycle leaves the caches stale, or writes nothing.
<1>23. ASSUME NEW keys \in SUBSET Keys, NEW tardy, keys \cap Stored = {}, Record(keys, tardy),
              cycle'.pc = "idle"
       PROVE  RecentInv'
  <2>1. /\ Stored' = Stored \cup keys
        /\ (keys = {} /\ UNCHANGED caches) \/ Stale
    BY <1>23, Recording
  <2>2. CASE Stale
    BY <1>4, <1>6, <1>23, <2>2
  <2>3. CASE keys = {} /\ UNCHANGED caches
    <3>1. Stored' = Stored /\ recent' = recent
      BY <2>1, <2>3 DEF caches
    <3>2. Fresh'
      BY <1>2, <3>1 DEF RecentOf
    <3> QED
      BY <1>4, <1>23, <3>2
  <2> QED
    BY <2>1, <2>2, <2>3
<1>24. CASE WriteSession
  <2>1. /\ cycle'.pc = "idle" /\ Record(DayBars(backfill.day), Keys) /\ backfill.pc = "write"
    BY <1>24 DEF WriteSession, InBackfill, Beside, Exclusion
  <2> QED
    BY <1>23, <2>1, SessionIsNew
<1>25. CASE ScanAll
  <2>1. /\ cycle'.pc = "idle" /\ Stored' = Stored
        /\ recent' = [keys |-> RecentOf(Stored, Scanned.wm), wm |-> Scanned.wm, fresh |-> TRUE]
    BY <1>25 DEF ScanAll, InBackfill, Beside, Exclusion, files, Stored
  <2>2. Fresh'
    BY <2>1 DEF RecentOf
  <2> QED
    BY <1>4, <2>1, <2>2
<1>26. CASE RepairProvenance
  <2>1. /\ cycle'.pc = "idle" /\ Stored' = Stored
        /\ recent' = [keys |-> RecentOf(IF CachesMatch THEN recent.keys ELSE Stored, Prepared.wm),
                      wm |-> Prepared.wm, fresh |-> TRUE]
    BY <1>26 DEF RepairProvenance, LockFree, Stored
  <2>2. RecentOf(IF CachesMatch THEN recent.keys ELSE Stored, Prepared.wm)
          = RecentOf(Stored, Prepared.wm)
    BY <1>2, PreparedFacts DEF RecentOf
  <2>3. Fresh'
    BY <2>1, <2>2 DEF RecentOf
  <2> QED
    BY <1>4, <2>1, <2>3
<1>27. ASSUME NEW flushed, KillRecorder(flushed) PROVE RecentInv'
  <2>1. cycle'.pc = "idle" /\ Record(flushed, cycle.tardy)
    BY <1>27, NoCycleIsCycle DEF KillRecorder
  <2> QED
    BY <1>23, <1>27, <2>1, Flushing
<1>28. ASSUME NEW flushed, KillBackfill(flushed) PROVE RecentInv'
  <2>1. cycle'.pc = "idle" /\ Record(flushed, Keys)
    BY <1>28 DEF KillBackfill, InBackfill, Exclusion
  <2> QED
    BY <1>23, <1>28, <2>1, Flushing
<1> QED
  BY <1>7, <1>8, <1>9, <1>10, <1>11, <1>12, <1>13, <1>14, <1>15, <1>16, <1>17, <1>18, <1>19,
     <1>20, <1>21, <1>22, <1>24, <1>25, <1>26, <1>27, <1>28
  DEF RecorderNext, Cycle, Backfill, recorderVars, files, caches, Others, NothingToRequest,
      Refuse, Tick, SetPolicy, FetchFails, SessionFetchFails

\* What the answer of the provider adds is not recorded.
LEMMA UnrecordedIsNew ==
  ASSUME CorpusInv, cycle.pc = "fetch", ~Refused
  PROVE  /\ Unrecorded \subseteq Keys /\ Unrecorded \cap Stored = {}
         /\ Response \subseteq Stored \cup Unrecorded
<1>1. recent.keys = RecentOf(Stored, cycle.wm) /\ cycle.horizon = Floor(cycle.wm)
  BY DEF CorpusInv, RecentInv, Steps
<1>2. \A k \in Response : k \in Keys /\ ~(Minute(k) < cycle.horizon)
  BY DEF Refused, Response
<1>3. cycle.horizon \in Int /\ \A k \in Keys : Minute(k) \in Int
  BY KeyFacts, Calendar DEF CorpusInv, CycleType, Ticks
<1>4. \A k \in Response : k \in Stored => k \in recent.keys
  BY <1>1, <1>2, <1>3 DEF RecentOf
<1> QED
  BY <1>1, <1>2, <1>4 DEF Unrecorded, RecentOf

\* A fetch in detail: the end of the request may move, the answer becomes the batch.
LEMMA Fetching ==
  ASSUME CorpusInv, Fetch
  PROVE  /\ cycle.pc = "fetch" /\ ~Refused
         /\ cycle'.end = IF cycle.kind = "bar" THEN QuoteEnd ELSE cycle.end
         /\ cycle'.wm = cycle.wm /\ cycle'.cursor = cycle.cursor
         /\ cycle'.batch = Unrecorded /\ cycle'.tardy = Tardy(Unrecorded)
         /\ Unrecorded = {} => /\ cycle'.kind = "quote"
                               /\ cycle'.pc = IF cycle.kind = "bar" THEN "fetch" ELSE "clear"
         /\ Unrecorded # {} => /\ cycle'.kind = cycle.kind
                               /\ cycle'.pc = IF Tardy(Unrecorded) = {} THEN "append" ELSE "mark"
<1> USE DEF CorpusInv
<1>1. PICK end \in Int :
        /\ end = IF cycle.kind = "bar" THEN QuoteEnd ELSE cycle.end
        /\ LET got == [cycle EXCEPT !.end = end]
           IN cycle' = IF Unrecorded = {} THEN AfterIngest(got)
                       ELSE [got EXCEPT !.batch = Unrecorded, !.tardy = Tardy(Unrecorded),
                                        !.pc = IF Tardy(Unrecorded) = {} THEN "append"
                                               ELSE "mark"]
  BY CycleNumbers DEF Fetch, CycleType
<1> DEFINE got == [cycle EXCEPT !.end = end]
<1>2. cycle.pc = "fetch" /\ ~Refused
  BY DEF Fetch, InCycle
<1>3. CASE Unrecorded = {}
  <2>1. cycle' = AfterIngest(got) /\ Tardy(Unrecorded) = {}
    BY <1>1, <1>3 DEF Tardy
  <2> QED
    BY <1>1, <1>2, <1>3, <2>1 DEF AfterIngest, CycleType
<1>4. CASE Unrecorded # {}
  <2>1. cycle' = [got EXCEPT !.batch = Unrecorded, !.tardy = Tardy(Unrecorded),
                             !.pc = IF Tardy(Unrecorded) = {} THEN "append" ELSE "mark"]
    BY <1>1, <1>4
  <2> QED
    BY <1>1, <1>2, <1>4, <2>1 DEF CycleType
<1> QED
  BY <1>3, <1>4

\* A batch is new until it is appended, and stored afterwards.
LEMMA BatchStep ==
  ASSUME CorpusInv, RecorderNext \/ UNCHANGED recorderVars
  PROVE  BatchInv'
<1> USE DEF CorpusInv
<1>1. CASE UNCHANGED <<rows, cycle, backfill>>
  BY <1>1 DEF BatchInv, Stored, Partitions
\* A step of a cycle: no backfill writes.
<1>2. ASSUME cycle.pc # "idle", UNCHANGED backfill,
             cycle'.pc \in {"mark", "append"} => cycle'.batch \cap Stored' = {},
             cycle'.pc = "commit" => cycle'.batch \subseteq Stored'
      PROVE  BatchInv'
  BY <1>2 DEF BatchInv, Exclusion
<1>3. ASSUME cycle'.pc = "idle", backfill'.pc # "write" PROVE BatchInv'
  BY <1>3 DEF BatchInv
<1>4. CASE Begin
  BY <1>4, NoCycleIsCycle
  DEF Begin, BatchInv, LockFree, Others, NoCycle
<1>5. CASE Rekey \/ Reindex \/ Plan \/ Checkpoint \/ NothingToRequest \/ Refuse \/ CommitKeys
  <2>1. /\ cycle.pc # "idle" /\ UNCHANGED backfill
        /\ cycle'.pc \in {"reindex", "plan", "open", "fetch", "idle", "publish"}
    BY <1>5, NoCycleIsCycle
    DEF Rekey, Reindex, Plan, Checkpoint, NothingToRequest, Refuse, CommitKeys, InCycle, Others,
        CycleType
  <2> QED
    BY <1>2, <2>1
<1>6. CASE Fetch
  <2>1. /\ UNCHANGED <<backfill, rows>> /\ Stored' = Stored
    BY <1>6 DEF Fetch, Others, files, Stored
  <2>2. /\ cycle'.batch = Unrecorded /\ Unrecorded \cap Stored = {} /\ cycle.pc = "fetch"
        /\ cycle'.pc # "commit"
    BY <1>6, Fetching, UnrecordedIsNew
  <2> QED
    BY <1>2, <2>1, <2>2
<1>7. CASE Mark
  <2>1. /\ cycle.pc = "mark" /\ cycle'.pc = "append" /\ cycle'.batch = cycle.batch
        /\ UNCHANGED backfill /\ Stored' = Stored
    BY <1>7 DEF Mark, InCycle, Others, CycleType, Stored
  <2> QED
    BY <1>2, <2>1 DEF BatchInv
<1>8. CASE AppendRows
  <2>1. /\ cycle.pc = "append" /\ cycle'.pc = "commit" /\ cycle'.batch = cycle.batch
        /\ UNCHANGED backfill /\ Record(cycle.batch, cycle.tardy)
    BY <1>8 DEF AppendRows, InCycle, Others, CycleType
  <2>2. Stored' = Stored \cup cycle.batch
    BY <2>1, Recording DEF BatchInv, CycleType
  <2> QED
    BY <1>2, <2>1, <2>2
<1>9. CASE PublishIndex \/ Retire
  <2>1. /\ cycle.pc # "idle" /\ UNCHANGED backfill
        /\ cycle'.pc \in {"fetch", "clear", "idle", "open"}
    BY <1>9, NoCycleIsCycle DEF PublishIndex, Retire, AfterIngest, InCycle, Others, CycleType
  <2> QED
    BY <1>2, <2>1
<1>10. CASE Backfill
  <2>1. cycle.pc = "idle" /\ cycle' = cycle
    BY <1>10 DEF Backfill, SkipSession, RemoveMarker, RemovePartition, MarkSession, WriteSession,
                 ScanAll, PublishBackfill, InBackfill, Beside, Exclusion
  <2>2. CASE MarkSession
    <3>1. backfill.day \notin Partitions /\ rows' = rows /\ backfill'.day = backfill.day
      BY <2>2 DEF MarkSession, BackfillType
    <3> QED
      BY <2>1, <3>1 DEF BatchInv, Partitions, Stored
  <2>3. CASE ~MarkSession
    <3>1. CASE SkipSession
      <4>1. backfill' = [backfill EXCEPT !.day = @ + 1] /\ backfill.pc = "day"
        BY <3>1 DEF SkipSession, InBackfill
      <4>2. backfill'.pc = "day"
        BY <4>1 DEF BackfillType
      <4> QED
        BY <1>3, <2>1, <4>2
    <3>2. CASE WriteSession
      <4>1. backfill' = [backfill EXCEPT !.pc = "day", !.day = @ + 1,
                                         !.written = @ \cup {backfill.day}]
        BY <3>2 DEF WriteSession
      <4>2. backfill'.pc = "day"
        BY <4>1 DEF BackfillType
      <4> QED
        BY <1>3, <2>1, <4>2
    <3>3. CASE RemoveMarker \/ RemovePartition \/ ScanAll \/ PublishBackfill
      <4>1. backfill'.pc \in {"unlink", "day", "publish", "idle"}
        BY <3>3
        DEF RemoveMarker, RemovePartition, ScanAll, PublishBackfill, BackfillType, NoBackfill
      <4> QED
        BY <1>3, <2>1, <4>1
    <3> QED
      BY <1>10, <2>3, <3>1, <3>2, <3>3 DEF Backfill
  <2> QED
    BY <2>2, <2>3
<1>11. ASSUME NEW overwrite \in BOOLEAN, BeginBackfill(overwrite) PROVE BatchInv'
  <2>1. cycle'.pc = "idle" /\ backfill'.pc = "day"
    BY <1>11 DEF BeginBackfill, LockFree, Beside, NoBackfill
  <2> QED
    BY <1>3, <2>1
<1>12. CASE RepairProvenance
  BY <1>1, <1>12 DEF RepairProvenance
<1>13. CASE FetchFails
  <2>1. cycle.pc = "fetch" /\ cycle' = NoCycle /\ UNCHANGED backfill
    BY <1>13 DEF FetchFails, InCycle
  <2> QED
    BY <1>2, <2>1, NoCycleIsCycle
<1>14. CASE SessionFetchFails
  <2>1. backfill' = NoBackfill /\ cycle' = cycle /\ cycle.pc = "idle"
    BY <1>14 DEF SessionFetchFails, InBackfill, Exclusion
  <2> QED
    BY <1>3, <2>1 DEF NoBackfill
<1>15. ASSUME NEW flushed, KillRecorder(flushed) PROVE BatchInv'
  <2>1. cycle.pc # "idle" /\ cycle' = NoCycle /\ UNCHANGED backfill
    BY <1>15 DEF KillRecorder, InCycle
  <2> QED
    BY <1>2, <2>1, NoCycleIsCycle
<1>16. ASSUME NEW flushed, KillBackfill(flushed) PROVE BatchInv'
  <2>1. backfill' = NoBackfill /\ cycle' = cycle /\ cycle.pc = "idle"
    BY <1>16 DEF KillBackfill, InBackfill, Exclusion
  <2> QED
    BY <1>3, <2>1 DEF NoBackfill
<1>17. CASE Tick \/ (\E p \in Policies : SetPolicy(p)) \/ UNCHANGED recorderVars
  BY <1>1, <1>17 DEF Tick, SetPolicy, recorderVars, files
<1> QED
  BY <1>4, <1>5, <1>6, <1>7, <1>8, <1>9, <1>10, <1>11, <1>12, <1>13, <1>14, <1>15, <1>16, <1>17
  DEF RecorderNext, Cycle

\* A row observed too late is marked before it is written (Mark, MarkSession).
LEMMA LateStep ==
  ASSUME CorpusInv, RecorderNext \/ UNCHANGED recorderVars
  PROVE  LateInv'
<1> USE DEF CorpusInv
\* The day an overwrite is about to remove.
<1> DEFINE Known(k) == Day(k) \in markers \cup unmarked
                       \/ (backfill.pc = "unlink" /\ Day(k) = backfill.day)
<1>1. \A k \in late : Known(k)
  BY DEF LateInv
<1>2. ASSUME \A k \in late' : Known(k)', cycle'.pc # "append", backfill'.pc # "write"
      PROVE  LateInv'
  BY <1>2 DEF LateInv
<1>3. CASE UNCHANGED <<late, markers, unmarked, cycle, backfill>>
  BY <1>3 DEF LateInv
<1>4. CASE cycle' = NoCycle /\ UNCHANGED <<late, markers, unmarked, backfill>>
  BY <1>4, NoCycleIsCycle DEF LateInv
<1>5. CASE Begin \/ Rekey \/ Reindex \/ Plan \/ Checkpoint \/ CommitKeys \/ PublishIndex \/ Retire
  <2>1. UNCHANGED <<late, markers, unmarked, backfill>> /\ cycle'.pc # "append"
    BY <1>5, NoCycleIsCycle
    DEF Begin, Rekey, Reindex, Plan, Checkpoint, CommitKeys, PublishIndex, Retire, AfterIngest,
        Others, files, history, CycleType, Steps
  <2> QED
    BY <2>1 DEF LateInv
<1>6. CASE Fetch
  <2>1. UNCHANGED <<late, markers, unmarked, backfill>>
    BY <1>6 DEF Fetch, Others, files, history
  <2>2. cycle'.pc = "append" => cycle'.tardy = {}
    BY <1>6, Fetching
  <2> QED
    BY <2>1, <2>2 DEF LateInv
<1>7. CASE Mark
  <2>1. /\ cycle.pc = "mark" /\ cycle'.pc = "append" /\ cycle'.tardy = cycle.tardy
        /\ markers' = markers \cup {Day(k) : k \in cycle.tardy}
        /\ unmarked' = unmarked \ {Day(k) : k \in cycle.tardy}
        /\ UNCHANGED <<late, backfill>> /\ backfill.pc = "idle"
    BY <1>7 DEF Mark, InCycle, Others, CycleType, Exclusion
  <2> QED
    BY <1>1, <2>1 DEF LateInv
\* A row that is written late is of a day with a marker.
<1>8. ASSUME NEW keys \in SUBSET Keys, NEW tardy, keys \cap Stored = {}, Record(keys, tardy),
             \A k \in keys \cap tardy : Day(k) \in markers,
             UNCHANGED markers, unmarked \subseteq unmarked',
             cycle'.pc # "append", backfill'.pc # "write",
             backfill.pc = "unlink" => backfill.day \in unmarked'
      PROVE  LateInv'
  <2>1. late' = late \cup (keys \cap tardy)
    BY <1>8, Recording
  <2>2. \A k \in late' : Known(k)'
    BY <1>1, <1>8, <2>1
  <2> QED
    BY <1>2, <1>8, <2>2
<1>9. CASE AppendRows
  <2>1. /\ cycle.pc = "append" /\ cycle'.pc = "commit" /\ Record(cycle.batch, cycle.tardy)
        /\ UNCHANGED <<markers, unmarked, backfill>> /\ backfill.pc = "idle"
    BY <1>9 DEF AppendRows, InCycle, Others, history, CycleType, Exclusion
  <2> QED
    BY <1>8, <2>1 DEF LateInv, BatchInv, CycleType
<1>10. ASSUME NEW overwrite \in BOOLEAN, BeginBackfill(overwrite) PROVE LateInv'
  <2>1. /\ UNCHANGED <<late, markers, unmarked, cycle>> /\ cycle.pc = "idle"
        /\ backfill.pc = "idle" /\ backfill'.pc = "day"
    BY <1>10 DEF BeginBackfill, LockFree, Beside, files, history, NoBackfill
  <2> QED
    BY <1>1, <1>2, <2>1
<1>11. CASE SkipSession \/ ScanAll \/ PublishBackfill \/ SessionFetchFails
  <2>1. /\ UNCHANGED <<late, markers, unmarked, cycle>> /\ cycle.pc = "idle"
        /\ backfill.pc # "unlink" /\ backfill'.pc # "write"
    BY <1>11 DEF SkipSession, ScanAll, PublishBackfill, SessionFetchFails, InBackfill, Beside,
                 files, history, Exclusion, BackfillType, NoBackfill
  <2> QED
    BY <1>1, <1>2, <2>1
<1>12. CASE RemoveMarker
  <2>1. /\ markers' = markers \ {backfill.day} /\ UNCHANGED <<late, unmarked, cycle>>
        /\ cycle.pc = "idle" /\ backfill.pc = "day"
        /\ backfill'.pc = "unlink" /\ backfill'.day = backfill.day
    BY <1>12 DEF RemoveMarker, InBackfill, Beside, history, Exclusion, BackfillType
  <2> QED
    BY <1>1, <1>2, <2>1
<1>13. CASE RemovePartition
  <2>1. /\ late' = {k \in late : Day(k) # backfill.day} /\ UNCHANGED <<markers, unmarked, cycle>>
        /\ cycle.pc = "idle" /\ backfill'.pc = "day"
    BY <1>13 DEF RemovePartition, InBackfill, Beside, Exclusion, BackfillType
  <2> QED
    BY <1>1, <1>2, <2>1
<1>14. CASE MarkSession
  <2>1. /\ markers' = markers \cup {backfill.day} /\ unmarked' = unmarked \ {backfill.day}
        /\ UNCHANGED <<late, cycle>> /\ cycle.pc = "idle" /\ backfill.pc = "day"
        /\ backfill'.pc = "write" /\ backfill'.day = backfill.day
    BY <1>14 DEF MarkSession, InBackfill, Beside, Exclusion, BackfillType
  <2> QED
    BY <1>1, <2>1 DEF LateInv
<1>15. CASE WriteSession
  <2>1. /\ backfill.pc = "write" /\ Record(DayBars(backfill.day), Keys)
        /\ UNCHANGED <<markers, unmarked, cycle>> /\ cycle.pc = "idle" /\ backfill'.pc = "day"
    BY <1>15 DEF WriteSession, InBackfill, Beside, Exclusion, BackfillType
  <2>2. \A k \in DayBars(backfill.day) : Day(k) \in markers
    BY <2>1 DEF LateInv, DayBars
  <2> QED
    BY <1>8, <2>1, <2>2, SessionIsNew
<1>16. CASE RepairProvenance
  <2>1. /\ markers' = markers \cup {Day(k) : k \in late} /\ UNCHANGED <<late, cycle, backfill>>
        /\ cycle.pc = "idle" /\ backfill.pc = "idle"
    BY <1>16 DEF RepairProvenance, LockFree
  <2> QED
    BY <1>2, <2>1
<1>17. ASSUME NEW flushed, KillRecorder(flushed) PROVE LateInv'
  <2>1. /\ cycle'.pc = "idle" /\ backfill.pc = "idle" /\ UNCHANGED <<backfill, markers, unmarked>>
        /\ Record(flushed, cycle.tardy)
        /\ flushed \subseteq IF cycle.pc = "append" THEN cycle.batch ELSE {}
    BY <1>17, NoCycleIsCycle DEF KillRecorder, InCycle, Exclusion, history
  <2>2. \A k \in flushed \cap cycle.tardy : Day(k) \in markers
    BY <2>1 DEF LateInv
  <2> QED
    BY <1>8, <1>17, <2>1, <2>2, Flushing
<1>18. ASSUME NEW flushed, KillBackfill(flushed) PROVE LateInv'
  <2>1. /\ cycle'.pc = "idle" /\ backfill'.pc = "idle" /\ UNCHANGED <<cycle, markers>>
        /\ Record(flushed, Keys)
        /\ flushed \subseteq IF backfill.pc = "write" THEN DayBars(backfill.day) ELSE {}
        /\ unmarked' = IF backfill.pc = "unlink" THEN unmarked \cup {backfill.day} ELSE unmarked
    BY <1>18 DEF KillBackfill, InBackfill, Exclusion, NoBackfill
  <2>2. \A k \in flushed \cap Keys : Day(k) \in markers
    BY <2>1 DEF LateInv, DayBars
  <2> QED
    BY <1>8, <1>18, <2>1, <2>2, Flushing
<1>19. CASE NothingToRequest \/ Refuse \/ FetchFails
  BY <1>4, <1>19 DEF NothingToRequest, Refuse, FetchFails, Others, files, history
<1>20. CASE Tick \/ (\E p \in Policies : SetPolicy(p)) \/ UNCHANGED recorderVars
  BY <1>3, <1>20 DEF Tick, SetPolicy, recorderVars, files, history
<1> QED
  BY <1>5, <1>6, <1>7, <1>9, <1>10, <1>11, <1>12, <1>13, <1>14, <1>15, <1>16, <1>17, <1>18,
     <1>19, <1>20
  DEF RecorderNext, Cycle, Backfill

-----------------------------------------------------------------------------
\* The recorder: what a step does to the partitions, the checkpoint and the caches.

\* Only a removed partition takes keys away; keys come from the batch of a cycle or the
\* session of a backfill; where a partition changed, the index is not fresh.
LEMMA Filing ==
  ASSUME CorpusInv, RecorderNext \/ UNCHANGED recorderVars
  PROVE  /\ forgone \subseteq forgone'
         /\ index'.fresh => Stored' = Stored
         /\ \/ Stored' = Stored
            \/ RemovePartition
            \/ \E keys \in SUBSET cycle.batch :
                 /\ Stored' = Stored \cup keys /\ UNCHANGED <<policy, pending>>
                 /\ cycle.pc = "append" /\ (AppendRows \/ cycle' = NoCycle)
            \/ \E keys \in SUBSET DayBars(backfill.day) :
                 /\ Stored' = Stored \cup keys /\ UNCHANGED <<policy, pending, cycle>>
                 /\ backfill.pc = "write" /\ cycle.pc = "idle"
                 /\ Between(0, Close(backfill.day)) \subseteq forgone'
<1> USE DEF CorpusInv
<1>1. ASSUME NEW keys \in SUBSET Keys, NEW tardy, keys \cap Stored = {}, Record(keys, tardy)
      PROVE  Stored' = Stored \cup keys /\ (index'.fresh => Stored' = Stored)
  <2>1. /\ Stored' = Stored \cup keys
        /\ (keys = {} /\ UNCHANGED caches) \/ Stale
    BY <1>1, Recording
  <2>2. CASE Stale
    BY <2>1, <2>2, StaleFacts
  <2> QED
    BY <2>1, <2>2
<1>2. CASE rows' = rows /\ forgone \subseteq forgone'
  BY <1>2 DEF Stored
<1>3. CASE AppendRows
  <2>1. /\ cycle.pc = "append" /\ Record(cycle.batch, cycle.tardy)
        /\ UNCHANGED <<policy, pending, forgone>>
    BY <1>3 DEF AppendRows, InCycle, Others, history
  <2> QED
    BY <1>1, <1>3, <2>1 DEF BatchInv, CycleType
<1>4. CASE RemovePartition
  <2>1. Stale /\ forgone \subseteq forgone'
    BY <1>4 DEF RemovePartition
  <2> QED
    BY <1>4, <2>1, StaleFacts
<1>5. CASE WriteSession
  <2>1. /\ backfill.pc = "write" /\ cycle.pc = "idle" /\ Record(DayBars(backfill.day), Keys)
        /\ UNCHANGED <<policy, pending, cycle>>
        /\ forgone' = forgone \cup Between(0, Close(backfill.day))
    BY <1>5 DEF WriteSession, InBackfill, Beside, Exclusion
  <2>2. /\ Stored' = Stored \cup DayBars(backfill.day)
        /\ index'.fresh => Stored' = Stored
    BY <1>1, <2>1, SessionIsNew
  <2> QED
    BY <2>1, <2>2
<1>6. ASSUME NEW flushed, KillRecorder(flushed)
      PROVE  /\ forgone \subseteq forgone' /\ (index'.fresh => Stored' = Stored)
             /\ \/ Stored' = Stored
                \/ \E keys \in SUBSET cycle.batch :
                     /\ Stored' = Stored \cup keys /\ UNCHANGED <<policy, pending>>
                     /\ cycle.pc = "append" /\ cycle' = NoCycle
  <2>1. /\ cycle' = NoCycle /\ Record(flushed, cycle.tardy)
        /\ UNCHANGED <<policy, pending, forgone>>
        /\ flushed \subseteq IF cycle.pc = "append" THEN cycle.batch ELSE {}
    BY <1>6 DEF KillRecorder, InCycle, history
  <2>2. Stored' = Stored \cup flushed /\ (index'.fresh => Stored' = Stored)
    BY <1>1, <1>6, <2>1, Flushing
  <2> QED
    BY <2>1, <2>2
<1>7. ASSUME NEW flushed, KillBackfill(flushed)
      PROVE  /\ forgone \subseteq forgone' /\ (index'.fresh => Stored' = Stored)
             /\ \/ Stored' = Stored
                \/ \E keys \in SUBSET DayBars(backfill.day) :
                     /\ Stored' = Stored \cup keys /\ UNCHANGED <<policy, pending, cycle>>
                     /\ backfill.pc = "write" /\ cycle.pc = "idle"
                     /\ Between(0, Close(backfill.day)) \subseteq forgone'
  <2>1. /\ Record(flushed, Keys) /\ UNCHANGED <<policy, pending, cycle>>
        /\ backfill.pc # "idle"
        /\ flushed \subseteq IF backfill.pc = "write" THEN DayBars(backfill.day) ELSE {}
        /\ forgone' = IF flushed = {} THEN forgone
                      ELSE forgone \cup Between(0, Close(backfill.day))
    BY <1>7 DEF KillBackfill, InBackfill
  <2>2. Stored' = Stored \cup flushed /\ (index'.fresh => Stored' = Stored)
    BY <1>1, <1>7, <2>1, Flushing
  <2>3. forgone \subseteq forgone' /\ cycle.pc = "idle"
    BY <2>1 DEF Exclusion
  <2>4. CASE flushed = {}
    BY <2>2, <2>3, <2>4
  <2>5. CASE flushed # {}
    BY <2>1, <2>2, <2>3, <2>5
  <2> QED
    BY <2>4, <2>5
<1>8. CASE \E flushed : KillRecorder(flushed)
  BY <1>6, <1>8
<1>9. CASE \E flushed : KillBackfill(flushed)
  BY <1>7, <1>9
<1> QED
  BY <1>2, <1>3, <1>4, <1>5, <1>8, <1>9
  DEF RecorderNext, Cycle, Backfill, recorderVars, files, history, Begin, Rekey, Reindex, Plan,
      Checkpoint, NothingToRequest, Fetch, Refuse, Mark, CommitKeys, PublishIndex, Retire,
      BeginBackfill, SkipSession, RemoveMarker, MarkSession, ScanAll, PublishBackfill,
      RepairProvenance, Tick, SetPolicy, FetchFails, SessionFetchFails

\* A quote that was dealt with stays so: a removed session is given up.
LEMMA HandledStays ==
  ASSUME CorpusInv, RecorderNext \/ UNCHANGED recorderVars, NEW t \in Quoted, Handled(t)
  PROVE  Handled(t)'
<1>1. CASE Stored \subseteq Stored'
  BY <1>1, Filing DEF Handled
<1>2. CASE RemovePartition
  <2>1. t \in Ticks /\ InSession(t) /\ t \in Nat
    BY Calendar DEF Ticks
  <2>2. <<"quote", t>> \in Keys /\ Day(<<"quote", t>>) = DayOf(t)
    BY KeyFacts DEF Day
  <2>3. Open(DayOf(t)) <= t /\ t < Close(DayOf(t)) /\ DayOf(t) \in Nat
    BY <2>1, Days1 DEF InSession
  <2>4. /\ rows' = [k \in Keys |-> IF Day(k) = backfill.day THEN 0 ELSE rows[k]]
        /\ forgone' = forgone \cup Between(Open(backfill.day), Close(backfill.day))
    BY <1>2 DEF RemovePartition
  <2>5. CASE DayOf(t) = backfill.day
    <3>1. t <= Close(DayOf(t))
      BY <2>1, <2>3, Days3
    <3> QED
      BY <2>1, <2>3, <2>4, <2>5, <3>1 DEF Between, Handled
  <2>6. CASE DayOf(t) # backfill.day
    BY <2>2, <2>4, <2>6 DEF Handled, Stored
  <2> QED
    BY <2>5, <2>6
<1> QED
  BY <1>1, <1>2, Filing

\* While a cycle goes on, only its own steps and the clock are taken.
LEMMA Running ==
  ASSUME CorpusInv, RecorderNext \/ UNCHANGED recorderVars, cycle'.pc # "idle"
  PROVE  Cycle \/ UNCHANGED <<policy, files, caches, pending, cycle, backfill, history>>
BY NoCycleIsCycle
DEF CorpusInv, Exclusion, RecorderNext, recorderVars, Backfill, Beside, InBackfill, LockFree,
    BeginBackfill, SkipSession, RemoveMarker, RemovePartition, MarkSession, WriteSession,
    ScanAll, PublishBackfill, RepairProvenance, Tick, SetPolicy, FetchFails, SessionFetchFails,
    KillRecorder, KillBackfill

-----------------------------------------------------------------------------
\* The recorder: the watermarks.

\* The index changes to what the cycle knows, to what was prepared or to what was scanned.
LEMMA Indexing ==
  ASSUME CorpusInv, RecorderNext \/ UNCHANGED recorderVars, index'.fresh
  PROVE  \/ index'.wm = index.wm /\ index.fresh
         \/ (Reindex \/ PublishIndex) /\ index'.wm = cycle.wm /\ cycle.pc # "idle"
         \/ UNCHANGED pending /\ cycle'.pc = "idle" /\ index'.wm \in {Prepared.wm, Scanned.wm}
<1> USE DEF CorpusInv
<1>1. CASE index' = index
  BY <1>1
<1>2. CASE Stale
  BY <1>2, StaleFacts
<1>3. CASE Reindex \/ PublishIndex
  BY <1>3 DEF Reindex, PublishIndex, InCycle
<1>4. ASSUME NEW overwrite \in BOOLEAN, BeginBackfill(overwrite)
      PROVE  UNCHANGED pending /\ cycle'.pc = "idle" /\ index'.wm = Prepared.wm
  BY <1>4 DEF BeginBackfill, LockFree, Beside
<1>5. CASE PublishBackfill
  BY <1>5 DEF PublishBackfill, InBackfill, Beside, Exclusion
<1>6. CASE RepairProvenance
  BY <1>6 DEF RepairProvenance, LockFree
<1>7. CASE AppendRows \/ WriteSession \/ RemovePartition
            \/ (\E flushed : KillRecorder(flushed)) \/ \E flushed : KillBackfill(flushed)
  <2>1. Stale \/ UNCHANGED caches
    BY <1>7 DEF AppendRows, WriteSession, RemovePartition, KillRecorder, KillBackfill, Record
  <2> QED
    BY <1>1, <1>2, <2>1 DEF caches
<1> QED
  BY <1>1, <1>3, <1>4, <1>5, <1>6, <1>7
  DEF RecorderNext, Cycle, Backfill, recorderVars, caches, Begin, Rekey, Plan, Checkpoint,
      NothingToRequest, Fetch, Refuse, Mark, CommitKeys, Retire, SkipSession, RemoveMarker,
      MarkSession, ScanAll, Tick, SetPolicy, FetchFails, SessionFetchFails

\* The watermark of a cycle is the one prepared, and only a commit advances it.
LEMMA WatermarkMoves ==
  ASSUME CorpusInv, RecorderNext \/ UNCHANGED recorderVars, cycle'.pc # "idle"
  PROVE  \/ cycle.pc # "idle" /\ cycle'.wm = cycle.wm /\ Stored \subseteq Stored' /\ ~CommitKeys
         \/ Begin /\ cycle'.wm = Prepared.wm /\ cycle'.pc # "commit"
            /\ Stored' = Stored /\ UNCHANGED pending
         \/ /\ CommitKeys /\ cycle'.wm = Advanced(cycle) /\ cycle'.pc = "publish"
            /\ cycle.pc = "commit" /\ Stored' = Stored /\ UNCHANGED pending
<1> USE DEF CorpusInv
<1>1. CASE UNCHANGED <<files, cycle>>
  <2>1. Stored' = Stored /\ cycle.pc # "idle"
    BY <1>1 DEF files, Stored
  <2>2. CASE CommitKeys
    BY <1>1, <2>2 DEF CommitKeys, InCycle, CycleType
  <2> QED
    BY <1>1, <2>1, <2>2
<1>2. CASE Begin
  <2>1. PICK pc \in {"plan", "rekey"} :
          cycle' = [NoCycle EXCEPT !.pc = pc, !.now = clock, !.wm = Prepared.wm,
                                   !.sources = Prepared.sources]
    BY <1>2 DEF Begin
  <2>2. cycle'.wm = Prepared.wm /\ cycle'.pc # "commit"
    BY <2>1, NoCycleIsCycle
  <2> QED
    BY <1>2, <2>2 DEF Begin, files, Stored
<1>3. CASE CommitKeys
  BY <1>3 DEF CommitKeys, InCycle, files, Stored, CycleType
<1>4. CASE Fetch
  <2>1. cycle'.wm = cycle.wm /\ cycle.pc = "fetch" /\ Stored' = Stored
    BY <1>4, Fetching DEF Fetch, files, Stored
  <2> QED
    BY <2>1 DEF CommitKeys, InCycle
<1>5. CASE Retire
  <2>1. cycle' = [cycle EXCEPT !.pc = "open", !.cursor = cycle.end, !.retry = NoMark,
                               !.horizon = Floor(cycle.wm), !.windows = @ + 1]
        /\ cycle.pc = "clear" /\ Stored' = Stored
    BY <1>5, NoCycleIsCycle DEF Retire, InCycle, files, Stored
  <2> QED
    BY <2>1 DEF CycleType, CommitKeys, InCycle
<1>6. CASE AppendRows
  <2>1. cycle.pc = "append" /\ cycle'.wm = cycle.wm
    BY <1>6 DEF AppendRows, InCycle, CycleType
  <2>2. Stored \subseteq Stored'
    BY <2>1, Filing DEF RemovePartition, InBackfill, Exclusion
  <2> QED
    BY <2>1, <2>2 DEF CommitKeys, InCycle
<1>7. CASE Rekey \/ Reindex \/ Plan \/ Checkpoint \/ Mark \/ PublishIndex
  <2>1. cycle'.wm = cycle.wm /\ Stored' = Stored
    BY <1>7
    DEF Rekey, Reindex, Plan, Checkpoint, Mark, PublishIndex, AfterIngest, files, Stored,
        CycleType
  <2>2. cycle.pc \notin {"idle", "commit"}
    BY <1>7 DEF Rekey, Reindex, Plan, Checkpoint, Mark, PublishIndex, InCycle
  <2> QED
    BY <2>1, <2>2 DEF CommitKeys, InCycle
<1>8. CASE NothingToRequest \/ Refuse
  BY <1>8, NoCycleIsCycle DEF NothingToRequest, Refuse
<1> QED
  BY <1>1, <1>2, <1>3, <1>4, <1>5, <1>6, <1>7, <1>8, Running DEF Cycle

\* No watermark passes what is recorded.
LEMMA MarkStep ==
  ASSUME CorpusInv, RecorderNext \/ UNCHANGED recorderVars
  PROVE  MarkInv'
<1> USE DEF CorpusInv
<1>1. ASSUME NEW wm, Reached(wm), Stored \subseteq Stored' PROVE Reached(wm)'
  BY <1>1 DEF Reached
<1>2. Reached(Prepared.wm) /\ Reached(Scanned.wm)
  <2>1. Reached(Scanned.wm)
    <3>1. \/ NewestMinute(Stored) = NoMark
          \/ \E k \in Stored : Minute(k) = NewestMinute(Stored)
      BY NewestFacts, FileFacts
    <3>2. \A k \in Stored : Minute(k) \in Int
      BY KeyFacts, FileFacts, Calendar DEF Ticks
    <3> QED
      BY <3>1, <3>2, PreparedFacts DEF Reached
  <2> QED
    BY <2>1, PreparedFacts DEF MarkInv
<1>3. ASSUME index'.fresh PROVE Reached(index.wm)'
  <2>1. Stored' = Stored
    BY <1>3, Filing
  <2>2. Reached(index'.wm)
    BY <1>2, <1>3, Indexing DEF MarkInv
  <2> QED
    BY <2>1, <2>2 DEF Reached
<1>4. ASSUME cycle'.pc # "idle" PROVE Reached(cycle.wm)'
  <2>1. CASE cycle.pc # "idle" /\ cycle'.wm = cycle.wm /\ Stored \subseteq Stored'
    BY <2>1 DEF MarkInv, Reached
  <2>2. CASE cycle'.wm = Prepared.wm /\ Stored' = Stored
    BY <1>2, <2>2 DEF Reached
  <2>3. CASE cycle'.wm = Advanced(cycle) /\ cycle.pc = "commit" /\ Stored' = Stored
    <3>1. Reached(cycle.wm) /\ cycle.batch \subseteq Stored
      BY <2>3 DEF MarkInv, BatchInv
    <3>2. NewestMinute(cycle.batch) \in Int /\ cycle.wm \in Int
      BY NewestFacts, CycleNumbers DEF CycleType
    <3>3. Advanced(cycle) = cycle.wm \/ Advanced(cycle) = NewestMinute(cycle.batch)
      BY <3>2, GreaterOfTwo DEF Advanced
    <3>4. Reached(NewestMinute(cycle.batch))
      <4>1. \/ NewestMinute(cycle.batch) = NoMark
            \/ \E k \in cycle.batch : Minute(k) = NewestMinute(cycle.batch)
        BY NewestFacts DEF CycleType
      <4>2. \A k \in Stored : Minute(k) \in Int
        BY KeyFacts, FileFacts, Calendar DEF Ticks
      <4> QED
        BY <3>1, <4>1, <4>2 DEF Reached
    <3> QED
      BY <2>3, <3>1, <3>3, <3>4 DEF Reached
  <2> QED
    BY <1>4, <2>1, <2>2, <2>3, WatermarkMoves
<1> QED
  BY <1>3, <1>4 DEF MarkInv

-----------------------------------------------------------------------------
\* The recorder: what is behind the recorded keys and behind a watermark.

\* A checkpoint that is given up or cleared is dealt with.
LEMMA CheckpointChanges ==
  ASSUME CorpusInv, RecorderNext \/ UNCHANGED recorderVars
  PROVE  \/ UNCHANGED pending
         \/ /\ Plan /\ Deferred /\ pending' = NoWindow /\ cycle.pc = "plan"
            /\ Unfinished(cycle.wm) \subseteq forgone'
         \/ Checkpoint /\ pending = NoWindow
         \/ Retire /\ cycle.pc = "clear"
<1> USE DEF CorpusInv
<1>1. CASE Plan
  <2>1. /\ pending' = IF Deferred THEN NoWindow ELSE pending
        /\ forgone' = forgone \cup PassedOver /\ cycle.pc = "plan"
    BY <1>1 DEF Plan, InCycle
  <2>2. Deferred => Unfinished(cycle.wm) \subseteq PassedOver
    BY DEF PassedOver
  <2> QED
    BY <1>1, <2>1, <2>2
<1>2. CASE Checkpoint
  <2>1. /\ cycle.pc = "open"
        /\ pending' = [start |-> Requested.start, end |-> Requested.end, policy |-> policy]
    BY <1>2 DEF Checkpoint, InCycle
  <2>2. CASE cycle.retry # NoMark
    <3>1. pending = [start |-> cycle.cursor, end |-> cycle.retry, policy |-> policy]
      BY <2>1, <2>2 DEF RequestInv
    <3>2. Requested = [start |-> cycle.cursor, end |-> cycle.retry]
      BY <2>2 DEF Requested
    <3> QED
      BY <2>1, <3>1, <3>2
  <2> QED
    BY <1>2, <2>1, <2>2 DEF RequestInv
<1>3. CASE Retire
  BY <1>3 DEF Retire, InCycle
<1> QED
  BY <1>1, <1>2, <1>3
  DEF RecorderNext, Cycle, Backfill, recorderVars, Others, Beside, Begin, Rekey, Reindex,
      NothingToRequest, Fetch, Refuse, Mark, AppendRows, CommitKeys, PublishIndex,
      BeginBackfill, SkipSession, RemoveMarker, RemovePartition, MarkSession, WriteSession,
      ScanAll, PublishBackfill, RepairProvenance, Tick, SetPolicy, FetchFails,
      SessionFetchFails, KillRecorder, KillBackfill

\* The numbers of a checkpoint.
LEMMA CheckpointNumbers ==
  ASSUME CorpusInv, pending # NoWindow
  PROVE  /\ pending.start \in Int /\ pending.end \in Int /\ pending.start < pending.end
         /\ pending.policy \in Policies
         /\ \A wm \in Minutes, t \in Ticks :
              pending.start <= t
              /\ (t <= pending.end \/ (pending.policy = "forward_only" /\ t <= wm))
                => t \in Unfinished(wm)
<1>1. /\ pending.start \in Int /\ pending.end \in Int /\ pending.start < pending.end
      /\ pending.policy \in Policies
  BY DEF CorpusInv, WindowType
<1>2. ASSUME NEW wm \in Minutes, NEW t \in Ticks, pending.start <= t,
             t <= pending.end \/ (pending.policy = "forward_only" /\ t <= wm)
      PROVE  t \in Unfinished(wm)
  <2>1. wm \in Int /\ t \in Int
    BY Calendar DEF Minutes, Ticks, NoMark
  <2>2. Max({pending.end, wm}) = IF pending.end >= wm THEN pending.end ELSE wm
    BY <1>1, <2>1, GreaterOfTwo
  <2> QED
    BY <1>1, <1>2, <2>1, <2>2 DEF Unfinished, Between
<1> QED
  BY <1>1, <1>2

\* When a window is retired, its quotes are recorded.
LEMMA Retired ==
  ASSUME CorpusInv, cycle.pc = "clear", NEW t \in Quoted, cycle.cursor <= t, t <= cycle.end
  PROVE  Handled(t)
BY DEF CorpusInv, FilledInv, Handled

\* A quote of a checkpoint stays in one, or is dealt with.
LEMMA InCheckpointStays ==
  ASSUME CorpusInv, RecorderNext \/ UNCHANGED recorderVars, NEW t \in Quoted,
         pending # NoWindow, pending.start <= t, t <= pending.end
  PROVE  Handled(t)' \/ (pending' # NoWindow /\ pending'.start <= t /\ t <= pending'.end)
<1> USE DEF CorpusInv
<1>1. CASE UNCHANGED pending
  BY <1>1
<1>2. CASE Unfinished(cycle.wm) \subseteq forgone'
  <2>1. t \in Ticks /\ cycle.wm \in Minutes
    BY Calendar DEF CycleType
  <2> QED
    BY <1>2, <2>1, CheckpointNumbers DEF Handled
<1>3. CASE cycle.pc = "clear"
  <2>1. pending.start = cycle.cursor /\ pending.end <= cycle.end
    BY <1>3 DEF WindowInv, InWindow
  <2>2. cycle.end \in Int /\ t \in Int
    BY Calendar DEF CycleType, Ticks
  <2> QED
    BY <1>3, <2>1, <2>2, Retired, HandledStays, CheckpointNumbers
<1> QED
  BY <1>1, <1>2, <1>3, CheckpointChanges

\* No step leaves a quote behind what is recorded, neither dealt with nor asked for.
LEMMA BehindStep ==
  ASSUME CorpusInv, RecorderNext \/ UNCHANGED recorderVars
  PROVE  BehindInv'
<1> USE DEF CorpusInv
<1> SUFFICES ASSUME NEW k \in Stored', NEW t \in Quoted, t <= Minute(k)
             PROVE  Handled(t)' \/ Asked(t)'
  BY DEF BehindInv
<1>1. t \in Ticks /\ t \in Int
  BY Calendar DEF Ticks
<1>2. Handled(t) => Handled(t)'
  BY HandledStays
\* Behind a key that was recorded before.
<1>3. CASE k \in Stored
  <2>1. Handled(t) \/ Asked(t)
    BY <1>3 DEF BehindInv
  <2>2. Minute(k) \in Int
    BY <1>3, KeyFacts, FileFacts, Calendar DEF Ticks
  <2>3. CASE UNCHANGED pending
    BY <1>2, <2>1, <2>3 DEF Asked
  <2>4. CASE Plan /\ cycle.pc = "plan" /\ Unfinished(cycle.wm) \subseteq forgone' /\ Asked(t)
    <3>1. cycle.wm \in Minutes /\ cycle.wm \in Int
      BY CycleNumbers DEF CycleType
    <3>2. CASE t <= cycle.wm
      BY <1>1, <2>4, <3>1, <3>2, CheckpointNumbers DEF Asked, Handled
    <3>3. CASE cycle.wm < t
      <4>1. Handled(t) \/ (pending # NoWindow /\ pending.start <= t /\ t <= pending.end)
        BY <1>3, <2>4, <3>3 DEF PastMarkInv, PastMark
      <4> QED
        BY <1>1, <1>2, <2>4, <3>1, <4>1, CheckpointNumbers DEF Handled
    <3> QED
      BY <1>1, <3>1, <3>2, <3>3
  <2>5. CASE pending = NoWindow
    BY <1>2, <2>1, <2>5 DEF Asked
  <2>6. CASE cycle.pc = "clear"
    <3>1. Handled(t) \/ (cycle.cursor <= t /\ t <= cycle.end)
      BY <1>3, <2>6 DEF WindowInv, InWindow
    <3> QED
      BY <1>2, <2>6, <3>1, Retired
  <2> QED
    BY <1>2, <2>1, <2>3, <2>4, <2>5, <2>6, CheckpointChanges
\* Behind a key of the batch of a cycle.
<1>4. CASE k \in cycle.batch /\ cycle.pc = "append" /\ UNCHANGED pending
  <2>1. /\ pending # NoWindow /\ pending.start = cycle.cursor /\ pending.policy = policy
        /\ pending.end <= cycle.end
        /\ policy # "forward_only" => cycle.end = pending.end
        /\ Minute(k) <= IF cycle.kind = "bar" THEN pending.end ELSE cycle.end
    BY <1>4 DEF WindowInv, InWindow
  <2>2. Minute(k) \in Int /\ cycle.end \in Int
    BY <1>4, KeyFacts, Calendar DEF CycleType, Ticks
  <2>3. t < pending.start => Handled(t)
    BY <2>1 DEF RequestInv
  <2>4. pending.start <= t => Asked(t)
    BY <1>1, <2>1, <2>2, CheckpointNumbers DEF Asked
  <2> QED
    BY <1>1, <1>2, <1>4, <2>1, <2>3, <2>4, CheckpointNumbers DEF Asked
\* Behind a key of a session that is backfilled.
<1>5. CASE k \in DayBars(backfill.day) /\ Between(0, Close(backfill.day)) \subseteq forgone'
  <2>1. k \in Keys /\ Day(k) = backfill.day /\ Minute(k) \in Nat /\ InSession(Minute(k))
    BY <1>5, KeyFacts, Calendar DEF DayBars, Ticks
  <2>2. Minute(k) < Close(backfill.day) /\ backfill.day \in Nat
    BY <2>1, Days1 DEF InSession, Day
  <2>3. t \in Between(0, Close(backfill.day))
    <3>1. Close(backfill.day) \in Int /\ 0 <= t
      BY <1>1, <2>2, Days3, Calendar DEF Ticks
    <3> QED
      BY <1>1, <2>1, <2>2, <3>1 DEF Between
  <2> QED
    BY <1>5, <2>3 DEF Handled
<1>6. CASE RemovePartition
  BY <1>3, <1>6 DEF RemovePartition, Stored
<1> QED
  BY <1>3, <1>4, <1>5, <1>6, Filing

\* Nor one between a watermark and what is recorded, outside the checkpoint itself.
LEMMA PastMarkStep ==
  ASSUME CorpusInv, RecorderNext \/ UNCHANGED recorderVars
  PROVE  PastMarkInv'
<1> USE DEF CorpusInv
<1> DEFINE Dealt(t) == Handled(t)
                       \/ (pending # NoWindow /\ pending.start <= t /\ t <= pending.end)
\* What held between a watermark and some keys holds on.
<1>1. \A t \in Quoted : Dealt(t) => Dealt(t)'
  BY HandledStays, InCheckpointStays
<1>2. \A k \in Keys, t \in Quoted : Minute(k) \in Int /\ t \in Int
  BY KeyFacts, Calendar DEF Ticks
\* Nothing is recorded past the newest minute.
<1>3. ASSUME NEW wm \in {Prepared.wm, Scanned.wm}, NEW k \in Stored, NEW t \in Quoted,
             wm < t, t <= Minute(k)
      PROVE  Dealt(t)
  <2>1. CASE wm = NewestMinute(Stored)
    <3>1. NewestMinute(Stored) \in Int /\ Minute(k) <= NewestMinute(Stored)
      BY NewestFacts, FileFacts
    <3> QED
      BY <1>2, <1>3, <2>1, <3>1, FileFacts
  <2>2. CASE CachesMatch /\ wm = index.wm
    BY <1>3, <2>2 DEF CachesMatch, PastMarkInv, PastMark
  <2> QED
    BY <1>3, <2>1, <2>2, PreparedFacts
<1>4. ASSUME index'.fresh, NEW k \in Stored', NEW t \in Quoted, index'.wm < t, t <= Minute(k)
      PROVE  Dealt(t)'
  <2>1. k \in Stored
    BY <1>4, Filing
  <2>2. CASE index'.wm = index.wm /\ index.fresh
    BY <1>1, <1>4, <2>1, <2>2 DEF PastMarkInv, PastMark
  <2>3. CASE (Reindex \/ PublishIndex) /\ index'.wm = cycle.wm
    <3>1. cycle.pc \in {"reindex", "publish"}
      BY <2>3 DEF Reindex, PublishIndex, InCycle
    <3> QED
      BY <1>1, <1>4, <2>1, <2>3, <3>1 DEF PastMarkInv, PastMark
  <2>4. CASE index'.wm \in {Prepared.wm, Scanned.wm}
    BY <1>1, <1>3, <1>4, <2>1, <2>4
  <2> QED
    BY <1>4, <2>2, <2>3, <2>4, Indexing
<1>5. ASSUME cycle'.pc # "idle", NEW k \in Stored', cycle'.pc = "commit" => k \notin cycle'.batch,
             NEW t \in Quoted, cycle'.wm < t, t <= Minute(k)
      PROVE  Dealt(t)'
  <2>1. CASE cycle.pc # "idle" /\ cycle'.wm = cycle.wm /\ ~CommitKeys
    <3>1. k \in Stored /\ (cycle.pc = "commit" => k \notin cycle.batch)
      <4>1. CASE AppendRows
        <5>1. /\ cycle.pc = "append" /\ cycle'.pc = "commit" /\ cycle'.batch = cycle.batch
          BY <4>1 DEF AppendRows, InCycle, CycleType
        <5>2. k \notin cycle.batch
          BY <1>5, <5>1
        <5> QED
          BY <1>5, <2>1, <5>1, <5>2, Filing DEF RemovePartition, InBackfill, Exclusion
      <4>2. CASE Stored' = Stored /\ (cycle.pc = "commit" => cycle' = cycle)
        BY <1>5, <4>2
      <4>3. Stored' = Stored \/ AppendRows
        BY <1>5, <2>1, Filing, NoCycleIsCycle DEF RemovePartition, InBackfill, Exclusion
      <4>4. cycle.pc = "commit" => cycle' = cycle
        BY <1>5, <2>1, Running
        DEF Cycle, Begin, LockFree, Rekey, Reindex, Plan, Checkpoint, NothingToRequest, Fetch,
            Refuse, Mark, AppendRows, PublishIndex, Retire, InCycle
      <4> QED
        BY <4>1, <4>2, <4>3, <4>4
    <3> QED
      BY <1>1, <1>5, <2>1, <3>1 DEF PastMarkInv, PastMark
  <2>2. CASE cycle'.wm = Prepared.wm /\ Stored' = Stored
    BY <1>1, <1>3, <1>5, <2>2
  <2>3. CASE CommitKeys /\ cycle'.wm = Advanced(cycle) /\ cycle.pc = "commit" /\ Stored' = Stored
    <3>1. /\ NewestMinute(cycle.batch) \in Int /\ cycle.wm \in Int /\ cycle.end \in Int
          /\ \A x \in cycle.batch : Minute(x) <= NewestMinute(cycle.batch)
      BY NewestFacts, CycleNumbers DEF CycleType
    <3>2. /\ Advanced(cycle) \in Int /\ cycle.wm <= Advanced(cycle)
          /\ cycle.kind # "bar" => NewestMinute(cycle.batch) <= Advanced(cycle)
      BY <3>1, GreaterOfTwo DEF Advanced
    <3>3. CASE k \notin cycle.batch
      <4>1. k \in Stored \ cycle.batch /\ cycle.wm < t
        BY <1>2, <1>5, <2>3, <3>1, <3>2, <3>3, FileFacts
      <4>2. PastMark(Stored \ cycle.batch, cycle.wm)
        BY <2>3 DEF PastMarkInv
      <4> QED
        BY <1>1, <1>5, <4>1, <4>2 DEF PastMark
    <3>4. CASE k \in cycle.batch /\ cycle.kind # "bar"
      <4>1. Minute(k) <= Advanced(cycle) /\ k \in Keys
        BY <1>2, <3>1, <3>2, <3>4 DEF CycleType
      <4> QED
        BY <1>2, <1>5, <2>3, <3>2, <4>1
    <3>5. CASE k \in cycle.batch /\ cycle.kind = "bar"
      <4>1. /\ pending # NoWindow /\ Minute(k) <= pending.end /\ k \in Keys
        BY <2>3, <3>5 DEF WindowInv, InWindow, CycleType
      <4>2. t < pending.start => Handled(t)
        BY <4>1 DEF RequestInv
      <4> QED
        BY <1>1, <1>2, <1>5, <4>1, <4>2, CheckpointNumbers
    <3> QED
      BY <3>3, <3>4, <3>5
  <2> QED
    BY <1>5, <2>1, <2>2, <2>3, WatermarkMoves
<1> QED
  BY <1>4, <1>5 DEF PastMarkInv, PastMark

\* Before a request, everything is dealt with (Plan, Checkpoint, Retire).
LEMMA RequestStep ==
  ASSUME CorpusInv, RecorderNext \/ UNCHANGED recorderVars
  PROVE  RequestInv'
<1> USE DEF CorpusInv
<1>1. \A t \in Quoted : Handled(t) => Handled(t)'
  BY HandledStays
<1>2. \A t \in Quoted : t \in Ticks /\ t \in Int
  BY Calendar DEF Ticks
\* Nothing before the watermark is left when nothing is pending, or given up.
<1>3. ASSUME Plan, pending' = NoWindow, NEW t \in Quoted, cycle.wm # NoMark, t < cycle.wm
      PROVE  Handled(t)'
  <2>1. cycle.wm \in Minutes /\ cycle.wm \in Int /\ cycle.pc = "plan"
    BY <1>3, CycleNumbers DEF CycleType, Plan, InCycle
  <2>2. PICK k \in Stored : cycle.wm <= Minute(k)
    BY <1>3, <2>1 DEF MarkInv, Reached
  <2>3. t <= Minute(k)
    BY <1>2, <1>3, <2>1, <2>2, KeyFacts, FileFacts, Calendar DEF Ticks
  <2>4. Handled(t) \/ Asked(t)
    BY <2>3 DEF BehindInv
  <2>5. pending = NoWindow \/ Unfinished(cycle.wm) \subseteq forgone'
    BY <1>3, <2>1, CheckpointChanges DEF Checkpoint, InCycle
  <2>6. CASE Unfinished(cycle.wm) \subseteq forgone' /\ pending # NoWindow /\ Asked(t)
    BY <1>2, <1>3, <2>1, <2>6, CheckpointNumbers DEF Asked, Handled
  <2> QED
    BY <1>1, <2>4, <2>5, <2>6 DEF Asked
<1>4. ASSUME pending' # NoWindow, NEW t \in Quoted, t < pending'.start PROVE Handled(t)'
  <2>1. CASE UNCHANGED pending
    BY <1>1, <1>4, <2>1 DEF RequestInv
  <2>2. CASE Checkpoint
    <3>1. cycle.pc = "open" /\ Requested # NoWindow /\ pending'.start = Requested.start
      BY <2>2 DEF Checkpoint, InCycle
    <3> QED
      BY <1>1, <1>4, <3>1 DEF RequestInv
  <2> QED
    BY <1>4, <2>1, <2>2, CheckpointChanges DEF Retire
<1> DEFINE Opened == cycle.pc = "open" =>
       /\ pending = IF cycle.retry = NoMark THEN NoWindow
                    ELSE [start |-> cycle.cursor, end |-> cycle.retry, policy |-> policy]
       /\ cycle.retry # NoMark => policy # "forward_only"
       /\ Requested # NoWindow => \A t \in Quoted : t < Requested.start => Handled(t)
<1>5. ASSUME Plan PROVE Opened'
  <2>1. /\ pending' = IF Deferred THEN NoWindow ELSE pending
        /\ forgone' = forgone \cup PassedOver /\ policy' = policy
        /\ cycle'.pc = "open" /\ cycle'.now = Now /\ cycle'.cursor = Start
        /\ cycle'.retry = IF pending' = NoWindow THEN NoMark ELSE pending.end
    BY <1>5 DEF Plan, Others, CycleType
  <2>2. CASE pending' # NoWindow
    <3>1. pending # NoWindow /\ ~Deferred /\ pending' = pending
      BY <2>1, <2>2
    <3>2. pending.policy = policy /\ policy # "forward_only" /\ Start = pending.start
      BY <3>1 DEF Deferred, Start
    <3>3. /\ cycle'.retry = pending.end /\ pending.end \in Nat /\ NoMark = -1
          /\ pending = [start |-> pending.start, end |-> pending.end, policy |-> pending.policy]
      BY <2>1, <2>2, <3>1 DEF WindowType, NoMark
    <3>4. cycle'.retry # NoMark
      BY <3>3
    <3>5. Requested' = [start |-> pending.start, end |-> pending.end]
      BY <2>1, <3>2, <3>3, <3>4 DEF Requested
    <3>6. \A t \in Quoted : t < pending.start => Handled(t)'
      BY <1>1, <3>1 DEF RequestInv
    <3> QED
      BY <2>1, <3>1, <3>2, <3>3, <3>4, <3>5, <3>6
  <2>3. CASE pending' = NoWindow
    <3>1. cycle'.retry = NoMark /\ (pending = NoWindow \/ Deferred)
      BY <2>1, <2>3
    <3>2. ASSUME Requested' # NoWindow, NEW t \in Quoted, t < Requested'.start
          PROVE  Handled(t)'
      <4>1. CASE policy = "forward_only"
        <5>1. Requested' = LatestIn(Start, Now)
          BY <2>1, <3>1, <4>1 DEF Requested
        <5>2. LatestIn(Start, Now).start \in Nat
          BY <3>2, <5>1, LatestFacts, CycleNumbers
        <5>3. Between(cycle.wm, LatestIn(Start, Now).start - 1) \subseteq forgone'
          BY <2>1, <3>2, <4>1, <5>1 DEF PassedOver
        <5>4. CASE cycle.wm <= t
          <6>1. t \in Between(cycle.wm, LatestIn(Start, Now).start - 1)
            BY <1>2, <3>2, <5>1, <5>2, <5>4 DEF Between
          <6> QED
            BY <5>3, <6>1 DEF Handled
        <5>5. CASE t < cycle.wm
          <6>1. cycle.wm # NoMark
            BY <1>2, <5>5, Calendar DEF NoMark, Ticks
          <6> QED
            BY <1>3, <1>5, <2>3, <5>5, <6>1
        <5> QED
          BY <1>2, <5>4, <5>5, CycleNumbers
      <4>2. CASE policy # "forward_only"
        <5>1. Requested' = NextIn(Start, Now)
          BY <2>1, <3>1, <4>2 DEF Requested
        <5>2. t < Start
          BY <3>2, <5>1, NextFacts, CycleNumbers
        <5>3. CASE cycle.wm # NoMark
          <6>1. Start = cycle.wm - 1
            BY <3>1, <4>2, <5>3 DEF Start
          <6> QED
            BY <1>2, <1>3, <1>5, <2>3, <5>2, <5>3, <6>1, CycleNumbers
        <5>4. CASE cycle.wm = NoMark
          <6>1. Between(0, Start - 1) \subseteq forgone'
            BY <2>1, <4>2, <5>4 DEF PassedOver
          <6>2. t \in Between(0, Start - 1)
            BY <1>2, <5>2, CycleNumbers, Calendar DEF Between, Ticks
          <6> QED
            BY <6>1, <6>2 DEF Handled
        <5> QED
          BY <5>3, <5>4
      <4> QED
        BY <4>1, <4>2
    <3> QED
      BY <2>3, <3>1, <3>2
  <2> QED
    BY <2>2, <2>3
<1>6. ASSUME Retire PROVE Opened'
  <2>1. CASE cycle' = NoCycle
    BY <2>1, NoCycleIsCycle
  <2>2. CASE cycle' # NoCycle
    <3>1. /\ cycle.pc = "clear" /\ pending' = NoWindow /\ policy' = policy /\ ~LastWindow
          /\ cycle' = [cycle EXCEPT !.pc = "open", !.cursor = cycle.end, !.retry = NoMark,
                                    !.horizon = Floor(cycle.wm), !.windows = @ + 1]
      BY <1>6, <2>2 DEF Retire, InCycle, Others
    <3>2. /\ cycle'.retry = NoMark /\ cycle'.cursor = cycle.end /\ cycle'.now = cycle.now
          /\ policy # "forward_only" /\ cycle.end \in Int /\ cycle.now \in Ticks
      BY <3>1 DEF CycleType, LastWindow
    <3>3. Requested' = NextIn(cycle.end, cycle.now)
      BY <3>1, <3>2 DEF Requested
    <3>4. pending # NoWindow /\ pending.start = cycle.cursor
      BY <3>1 DEF WindowInv, InWindow
    <3>5. ASSUME Requested' # NoWindow, NEW t \in Quoted, t < Requested'.start
          PROVE  Handled(t)'
      <4>1. t < cycle.end
        BY <3>2, <3>3, <3>5, NextFacts
      <4>2. t < cycle.cursor => Handled(t)
        BY <3>4 DEF RequestInv
      <4>3. cycle.cursor <= t => Handled(t)
        BY <1>2, <3>1, <3>2, <4>1, Retired
      <4> QED
        BY <1>1, <1>2, <3>4, <4>2, <4>3, CheckpointNumbers
    <3> QED
      BY <3>1, <3>2, <3>5
  <2> QED
    BY <2>1, <2>2
<1>7. ASSUME UNCHANGED <<policy, pending, cycle>> PROVE Opened'
  <2>1. Requested' = Requested
    BY <1>7 DEF Requested
  <2> QED
    BY <1>1, <1>7, <2>1 DEF RequestInv
<1>8. Opened' \/ cycle'.pc # "open" \/ Plan \/ Retire \/ UNCHANGED <<policy, pending, cycle>>
  <2>1. CASE cycle'.pc # "open"
    BY <2>1
  <2>2. CASE Cycle /\ ~Plan /\ ~Retire
    <3>1. cycle'.pc # "open"
      BY <2>2, NoCycleIsCycle, Fetching
      DEF Cycle, Begin, Rekey, Reindex, Checkpoint, NothingToRequest, Refuse, Mark, AppendRows,
          CommitKeys, PublishIndex, AfterIngest, CycleType
    <3> QED
      BY <3>1
  <2> QED
    BY <2>1, <2>2, Running
<1>9. Opened'
  BY <1>5, <1>6, <1>7, <1>8
<1> QED
  BY <1>4, <1>9 DEF RequestInv

-----------------------------------------------------------------------------
\* The recorder: inside a window.

\* Forward capture moves the end of its request on, and only then.
LEMMA QuoteEndFacts ==
  ASSUME CorpusInv
  PROVE  cycle.end <= QuoteEnd /\ (policy # "forward_only" => QuoteEnd = cycle.end)
<1>1. cycle.end \in Int /\ clock \in Int /\ cycle.now \in Nat
  BY CycleNumbers, Calendar DEF CorpusInv, CycleType, Ticks
<1>2. CASE policy = "forward_only" /\ cycle.end >= cycle.now /\ InSession(cycle.end - 1)
  <2> DEFINE close == Close(DayOf(cycle.end - 1))
  <2>1. close \in Int
    <3>1. cycle.end - 1 \in Int /\ Period \in Int /\ Period > 0 /\ SessionLength \in Int
      BY <1>1, Calendar
    <3> QED
      BY <3>1 DEF Close, Open, DayOf
  <2>2. cycle.end - 1 < close
    BY <1>2 DEF InSession
  <2>3. QuoteEnd = Min({Max({clock, cycle.end}), close})
    BY <1>2 DEF QuoteEnd
  <2> HIDE DEF close
  <2>4. Max({clock, cycle.end}) \in Int /\ cycle.end <= Max({clock, cycle.end})
    BY <1>1, GreaterOfTwo
  <2>5. QuoteEnd = IF Max({clock, cycle.end}) <= close THEN Max({clock, cycle.end}) ELSE close
    BY <2>1, <2>3, <2>4, LesserOfTwo
  <2> QED
    BY <1>1, <1>2, <2>1, <2>2, <2>4, <2>5
<1>3. CASE ~(policy = "forward_only" /\ cycle.end >= cycle.now /\ InSession(cycle.end - 1))
  BY <1>1, <1>3 DEF QuoteEnd
<1> QED
  BY <1>2, <1>3

\* What every step of a window leaves alone.
LEMMA InsideWindow ==
  ASSUME CorpusInv, RecorderNext \/ UNCHANGED recorderVars, InWindow'
  PROVE  \/ Checkpoint
         \/ /\ InWindow /\ UNCHANGED <<policy, pending>>
            /\ cycle'.cursor = cycle.cursor
            /\ Fetch \/ cycle'.end = cycle.end
            /\ Fetch \/ AppendRows \/ Stored' = Stored
            /\ \/ Fetch
               \/ cycle' = cycle
               \/ /\ Mark \/ AppendRows \/ CommitKeys
                  /\ cycle'.kind = cycle.kind /\ cycle'.batch = cycle.batch
                  /\ cycle'.pc # "fetch"
               \/ /\ PublishIndex /\ cycle.pc = "publish" /\ cycle'.kind = "quote"
                  /\ cycle'.pc = IF cycle.kind = "bar" THEN "fetch" ELSE "clear"
<1> USE DEF CorpusInv
<1>1. cycle'.pc \in {"fetch", "mark", "append", "commit", "publish", "clear"}
  BY DEF InWindow
<1>2. CASE UNCHANGED <<policy, files, pending, cycle>>
  BY <1>1, <1>2 DEF InWindow, files, Stored
<1>3. CASE Fetch
  BY <1>3, Fetching DEF Fetch, Others, InWindow
<1>4. CASE Mark
  BY <1>4 DEF Mark, Others, InCycle, InWindow, CycleType, Stored
<1>5. CASE AppendRows
  BY <1>5 DEF AppendRows, Others, InCycle, InWindow, CycleType
<1>6. CASE CommitKeys
  BY <1>6 DEF CommitKeys, Others, InCycle, InWindow, CycleType, files, Stored
<1>7. CASE PublishIndex
  BY <1>7 DEF PublishIndex, AfterIngest, Others, InCycle, InWindow, CycleType, files, Stored
<1>8. CASE Begin \/ Rekey \/ Reindex \/ Plan \/ NothingToRequest \/ Refuse \/ Retire
  <2>1. cycle'.pc \in {"plan", "rekey", "reindex", "open", "idle"}
    BY <1>8, NoCycleIsCycle
    DEF Begin, Rekey, Reindex, Plan, NothingToRequest, Refuse, Retire, CycleType
  <2> QED
    BY <1>1, <2>1
<1> QED
  BY <1>1, <1>2, <1>3, <1>4, <1>5, <1>6, <1>7, <1>8, Running DEF Cycle

\* The window of a cycle stays that of its checkpoint (Checkpoint, Fetch, AppendRows).
LEMMA WindowStep ==
  ASSUME CorpusInv, RecorderNext \/ UNCHANGED recorderVars
  PROVE  WindowInv'
<1> USE DEF CorpusInv
<1> SUFFICES ASSUME InWindow' PROVE WindowInv'
  BY DEF WindowInv
<1>1. \A t \in Quoted : t \in Int /\ (Handled(t) => Handled(t)')
  BY HandledStays, Calendar DEF Ticks
<1>2. cycle.end \in Int /\ cycle.cursor \in Int /\ \A k \in Keys : Minute(k) \in Int
  BY KeyFacts, Calendar DEF CycleType, Ticks
\* The request is written down: what is asked for is inside it.
<1>3. CASE Checkpoint
  <2>1. /\ cycle.pc = "open" /\ Requested # NoWindow /\ policy' = policy /\ Stored' = Stored
        /\ pending' = [start |-> Requested.start, end |-> Requested.end, policy |-> policy]
        /\ cycle'.pc = "fetch" /\ cycle'.kind = "bar"
        /\ cycle'.cursor = Requested.start /\ cycle'.end = Requested.end
    BY <1>3 DEF Checkpoint, InCycle, Others, CycleType, files, Stored
  <2>2. /\ pending' # NoWindow /\ pending'.start = cycle'.cursor /\ pending'.policy = policy'
        /\ pending'.end = cycle'.end /\ cycle'.end \in Int
    BY <2>1, RecordIsWindow, RequestFacts
  <2>3. ASSUME NEW k \in Stored, NEW t \in Quoted, t <= Minute(k)
        PROVE  Handled(t) \/ (cycle'.cursor <= t /\ t <= cycle'.end)
    <3>1. Handled(t) \/ Asked(t)
      BY <2>3 DEF BehindInv
    <3>2. CASE cycle.retry = NoMark
      BY <2>1, <3>1, <3>2 DEF RequestInv, Asked
    <3>3. CASE cycle.retry # NoMark
      <4>1. pending = [start |-> cycle.cursor, end |-> cycle.retry, policy |-> policy]
            /\ policy # "forward_only"
        BY <2>1, <3>3 DEF RequestInv
      <4>2. Requested = [start |-> cycle.cursor, end |-> cycle.retry]
        BY <3>3 DEF Requested
      <4> QED
        BY <2>1, <3>1, <4>1, <4>2 DEF Asked
    <3> QED
      BY <3>2, <3>3
  <2>4. \A k \in Stored', t \in Quoted :
          t <= Minute(k) => Handled(t)' \/ (cycle'.cursor <= t /\ t <= cycle'.end)
    BY <1>1, <2>1, <2>3
  <2> QED
    BY <2>1, <2>2, <2>4 DEF WindowInv
\* Later steps of the window.
<1>4. CASE InWindow /\ UNCHANGED <<policy, pending>> /\ cycle'.cursor = cycle.cursor
  <2>1. /\ pending # NoWindow /\ pending.start = cycle.cursor /\ pending.policy = policy
        /\ pending.end <= cycle.end
        /\ policy # "forward_only" \/ (cycle.pc = "fetch" /\ cycle.kind = "bar")
           => cycle.end = pending.end
        /\ \A k \in Stored, t \in Quoted :
             t <= Minute(k) => Handled(t) \/ (cycle.cursor <= t /\ t <= cycle.end)
        /\ cycle.pc \in {"mark", "append", "commit"} =>
             \A k \in cycle.batch : /\ cycle.cursor <= Minute(k)
                                    /\ Minute(k) <= IF cycle.kind = "bar" THEN pending.end
                                                    ELSE cycle.end
    BY <1>4 DEF WindowInv
  <2>2. pending.end \in Int /\ pending.start \in Int
    BY <2>1, CheckpointNumbers
  <2>3. CASE Fetch
    <3>1. /\ cycle.pc = "fetch" /\ ~Refused /\ Stored' = Stored
          /\ cycle'.end = IF cycle.kind = "bar" THEN QuoteEnd ELSE cycle.end
          /\ cycle'.batch = Unrecorded
          /\ Unrecorded = {} => cycle'.kind = "quote"
          /\ Unrecorded # {} => cycle'.kind = cycle.kind /\ cycle'.pc # "fetch"
      BY <2>3, Fetching DEF Fetch, files, Stored
    <3>2. cycle'.end \in Int /\ cycle.end <= cycle'.end
          /\ (policy # "forward_only" => cycle'.end = cycle.end)
      BY <1>2, <3>1, QuoteEndFacts, CycleNumbers
    <3>3. \A k \in Stored', t \in Quoted :
            t <= Minute(k) => Handled(t)' \/ (cycle'.cursor <= t /\ t <= cycle'.end)
      BY <1>1, <1>2, <1>4, <2>1, <3>1, <3>2
    <3>4. ASSUME NEW k \in Unrecorded
          PROVE  /\ cycle.cursor <= Minute(k)
                 /\ Minute(k) <= IF cycle'.kind = "bar" THEN pending.end ELSE cycle'.end
      <4>1. /\ k \in Keys /\ k[1] = cycle.kind /\ Minute(k) >= cycle.cursor
            /\ Available(k) <= cycle.end /\ cycle'.kind = cycle.kind
        BY <3>1, <3>4 DEF Unrecorded, Response
      <4>2. CASE cycle.kind = "bar"
        BY <1>2, <2>1, <2>2, <3>1, <4>1, <4>2 DEF Available
      <4>3. CASE cycle.kind # "bar"
        BY <1>2, <3>1, <4>1, <4>3 DEF Available
      <4> QED
        BY <4>2, <4>3
    <3>5. policy # "forward_only" \/ (cycle'.pc = "fetch" /\ cycle'.kind = "bar")
          => cycle'.end = pending.end
      BY <2>1, <3>1, <3>2
    <3> QED
      BY <1>2, <1>4, <2>1, <2>2, <3>1, <3>2, <3>3, <3>4, <3>5 DEF WindowInv
  <2>4. ASSUME cycle'.end = cycle.end PROVE
          \A k \in Stored', t \in Quoted :
            t <= Minute(k) => Handled(t)' \/ (cycle'.cursor <= t /\ t <= cycle'.end)
    <3> SUFFICES ASSUME NEW k \in Stored', NEW t \in Quoted, t <= Minute(k)
                 PROVE  Handled(t) \/ (cycle.cursor <= t /\ t <= cycle.end)
      BY <1>1, <1>4, <2>4
    <3>1. CASE k \in Stored
      BY <2>1, <3>1
    <3>2. CASE k \in cycle.batch /\ cycle.pc = "append"
      <4>1. k \in Keys /\ Minute(k) <= cycle.end
        BY <1>2, <2>1, <2>2, <3>2 DEF CycleType
      <4>2. t < pending.start => Handled(t)
        BY <2>1 DEF RequestInv
      <4> QED
        BY <1>1, <1>2, <2>1, <2>2, <4>1, <4>2
    <3>3. backfill.pc = "idle" /\ cycle.pc # "idle"
      BY <1>4 DEF Exclusion, InWindow
    <3> QED
      BY <3>1, <3>2, <3>3, Filing DEF RemovePartition, InBackfill
  <2>5. CASE cycle' = cycle
    BY <1>4, <2>1, <2>4, <2>5 DEF WindowInv
  <2>6. CASE /\ Mark \/ AppendRows \/ CommitKeys
             /\ cycle'.kind = cycle.kind /\ cycle'.batch = cycle.batch
             /\ cycle'.pc # "fetch" /\ cycle'.end = cycle.end
    <3>1. cycle'.pc \in {"mark", "append", "commit"} => cycle.pc \in {"mark", "append", "commit"}
      BY <2>6 DEF Mark, AppendRows, CommitKeys, InCycle
    <3> QED
      BY <1>4, <2>1, <2>4, <2>6, <3>1 DEF WindowInv
  <2>7. CASE /\ PublishIndex /\ cycle'.kind = "quote" /\ cycle'.end = cycle.end
             /\ cycle'.pc \in {"fetch", "clear"}
    BY <1>4, <2>1, <2>4, <2>7 DEF WindowInv
  <2> QED
    BY <2>3, <2>5, <2>6, <2>7, <1>3, InsideWindow
<1> QED
  BY <1>3, <1>4, InsideWindow

\* When the quotes were fetched, every quote of the request is stored or in the batch.
LEMMA FilledStep ==
  ASSUME CorpusInv, RecorderNext \/ UNCHANGED recorderVars
  PROVE  FilledInv'
<1> USE DEF CorpusInv
<1>1. CASE ~InWindow' \/ Checkpoint
  BY <1>1 DEF FilledInv, InWindow, Checkpoint, CycleType
<1>2. CASE Fetch
  <2>1. /\ cycle.pc = "fetch" /\ ~Refused /\ Stored' = Stored
        /\ cycle'.end = IF cycle.kind = "bar" THEN QuoteEnd ELSE cycle.end
        /\ cycle'.cursor = cycle.cursor /\ cycle'.batch = Unrecorded
        /\ Unrecorded = {} =>
             cycle'.pc = IF cycle.kind = "bar" THEN "fetch" ELSE "clear"
        /\ Unrecorded # {} =>
             /\ cycle'.kind = cycle.kind
             /\ cycle'.pc = IF Tardy(Unrecorded) = {} THEN "append" ELSE "mark"
    BY <1>2, Fetching DEF Fetch, files, Stored
  <2>2. Response \subseteq Stored \cup Unrecorded
    BY <2>1, UnrecordedIsNew
  <2>3. CASE cycle.kind = "bar"
    BY <2>1, <2>3 DEF FilledInv
  <2>4. CASE cycle.kind = "quote"
    <3>1. ASSUME NEW t \in Quoted, cycle.cursor <= t, t <= cycle.end
          PROVE  <<"quote", t>> \in Stored \cup Unrecorded
      <4>1. <<"quote", t>> \in Keys /\ Minute(<<"quote", t>>) = t
        BY KeyFacts
      <4>2. <<"quote", t>> \in Response
        BY <2>4, <3>1, <4>1, Calendar DEF Response, Available, CycleType, Ticks
      <4> QED
        BY <2>2, <4>2
    <3> QED
      BY <2>1, <2>4, <3>1 DEF FilledInv
  <2> QED
    BY <2>3, <2>4 DEF CycleType
<1>3. CASE /\ cycle'.cursor = cycle.cursor /\ cycle'.end = cycle.end
           /\ cycle' = cycle /\ Stored' = Stored
  BY <1>3 DEF FilledInv
<1>4. CASE /\ Mark \/ AppendRows \/ CommitKeys
           /\ cycle'.kind = cycle.kind /\ cycle'.batch = cycle.batch
           /\ cycle'.cursor = cycle.cursor /\ cycle'.end = cycle.end
  <2>1. CASE Mark
    <3>1. cycle.pc = "mark" /\ cycle'.pc = "append" /\ Stored' = Stored
      BY <2>1 DEF Mark, InCycle, CycleType, Stored
    <3> QED
      BY <1>4, <3>1 DEF FilledInv
  <2>2. CASE AppendRows
    <3>1. /\ cycle.pc = "append" /\ cycle'.pc = "commit" /\ Record(cycle.batch, cycle.tardy)
      BY <2>2 DEF AppendRows, InCycle, CycleType
    <3>2. Stored' = Stored \cup cycle.batch
      BY <3>1, Recording DEF BatchInv, CycleType
    <3> QED
      BY <1>4, <3>1, <3>2 DEF FilledInv
  <2>3. CASE CommitKeys
    <3>1. cycle.pc = "commit" /\ cycle'.pc = "publish" /\ Stored' = Stored
      BY <2>3 DEF CommitKeys, InCycle, CycleType, files, Stored
    <3> QED
      BY <1>4, <3>1 DEF FilledInv
  <2> QED
    BY <1>4, <2>1, <2>2, <2>3
<1>5. CASE /\ cycle.pc = "publish" /\ Stored' = Stored
           /\ cycle'.cursor = cycle.cursor /\ cycle'.end = cycle.end
           /\ cycle'.pc = IF cycle.kind = "bar" THEN "fetch" ELSE "clear"
  BY <1>5 DEF FilledInv, CycleType
<1> QED
  BY <1>1, <1>2, <1>3, <1>4, <1>5, InsideWindow DEF PublishIndex, AppendRows, InCycle

-----------------------------------------------------------------------------
\* The recorder: the theorems.

\* The inductive invariant: the caches agree with the partitions, what a cycle is about
\* to record is new, and every quote behind a watermark is dealt with or asked for.
THEOREM CorpusInvariance == RecorderSpec => []CorpusInv
<1>1. CorpusInv /\ [RecorderNext]_recorderVars => CorpusInv'
  BY CorpusTypeStep, CacheTypeStep, WindowTypeStep, CycleTypeStep, BackfillTypeStep,
     ExclusionStep, RecentStep, BatchStep, LateStep, MarkStep, BehindStep, PastMarkStep,
     RequestStep, WindowStep, FilledStep
  DEF CorpusInv
<1> QED
  BY <1>1, RecorderInitially, PTL DEF RecorderSpec

\* The type invariant of the recorder's files, caches and checkpoint.
THEOREM CorpusTyping == RecorderSpec => []RecorderTypeOK
<1>1. CorpusInv => RecorderTypeOK
  BY DEF CorpusInv, CorpusType, CacheType, WindowType, RecorderTypeOK, Minutes
<1> QED
  BY <1>1, CorpusInvariance, PTL

\* Deduplication: no event key is recorded twice, over kills in the middle of an append,
\* over caches that were not written and over backfills that replace a session.
THEOREM KeysOnce == RecorderSpec => []KeyRecordedOnce
<1>1. CorpusInv => KeyRecordedOnce
  BY DEF CorpusInv, CorpusType, KeyRecordedOnce
<1> QED
  BY <1>1, CorpusInvariance, PTL

\* The watermark passes no quote: what lies behind it is recorded, checkpointed or
\* was passed over knowingly.
THEOREM QuotesKept == RecorderSpec => []NoQuotePassed
<1>1. ASSUME CorpusInv, NEW t \in Quoted, t <= Prepared.wm, t \notin forgone
      PROVE  <<"quote", t>> \in Stored \/ (pending # NoWindow /\ t \in Unfinished(Prepared.wm))
  <2>1. Prepared.wm \in Minutes /\ Prepared.wm \in Int /\ t \in Ticks /\ t \in Int /\ t >= 0
    BY <1>1, PreparedFacts, Calendar DEF Minutes, Ticks, NoMark
  <2>2. Reached(Prepared.wm)
    <3>1. \/ NewestMinute(Stored) = NoMark
          \/ \E k \in Stored : Minute(k) = NewestMinute(Stored)
      BY NewestFacts, FileFacts
    <3>2. \A k \in Stored : Minute(k) \in Int
      BY KeyFacts, FileFacts, Calendar DEF Ticks
    <3> QED
      BY <1>1, <3>1, <3>2, PreparedFacts DEF Reached, CorpusInv, MarkInv
  <2>3. PICK k \in Stored : Prepared.wm <= Minute(k)
    BY <1>1, <2>1, <2>2 DEF Reached, NoMark
  <2>4. t <= Minute(k)
    BY <1>1, <2>1, <2>3, KeyFacts, FileFacts, Calendar DEF Ticks
  <2>5. Handled(t) \/ Asked(t)
    BY <1>1, <2>4 DEF CorpusInv, BehindInv
  <2> QED
    BY <1>1, <2>1, <2>5, CheckpointNumbers DEF Handled, Asked
<1>2. CorpusInv => NoQuotePassed
  BY <1>1 DEF NoQuotePassed
<1> QED
  BY <1>2, CorpusInvariance, PTL

\* Provenance: a snapshot takes no row for forward capture that was observed too late,
\* except on a day whose overwrite died between its marker and its partition.
THEOREM LateMarked == RecorderSpec => []LateIsNeverForward
<1>1. CorpusInv => LateIsNeverForward
  BY DEF CorpusInv, LateInv, LateIsNeverForward, LockFree, Historical
<1> QED
  BY <1>1, CorpusInvariance, PTL
===============================================================================
