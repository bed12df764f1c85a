---------------------------- MODULE ResearchNight ----------------------------
(***************************************************************************)
(* The nightly research job around the strategy factory: the scheduler     *)
(* (deploy/scheduler.py) runs deploy/research-cycle.sh once a day, and the *)
(* script runs the stages one after the other: preparation of the corpus,  *)
(* discovery, the factory of FactoryCycle, the ingestion of live-shadow    *)
(* evidence. Any stage may end the night, the job may be killed at its     *)
(* deadline or by a stop of the service, the container may die at any      *)
(* point; what is left is the ledger and the status file.                  *)
(*                                                                         *)
(* Abstractions: one vehicle. A stage other than the factory and the       *)
(* ingestion is its exit; discovery works on candidates of its own, and    *)
(* its exit is drawn when the script reads it. The review of trials        *)
(* appears as Demote. The corpus does not grow while a job runs. Progress, *)
(* heartbeats and reports are left out.                                    *)
(***************************************************************************)
EXTENDS FactoryCycle

VARIABLES
  board,  \* the status file: the last status written, and whether its
          \* last_run_date is today's date
  night   \* the job: its stage, the status of the factory's result, the mark
          \* its exit code left in the script, the script's final status, has
          \* the day turned since the start, has a signal told us to stop
nightVars == <<vars, board, night>>

Stages == {"down", "wait", "launch", "prepare", "discover", "factory", "ingest", "over"}
Results == {"", "skipped", "exhausted", "waiting_for_new_data", "raised", "complete",
            "partial_worker_failure", "bounded_space_exhausted", "llm_all_calls_failed"}
Marks == {"", "success", "no_edge", "unevaluable", "search_exhausted", "llm_provider_failure"}
CycleStatuses == {"", "failed", "timed_out", "no_data", "waiting_for_forward_sessions",
                  "completed", "completed_no_edge", "search_exhausted",
                  "llm_provider_failure"}

Waits == [stage |-> "wait", result |-> "", mark |-> "", end |-> "", late |-> FALSE,
          stopping |-> FALSE]
NightInit ==
  /\ Init
  /\ board = [status |-> "none", today |-> FALSE]
  /\ night = Waits

Stage(stage) == night.stage = stage
GotoStage(stage) == night' = [night EXCEPT !.stage = stage]
InJob == night.stage \in {"prepare", "discover", "factory", "ingest"}
\* The script ends with a status.
Finish(status) == night' = [night EXCEPT !.stage = "over", !.end = status]
Fault == faults < MaxFaults /\ faults' = faults + 1

-----------------------------------------------------------------------------
\* The scheduler.

\* The date changes. A job that started the day before is recorded under its
\* own date.
NewDay ==
  /\ IF night.stage \in {"down", "wait"}
     THEN board.today /\ board' = [board EXCEPT !.today = FALSE] /\ UNCHANGED night
     ELSE ~night.late /\ night' = [night EXCEPT !.late = TRUE] /\ UNCHANGED board
  /\ UNCHANGED vars
\* The job of the day is due, or the day's missed one.
Launch ==
  /\ Stage("wait") /\ ~board.today
  /\ GotoStage("launch")
  /\ UNCHANGED <<vars, board>>
\* The child is running; the date of the last run stays the one before.
Spawned ==
  /\ Stage("launch")
  /\ board' = [board EXCEPT !.status = "running"]
  /\ GotoStage("prepare")
  /\ UNCHANGED vars
SpawnFails ==
  /\ Stage("launch") /\ Fault
  /\ board' = [status |-> "failed", today |-> ~night.late]
  /\ night' = [Waits EXCEPT !.stage = IF night.stopping THEN "down" ELSE "wait"]
  /\ UNCHANGED <<last, ledger, released, proc, ingest>>
\* The job has ended: its day is spent, whatever it ended with.
Record ==
  /\ Stage("over")
  /\ board' = [status |-> night.end, today |-> ~night.late]
  /\ night' = [Waits EXCEPT !.stage = IF night.stopping THEN "down" ELSE "wait"]
  /\ UNCHANGED vars
\* The container is started again and reads the status file.
Restart ==
  /\ Stage("down") /\ night' = Waits
  /\ UNCHANGED <<vars, board>>

\* The processes of the job are killed with what they held in memory.
KillJob == proc' = Idle /\ ingest' = None /\ UNCHANGED <<last, ledger, released>>
Timeout ==
  /\ InJob /\ Fault /\ KillJob
  /\ Finish("timed_out")
  /\ UNCHANGED board
\* The process of the factory or of the ingestion dies alone, which ends the night.
ProcessDies ==
  /\ Crash /\ Finish("failed")
  /\ UNCHANGED board
\* SIGTERM: the handler passes it to the child it knows. It knows none while the
\* child is being spawned, and the job then runs to its end.
Terminate ==
  /\ Fault
  /\ \/ /\ InJob /\ KillJob
        /\ night' = [night EXCEPT !.stage = "over", !.end = "failed", !.stopping = TRUE]
     \/ /\ Stage("launch") /\ night' = [night EXCEPT !.stopping = TRUE]
        /\ UNCHANGED <<last, ledger, released, proc, ingest>>
     \/ /\ Stage("wait") /\ GotoStage("down")
        /\ UNCHANGED <<last, ledger, released, proc, ingest>>
  /\ UNCHANGED board
\* The container dies: nothing is recorded.
ContainerDies ==
  /\ InJob \/ night.stage \in {"launch", "over"}
  /\ Fault /\ KillJob
  /\ night' = [Waits EXCEPT !.stage = "down"]
  /\ UNCHANGED board

-----------------------------------------------------------------------------
\* The stages of the script.

Prepare ==
  /\ Stage("prepare") /\ GotoStage("discover")
  /\ UNCHANGED <<vars, board>>
\* Nothing is recorded yet, or too little by the census, or the corpus has no
\* bars, which skips the vehicle.
NothingPrepared ==
  /\ Stage("prepare") /\ Fault
  /\ \/ \E status \in {"no_data", "waiting_for_forward_sessions"} : Finish(status)
     \/ night' = [night EXCEPT !.stage = "over", !.result = "skipped",
                               !.end = "completed_no_edge"]
  /\ UNCHANGED <<last, ledger, released, proc, ingest, board>>
Discover ==
  /\ Stage("discover") /\ GotoStage("factory")
  /\ UNCHANGED <<vars, board>>
\* A stage that fails ends the night.
StageFails ==
  /\ night.stage \in {"prepare", "discover", "ingest"} /\ ingest = None /\ Fault
  /\ Finish("failed")
  /\ UNCHANGED <<last, ledger, released, proc, ingest, board>>

\* The exit code of the factory's process. A deployed edge that is eligible makes
\* it a success, whatever this cycle did; a corpus none of which could be priced
\* has a code of its own.
Deployed == {x \in Hypotheses \X Variants : candidate[x[1]][x[2]] = "validated"}
ExitMarks(result) ==
  (IF Deployed # {} THEN {"success"} ELSE {})
  \cup CASE result = "llm_all_calls_failed" -> {"llm_provider_failure"}
         [] result = "bounded_space_exhausted" -> {"search_exhausted"}
         [] result \in {"complete", "partial_worker_failure"} -> {"no_edge", "unevaluable"}
         [] OTHER -> {"no_edge"}
Exits(results) ==
  \E result \in results, mark \in Marks :
    /\ mark \in ExitMarks(result)
    /\ night' = [night EXCEPT !.stage = "ingest", !.result = result, !.mark = mark]
Completed ==
  {"complete", "bounded_space_exhausted"}
  \cup (IF LlmEnabled THEN {"llm_all_calls_failed"} ELSE {})

\* A mutant: a process that raised is taken for one without a proof.
FactoryStepSwallowed ==
  /\ Stage("factory")
  /\ Cycle \/ ScreenedOut \/ WorkerFails
  /\ IF proc'.pc # "idle" THEN UNCHANGED night
     ELSE CASE proc.pc = "slots" -> Exits({"exhausted"})
            [] proc.pc = "schedule" -> Exits({"waiting_for_new_data"})
            [] OTHER -> Exits(IF proc.lost THEN {"partial_worker_failure"} ELSE Completed)
  /\ UNCHANGED board
\* The factory takes a step. Its process ends after the last one, without tasks,
\* or with an error, which ends the night.
FactoryStep ==
  /\ Stage("factory")
  /\ Cycle \/ ScreenedOut \/ WorkerFails
  /\ IF proc'.pc # "idle" THEN UNCHANGED night
     ELSE CASE proc.pc = "slots" -> Exits({"exhausted"})
            [] proc.pc = "schedule" -> Exits({"waiting_for_new_data"})
            [] proc.pc = "persist" -> Exits(IF proc.lost THEN {"partial_worker_failure"}
                                            ELSE Completed)
            [] OTHER -> night' = [night EXCEPT !.stage = "over", !.result = "raised",
                                               !.end = "failed"]
  /\ UNCHANGED board
\* The corpus has a complete cycle: its stored result is returned.
Duplicate ==
  /\ Stage("factory") /\ Quiet /\ last \in done
  /\ Exits(Completed)
  /\ UNCHANGED <<vars, board>>

\* The calibration may withhold the ingestion; otherwise it promotes what its
\* evidence supports.
Ingest ==
  /\ Stage("ingest")
  /\ IngestMarks \/ \E h \in Hypotheses, v \in Variants : IngestPromotes(h, v)
  /\ UNCHANGED <<board, night>>
\* The script's verdict on the night, from what the factory and discovery left.
FinalStatus(marks) ==
  IF "success" \in marks THEN "completed"
  ELSE IF "llm_provider_failure" \in marks THEN "llm_provider_failure"
  ELSE IF "search_exhausted" \in marks THEN "search_exhausted"
  ELSE IF "unevaluable" \in marks /\ "no_edge" \notin marks THEN "no_data"
  ELSE "completed_no_edge"
Conclude ==
  /\ Stage("ingest") /\ ingest = None
  /\ \E discovered \in {"success", "no_edge", "unevaluable"} :
       Finish(FinalStatus({night.mark, discovered}))
  /\ UNCHANGED <<vars, board>>

-----------------------------------------------------------------------------
\* The night and what goes on around it.

Scheduler == Launch \/ Spawned \/ Record \/ Restart
Script == Prepare \/ Discover \/ FactoryStep \/ Duplicate \/ Ingest \/ Conclude
Between == night.stage \in {"down", "wait"} /\ UNCHANGED <<board, night>>
NightNext ==
  \/ NewDay \/ Scheduler \/ Script
  \/ SpawnFails \/ Timeout \/ ProcessDies \/ Terminate \/ ContainerDies
  \/ NothingPrepared \/ StageFails
  \/ NewSession /\ Between
  \/ \E h \in Hypotheses, v \in Variants : Demote(h, v) /\ Between

NightSpec == NightInit /\ [][NightNext]_nightVars
\* Time passes, the container is restarted, and a job that nothing kills runs on;
\* an ingestion need not promote anything.
NightWork ==
  \/ Scheduler \/ Prepare \/ Discover \/ FactoryStep \/ Duplicate \/ Conclude
  \/ IngestMarks /\ UNCHANGED <<board, night>>
FairNights == NightSpec /\ WF_nightVars(NewDay) /\ WF_nightVars(NightWork)

-----------------------------------------------------------------------------
\* Properties.

\* The shape of the status file and of the job.
NightTypeOK ==
  /\ TypeOK
  /\ board.status \in CycleStatuses \cup {"none", "running"} /\ board.today \in BOOLEAN
  /\ night.stage \in Stages /\ night.result \in Results /\ night.mark \in Marks
  /\ night.end \in CycleStatuses /\ {night.late, night.stopping} \subseteq BOOLEAN

\* A night reported as a completed one without an edge completed the cycle of its
\* corpus ("a completed no-edge cycle is a valid negative observation",
\* deploy/research-cycle.sh:356), unless a worker failed, nothing could be
\* scheduled or the vehicle was skipped: it was neither killed nor aborted.
Reported(status) == board.status = "running" /\ board'.status = status
Unobserved == {"partial_worker_failure", "exhausted", "waiting_for_new_data", "skipped"}
NegativeIsObserved ==
  [][Reported("completed_no_edge") => last \in done \/ night.result \in Unobserved]_nightVars
=============================================================================
