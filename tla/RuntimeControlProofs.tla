------------------------ MODULE RuntimeControlProofs ------------------------
(***************************************************************************)
(* Proofs about RuntimeControl for every set of trader processes and every *)
(* bound.                                                                  *)
(*                                                                         *)
(* None of the safety properties is inductive.  OneMutator follows from    *)
(* LockInv: which phases of each process hold the run lock, and in which   *)
(* of them its flatten runs.  ResumeOnlyFlat needs ResumeInv, what the     *)
(* reads of a resume have established so far, and LockInv, which keeps     *)
(* every trader from entering meanwhile.  NoEntryPastLossLimit needs       *)
(* RiskInv: the recorded baseline is never taken after the loss.           *)
(***************************************************************************)
EXTENDS RuntimeControl, TLAPS

Holding    == {"cleanup", "boot", "boot_cleanup", "loop", "risk", "enter",
               "cycle_flatten", "final"}
InFlatten  == {"cleanup", "boot_cleanup", "cycle_flatten", "final"}
Recovering == {"first", "second", "flatten"}

(* The Boolean-valued part of the state's type.                            *)
Flags ==
    /\ operator_pause \in BOOLEAN
    /\ pos \in BOOLEAN
    /\ under \in BOOLEAN
    /\ running \in [Traders -> BOOLEAN]
    /\ cleaned \in [Traders -> BOOLEAN]
    /\ owner \in [Traders -> BOOLEAN]
    /\ term \in [Traders -> BOOLEAN]

(* Who holds the run lock, and whose flatten may be under way.             *)
LockInv ==
    /\ \A t \in Traders : trader[t] \in Holding => lock = t
    /\ wd # "idle" => lock = "watchdog"
    /\ sup \in Recovering => lock = "recovery"
    /\ op # "idle" => lock = "operator"
    /\ \A t \in Traders : flat[t] # "idle" => trader[t] \in InFlatten
    /\ flat["watchdog"] # "idle" => wd = "flatten"
    /\ flat["recovery"] # "idle" => sup = "flatten"
    /\ flat["operator"] # "idle" => op = "flatten"

(* What the reads of a resume have shown is still so.                      *)
ResumeInv ==
    /\ op \in {"confirm_positions", "confirm_orders", "clear"} => order = "none"
    /\ op \in {"confirm_orders", "clear"} => ~pos

(* A loss is only ever measured against a baseline from before it.         *)
RiskInv ==
    /\ ~risk_day.low
    /\ under => risk_day.date = day

-----------------------------------------------------------------------------
(* Every variable keeps its type (every step of every process).            *)
THEOREM Typing == Spec => []TypeOK
<1> USE DEF durable, broker, engine, watchers, bounds, Procs, Polling, Finished
<1>1. Init => TypeOK
  <2>1. Init => Flags
    BY Zenon DEF Init, Flags
  <2> QED
    BY <2>1, RuntimeControlAssumption
    DEF RuntimeControlAssumption, Init, Flags, TypeOK
<1>2. TypeOK /\ [Next]_vars => TypeOK'
  <2> SUFFICES ASSUME TypeOK, [Next]_vars PROVE TypeOK'
    OBVIOUS
  <2> USE RuntimeControlAssumption DEF RuntimeControlAssumption, TypeOK
  <2>1. CASE Fill
    BY <2>1 DEF Fill
  <2>2. CASE CancelDone
    BY <2>2 DEF CancelDone
  <2>3. CASE LegFills
    <3>1. Flags'
    BY <2>3, Zenon DEF LegFills, Flags
    <3> QED
    BY <2>3, <3>1 DEF LegFills, Flags
  <2>4. CASE EquityMoves
    BY <2>4 DEF EquityMoves
  <2>5. CASE NewDay
    <3>1. Flags'
    BY <2>5, Zenon DEF NewDay, Flags
    <3> QED
    BY <2>5, <3>1 DEF NewDay, Flags
  <2>6. CASE HeartbeatAges
    BY <2>6 DEF HeartbeatAges
  <2>7. CASE SupervisorStarts
    BY <2>7 DEF SupervisorStarts
  <2>8. CASE Park
    BY <2>8 DEF Park
  <2>9. CASE MonitorEnds
    <3>1. Flags'
    BY <2>9, Zenon DEF MonitorEnds, Flags
    <3> QED
    BY <2>9, <3>1 DEF MonitorEnds, Flags
  <2>10. CASE KillChild
    <3>1. Flags'
    BY <2>10, Zenon DEF KillChild, Gone, LockWithout, Flags
    <3> QED
    BY <2>10, <3>1 DEF KillChild, Gone, LockWithout, Flags
  <2>11. CASE Reaped
    BY <2>11 DEF Reaped
  <2>12. CASE RecoverLock
    <3>1. Flags'
    BY <2>12, Zenon DEF RecoverLock, Acquire, CommitPause, Paused, Flags
    <3> QED
    BY <2>12, <3>1 DEF RecoverLock, Acquire, CommitPause, Paused, Flags
  <2>13. CASE RecoverReads
    BY <2>13 DEF RecoverReads, LockWithout, Flattening
  <2>14. CASE RecoverDone
    BY <2>14 DEF RecoverDone, LockWithout, Flattening
  <2>15. CASE SupervisorDies
    BY <2>15 DEF SupervisorDies, Fault, LockWithout, Flattening
  <2>16. CASE WatchdogLocks
    BY <2>16 DEF WatchdogLocks, Acquire
  <2>17. CASE WatchdogReads
    BY <2>17 DEF WatchdogReads, LockWithout, Flattening, Transfer
  <2>18. CASE WatchdogDone
    BY <2>18 DEF WatchdogDone, LockWithout, Flattening
  <2>19. CASE WatchdogFails
    BY <2>19 DEF WatchdogFails, Fault, LockWithout, Flattening
  <2>20. CASE OperatorFlattens
    BY <2>20 DEF OperatorFlattens, Command, Acquire, Flattening
  <2>21. CASE OperatorResumes
    BY <2>21 DEF OperatorResumes, Command, Acquire
  <2>22. CASE FlattenDone
    BY <2>22 DEF FlattenDone, LockWithout, Flattening
  <2>23. CASE ResumeStep
    BY <2>23 DEF ResumeStep, ResumeGuard, ResumeNext
  <2>24. CASE ClearPause
    <3>1. Flags'
    BY <2>24, Zenon DEF ClearPause, ResumeGuard, LockWithout, Flags
    <3> QED
    BY <2>24, <3>1 DEF ClearPause, ResumeGuard, LockWithout, Flags
  <2>25. CASE ResumeBlocked
    BY <2>25 DEF ResumeBlocked, LockWithout
  <2>26. ASSUME NEW t \in Traders, Launch(t) PROVE TypeOK'
    BY <2>26 DEF Launch, Goto
  <2>27. ASSUME NEW t \in Traders, Construct(t) PROVE TypeOK'
    <3>1. Flags'
    BY <2>27, Zenon DEF Construct, Acquire, Goto, Flattening, Flags
    <3> QED
    BY <2>27, <3>1 DEF Construct, Acquire, Goto, Flattening, Flags
  <2>28. ASSUME NEW t \in Traders, CleanupDone(t) PROVE TypeOK'
    <3>1. Flags'
    BY <2>28, Zenon DEF CleanupDone, Goto, Flattening, LockWithout,
       CommitPause, Paused, Flags
    <3> QED
    BY <2>28, <3>1 DEF CleanupDone, Goto, Flattening, LockWithout,
       CommitPause, Paused, Flags
  <2>29. ASSUME NEW t \in Traders, RunLock(t) PROVE TypeOK'
    <3>1. Flags'
    BY <2>29, Zenon DEF RunLock, Acquire, StartRuntime, Goto, CloseRuntime,
       Paused, Gone, LockWithout, Flags
    <3> QED
    BY <2>29, <3>1 DEF RunLock, Acquire, StartRuntime, Goto, CloseRuntime,
       Paused, Gone, LockWithout, Flags
  <2>30. ASSUME NEW t \in Traders, Boot(t) PROVE TypeOK'
    <3>1. Flags'
    BY <2>30, Zenon DEF Boot, CloseRuntime, Paused, Gone, LockWithout, Goto,
       Flattening, Flags
    <3> QED
    BY <2>30, <3>1 DEF Boot, CloseRuntime, Paused, Gone, LockWithout, Goto,
       Flattening, Flags
  <2>31. ASSUME NEW t \in Traders, CycleHold(t) PROVE TypeOK'
    BY <2>31 DEF CycleHold
  <2>32. ASSUME NEW t \in Traders, CycleFlatten(t) PROVE TypeOK'
    BY <2>32 DEF CycleFlatten, Goto, Flattening
  <2>33. ASSUME NEW t \in Traders, CycleFlattened(t) PROVE TypeOK'
    <3>1. Flags'
    BY <2>33, Zenon DEF CycleFlattened, Goto, Flattening, CommitPause,
       Paused, Flags
    <3> QED
    BY <2>33, <3>1 DEF CycleFlattened, Goto, Flattening, CommitPause, Paused,
       Flags
  <2>34. ASSUME NEW t \in Traders, CycleStart(t) PROVE TypeOK'
    BY <2>34 DEF CycleStart, Goto
  <2>35. ASSUME NEW t \in Traders, CycleRisk(t) PROVE TypeOK'
    BY <2>35 DEF CycleRisk, RiskDay, Goto, Flattening
  <2>36. ASSUME NEW t \in Traders, Enter(t) PROVE TypeOK'
    BY <2>36 DEF Enter, Goto
  <2>37. ASSUME NEW t \in Traders, FinalFlatten(t) PROVE TypeOK'
    BY <2>37 DEF FinalFlatten, Goto, Flattening
  <2>38. ASSUME NEW t \in Traders, FinalDone(t) PROVE TypeOK'
    <3>1. Flags'
    BY <2>38, Zenon DEF FinalDone, CloseRuntime, Paused, Gone, LockWithout,
       Flags
    <3> QED
    BY <2>38, <3>1 DEF FinalDone, CloseRuntime, Paused, Gone, LockWithout,
       Flags
  <2>39. ASSUME NEW t \in Traders, HandleSigterm(t) PROVE TypeOK'
    <3>1. Flags'
    BY <2>39, Zenon DEF HandleSigterm, Gone, LockWithout, CommitPause,
       Paused, Flags
    <3> QED
    BY <2>39, <3>1 DEF HandleSigterm, Gone, LockWithout, CommitPause, Paused,
       Flags
  <2>40. ASSUME NEW t \in Traders, TraderDies(t) PROVE TypeOK'
    <3>1. Flags'
    BY <2>40, Zenon DEF TraderDies, Fault, Gone, LockWithout, Alive, Flags
    <3> QED
    BY <2>40, <3>1 DEF TraderDies, Fault, Gone, LockWithout, Alive, Flags
  <2>41. ASSUME NEW p \in Procs, FlattenFails(p) PROVE TypeOK'
    BY <2>41 DEF FlattenFails, Fault, Flattening
  <2>42. ASSUME NEW p \in Procs, FlattenBegin(p) PROVE TypeOK'
    BY <2>42 DEF FlattenBegin, Swept, Flattening
  <2>43. ASSUME NEW p \in Procs, PollPositions(p) PROVE TypeOK'
    BY <2>43 DEF PollPositions, Flattening
  <2>44. ASSUME NEW p \in Procs, PollOrders(p) PROVE TypeOK'
    <3>1. Flags'
    BY <2>44, Zenon DEF PollOrders, Flattening, Swept, Flags
    <3> QED
    BY <2>44, <3>1 DEF PollOrders, Flattening, Swept, Flags
  <2>45. CASE UNCHANGED vars
    BY <2>45 DEF vars
  <2> QED
    BY <2>1, <2>2, <2>3, <2>4, <2>5, <2>6, <2>7, <2>8, <2>9, <2>10, <2>11,
       <2>12, <2>13, <2>14, <2>15, <2>16, <2>17, <2>18, <2>19, <2>20, <2>21,
       <2>22, <2>23, <2>24, <2>25, <2>26, <2>27, <2>28, <2>29, <2>30, <2>31,
       <2>32, <2>33, <2>34, <2>35, <2>36, <2>37, <2>38, <2>39, <2>40, <2>41,
       <2>42, <2>43, <2>44, <2>45
    DEF Next, Broker, Supervise, Watch, Operate, Flatten, Trade
<1> QED
  BY <1>1, <1>2, PTL DEF Spec

-----------------------------------------------------------------------------
(* The run lock covers what it has to cover, at every step.                *)
LEMMA Locking == Spec => []LockInv
<1> USE DEF durable, broker, engine, watchers, bounds, Procs, Polling, Finished,
        Holding, InFlatten, Recovering
<1>1. Init => LockInv
  BY DEF Init, LockInv
<1>2. TypeOK /\ LockInv /\ [Next]_vars => LockInv'
  <2> SUFFICES ASSUME TypeOK, LockInv, [Next]_vars PROVE LockInv'
    OBVIOUS
  <2> USE RuntimeControlAssumption DEF RuntimeControlAssumption, TypeOK, LockInv
  <2>1. CASE Fill
    BY <2>1 DEF Fill
  <2>2. CASE CancelDone
    BY <2>2 DEF CancelDone
  <2>3. CASE LegFills
    BY <2>3 DEF LegFills
  <2>4. CASE EquityMoves
    BY <2>4 DEF EquityMoves
  <2>5. CASE NewDay
    BY <2>5 DEF NewDay
  <2>6. CASE HeartbeatAges
    BY <2>6 DEF HeartbeatAges
  <2>7. CASE SupervisorStarts
    BY <2>7 DEF SupervisorStarts
  <2>8. CASE Park
    BY <2>8 DEF Park
  <2>9. CASE MonitorEnds
    BY <2>9 DEF MonitorEnds
  <2>10. CASE KillChild
    BY <2>10 DEF KillChild, Gone, LockWithout
  <2>11. CASE Reaped
    BY <2>11 DEF Reaped
  <2>12. CASE RecoverLock
    BY <2>12 DEF RecoverLock, Acquire, CommitPause, Paused
  <2>13. CASE RecoverReads
    BY <2>13 DEF RecoverReads, LockWithout, Flattening
  <2>14. CASE RecoverDone
    BY <2>14 DEF RecoverDone, LockWithout, Flattening
  <2>15. CASE SupervisorDies
    BY <2>15 DEF SupervisorDies, Fault, LockWithout, Flattening
  <2>16. CASE WatchdogLocks
    BY <2>16 DEF WatchdogLocks, Acquire
  <2>17. CASE WatchdogReads
    BY <2>17 DEF WatchdogReads, LockWithout, Flattening, Transfer
  <2>18. CASE WatchdogDone
    BY <2>18 DEF WatchdogDone, LockWithout, Flattening
  <2>19. CASE WatchdogFails
    BY <2>19 DEF WatchdogFails, Fault, LockWithout, Flattening
  <2>20. CASE OperatorFlattens
    BY <2>20 DEF OperatorFlattens, Command, Acquire, Flattening
  <2>21. CASE OperatorResumes
    BY <2>21 DEF OperatorResumes, Command, Acquire
  <2>22. CASE FlattenDone
    BY <2>22 DEF FlattenDone, LockWithout, Flattening
  <2>23. CASE ResumeStep
    BY <2>23 DEF ResumeStep, ResumeGuard, ResumeNext
  <2>24. CASE ClearPause
    BY <2>24 DEF ClearPause, ResumeGuard, LockWithout
  <2>25. CASE ResumeBlocked
    BY <2>25 DEF ResumeBlocked, LockWithout
  <2>26. ASSUME NEW t \in Traders, Launch(t) PROVE LockInv'
    BY <2>26 DEF Launch, Goto, Alive
  <2>27. ASSUME NEW t \in Traders, Construct(t) PROVE LockInv'
    BY <2>27 DEF Construct, Acquire, Goto, Flattening
  <2>28. ASSUME NEW t \in Traders, CleanupDone(t) PROVE LockInv'
    BY <2>28 DEF CleanupDone, Goto, Flattening, LockWithout, CommitPause,
       Paused
  <2>29. ASSUME NEW t \in Traders, RunLock(t) PROVE LockInv'
    BY <2>29 DEF RunLock, Acquire, StartRuntime, Goto, CloseRuntime, Paused,
       Gone, LockWithout
  <2>30. ASSUME NEW t \in Traders, Boot(t) PROVE LockInv'
    BY <2>30 DEF Boot, CloseRuntime, Paused, Gone, LockWithout, Goto,
       Flattening
  <2>31. ASSUME NEW t \in Traders, CycleHold(t) PROVE LockInv'
    BY <2>31 DEF CycleHold
  <2>32. ASSUME NEW t \in Traders, CycleFlatten(t) PROVE LockInv'
    BY <2>32 DEF CycleFlatten, Goto, Flattening
  <2>33. ASSUME NEW t \in Traders, CycleFlattened(t) PROVE LockInv'
    BY <2>33 DEF CycleFlattened, Goto, Flattening, CommitPause, Paused
  <2>34. ASSUME NEW t \in Traders, CycleStart(t) PROVE LockInv'
    BY <2>34 DEF CycleStart, Goto
  <2>35. ASSUME NEW t \in Traders, CycleRisk(t) PROVE LockInv'
    BY <2>35 DEF CycleRisk, RiskDay, Goto, Flattening
  <2>36. ASSUME NEW t \in Traders, Enter(t) PROVE LockInv'
    BY <2>36 DEF Enter, Goto
  <2>37. ASSUME NEW t \in Traders, FinalFlatten(t) PROVE LockInv'
    BY <2>37 DEF FinalFlatten, Goto, Flattening
  <2>38. ASSUME NEW t \in Traders, FinalDone(t) PROVE LockInv'
    BY <2>38 DEF FinalDone, CloseRuntime, Paused, Gone, LockWithout
  <2>39. ASSUME NEW t \in Traders, HandleSigterm(t) PROVE LockInv'
    BY <2>39 DEF HandleSigterm, Gone, LockWithout, CommitPause, Paused
  <2>40. ASSUME NEW t \in Traders, TraderDies(t) PROVE LockInv'
    BY <2>40 DEF TraderDies, Fault, Gone, LockWithout, Alive
  <2>41. ASSUME NEW p \in Procs, FlattenFails(p) PROVE LockInv'
    BY <2>41 DEF FlattenFails, Fault, Flattening
  <2>42. ASSUME NEW p \in Procs, FlattenBegin(p) PROVE LockInv'
    BY <2>42 DEF FlattenBegin, Swept, Flattening
  <2>43. ASSUME NEW p \in Procs, PollPositions(p) PROVE LockInv'
    BY <2>43 DEF PollPositions, Flattening
  <2>44. ASSUME NEW p \in Procs, PollOrders(p) PROVE LockInv'
    BY <2>44 DEF PollOrders, Flattening, Swept
  <2>45. CASE UNCHANGED vars
    BY <2>45 DEF vars
  <2> QED
    BY <2>1, <2>2, <2>3, <2>4, <2>5, <2>6, <2>7, <2>8, <2>9, <2>10, <2>11,
       <2>12, <2>13, <2>14, <2>15, <2>16, <2>17, <2>18, <2>19, <2>20, <2>21,
       <2>22, <2>23, <2>24, <2>25, <2>26, <2>27, <2>28, <2>29, <2>30, <2>31,
       <2>32, <2>33, <2>34, <2>35, <2>36, <2>37, <2>38, <2>39, <2>40, <2>41,
       <2>42, <2>43, <2>44, <2>45
    DEF Next, Broker, Supervise, Watch, Operate, Flatten, Trade
<1> QED
  BY <1>1, <1>2, Typing, PTL DEF Spec

-----------------------------------------------------------------------------
(* No two processes are ever inside an entry or a flatten together
   (run lock, its hand-over by the watchdog, its release by the OS).       *)
THEOREM Exclusion == Spec => []OneMutator
<1>1. TypeOK /\ LockInv => OneMutator
  <2> SUFFICES ASSUME TypeOK, LockInv, NEW p \in Procs, Mutating(p)
               PROVE lock = p
    BY DEF OneMutator
  <2>1. CASE p \in Traders
    BY <2>1 DEF LockInv, Mutating, Holding, InFlatten, Polling
  <2>2. CASE p \in {"watchdog", "recovery", "operator"}
    BY <2>2, RuntimeControlAssumption
    DEF RuntimeControlAssumption, LockInv, Mutating, Polling, Recovering
  <2> QED
    BY <2>1, <2>2 DEF Procs
<1> QED
  BY <1>1, Typing, Locking, PTL

-----------------------------------------------------------------------------
(* What a resume has read stays true until it clears the pause.            *)
LEMMA Reading == Spec => []ResumeInv
<1> USE DEF durable, broker, engine, watchers, bounds
<1>1. Init => ResumeInv
  BY DEF Init, ResumeInv
<1>2. TypeOK /\ LockInv /\ ResumeInv /\ [Next]_vars => ResumeInv'
  <2> SUFFICES ASSUME TypeOK, LockInv, ResumeInv, [Next]_vars PROVE ResumeInv'
    OBVIOUS
  <2> USE DEF ResumeInv
  <2>1. CASE Fill
    BY <2>1 DEF Fill
  <2>2. CASE CancelDone
    BY <2>2 DEF CancelDone
  <2>3. CASE LegFills
    BY <2>3 DEF LegFills
  <2>4. CASE OperatorFlattens
    BY <2>4 DEF OperatorFlattens, Command, Acquire, Flattening
  <2>5. CASE OperatorResumes
    BY <2>5 DEF OperatorResumes, Command, Acquire
  <2>6. CASE FlattenDone
    BY <2>6 DEF FlattenDone, LockWithout, Flattening
  <2>7. CASE ResumeStep
    BY <2>7 DEF ResumeStep, ResumeGuard, ResumeNext, TypeOK
  <2>8. CASE ClearPause
    BY <2>8 DEF ClearPause, ResumeGuard, LockWithout
  <2>9. CASE ResumeBlocked
    BY <2>9 DEF ResumeBlocked, LockWithout
  <2>10. ASSUME NEW t \in Traders, Enter(t) PROVE ResumeInv'
    BY <2>10, RuntimeControlAssumption DEF Enter, Goto,
       RuntimeControlAssumption, LockInv, Holding
  <2>11. ASSUME NEW p \in Procs, FlattenBegin(p) PROVE ResumeInv'
    BY <2>11 DEF FlattenBegin, Swept, Flattening
  <2>12. ASSUME NEW p \in Procs, PollOrders(p) PROVE ResumeInv'
    BY <2>12 DEF PollOrders, Flattening, Swept
  <2>13. CASE \/ EquityMoves \/ NewDay \/ HeartbeatAges \/ SupervisorStarts
              \/ Park \/ MonitorEnds \/ KillChild \/ Reaped \/ RecoverLock
              \/ RecoverReads \/ RecoverDone \/ SupervisorDies
              \/ WatchdogLocks \/ WatchdogReads \/ WatchdogDone
              \/ WatchdogFails
    BY <2>13 DEF EquityMoves, NewDay, HeartbeatAges, SupervisorStarts, Park,
       MonitorEnds, KillChild, Reaped, RecoverLock, RecoverReads,
       RecoverDone, SupervisorDies, WatchdogLocks, WatchdogReads,
       WatchdogDone, WatchdogFails, Fault, LockWithout
  <2>14. ASSUME NEW t \in Traders,
               \/ Launch(t) \/ Construct(t) \/ CleanupDone(t) \/ RunLock(t)
               \/ Boot(t) \/ CycleHold(t) \/ CycleFlatten(t)
               \/ CycleFlattened(t) \/ CycleStart(t) \/ CycleRisk(t)
               \/ FinalFlatten(t) \/ FinalDone(t) \/ HandleSigterm(t)
               \/ TraderDies(t)
         PROVE ResumeInv'
    <3>1. CASE Launch(t)
      BY <3>1 DEF Launch
    <3>2. CASE Construct(t)
      BY <3>2 DEF Construct
    <3>3. CASE CleanupDone(t)
      BY <3>3 DEF CleanupDone
    <3>4. CASE RunLock(t)
      BY <3>4 DEF RunLock
    <3>5. CASE Boot(t)
      BY <3>5 DEF Boot
    <3>6. CASE CycleHold(t)
      BY <3>6 DEF CycleHold
    <3>7. CASE CycleFlatten(t)
      BY <3>7 DEF CycleFlatten
    <3>8. CASE CycleFlattened(t)
      BY <3>8 DEF CycleFlattened
    <3>9. CASE CycleStart(t)
      BY <3>9 DEF CycleStart
    <3>10. CASE CycleRisk(t)
      BY <3>10 DEF CycleRisk
    <3>11. CASE FinalFlatten(t)
      BY <3>11 DEF FinalFlatten
    <3>12. CASE FinalDone(t)
      BY <3>12 DEF FinalDone
    <3>13. CASE HandleSigterm(t)
      BY <3>13 DEF HandleSigterm
    <3>14. CASE TraderDies(t)
      BY <3>14 DEF TraderDies
    <3> QED
      BY <2>14, <3>1, <3>2, <3>3, <3>4, <3>5, <3>6, <3>7,
         <3>8, <3>9, <3>10, <3>11, <3>12, <3>13, <3>14
  <2>15. ASSUME NEW p \in Procs, FlattenFails(p) \/ PollPositions(p)
        PROVE ResumeInv'
    BY <2>15 DEF FlattenFails, PollPositions
  <2>16. CASE UNCHANGED vars
    BY <2>16 DEF vars
  <2> QED
    BY <2>1, <2>2, <2>3, <2>4, <2>5, <2>6, <2>7, <2>8, <2>9, <2>10, <2>11,
       <2>12, <2>13, <2>14, <2>15, <2>16
    DEF Next, Broker, Supervise, Watch, Operate, Flatten, Trade
<1> QED
  BY <1>1, <1>2, Typing, Locking, PTL DEF Spec

(* A pause is only cleared on a flat account (resume()).                   *)
THEOREM Resumption == Spec => ResumeOnlyFlat
<1>1. ResumeInv /\ [Next]_vars
        => [operator_pause /\ ~operator_pause' => ~pos /\ order = "none"]_vars
  <2> SUFFICES ASSUME ResumeInv, Next, operator_pause, ~operator_pause'
               PROVE op = "clear"
    BY DEF ResumeInv
  <2> USE DEF durable
  <2>1. CASE ClearPause
    BY <2>1 DEF ClearPause
  <2>2. CASE \/ Fill \/ CancelDone \/ LegFills \/ EquityMoves \/ NewDay
             \/ HeartbeatAges \/ SupervisorStarts \/ Park \/ MonitorEnds
             \/ KillChild \/ Reaped \/ RecoverLock \/ RecoverReads
             \/ RecoverDone \/ SupervisorDies \/ WatchdogLocks
             \/ WatchdogReads \/ WatchdogDone \/ WatchdogFails
             \/ OperatorFlattens \/ OperatorResumes \/ FlattenDone
             \/ ResumeStep \/ ResumeBlocked
    BY <2>2 DEF Fill, CancelDone, LegFills, EquityMoves, NewDay,
       HeartbeatAges, SupervisorStarts, Park, MonitorEnds, KillChild, Reaped,
       RecoverLock, RecoverReads, RecoverDone, SupervisorDies, WatchdogLocks,
       WatchdogReads, WatchdogDone, WatchdogFails, OperatorFlattens,
       OperatorResumes, FlattenDone, ResumeStep, ResumeBlocked, CommitPause,
       Command
  <2>3. ASSUME NEW t \in Traders, Trade(t) \/ Launch(t) PROVE FALSE
    BY <2>3 DEF Trade, Launch, Construct, CleanupDone, RunLock, Boot,
       CycleHold, CycleFlatten, CycleFlattened, CycleStart, CycleRisk, Enter,
       FinalFlatten, FinalDone, HandleSigterm, TraderDies, CommitPause,
       CloseRuntime
  <2>4. ASSUME NEW p \in Procs, Flatten(p) PROVE FALSE
    BY <2>4 DEF Flatten, FlattenFails, FlattenBegin, PollPositions,
       PollOrders
  <2> QED
    BY <2>1, <2>2, <2>3, <2>4 DEF Next, Broker, Supervise, Watch, Operate
<1> QED
  BY <1>1, Reading, PTL DEF Spec, ResumeOnlyFlat

-----------------------------------------------------------------------------
(* The day's baseline is never recorded over a loss already made.          *)
LEMMA Baseline == Spec => []RiskInv
<1> USE DEF durable, broker
<1>1. Init => RiskInv
  BY DEF Init, RiskInv
<1>2. TypeOK /\ RiskInv /\ [Next]_vars => RiskInv'
  <2> SUFFICES ASSUME TypeOK, RiskInv, [Next]_vars PROVE RiskInv'
    OBVIOUS
  <2> USE DEF RiskInv
  <2>1. CASE EquityMoves
    BY <2>1 DEF EquityMoves
  <2>2. CASE NewDay
    BY <2>2 DEF NewDay
  <2>3. ASSUME NEW t \in Traders, RunLock(t) PROVE RiskInv'
    BY <2>3 DEF RunLock, Acquire, StartRuntime, Goto, CloseRuntime, Paused,
       Gone, LockWithout
  <2>4. ASSUME NEW t \in Traders, CycleRisk(t) PROVE RiskInv'
    BY <2>4 DEF CycleRisk, RiskDay, Goto, Flattening
  <2>5. CASE \/ Fill \/ CancelDone \/ LegFills \/ HeartbeatAges
             \/ SupervisorStarts \/ Park \/ MonitorEnds \/ KillChild
             \/ Reaped \/ RecoverLock \/ RecoverReads \/ RecoverDone
             \/ SupervisorDies \/ WatchdogLocks \/ WatchdogReads
             \/ WatchdogDone \/ WatchdogFails \/ OperatorFlattens
             \/ OperatorResumes \/ FlattenDone \/ ResumeStep \/ ClearPause
             \/ ResumeBlocked
    BY <2>5 DEF Fill, CancelDone, LegFills, HeartbeatAges, SupervisorStarts,
       Park, MonitorEnds, KillChild, Reaped, RecoverLock, RecoverReads,
       RecoverDone, SupervisorDies, WatchdogLocks, WatchdogReads,
       WatchdogDone, WatchdogFails, OperatorFlattens, OperatorResumes,
       FlattenDone, ResumeStep, ClearPause, ResumeBlocked, CommitPause,
       Command
  <2>6. ASSUME NEW t \in Traders,
               \/ Launch(t) \/ Construct(t) \/ CleanupDone(t) \/ Boot(t)
               \/ CycleHold(t) \/ CycleFlatten(t) \/ CycleFlattened(t)
               \/ CycleStart(t) \/ Enter(t) \/ FinalFlatten(t)
               \/ FinalDone(t) \/ HandleSigterm(t) \/ TraderDies(t)
        PROVE RiskInv'
    BY <2>6 DEF Launch, Construct, CleanupDone, Boot, CycleHold,
       CycleFlatten, CycleFlattened, CycleStart, Enter, FinalFlatten,
       FinalDone, HandleSigterm, TraderDies, CommitPause, CloseRuntime
  <2>7. ASSUME NEW p \in Procs, 
               \/ FlattenFails(p) \/ FlattenBegin(p)
               \/ PollPositions(p) \/ PollOrders(p)
        PROVE RiskInv'
    BY <2>7 DEF FlattenFails, FlattenBegin, PollPositions, PollOrders
  <2>8. CASE UNCHANGED vars
    BY <2>8 DEF vars
  <2> QED
    BY <2>1, <2>2, <2>3, <2>4, <2>5, <2>6, <2>7, <2>8
    DEF Next, Broker, Supervise, Watch, Operate, Flatten, Trade
<1> QED
  BY <1>1, <1>2, Typing, PTL DEF Spec

(* No cycle goes on to entries at or below the day's loss limit, over deaths
   and restarts (_update_daily_risk, start_runtime).                       *)
THEOREM LossLimit == Spec => NoEntryPastLossLimit
<1> DEFINE Step == \A t \in Traders :
                     trader[t] = "risk" /\ trader'[t] = "enter" => ~under
<1>1. TypeOK /\ RiskInv /\ Next => Step
  <2> SUFFICES ASSUME TypeOK, RiskInv, Next, NEW t \in Traders,
                      trader[t] = "risk", trader'[t] = "enter"
               PROVE ~under
    OBVIOUS
  <2> USE DEF engine, TypeOK
  <2>1. CASE \/ Fill \/ CancelDone \/ LegFills \/ EquityMoves \/ NewDay
             \/ HeartbeatAges \/ SupervisorStarts \/ Park \/ MonitorEnds
             \/ KillChild \/ Reaped \/ RecoverLock \/ RecoverReads
             \/ RecoverDone \/ SupervisorDies \/ WatchdogLocks
             \/ WatchdogReads \/ WatchdogDone \/ WatchdogFails
             \/ OperatorFlattens \/ OperatorResumes \/ FlattenDone
             \/ ResumeStep \/ ClearPause \/ ResumeBlocked
    BY <2>1 DEF Fill, CancelDone, LegFills, EquityMoves, NewDay,
       HeartbeatAges, SupervisorStarts, Park, MonitorEnds, KillChild, Reaped,
       RecoverLock, RecoverReads, RecoverDone, SupervisorDies, WatchdogLocks,
       WatchdogReads, WatchdogDone, WatchdogFails, OperatorFlattens,
       OperatorResumes, FlattenDone, ResumeStep, ClearPause, ResumeBlocked,
       Gone, Command
  <2>2. ASSUME NEW u \in Traders, CycleRisk(u) PROVE ~under
    BY <2>2 DEF CycleRisk, Goto, RiskDay, RiskInv
  <2>3. ASSUME NEW u \in Traders, Trade(u) \/ Launch(u), ~CycleRisk(u)
        PROVE FALSE
    BY <2>3 DEF Trade, Launch, Construct, CleanupDone, RunLock, Boot,
       CycleHold, CycleFlatten, CycleFlattened, CycleStart, Enter,
       FinalFlatten, FinalDone, HandleSigterm, TraderDies, Goto, Gone
  <2>4. ASSUME NEW p \in Procs, Flatten(p) PROVE FALSE
    BY <2>4 DEF Flatten, FlattenFails, FlattenBegin, PollPositions,
       PollOrders
  <2> QED
    BY <2>1, <2>2, <2>3, <2>4 DEF Next, Broker, Supervise, Watch, Operate
<1>2. Step /\ vars' = vars => Step
  OBVIOUS
<1> QED
  BY <1>1, Typing, Baseline, PTL DEF Spec, NoEntryPastLossLimit
=============================================================================
