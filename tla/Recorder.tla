------------------------------- MODULE Recorder -------------------------------
(***************************************************************************)
(* The market recorder (deploy/recorder.py), the offline backfill          *)
(* (deploy/backfill.py) and what a research snapshot reads of their corpus *)
(* (deploy/research_snapshot.py, deploy/research_dataset.py). A cycle of   *)
(* the recorder holds the corpus lock, rebuilds its caches unless they     *)
(* demonstrably match the partitions, and fetches bounded windows: the     *)
(* bars are durable before the quotes are requested, and a checkpoint of   *)
(* the window is durable before the bars. Every write to disk is a step of *)
(* its own, and the process may be killed between any two; the kernel then *)
(* frees the lock. A snapshot is taken whenever the lock is free.          *)
(*                                                                         *)
(* Abstractions: one symbol; time in minutes; sessions of equal length     *)
(* from an exact calendar that is always known; of an index its watermark  *)
(* and its provenance. Options, coverage, revisions, telemetry, the        *)
(* storage reserve and the legacy single file are left out; the windows'   *)
(* length stays as configured; a killed append leaves whole rows, any of   *)
(* its batch.                                                              *)
(***************************************************************************)
EXTENDS Integers, FiniteSets, FiniteSetsExt

CONSTANTS
  LastTick,       \* bound: the last minute of the clock
  SessionLength,  \* minutes of a session
  Night,          \* minutes between two sessions
  Quoted,         \* the minutes with a quote; every minute of a session has a bar
  Window,         \* ALPACA_RECORDER_FETCH_WINDOW_MINUTES
  Horizon,        \* DEDUP_HORIZON
  MaxLag,         \* ALPACA_RECORDER_FORWARD_OBSERVATION_MAX_LAG_MINUTES
  MaxWindows,     \* ALPACA_RECORDER_MAX_WINDOWS_PER_CYCLE, 0 for no limit
  Policies,       \* the capture policies an operator may configure
  MaxOperations,  \* bound: changes of the policy and runs of the backfill
  MaxRecorderFaults  \* bound: killed processes and failed provider calls

Period == SessionLength + Night
Ticks == 0..LastTick
DayOf(t) == t \div Period
Days == 0..DayOf(LastTick)
Open(d) == d * Period
Close(d) == Open(d) + SessionLength
InSession(t) == t < Close(DayOf(t))

ASSUME TimeAssumption ==
  {LastTick, SessionLength, Night, Window, Horizon, MaxLag, MaxWindows,
   MaxOperations, MaxRecorderFaults} \subseteq Nat /\ SessionLength > 0 /\ Window > 0
ASSUME QuotedAssumption == Quoted \subseteq {t \in Ticks : InSession(t)}
ASSUME PolicyAssumption == Policies \subseteq {"catch_up", "forward_only"} /\ Policies # {}

\* An event key: what was observed and its minute.
Keys == ({"bar"} \X {t \in Ticks : InSession(t)}) \cup ({"quote"} \X Quoted)
Minute(k) == k[2]
Day(k) == DayOf(Minute(k))
\* as_of: a bar is knowable when its minute is over.
Available(k) == IF k[1] = "bar" THEN Minute(k) + 1 ELSE Minute(k)

NoMark == -1
NoWindow == <<>>

VARIABLES
  clock,
  policy,    \* the configured capture policy
  rows,      \* the partitions: how often each event key is recorded
  late,      \* the recorded keys whose row was observed too late
  markers,   \* the days with a provenance marker, historical_backfill
  index,     \* the aggregate JSON index
  recent,    \* the SQLite index of recent event keys
  pending,   \* the checkpoint of the window in progress, or NoWindow
  cycle,     \* the local state of a recorder cycle
  backfill,  \* the local state of a backfill
  forgone,   \* history: the minutes forward capture or a backfill passed over
  unmarked,  \* history: days whose overwrite died after it removed the marker
  operations, recorderFaults
files == <<rows, late, markers>>
caches == <<index, recent>>
history == <<forgone, unmarked>>
recorderVars == <<clock, policy, files, caches, pending, cycle, backfill, history,
                  operations, recorderFaults>>

-----------------------------------------------------------------------------
\* What the files say.

Stored == {k \in Keys : rows[k] > 0}
Partitions == {Day(k) : k \in Stored}
NewestMinute(keys) == Max({NoMark} \cup {Minute(k) : k \in keys})
Floor(wm) == IF wm = NoMark THEN NoMark ELSE wm - Horizon
\* The keys inside the deduplication window of a watermark.
RecentOf(keys, wm) == {k \in keys : Minute(k) >= Floor(wm)}

\* Mutant: the watermark alone decides whether the caches match.
CachesMatchByWatermark == recent.wm = index.wm

\* The caches match when no partition changed since they were written, both
\* carry one watermark, and the index knows every durable marker.
CachesMatch ==
  /\ index.fresh /\ recent.fresh /\ recent.wm = index.wm
  /\ markers \cap Partitions \subseteq index.sources
Scanned == [wm |-> NewestMinute(Stored), sources |-> markers \cap Partitions]
Prepared == IF CachesMatch THEN [wm |-> index.wm, sources |-> index.sources] ELSE Scanned

\* What a reader of the corpus takes for historical: the index and the markers.
Historical == index.sources \cup markers
LockFree == cycle.pc = "idle" /\ backfill.pc = "idle"

Stale == /\ index' = [index EXCEPT !.fresh = FALSE]
         /\ recent' = [recent EXCEPT !.fresh = FALSE]
Record(keys, tardy) ==
  /\ rows' = [k \in Keys |-> IF k \in keys THEN rows[k] + 1 ELSE rows[k]]
  /\ late' = late \cup (keys \cap tardy)
  /\ IF keys = {} THEN UNCHANGED caches ELSE Stale

NoCycle == [pc |-> "idle", now |-> 0, wm |-> NoMark, sources |-> {}, horizon |-> NoMark,
            cursor |-> 0, retry |-> NoMark, end |-> 0, kind |-> "bar", batch |-> {},
            tardy |-> {}, windows |-> 0]
NoBackfill == [pc |-> "idle", day |-> 0, last |-> 0, overwrite |-> FALSE, sources |-> {},
               written |-> {}]

RecorderInit ==
  /\ clock = 0 /\ policy \in Policies
  /\ rows = [k \in Keys |-> 0] /\ late = {} /\ markers = {}
  /\ index = [wm |-> NoMark, sources |-> {}, fresh |-> FALSE]
  /\ recent = [keys |-> {}, wm |-> NoMark, fresh |-> FALSE]
  /\ pending = NoWindow /\ cycle = NoCycle /\ backfill = NoBackfill
  /\ forgone = {} /\ unmarked = {} /\ operations = 0 /\ recorderFaults = 0

-----------------------------------------------------------------------------
\* A cycle of the recorder.

InCycle(pc) == cycle.pc = pc
Others == UNCHANGED <<clock, policy, backfill, operations, recorderFaults>>

\* _prepare_index: load the caches or scan the corpus.
Begin ==
  /\ LockFree
  /\ cycle' = [NoCycle EXCEPT !.pc = IF CachesMatch THEN "plan" ELSE "rekey",
                              !.now = clock, !.wm = Prepared.wm,
                              !.sources = Prepared.sources]
  /\ Others /\ UNCHANGED <<files, caches, pending, history>>
Rekey ==
  /\ InCycle("rekey") /\ cycle' = [cycle EXCEPT !.pc = "reindex"]
  /\ recent' = [keys |-> RecentOf(Stored, cycle.wm), wm |-> cycle.wm, fresh |-> TRUE]
  /\ Others /\ UNCHANGED <<files, index, pending, history>>
Reindex ==
  /\ InCycle("reindex") /\ cycle' = [cycle EXCEPT !.pc = "plan"]
  /\ index' = [wm |-> cycle.wm, sources |-> cycle.sources, fresh |-> TRUE]
  /\ Others /\ UNCHANGED <<files, recent, pending, history>>

Between(a, b) == {t \in Ticks : a <= t /\ t <= b}
Deferred ==
  pending # NoWindow /\ (pending.policy # policy \/ policy = "forward_only")
\* The newest part of a session inside [start, now], or NoWindow.
LatestIn(start, now) ==
  LET days == {d \in Days : Max({start, Open(d)}) < Min({now, Close(d)})}
  IN IF days = {} THEN NoWindow
     ELSE LET d == Max(days) IN [start |-> Max({start, Open(d)}), end |-> Min({now, Close(d)})]
\* The first bounded part of a session from the cursor on, or NoWindow.
NextIn(cursor, now) ==
  LET days == {d \in Days : Close(d) > cursor}
      d == Min(days)
      start == Max({cursor, Open(d)})
      end == Min({start + Window, Close(d), now})
  IN IF days = {} \/ end <= start THEN NoWindow ELSE [start |-> start, end |-> end]

\* Forward capture looks at the clock again once the caches are ready.
Now == IF policy = "forward_only" THEN clock ELSE cycle.now
Start ==
  IF policy = "forward_only" THEN Now - Window
  ELSE IF pending # NoWindow /\ ~Deferred THEN pending.start
  ELSE IF cycle.wm # NoMark THEN cycle.wm - 1
  ELSE Now - 3
\* The minutes of the checkpointed request. Forward capture asks for its quotes
\* past the checkpoint, and an append that was killed may have left the later of
\* them: the request reaches up to the watermark.
Unfinished(wm) ==
  Between(pending.start, IF pending.policy = "forward_only" THEN Max({pending.end, wm})
                         ELSE pending.end)
\* The minutes this start passes over: a deferred request, what forward capture
\* leaves to a backfill, and everything before a corpus begins.
PassedOver ==
  LET live == LatestIn(Start, Now)
      given == IF Deferred THEN Unfinished(cycle.wm) ELSE {}
  IN given \cup (IF policy = "forward_only" /\ live # NoWindow
                 THEN Between(cycle.wm, live.start - 1)
                 ELSE IF cycle.wm = NoMark THEN Between(0, Start - 1) ELSE {})

Plan ==
  /\ InCycle("plan")
  /\ pending' = IF Deferred THEN NoWindow ELSE pending
  /\ forgone' = forgone \cup PassedOver
  /\ cycle' = [cycle EXCEPT !.pc = "open", !.now = Now, !.cursor = Start,
                            !.horizon = Floor(cycle.wm),
                            !.retry = IF pending' = NoWindow THEN NoMark ELSE pending.end]
  /\ Others /\ UNCHANGED <<files, caches, unmarked>>

Requested ==
  IF cycle.retry # NoMark THEN [start |-> cycle.cursor, end |-> cycle.retry]
  ELSE IF policy = "forward_only" THEN LatestIn(cycle.cursor, cycle.now)
  ELSE NextIn(cycle.cursor, cycle.now)
\* Mutant: the request is not written down.
CheckpointInMemory ==
  /\ InCycle("open") /\ Requested # NoWindow
  /\ cycle' = [cycle EXCEPT !.pc = "fetch", !.kind = "bar",
                            !.cursor = Requested.start, !.end = Requested.end]
  /\ Others /\ UNCHANGED <<files, caches, pending, history>>
\* The request is durable before its bars can be.
Checkpoint ==
  /\ InCycle("open") /\ Requested # NoWindow
  /\ pending' = [start |-> Requested.start, end |-> Requested.end, policy |-> policy]
  /\ cycle' = [cycle EXCEPT !.pc = "fetch", !.kind = "bar",
                            !.cursor = Requested.start, !.end = Requested.end]
  /\ Others /\ UNCHANGED <<files, caches, history>>
NothingToRequest ==
  /\ InCycle("open") /\ Requested = NoWindow /\ cycle' = NoCycle
  /\ Others /\ UNCHANGED <<files, caches, pending, history>>

\* Forward capture asks for the quotes up to the arrival of the bars, within
\* the session.
QuoteEnd ==
  IF policy = "forward_only" /\ cycle.end >= cycle.now /\ InSession(cycle.end - 1)
  THEN Min({Max({clock, cycle.end}), Close(DayOf(cycle.end - 1))}) ELSE cycle.end
Response ==
  {k \in Keys : k[1] = cycle.kind /\ Minute(k) >= cycle.cursor
                /\ Available(k) <= cycle.end}
\* Mutant: the oldest minute the recent keys still hold is refused as well.
RefusedAtHorizon == \E k \in Response : Minute(k) <= cycle.horizon
\* A row whose uniqueness the recent keys cannot prove is refused.
Refused == \E k \in Response : Minute(k) < cycle.horizon
Unrecorded == Response \ recent.keys
Tardy(keys) == {k \in keys : clock - Available(k) > MaxLag}
AfterIngest(c) ==
  [c EXCEPT !.pc = IF c.kind = "bar" THEN "fetch" ELSE "clear", !.kind = "quote",
            !.batch = {}, !.tardy = {}]

Fetch ==
  /\ InCycle("fetch") /\ ~Refused
  /\ LET got == [cycle EXCEPT !.end = IF cycle.kind = "bar" THEN QuoteEnd ELSE @]
     IN cycle' = IF Unrecorded = {} THEN AfterIngest(got)
                 ELSE [got EXCEPT !.batch = Unrecorded, !.tardy = Tardy(Unrecorded),
                                  !.pc = IF Tardy(Unrecorded) = {} THEN "append" ELSE "mark"]
  /\ Others /\ UNCHANGED <<files, caches, pending, history>>
Refuse ==
  /\ InCycle("fetch") /\ Refused /\ cycle' = NoCycle
  /\ Others /\ UNCHANGED <<files, caches, pending, history>>

\* Mutant: the provenance waits for the index.
MarkInMemory ==
  /\ InCycle("mark")
  /\ cycle' = [cycle EXCEPT !.pc = "append", !.sources = @ \cup {Day(k) : k \in cycle.tardy}]
  /\ Others /\ UNCHANGED <<files, caches, pending, history>>
\* Provenance is durable before the rows it is about.
Mark ==
  /\ InCycle("mark")
  /\ LET days == {Day(k) : k \in cycle.tardy}
     IN /\ markers' = markers \cup days /\ unmarked' = unmarked \ days
        /\ cycle' = [cycle EXCEPT !.pc = "append", !.sources = @ \cup days]
  /\ Others /\ UNCHANGED <<rows, late, caches, pending, forgone>>
AppendRows ==
  /\ InCycle("append") /\ cycle' = [cycle EXCEPT !.pc = "commit"]
  /\ Record(cycle.batch, cycle.tardy)
  /\ Others /\ UNCHANGED <<markers, pending, history>>
\* Bars do not advance the watermark.
Advanced(c) == IF c.kind = "bar" THEN c.wm ELSE Max({c.wm, NewestMinute(c.batch)})
CommitKeys ==
  /\ InCycle("commit")
  /\ cycle' = [cycle EXCEPT !.pc = "publish", !.wm = Advanced(cycle)]
  /\ recent' = [keys |-> RecentOf(recent.keys \cup cycle.batch, cycle'.wm),
                wm |-> cycle'.wm, fresh |-> TRUE]
  /\ Others /\ UNCHANGED <<files, index, pending, history>>
PublishIndex ==
  /\ InCycle("publish") /\ cycle' = AfterIngest(cycle)
  /\ index' = [wm |-> cycle.wm, sources |-> cycle.sources, fresh |-> TRUE]
  /\ Others /\ UNCHANGED <<files, recent, pending, history>>

LastWindow ==
  \/ policy = "forward_only"
  \/ cycle.end >= cycle.now
  \/ MaxWindows > 0 /\ cycle.windows + 1 >= MaxWindows
Retire ==
  /\ InCycle("clear") /\ pending' = NoWindow
  /\ cycle' = IF LastWindow THEN NoCycle
              ELSE [cycle EXCEPT !.pc = "open", !.cursor = cycle.end, !.retry = NoMark,
                                 !.horizon = Floor(cycle.wm), !.windows = @ + 1]
  /\ Others /\ UNCHANGED <<files, caches, history>>

Cycle ==
  \/ Begin \/ Rekey \/ Reindex \/ Plan \/ Checkpoint \/ NothingToRequest \/ Fetch \/ Refuse
  \/ Mark \/ AppendRows \/ CommitKeys \/ PublishIndex \/ Retire

-----------------------------------------------------------------------------
\* The backfill of completed sessions, one partition after the other.

InBackfill(pc) == backfill.pc = pc
Beside == UNCHANGED <<clock, policy, pending, cycle, recorderFaults>>
\* Today counts only long after its close.
Completed == {d \in Days : clock > Close(d) + MaxLag}
DayBars(d) == {k \in Keys : k[1] = "bar" /\ Day(k) = d}

BeginBackfill(overwrite) ==
  /\ LockFree /\ operations < MaxOperations /\ Completed # {}
  /\ operations' = operations + 1
  /\ backfill' = [NoBackfill EXCEPT !.pc = "day", !.last = Max(Completed),
                                    !.overwrite = overwrite, !.sources = Prepared.sources]
  /\ index' = [wm |-> Prepared.wm, sources |-> Prepared.sources, fresh |-> TRUE]
  /\ recent' = IF CachesMatch THEN recent
               ELSE [keys |-> RecentOf(Stored, Prepared.wm), wm |-> Prepared.wm,
                     fresh |-> TRUE]
  /\ Beside /\ UNCHANGED <<files, history>>
SkipSession ==
  /\ InBackfill("day") /\ backfill.day <= backfill.last
  /\ backfill.day \in Partitions /\ ~backfill.overwrite
  /\ backfill' = [backfill EXCEPT !.day = @ + 1]
  /\ Beside /\ UNCHANGED <<files, caches, history, operations>>
\* An overwrite gives up the session it replaces, and removes the marker
\* before the partition.
RemoveMarker ==
  /\ InBackfill("day") /\ backfill.day <= backfill.last
  /\ backfill.day \in Partitions /\ backfill.overwrite
  /\ markers' = markers \ {backfill.day}
  /\ backfill' = [backfill EXCEPT !.pc = "unlink"]
  /\ Beside /\ UNCHANGED <<rows, late, caches, history, operations>>
RemovePartition ==
  /\ InBackfill("unlink") /\ backfill' = [backfill EXCEPT !.pc = "day"]
  /\ rows' = [k \in Keys |-> IF Day(k) = backfill.day THEN 0 ELSE rows[k]]
  /\ late' = {k \in late : Day(k) # backfill.day}
  /\ forgone' = forgone \cup Between(Open(backfill.day), Close(backfill.day))
  /\ Stale
  /\ Beside /\ UNCHANGED <<markers, unmarked, operations>>
MarkSession ==
  /\ InBackfill("day") /\ backfill.day <= backfill.last /\ backfill.day \notin Partitions
  /\ markers' = markers \cup {backfill.day} /\ unmarked' = unmarked \ {backfill.day}
  /\ backfill' = [backfill EXCEPT !.pc = "write"]
  /\ Beside /\ UNCHANGED <<rows, late, caches, forgone, operations>>
WriteSession ==
  /\ InBackfill("write")
  /\ Record(DayBars(backfill.day), Keys)
  /\ forgone' = forgone \cup Between(0, Close(backfill.day))
  /\ backfill' = [backfill EXCEPT !.pc = "day", !.day = @ + 1,
                                  !.written = @ \cup {backfill.day}]
  /\ Beside /\ UNCHANGED <<markers, unmarked, operations>>
\* The audit refuses a corpus that repeats a key; the scan rebuilds the caches.
ScanAll ==
  /\ InBackfill("day") /\ backfill.day > backfill.last
  /\ \A k \in Keys : rows[k] <= 1
  /\ recent' = [keys |-> RecentOf(Stored, Scanned.wm), wm |-> Scanned.wm, fresh |-> TRUE]
  /\ backfill' = [backfill EXCEPT !.pc = "publish"]
  /\ Beside /\ UNCHANGED <<files, index, history, operations>>
PublishBackfill ==
  /\ InBackfill("publish") /\ backfill' = NoBackfill
  /\ index' = [wm |-> Scanned.wm, sources |-> backfill.sources \cup backfill.written,
               fresh |-> TRUE]
  /\ Beside /\ UNCHANGED <<files, recent, history, operations>>

Backfill ==
  \/ SkipSession \/ RemoveMarker \/ RemovePartition \/ MarkSession \/ WriteSession
  \/ ScanAll \/ PublishBackfill

\* repair_partition_provenance marks the days of rows observed too late.
RepairProvenance ==
  /\ LockFree /\ ~({Day(k) : k \in late} \subseteq markers)
  /\ markers' = markers \cup {Day(k) : k \in late} /\ unmarked' = {}
  /\ index' = [wm |-> Prepared.wm, sources |-> markers' \cap Partitions, fresh |-> TRUE]
  /\ recent' = [keys |-> RecentOf(IF CachesMatch THEN recent.keys ELSE Stored, Prepared.wm),
                wm |-> Prepared.wm, fresh |-> TRUE]
  /\ UNCHANGED <<clock, policy, rows, late, pending, cycle, backfill, forgone,
                 operations, recorderFaults>>

-----------------------------------------------------------------------------
\* The clock, the operator and the faults.

Tick ==
  /\ clock < LastTick /\ clock' = clock + 1
  /\ UNCHANGED <<policy, files, caches, pending, cycle, backfill, history,
                 operations, recorderFaults>>
\* The recorder is restarted with another policy.
SetPolicy(p) ==
  /\ cycle.pc = "idle" /\ p # policy /\ operations < MaxOperations
  /\ policy' = p /\ operations' = operations + 1
  /\ UNCHANGED <<clock, files, caches, pending, cycle, backfill, history, recorderFaults>>

RecorderFault == recorderFaults < MaxRecorderFaults /\ recorderFaults' = recorderFaults + 1
FetchFails ==
  /\ RecorderFault /\ InCycle("fetch") /\ cycle' = NoCycle
  /\ UNCHANGED <<clock, policy, files, caches, pending, backfill, history,
                 operations>>
SessionFetchFails ==
  /\ RecorderFault /\ InBackfill("day") /\ backfill.day <= backfill.last
  /\ backfill.day \notin Partitions /\ backfill' = NoBackfill
  /\ UNCHANGED <<clock, policy, files, caches, pending, cycle, history,
                 operations>>
\* Killed: what the append had flushed stays, everything local is gone.
KillRecorder(flushed) ==
  /\ RecorderFault /\ ~InCycle("idle") /\ cycle' = NoCycle
  /\ flushed \subseteq (IF InCycle("append") THEN cycle.batch ELSE {})
  /\ Record(flushed, cycle.tardy)
  /\ UNCHANGED <<clock, policy, markers, pending, backfill, history, operations>>
KillBackfill(flushed) ==
  /\ RecorderFault /\ ~InBackfill("idle") /\ backfill' = NoBackfill
  /\ flushed \subseteq (IF InBackfill("write") THEN DayBars(backfill.day) ELSE {})
  /\ Record(flushed, Keys)
  /\ forgone' = IF flushed = {} THEN forgone
                ELSE forgone \cup Between(0, Close(backfill.day))
  /\ unmarked' = IF InBackfill("unlink") THEN unmarked \cup {backfill.day} ELSE unmarked
  /\ UNCHANGED <<clock, policy, markers, pending, cycle, operations>>

RecorderNext ==
  \/ Cycle
  \/ \E overwrite \in BOOLEAN : BeginBackfill(overwrite)
  \/ Backfill
  \/ RepairProvenance
  \/ Tick
  \/ \E p \in Policies : SetPolicy(p)
  \/ FetchFails
  \/ SessionFetchFails
  \/ \E flushed \in SUBSET cycle.batch : KillRecorder(flushed)
  \/ \E flushed \in SUBSET DayBars(backfill.day) : KillBackfill(flushed)

RecorderSpec == RecorderInit /\ [][RecorderNext]_recorderVars
\* Time passes, the recorder runs cycle after cycle and is restarted when it dies; a
\* backfill that was begun goes on until it ends or is killed.
FairRecorderSpec ==
  /\ RecorderSpec
  /\ WF_recorderVars(Tick) /\ WF_recorderVars(Cycle) /\ WF_recorderVars(Backfill)

-----------------------------------------------------------------------------
\* Properties.

RecorderTypeOK ==
  /\ clock \in Ticks /\ policy \in Policies
  /\ rows \in [Keys -> 0..2] /\ late \subseteq Keys /\ markers \subseteq Days
  /\ index \in [wm : Ticks \cup {NoMark}, sources : SUBSET Days, fresh : BOOLEAN]
  /\ recent.keys \subseteq Keys /\ recent.wm \in Ticks \cup {NoMark}
  /\ pending # NoWindow => pending.start < pending.end /\ pending.policy \in Policies

\* No event key is recorded twice, whatever a kill left of a batch and
\* whatever the caches then said of it.
KeyRecordedOnce == \A k \in Keys : rows[k] <= 1

\* The watermark the next cycle resumes from never passes a quote that is not
\* recorded, unless its window is checkpointed or was passed over knowingly.
NoQuotePassed ==
  \A t \in Quoted :
    LockFree /\ t <= Prepared.wm /\ t \notin forgone
      => \/ <<"quote", t>> \in Stored
         \/ pending # NoWindow /\ t \in Unfinished(Prepared.wm)

\* Whenever a snapshot can be taken, a row observed too late lies in a
\* partition the snapshot calls historical. Excepted is a day whose overwrite
\* died between its marker and its partition.
LateIsNeverForward ==
  LockFree => \A k \in late : Day(k) \in Historical \cup unmarked

\* A checkpoint that a backfill left behind the deduplication window is
\* refused in every cycle.
Stranded == pending # NoWindow /\ pending.start < Floor(index.wm)

\* Every quote is recorded, over kills and failed calls, unless it was passed
\* over knowingly or the recorder is stranded.
EveryQuoteRecorded ==
  \A t \in Quoted :
    clock >= t ~> (<<"quote", t>> \in Stored \/ t \in forgone \/ Stranded)
===============================================================================
