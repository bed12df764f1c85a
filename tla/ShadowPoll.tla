------------------------------ MODULE ShadowPoll ------------------------------
(***************************************************************************)
(* The poll of the live shadow worker (research/live_shadow.py): recorder  *)
(* rows are read from the corpus into an append-only event log, evaluated  *)
(* by the authorizing arm, and each completed session is replayed and its  *)
(* evidence kept for the gates. Every write is a transaction of its own;   *)
(* the worker may die between any two of them.                             *)
(*                                                                         *)
(* Abstractions: one source file, one arm, one symbol; a row is a session  *)
(* and a bar of it, appended whole; time is the number of the batch that   *)
(* inserted a row. A replay is known by the rows it was given: its entry   *)
(* signatures are the first signal bar among them, its trades are taken to *)
(* differ whenever those rows do. The session catalog, the manifest and    *)
(* the diagnostic lane are left out.                                       *)
(***************************************************************************)
EXTENDS Integers, FiniteSets, FiniteSetsExt, Sequences

CONSTANTS
  LastSession,    \* sessions are 1..LastSession, one a day
  Bars,           \* the bars of a session, in their order in time
  SignalBars,     \* the bars on which the arm enters
  ClosingBars,    \* the bars whose end reaches the close of the session
  MaxPending,     \* MAX_PENDING_CORPUS_BYTES, in rows
  Retention,      \* batches a replay diff is kept for
  MaxOdd,         \* rows the recorder may append out of order or malformed
  MaxPollFaults   \* deaths of the worker, failed evaluations and replays

ASSUME SessionAssumption == LastSession \in Nat \ {0}
ASSUME BarAssumption == /\ Bars \subseteq Nat
                        /\ SignalBars \subseteq Bars /\ ClosingBars \subseteq Bars
ASSUME BoundAssumption ==
  {MaxPending, Retention, MaxOdd, MaxPollFaults} \subseteq Nat

Sessions == 1..LastSession
Rows == [s : Sessions, b : Bars]

VARIABLES
  today,      \* the session of today
  corpus,     \* the rows of the source file, in file order
  bad,        \* those of them that do not normalize at present
  odd,        \* rows appended out of order or malformed so far
  registered, \* the edge ledger holds an eligible candidate
  offset,     \* corpus_source_offsets
  invalid,    \* quarantine_events
  skipped,    \* quarantine_through_session, 0 when absent
  events,     \* inserted_at of each row, 0 when it is not in the log
  batches,    \* the number of the last batch
  floor,      \* forward_event_floor
  since,      \* the time of the first poll that had the candidate, 0 before
  decided,    \* rows with a durable decision of the arm
  opened,     \* those of them decided as an entry
  books,      \* entries whose virtual book is open
  diff,       \* replay_diffs, one row per session
  trades,     \* shadow_trades
  accounts,   \* shadow_accounts
  repair,     \* sessions quarantined for repair of their replay
  pruned,     \* history: the sessions whose diff retention has deleted
  memo,       \* the process's memo of completed replays
  poll,       \* the local state of the poll in progress
  pollFaults
recorder == <<today, corpus, bad, odd, registered>>
source == <<offset, invalid, skipped, events, batches>>
evidence == <<diff, trades, accounts, repair, pruned>>
arm == <<decided, opened, books>>
pollVars == <<recorder, source, floor, since, arm, evidence, memo, poll, pollFaults>>

-----------------------------------------------------------------------------
\* What the poll computes.

\* The entry an evaluation or a replay of these rows makes: the first signal
\* opens, and the open position refuses the others.
Entries(rows) ==
  {r \in rows : r.b \in SignalBars /\ \A q \in rows : q.b \in SignalBars => r.b <= q.b}

InLog == {r \in Rows : events[r] # 0}
OfSession(rows, s) == {r \in rows : r.s = s}
Complete(rows) == \E r \in rows : r.b \in ClosingBars

\* The status of a replay that raised nothing.
Parity(shadow, rows) == IF shadow = Entries(rows) THEN "match" ELSE "mismatch"

Gated(s) ==
  /\ diff[s].status = "match"
  /\ \E t \in trades : t.s = s /\ t.digest = diff[s].digest /\ t.status = "match"

\* Everything a memo binds: the events up to the close, the quarantines, the
\* replay and its account, and the open books.
MemoKey(s) ==
  [prefix |-> {<<r, events[r]>> : r \in {q \in InLog : q.s <= s}},
   invalid |-> {r \in invalid : r.s <= s},
   repair |-> {q \in repair : q <= s},
   replay |-> <<diff[s], {a \in accounts : a.s = s /\ a.digest = diff[s].digest}>>,
   books |-> books,
   through |-> {r \in opened : r.s <= s}]
Hit(s) == memo[s].kept /\ memo[s].key = MemoKey(s)

NoDiff == [status |-> "none", digest |-> {}, rows |-> {}, at |-> 0]
NoMemo == [kept |-> FALSE, ok |-> FALSE, key |-> <<>>]
Idle == [pc |-> "idle", active |-> FALSE, unread |-> FALSE, view |-> {}, again |-> {},
         upto |-> 0, todo |-> {}, fresh |-> {}, shadow |-> {}, replayed |-> {},
         blocked |-> FALSE, ingested |-> FALSE]

PollInit ==
  /\ today = 1 /\ corpus = <<>> /\ bad = {} /\ odd = 0
  /\ registered \in BOOLEAN
  /\ offset = 0 /\ invalid = {} /\ skipped = 0
  /\ events = [r \in Rows |-> 0] /\ batches = 0 /\ floor = 0 /\ since = 0
  /\ decided = {} /\ opened = {} /\ books = {}
  /\ diff = [s \in Sessions |-> NoDiff] /\ trades = {} /\ accounts = {}
  /\ repair = {} /\ pruned = {}
  /\ memo = [s \in Sessions |-> NoMemo]
  /\ poll = Idle /\ pollFaults = 0

-----------------------------------------------------------------------------
\* The recorder, the operator and the research cycle. The poll reads the corpus
\* only in the three states named here, so that what they do in any other state
\* may as well be done before or after it.
Reading == poll.pc \in {"idle", "commit", "skipThrough"}

At(pc) == poll.pc = pc
Recorded == {corpus[i] : i \in 1..Len(corpus)}
OutOfOrder(r) == \E q \in Recorded : q.s > r.s \/ (q.s = r.s /\ q.b > r.b)

RecordRow(r) ==
  /\ Reading /\ r.s <= today /\ r \notin Recorded
  /\ \E malformed \in BOOLEAN :
       LET late == OutOfOrder(r) \/ r.s < today
       IN /\ odd' = odd + (IF malformed THEN 1 ELSE 0) + (IF late THEN 1 ELSE 0)
          /\ odd' <= MaxOdd
          /\ bad' = IF malformed THEN bad \cup {r} ELSE bad
  /\ corpus' = corpus \o <<r>>
  /\ UNCHANGED <<today, registered, source, floor, since, arm, evidence, memo, poll,
                 pollFaults>>

Correct(r) ==
  /\ Reading /\ r \in bad /\ bad' = bad \ {r}
  /\ UNCHANGED <<today, corpus, odd, registered, source, floor, since, arm, evidence,
                 memo, poll, pollFaults>>

NewDay ==
  /\ Reading /\ today < LastSession /\ today' = today + 1
  /\ UNCHANGED <<corpus, bad, odd, registered, source, floor, since, arm, evidence,
                 memo, poll, pollFaults>>

Register ==
  /\ At("idle") /\ ~registered /\ registered' = TRUE
  /\ UNCHANGED <<today, corpus, bad, odd, source, floor, since, arm, evidence, memo,
                 poll, pollFaults>>

-----------------------------------------------------------------------------
\* The poll, one action per durable write.

Goto(pc) == [poll EXCEPT !.pc = pc]
NextBatch == batches + 1

Pending == Len(corpus) - offset
Batch == {corpus[i] : i \in (offset + 1)..Len(corpus)}

\* The poll reads the candidates and sizes the unread part of the corpus.
PollBegins ==
  /\ At("idle")
  /\ poll' = [Idle EXCEPT !.active = registered, !.upto = Len(corpus),
                          !.pc = IF Pending > MaxPending THEN "skip" ELSE "commit"]
  /\ since' = IF registered /\ since = 0 THEN NextBatch ELSE since
  /\ UNCHANGED <<recorder, source, floor, arm, evidence, memo, pollFaults>>

\* More is unread than the worker may load: it is skipped, explicitly.
SkipFloor ==
  /\ At("skip") /\ poll' = Goto("skipThrough")
  /\ floor' = IF poll.active THEN NextBatch ELSE floor
  /\ UNCHANGED <<recorder, source, since, arm, evidence, memo, pollFaults>>
\* A mutant: today's session, part of which is skipped, is not excluded.
SkipThroughYesterday ==
  /\ At("skipThrough") /\ poll' = [poll EXCEPT !.pc = "quarantine", !.unread = TRUE]
  /\ skipped' = today - 1
  /\ UNCHANGED <<recorder, offset, invalid, events, batches, floor, since, arm, evidence, memo,
                 pollFaults>>
SkipThrough ==
  /\ At("skipThrough") /\ poll' = [poll EXCEPT !.pc = "quarantine", !.unread = TRUE]
  /\ skipped' = today
  /\ UNCHANGED <<recorder, offset, invalid, events, batches, floor, since, arm, evidence, memo,
                 pollFaults>>

\* One transaction inserts every new row that normalizes.
CommitBatch ==
  /\ At("commit")
  /\ LET new == {r \in Batch \ bad : events[r] = 0}
     IN /\ events' = [r \in Rows |-> IF r \in new THEN NextBatch ELSE events[r]]
        /\ batches' = IF new = {} THEN batches ELSE NextBatch
        /\ poll' = [poll EXCEPT !.pc = "quarantine", !.fresh = Batch, !.upto = Len(corpus),
                                !.ingested = new # {}]
  /\ UNCHANGED <<recorder, offset, invalid, skipped, floor, since, arm, evidence, memo,
                 pollFaults>>

\* The rows that did not normalize at the time of the batch.
RefusedRows == {r \in poll.fresh : events[r] = 0}
SaveQuarantine ==
  /\ At("quarantine") /\ poll' = Goto("offsets")
  /\ invalid' = (invalid \ (poll.fresh \ RefusedRows)) \cup RefusedRows
  /\ UNCHANGED <<recorder, offset, skipped, events, batches, floor, since, arm, evidence, memo,
                 pollFaults>>

\* A source with a refused row keeps its offset: the bytes are read again.
ReadTo == IF RefusedRows = {} THEN poll.upto ELSE offset
SaveOffsets ==
  /\ At("offsets") /\ offset' = ReadTo
  /\ poll' = [poll EXCEPT !.pc = IF poll.active THEN "load" ELSE "activate",
                          !.fresh = {}]
  /\ UNCHANGED <<recorder, invalid, skipped, events, batches, floor, since, arm, evidence, memo,
                 pollFaults>>

\* Without a candidate the floor follows the log, unless something is unresolved.
Activate ==
  /\ At("activate") /\ poll' = Goto("prune")
  /\ floor' = IF /\ invalid = {} /\ repair = {} /\ ~poll.unread
                 /\ floor = 0 \/ poll.ingested
              THEN Max({floor, NextBatch}) ELSE floor
  /\ UNCHANGED <<recorder, source, since, arm, evidence, memo, pollFaults>>

\* A mutant: the bound is exclusive.
ViewAfter == {r \in InLog : events[r] > floor}
\* The rows above the floor are loaded, and the sessions to work on chosen: those
\* with unblocked rows in view, and every gated one the memo does not vouch for.
View == {r \in InLog : events[r] >= floor}
Usable(s) == s > skipped /\ ~\E r \in invalid : r.s = s
Forward == {s \in Sessions : OfSession(View, s) # {} /\ Usable(s)}
Again == {s \in Sessions : Gated(s) /\ ~Hit(s)}
Load ==
  /\ At("load")
  /\ poll' = [poll EXCEPT !.pc = "session", !.view = View, !.again = Again,
                          !.todo = Forward \cup Again,
                          !.blocked = \E s \in Sessions : Gated(s) /\ Hit(s) /\ ~memo[s].ok]
  /\ UNCHANGED <<recorder, source, floor, since, arm, evidence, memo, pollFaults>>

Session == Min(poll.todo)
\* What a replay of this session is given.
Inputs(s) == OfSession(IF s \in poll.again THEN InLog ELSE poll.view, s)
\* What is evaluated: a forward session's rows once, a repeated one's all over.
EligibleRows(s) == IF s \in poll.again THEN Inputs(s) ELSE Inputs(s) \ decided
\* An open virtual book refuses further entries in its symbol.
Evaluated(s) == IF books # {} THEN {} ELSE Entries(EligibleRows(s))
NextSession == [poll EXCEPT !.pc = "session", !.todo = @ \ {Session}, !.fresh = {},
                            !.shadow = {}]

\* The arm's decisions on the session become durable; the books of its entries
\* are opened afterwards.
Decide ==
  /\ At("session") /\ poll.todo # {}
  /\ LET s == Session
     IN /\ decided' = decided \cup EligibleRows(s)
        /\ opened' = opened \cup (Evaluated(s) \ decided)
        /\ poll' = [poll EXCEPT !.pc = "open", !.fresh = Evaluated(s) \ decided,
                                !.shadow = IF s \in poll.again THEN Evaluated(s)
                                           ELSE OfSession(opened', s)]
  /\ UNCHANGED <<recorder, source, floor, since, books, evidence, memo, pollFaults>>
OpenBooks ==
  /\ At("open") /\ books' = books \cup poll.fresh
  /\ poll' = Goto("replay")
  /\ UNCHANGED <<recorder, source, floor, since, decided, opened, evidence, memo, pollFaults>>
\* An evaluation that raises takes the arm out of the rest of the poll.
EvaluationFails ==
  /\ At("session") /\ poll.todo # {} /\ pollFaults < MaxPollFaults
  /\ poll' = [poll EXCEPT !.todo = {}, !.blocked = TRUE] /\ pollFaults' = pollFaults + 1
  /\ UNCHANGED <<recorder, source, floor, since, arm, evidence, memo>>

\* A forward session that has not closed is left for a later poll.
NotClosed ==
  /\ At("replay") /\ Session \notin poll.again /\ ~Complete(Inputs(Session))
  /\ poll' = [NextSession EXCEPT !.blocked = TRUE]
  /\ UNCHANGED <<recorder, source, floor, since, arm, evidence, memo, pollFaults>>

ReplayOf(s, status) ==
  [status |-> status, rows |-> Inputs(s), at |-> batches,
   digest |-> IF status = "incomplete" THEN {} ELSE Entries(Inputs(s))]
Replay ==
  /\ At("replay") /\ (Session \in poll.again \/ Complete(Inputs(Session)))
  /\ diff' = [diff EXCEPT ![Session] = ReplayOf(Session, Parity(poll.shadow, Inputs(Session)))]
  /\ poll' = Goto("repair")
  /\ UNCHANGED <<recorder, source, floor, since, arm, trades, accounts, repair, pruned, memo,
                 pollFaults>>
\* The simulation raises: the session is quarantined, its books stay open.
ReplayFails ==
  /\ At("replay") /\ (Session \in poll.again \/ Complete(Inputs(Session)))
  /\ pollFaults < MaxPollFaults /\ pollFaults' = pollFaults + 1
  /\ diff' = [diff EXCEPT ![Session] = ReplayOf(Session, "incomplete")]
  /\ poll' = [poll EXCEPT !.pc = "repair", !.blocked = TRUE]
  /\ UNCHANGED <<recorder, source, floor, since, arm, trades, accounts, repair, pruned, memo>>

\* A mismatch and a failed replay are quarantined; anything else repairs.
Repair ==
  /\ At("repair")
  /\ repair' = IF diff[Session].status = "match" THEN repair \ {Session}
               ELSE repair \cup {Session}
  /\ poll' = IF diff[Session].status = "incomplete"
             THEN [NextSession EXCEPT !.blocked = TRUE] ELSE Goto("evidence")
  /\ UNCHANGED <<recorder, source, floor, since, arm, diff, trades, accounts, pruned, memo,
                 pollFaults>>

\* Rows already present under the same identity are left as they are.
Account(s) == [s |-> s, digest |-> diff[s].digest, status |-> diff[s].status]
Trade(s) == [s |-> s, digest |-> diff[s].digest, rows |-> diff[s].rows,
             status |-> diff[s].status]
Evidence ==
  /\ At("evidence") /\ poll' = Goto("close")
  /\ LET s == Session
     IN /\ accounts' = IF \E a \in accounts : a.s = s /\ a.digest = diff[s].digest
                       THEN accounts ELSE accounts \cup {Account(s)}
        /\ trades' = IF \E t \in trades : /\ t.s = s /\ t.digest = diff[s].digest
                                          /\ t.rows = diff[s].rows
                     THEN trades ELSE trades \cup {Trade(s)}
  /\ UNCHANGED <<recorder, source, floor, since, arm, diff, repair, pruned, memo, pollFaults>>
CloseBooks ==
  /\ At("close") /\ books' = {r \in books : r.s # Session}
  /\ poll' = [NextSession EXCEPT !.replayed = @ \cup {Session}]
  /\ UNCHANGED <<recorder, source, floor, since, decided, opened, evidence, memo, pollFaults>>

\* All sessions are done: the replays of this poll are remembered.
Kept(s) ==
  /\ diff[s].status = "match"
  /\ \E a \in accounts : a.s = s /\ a.digest = diff[s].digest /\ a.status = "match"
Memoize ==
  /\ At("session") /\ poll.todo = {}
  /\ memo' = [s \in Sessions |->
       IF s \in poll.replayed THEN [kept |-> TRUE, ok |-> Kept(s), key |-> MemoKey(s)]
       ELSE IF Gated(s) THEN memo[s] ELSE NoMemo]
  /\ poll' = [poll EXCEPT !.pc = "prune",
                          !.blocked = @ \/ \E s \in poll.replayed : ~Kept(s)]
  /\ UNCHANGED <<recorder, source, floor, since, arm, evidence, pollFaults>>

\* Replay diffs older than the retention are deleted. The watermark of the code is the
\* newest session of the last deletion; it may go back, so the history keeps them all.
Old == {s \in Sessions : diff[s].status # "none" /\ diff[s].at + Retention < batches}
Prune ==
  /\ At("prune")
  /\ diff' = [s \in Sessions |-> IF s \in Old THEN NoDiff ELSE diff[s]]
  /\ pruned' = pruned \cup Old
  /\ poll' = IF poll.active THEN Goto("floor") ELSE Idle
  /\ UNCHANGED <<recorder, source, floor, since, arm, trades, accounts, repair, memo,
                 pollFaults>>

\* The floor passes the rows in view once every session of theirs is settled.
\* A mutant: the blockers of the sessions are not asked.
SettledRegardless ==
  /\ poll.view # {} /\ poll.again = {}
  /\ invalid = {} /\ repair = {}
  /\ \A r \in poll.view : r.s > skipped
Settled ==
  /\ poll.view # {} /\ poll.again = {} /\ ~poll.blocked
  /\ invalid = {} /\ repair = {}
  /\ \A r \in poll.view : r.s > skipped
AdvanceFloor ==
  /\ At("floor") /\ poll' = Idle
  /\ floor' = IF Settled THEN Max({floor, 1 + Max({events[r] : r \in poll.view})}) ELSE floor
  /\ UNCHANGED <<recorder, source, since, arm, evidence, memo, pollFaults>>

\* The worker dies and is started again: only what is durable is left.
Crash ==
  /\ ~At("idle") /\ pollFaults < MaxPollFaults /\ pollFaults' = pollFaults + 1
  /\ poll' = Idle /\ memo' = [s \in Sessions |-> NoMemo]
  /\ UNCHANGED <<recorder, source, floor, since, arm, evidence>>

Poll ==
  \/ PollBegins \/ SkipFloor \/ SkipThrough \/ CommitBatch \/ SaveQuarantine \/ SaveOffsets
  \/ Activate \/ Load \/ Decide \/ OpenBooks \/ NotClosed \/ Replay \/ Repair \/ Evidence
  \/ CloseBooks \/ Memoize \/ Prune \/ AdvanceFloor
PollNext ==
  \/ \E r \in Rows : RecordRow(r) \/ Correct(r)
  \/ NewDay \/ Register
  \/ Poll \/ EvaluationFails \/ ReplayFails \/ Crash

PollSpec == PollInit /\ [][PollNext]_pollVars
FairPollSpec == PollSpec /\ WF_pollVars(Poll)

-----------------------------------------------------------------------------
\* Properties.

\* The shape of the durable state and of the poll's own.
PollTypeOK ==
  /\ corpus \in Seq(Rows) /\ offset \in 0..Len(corpus) /\ today \in Sessions
  /\ invalid \subseteq Rows /\ skipped \in 0..LastSession /\ pruned \subseteq Sessions
  /\ events \in [Rows -> 0..batches]
  /\ floor \in 0..(batches + 1) /\ since \in 0..(batches + 1)
  /\ opened \subseteq decided /\ decided \subseteq InLog /\ books \subseteq opened
  /\ \A s \in Sessions : /\ diff[s].status \in {"none", "match", "mismatch", "incomplete"}
                         /\ diff[s].digest \subseteq diff[s].rows
                         /\ diff[s].rows \subseteq OfSession(InLog, s)
  /\ repair \subseteq Sessions /\ poll.todo \subseteq Sessions
  /\ pollFaults \in 0..MaxPollFaults

\* The saved offset never leaves a row behind that is neither in the log, nor
\* quarantined, nor in a session excluded as a whole ("without duplicating them
\* or skipping uncommitted source bytes").
NoRowSkipped ==
  \A i \in 1..offset :
    corpus[i] \in InLog \/ corpus[i] \in invalid \/ corpus[i].s <= skipped

\* A row the arm should see is behind the floor only when the arm decided on it
\* and its session was replayed, or the session is excluded as a whole, or is
\* about to be (the unread part of the corpus only grows).
FloorBehindEvidence ==
  \A r \in InLog :
    since # 0 /\ since <= events[r] /\ events[r] < floor =>
      \/ r.s <= skipped \/ r.s \in pruned \/ Pending > MaxPending
      \/ r \in decided /\ diff[r.s].status # "none"

\* A session whose close the arm could see is replayed in the end, whatever died
\* or failed on the way, unless its rows stay malformed or it was skipped.
ClosedSessionReplayed ==
  \A s \in Sessions :
    []<>(\/ ~\E r \in InLog : r.s = s /\ r.b \in ClosingBars /\ since # 0 /\ since <= events[r]
         \/ \E r \in invalid : r.s = s
         \/ s <= skipped \/ s \in pruned
         \/ diff[s].status # "none")
=============================================================================
