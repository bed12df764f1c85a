--------------------------- MODULE OutcomeLedger ---------------------------
(***************************************************************************)
(* What the trader promises about the learning outcome of a closed trade.  *)
(*                                                                         *)
(* Every trade the engine manages is opened, its close is booked, and the  *)
(* outcome of a booked close is settled exactly once: either the research  *)
(* ledger learns it or the ledger refuses it for good.  Nothing is learned *)
(* from a close that has not been booked, and nothing that was learned is  *)
(* ever taken back.  EdgeOutbox implements this with a journal, an atomic  *)
(* state file, an outbox and a second database.                            *)
(***************************************************************************)

CONSTANTS
    Trades,     \* the trades the runtime ever opens
    Refused     \* those whose outcome the ledger can never accept

VARIABLE stage

Init == stage = [t \in Trades |-> "new"]

(* Move every trade of S from one stage to the next; the rest stay.        *)
Advance(S, from, to) ==
    /\ S # {}
    /\ \A t \in S : stage[t] = from
    /\ stage' = [t \in Trades |-> IF t \in S THEN to ELSE stage[t]]

Open   == \E S \in SUBSET Trades : Advance(S, "new", "open")
Book   == \E S \in SUBSET Trades : Advance(S, "open", "booked")
Learn  == \E S \in SUBSET (Trades \ Refused) : Advance(S, "booked", "learned")
Refuse == \E S \in SUBSET Refused : Advance(S, "booked", "refused")

Next == Open \/ Book \/ Learn \/ Refuse

Spec == Init /\ [][Next]_stage
=============================================================================
