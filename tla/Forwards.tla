------------------------------ MODULE Forwards ------------------------------
(***************************************************************************)
(* local.ListForwards: the forwarding events of a period are read page by  *)
(* page, from the offset at which the last page ended to the second in     *)
(* which the call began.  LND logs new events meanwhile.  An event is the  *)
(* number it has in the log since startTime, among those that match the    *)
(* channel.                                                                *)
(***************************************************************************)
EXTENDS Integers, Sequences

CONSTANTS
    MaxForwardingEvents,  \* events per request: 50,000
    MaxLogged,            \* bound: events since startTime
    MaxClock              \* bound: seconds

ASSUME ForwardsAssumption ==
    MaxForwardingEvents \in Nat \ {0} /\ MaxLogged \in Nat /\ MaxClock \in Nat

VARIABLES
    clock,    \* seconds
    logged,   \* events since startTime
    matched,  \* those of them that are not later than now
    atCall,   \* those there were when the call began
    pc,       \* "idle", "paging", "done" or "failed"
    now,      \* end of the period
    offset,   \* index of the last event of the last page
    events    \* what the call has collected

vars == <<clock, logged, matched, atCall, pc, now, offset, events>>

(* Types.  The offset of a request never passes the end of the log         *)
(* (ListForwards).                                                         *)
TypeOK ==
    /\ clock \in Nat /\ logged \in Nat /\ now \in Nat
    /\ matched \in 0 .. logged /\ atCall \in 0 .. logged
    /\ pc \in {"idle", "paging", "done", "failed"}
    /\ offset \in 0 .. matched
    /\ events \in Seq(1 .. matched)

Init ==
    /\ clock = 0 /\ now = 0
    /\ logged \in 0 .. MaxLogged
    /\ matched = logged
    /\ atCall = 0
    /\ pc = "idle"
    /\ offset = 0
    /\ events = << >>

Call ==
    /\ pc = "idle"
    /\ pc' = "paging"
    /\ now' = clock
    /\ atCall' = logged
    /\ UNCHANGED <<clock, logged, matched, offset, events>>

(* LND answers with the events after the offset, as many as fit.           *)
Answer ==
    LET most == offset + MaxForwardingEvents
    IN  [i \in 1 .. (IF matched < most THEN matched ELSE most) - offset |-> offset + i]

(* Mutant: the offset of the answer is not used.                           *)
PageAgain ==
    /\ pc = "paging"
    /\ events' = events \o Answer
    /\ pc' = IF Len(Answer) # MaxForwardingEvents THEN "done" ELSE "paging"
    /\ UNCHANGED <<clock, logged, matched, atCall, now, offset>>

(* Mutant: the offset moves by whole pages, also behind the last one.      *)
PageWhole ==
    /\ pc = "paging"
    /\ events' = events \o Answer
    /\ pc' = IF Len(Answer) # MaxForwardingEvents THEN "done" ELSE "paging"
    /\ offset' = offset + MaxForwardingEvents
    /\ UNCHANGED <<clock, logged, matched, atCall, now>>

(* A page that is not full is the last one.                                *)
Page ==
    /\ pc = "paging"
    /\ events' = events \o Answer
    /\ IF Len(Answer) # MaxForwardingEvents
       THEN pc' = "done" /\ UNCHANGED offset
       ELSE pc' = pc /\ offset' = offset + Len(Answer)
    /\ UNCHANGED <<clock, logged, matched, atCall, now>>

(* An error discards what has been collected.                              *)
Fail ==
    /\ pc = "paging"
    /\ pc' = "failed"
    /\ events' = << >>
    /\ UNCHANGED <<clock, logged, matched, atCall, now, offset>>

Log ==
    /\ logged < MaxLogged
    /\ logged' = logged + 1
    /\ matched' = IF pc = "idle" \/ clock = now THEN matched + 1 ELSE matched
    /\ UNCHANGED <<clock, atCall, pc, now, offset, events>>

Tick ==
    /\ clock < MaxClock
    /\ clock' = clock + 1
    /\ UNCHANGED <<logged, matched, atCall, pc, now, offset, events>>

Next == Call \/ Page \/ Fail \/ Log \/ Tick

Spec == Init /\ [][Next]_vars

(* What has been collected are the first events of the period, each once   *)
(* and in order, although the log grows between two pages, and in the end  *)
(* none that was there when the call began is missing (ListForwards).      *)
Complete ==
    /\ events = [i \in 1 .. Len(events) |-> i]
    /\ pc = "paging" => Len(events) = offset
    /\ pc = "done" => Len(events) \in atCall .. matched

(* ClosingProofs: inductive.                                               *)
Inv ==
    /\ TypeOK
    /\ Complete
    /\ atCall <= matched
    /\ pc = "idle" => offset = 0 /\ events = << >> /\ matched = logged
=============================================================================
