------------------------------- MODULE Closing -------------------------------
(***************************************************************************)
(* Which channels a run closes, and why: the configuration is loaded, the  *)
(* forwards of a month are listed page by page (module Forwards), every    *)
(* public channel is measured, and of those that are not kept the ones     *)
(* with the lowest scores are selected, down to min_channels.  Agent.tla   *)
(* allows any selection and models what becomes of it.                     *)
(***************************************************************************)
EXTENDS Forwards, Config, FiniteSets, Functions

CONSTANTS
    Files,             \* configuration files
    Counts,            \* numbers of channels that GetInfo may report
    Chans,             \* the open channels
    Private,           \* those of them that are not announced
    Keeplist,          \* agent.keeplist
    AllowForceCloses,  \* agent.allow_force_closes
    Reports,           \* what LND may say of a channel and its peer
    Event,             \* the forwarding events, by their number
    Word               \* 2^64

ASSUME ClosingAssumption ==
    /\ Files \subseteq Settings
    /\ Counts \subseteq Nat
    /\ Private \subseteq Chans
    /\ Word \in Nat \ {0}
    /\ AllowForceCloses \in BOOLEAN
    /\ \A report \in Reports :
          /\ report.active \in BOOLEAN /\ report.listed \in BOOLEAN
          /\ report.capacity \in Nat /\ report.height \in Nat
          /\ report.ping \in Nat \union {-1} /\ report.flaps \in Nat
    /\ \A i \in 1 .. MaxLogged :
          {Event[i].amtIn, Event[i].amtOut, Event[i].fee} \subseteq Nat

VARIABLES
    stage,   \* what is done next
    config,  \* the file, then the settings
    num,     \* NumChannels
    todo,    \* channels that getChannels has not come to
    value,   \* local.Channel, by the name of its heuristic
    heur,    \* local.Heuristics
    rest,    \* candidates not looked at yet
    chosen   \* channels to close

closeVars == <<stage, config, num, todo, value, heur, rest, chosen>>
allVars == <<vars, closeVars>>

Stages == {"load", "refused", "node", "forwards", "channels", "select", "over"}

Public == Chans \ Private

(* Types.  No measured value is negative: the ping time of a peer that has *)
(* just connected is replaced (getPeerInfo).                               *)
ClosingTypeOK ==
    /\ stage \in Stages
    /\ config \in Settings
    /\ num \in Nat
    /\ todo \subseteq Chans
    /\ value \in [Chans -> [CloseNames -> Nat]]
    /\ heur \in [CloseNames -> Heuristics]
    /\ rest \subseteq Public /\ chosen \subseteq Public

(* The sizing of local.GetNode and skipOpen, with these settings.          *)
Size == INSTANCE Sizing WITH
    AllocationPercent <- config.AllocationPercent,
    MinBatchSize <- config.MinBatchSize,
    MinChannels <- config.MinChannels,
    MaxChannels <- config.MaxChannels,
    MinChannelSize <- config.MinChannelSize,
    MaxChannelSize <- config.MaxChannelSize

MaxClose == Size!MaxCloseChannels(num)

CloseInit ==
    /\ Init
    /\ stage = "load"
    /\ config \in Files
    /\ num = 0
    /\ todo = Chans
    /\ value = [c \in Chans |-> [name \in CloseNames |-> 0]]
    /\ heur = [name \in CloseNames |-> New(0, FALSE)]
    /\ rest = {} /\ chosen = {}

Load ==
    /\ stage = "load"
    /\ config' = SetDefaults(config)
    /\ stage' = IF Valid(config') THEN "node" ELSE "refused"
    /\ UNCHANGED <<vars, num, todo, value, heur, rest, chosen>>

(* The number of channels includes those that ListChannels does not show.  *)
GetInfo ==
    /\ stage = "node"
    /\ num' \in Counts
    /\ stage' = "forwards"
    /\ UNCHANGED <<vars, config, todo, value, heur, rest, chosen>>

ListingForwards ==
    /\ stage = "forwards"
    /\ pc \in {"idle", "paging"}
    /\ Next
    /\ UNCHANGED closeVars

NewHeuristics(w) ==
    [name \in CloseNames |->
        IF name = "Active" THEN NewFull(0, 1, w[name], FALSE)
        ELSE New(w[name], name \in {"BlockHeight", "PingTime", "FlapCount"})]

(* An error ends the run.                                                  *)
ForwardsListed ==
    /\ stage = "forwards"
    /\ pc \in {"done", "failed"}
    /\ IF pc = "failed"
       THEN stage' = "over" /\ UNCHANGED heur
       ELSE stage' = "channels" /\ heur' = NewHeuristics(config.Close)
    /\ UNCHANGED <<vars, config, num, todo, value, rest, chosen>>

(* getForwardsInfo: an event counts on both sides, with its fee.           *)
Incoming(c) == {i \in DOMAIN events : Event[events[i]].in = c}
Outgoing(c) == {i \in DOMAIN events : Event[events[i]].out = c}

ForwardsAmount(c) ==
    SumFunction([i \in Incoming(c) |-> Event[events[i]].amtIn])
        + SumFunction([i \in Outgoing(c) |-> Event[events[i]].amtOut])

Fees(c) ==
    SumFunction([i \in Incoming(c) |-> Event[events[i]].fee])
        + SumFunction([i \in Outgoing(c) |-> Event[events[i]].fee])

(* Mutant: the ping time is taken as it is.                                *)
PingTimeRaw(report) == IF report.listed THEN report.ping ELSE 0

(* getPeerInfo: -1 for a peer that has just connected, zero for one that   *)
(* is not connected.                                                       *)
PingTime(report) ==
    IF ~report.listed THEN 0
    ELSE IF report.ping = -1 THEN 1500 ELSE report.ping

Measured(c, report) ==
    [Active |-> IF report.active THEN 1 ELSE 0,
     Capacity |-> report.capacity,
     NumForwards |-> Cardinality(Incoming(c)) + Cardinality(Outgoing(c)),
     ForwardsAmount |-> ForwardsAmount(c),
     Fees |-> Fees(c),
     BlockHeight |-> report.height,
     PingTime |-> PingTime(report),
     FlapCount |-> IF report.listed THEN report.flaps ELSE 0]

(* One turn of the loop of getChannels.                                    *)
AddChannel(c) ==
    /\ stage = "channels"
    /\ c \in todo
    /\ todo' = todo \ {c}
    /\ IF c \in Private
       THEN UNCHANGED <<value, heur>>
       ELSE \E report \in Reports :
               LET v == Measured(c, report)
               IN  /\ value' = [value EXCEPT ![c] = v]
                   /\ heur' = [name \in CloseNames |->
                         IF name = "Active" THEN heur[name]
                         ELSE Update(heur[name], v[name])]
    /\ UNCHANGED <<vars, stage, config, num, rest, chosen>>

Candidates == Public \ Keeplist

(* The guard of CloseChannels, and getCandidateChannels.                   *)
Rank ==
    /\ stage = "channels"
    /\ todo = {}
    /\ IF MaxClose = 0
       THEN stage' = "over" /\ UNCHANGED rest
       ELSE stage' = "select" /\ rest' = Candidates
    /\ UNCHANGED <<vars, config, num, todo, value, heur, chosen>>

Score(c) ==
    LET Of(name) == GetScore(heur[name], value[c][name])
    IN  Rounded(Of("Active") + Of("Capacity") + Of("BlockHeight")
                + Of("NumForwards") + Of("ForwardsAmount") + Of("Fees")
                + Of("PingTime") + Of("FlapCount"))

(* Mutant: the ranking begins with the best.                               *)
FirstBest(c) == c \in rest /\ \A d \in rest : Score(c) >= Score(d)

(* The next one in the ranking; equal scores are in any order.             *)
First(c) == c \in rest /\ \A d \in rest : Score(c) <= Score(d)

(* Of the sum of the weights, not more than a half.                        *)
Poor(c) == 2 * Score(c) <= SumCloseWeights(config.Close)

Closable(c) == value[c]["Active"] = 1 \/ AllowForceCloses

(* One turn of the loop of selectChannels.                                 *)
SelectChannel(c) ==
    /\ stage = "select"
    /\ Cardinality(chosen) < MaxClose
    /\ First(c) /\ Poor(c)
    /\ rest' = rest \ {c}
    /\ chosen' = IF Closable(c) THEN chosen \union {c} ELSE chosen
    /\ UNCHANGED <<vars, stage, config, num, todo, value, heur>>

Selected ==
    /\ stage = "select"
    /\ \/ Cardinality(chosen) >= MaxClose
       \/ \A c \in rest : First(c) => ~Poor(c)
    /\ stage' = "over"
    /\ UNCHANGED <<vars, config, num, todo, value, heur, rest, chosen>>

CloseNext ==
    \/ Load \/ GetInfo \/ ListingForwards \/ ForwardsListed
    \/ \E c \in Chans : AddChannel(c) \/ SelectChannel(c)
    \/ Rank \/ Selected

CloseSpec == CloseInit /\ [][CloseNext]_allVars

(***************************************************************************)
(* Properties                                                              *)
(***************************************************************************)
(* Settings that are accepted satisfy what the sizing arithmetic takes for *)
(* granted, and the sum that scores are divided by is positive, whichever  *)
(* settings the file leaves out (setDefaults and Validate; GetNode and     *)
(* selectChannels divide by what they let through).                        *)
AcceptedUsable ==
    stage \notin {"load", "refused"} =>
        /\ Size!ConfigAssumption
        /\ SumCloseWeights(config.Close) > 0

(* No heuristic gives a channel less than zero or more than its weight:    *)
(* the range that is collected channel by channel contains all of them     *)
(* when the first one is scored (getChannels, Heuristic.GetScore).         *)
ScoresInRange ==
    stage \in {"select", "over"} /\ todo = {} =>
        \A c \in Public, name \in CloseNames :
            GetScore(heur[name], value[c][name]) \in 0 .. config.Close[name]

Spared == {c \in Candidates \ chosen : Closable(c)}

(* No channel is closed while one with a lower score is kept that might    *)
(* have been closed (getCandidateChannels, selectChannels).                *)
WorstClosed ==
    stage = "over" => \A k \in chosen, c \in Spared : Score(k) <= Score(c)

(* ClosingProofs: inductive, and it implies WorstClosed.                   *)
WorstFirst ==
    /\ stage = "select" =>
          /\ \A c \in Candidates \ (rest \union chosen) : ~Closable(c)
          /\ \A k \in chosen, c \in rest : Score(k) <= Score(c)
    /\ stage \notin {"select", "over"} => chosen = {}
    /\ WorstClosed

(* ClosingProofs: inductive together with the types; it implies            *)
(* ScoresInRange, and with WorstClosed also the next property.  A channel  *)
(* that has been measured is in every range that has a weight, and only    *)
(* channels that have been measured are selected.                          *)
RangesCover ==
    /\ logged <= MaxLogged
    /\ \A name \in CloseNames :
          IF stage \in {"load", "refused"} THEN heur[name].weight = 0
          ELSE /\ config.Close[name] \in 0 .. One
               /\ heur[name].weight <= config.Close[name]
    /\ stage \notin {"channels", "select", "over"} => todo = Chans
    /\ stage = "select" \/ chosen # {} => todo = {}
    /\ heur["Active"].weight = 0 \/ \A v \in {0, 1} : Seen(heur["Active"], v)
    /\ \A c \in Public \ todo, name \in CloseNames :
          heur[name].weight = 0 \/ Seen(heur[name], value[c][name])

(* No channel is closed while another one that is nowhere better is kept,  *)
(* unless they score the same: no special case of a heuristic turns the    *)
(* order around (Heuristic.GetScore, Heuristics.GetScore).                 *)
NoBetterClosed ==
    stage = "over" => \A k \in chosen, c \in Spared :
        (\A name \in CloseNames :
            AsGood(heur[name], value[k][name], value[c][name]))
        => Score(k) = Score(c)
=============================================================================
