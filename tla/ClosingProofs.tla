---------------------------- MODULE ClosingProofs ----------------------------
(***************************************************************************)
(* Theorems of Forwards and Closing, for any configuration file, any       *)
(* channels and whatever LND says of them.                                 *)
(***************************************************************************)
EXTENDS Closing, MeasureProofs

(***************************************************************************)
(* local.ListForwards: for every page size and every interleaving with     *)
(* LND's log, the pages add up to the period.                              *)
(***************************************************************************)
(* The first n events of the period.                                       *)
Numbers(n) == [i \in 1 .. n |-> i]

(* The length of the sequences the proofs speak of.                        *)
LEMMA NumbersType ==
    ASSUME NEW n \in Nat
    PROVE  Numbers(n) \in Seq(1 .. n) /\ Len(Numbers(n)) = n
  BY DEF Numbers

(* LND's answer has between zero and MaxForwardingEvents events and goes   *)
(* on where the offset ends; a short one reaches the end of the period.    *)
LEMMA AnswerFacts ==
    ASSUME TypeOK
    PROVE  /\ Answer \in Seq(1 .. matched)
           /\ Len(Answer) \in 0 .. MaxForwardingEvents
           /\ Len(Answer) + offset <= matched
           /\ Len(Answer) # MaxForwardingEvents => Len(Answer) + offset = matched
           /\ \A i \in 1 .. Len(Answer) : Answer[i] = offset + i
  <1> DEFINE most == offset + MaxForwardingEvents
             n == (IF matched < most THEN matched ELSE most) - offset
  <1>1. /\ offset \in Nat /\ matched \in Nat /\ offset <= matched
        /\ MaxForwardingEvents \in Nat \ {0}
    BY ForwardsAssumption DEF TypeOK
  <1>2. n \in 0 .. MaxForwardingEvents /\ offset + n <= matched
    BY <1>1
  <1>3. Answer = [i \in 1 .. n |-> offset + i]
    BY DEF Answer
  <1>4. Answer \in Seq(1 .. matched) /\ Len(Answer) = n
    <2> HIDE DEF n
    <2>1. \A i \in 1 .. n : offset + i \in 1 .. matched
      BY <1>1, <1>2
    <2> QED
      BY <1>2, <1>3, <2>1
  <1>5. n # MaxForwardingEvents => offset + n = matched
    BY <1>1
  <1> HIDE DEF n
  <1> QED
    BY <1>1, <1>2, <1>3, <1>4, <1>5

(* What has been collected and the next page are again the first events.   *)
LEMMA AppendAnswer ==
    ASSUME TypeOK, events = Numbers(offset)
    PROVE  /\ events \o Answer = Numbers(offset + Len(Answer))
           /\ events \o Answer \in Seq(1 .. matched)
           /\ Len(events \o Answer) = offset + Len(Answer)
  <1>1. offset \in Nat /\ Len(Answer) \in Nat
    BY AnswerFacts, ForwardsAssumption DEF TypeOK
  <1>2. events \in Seq(1 .. matched) /\ Answer \in Seq(1 .. matched)
    BY AnswerFacts DEF TypeOK
  <1>3. Len(events) = offset
    BY <1>1, NumbersType
  <1>4. events \o Answer \in Seq(1 .. matched)
        /\ Len(events \o Answer) = offset + Len(Answer)
    BY <1>1, <1>2, <1>3
  <1>5. \A i \in 1 .. offset + Len(Answer) : (events \o Answer)[i] = i
    <2> TAKE i \in 1 .. offset + Len(Answer)
    <2>1. CASE i <= offset
      <3>1. (events \o Answer)[i] = events[i]
        BY <1>1, <1>2, <1>3, <2>1
      <3> QED
        <4>1. i \in 1 .. offset
          BY <1>1, <2>1
        <4> QED
          BY <3>1, <4>1 DEF Numbers
    <2>2. CASE i > offset
      <3>1. (events \o Answer)[i] = Answer[i - offset]
        BY <1>1, <1>2, <1>3, <2>2
      <3>2. i - offset \in 1 .. Len(Answer)
        BY <1>1, <2>2
      <3> QED
        <4>1. Answer[i - offset] = offset + (i - offset)
          BY <3>2, AnswerFacts
        <4> QED
          BY <1>1, <3>1, <4>1
    <2>3. i <= offset \/ i > offset
      BY <1>1
    <2> QED
      BY <2>1, <2>2, <2>3
  <1> QED
    BY <1>1, <1>4, <1>5 DEF Numbers

(* A call begins with nothing collected.                                   *)
LEMMA InitInv == Init => Inv
  BY ForwardsAssumption DEF Init, Inv, TypeOK, Complete

(* A page keeps the invariant, whether it is the last one or not.          *)
LEMMA PageInv == Inv /\ Page => Inv'
  <1> SUFFICES ASSUME Inv, Page PROVE Inv'
    OBVIOUS
  <1>1. /\ TypeOK /\ pc = "paging" /\ Len(events) = offset
        /\ events = Numbers(offset)
        /\ offset \in Nat /\ matched \in Nat /\ atCall \in Nat /\ atCall <= matched
    BY DEF Inv, TypeOK, Complete, Page, Numbers
  <1>2. /\ events' = Numbers(offset + Len(Answer))
        /\ events' \in Seq(1 .. matched)
        /\ Len(events') = offset + Len(Answer)
    BY <1>1, AppendAnswer DEF Page
  <1>3. /\ Len(Answer) \in Nat /\ Len(Answer) + offset <= matched
        /\ Len(Answer) # MaxForwardingEvents => Len(Answer) + offset = matched
    BY <1>1, AnswerFacts, ForwardsAssumption
  <1>4. UNCHANGED <<clock, logged, matched, atCall, now>>
    BY DEF Page
  <1>5. events' = [i \in 1 .. Len(events') |-> i]
    BY <1>2 DEF Numbers
  <1>6. CASE Len(Answer) # MaxForwardingEvents
    <2>1. pc' = "done" /\ offset' = offset
      BY <1>6 DEF Page
    <2> QED
      BY <1>1, <1>2, <1>3, <1>4, <1>5, <1>6, <2>1 DEF Inv, TypeOK, Complete
  <1>7. CASE Len(Answer) = MaxForwardingEvents
    <2>1. pc' = "paging" /\ offset' = offset + Len(Answer)
      BY <1>1, <1>7 DEF Page
    <2> QED
      BY <1>1, <1>2, <1>3, <1>4, <1>5, <2>1 DEF Inv, TypeOK, Complete
  <1> QED
    BY <1>6, <1>7

(* An event that LND logs meanwhile only adds to what is still to come.    *)
LEMMA LogInv == Inv /\ Log => Inv'
  <1> SUFFICES ASSUME Inv, Log PROVE Inv'
    OBVIOUS
  <1>0. /\ TypeOK /\ Complete /\ atCall <= matched
        /\ pc = "idle" => offset = 0 /\ events = << >> /\ matched = logged
    BY DEF Inv
  <1>1. /\ logged \in Nat /\ matched \in Nat /\ atCall \in Nat
        /\ matched <= logged /\ atCall <= logged /\ offset \in 0 .. matched
    BY <1>0 DEF TypeOK
  <1>2. /\ logged' = logged + 1 /\ matched' \in {matched, matched + 1}
        /\ pc = "idle" => matched' = matched + 1
        /\ UNCHANGED <<clock, atCall, pc, now, offset, events>>
    BY DEF Log
  <1>3. 1 .. matched \subseteq 1 .. matched'
    BY <1>1, <1>2
  <1>4. events' \in Seq(1 .. matched')
    BY <1>0, <1>2, <1>3 DEF TypeOK
  <1>5. TypeOK'
    BY <1>0, <1>1, <1>2, <1>4 DEF TypeOK
  <1>6. Complete'
    <2>1. pc = "done" => Len(events) \in atCall .. matched
      BY <1>0 DEF Complete
    <2>2. pc' = "done" => Len(events') \in atCall' .. matched'
      BY <1>1, <1>2, <2>1
    <2> QED
      BY <1>0, <1>2, <2>2 DEF Complete
  <1> QED
    BY <1>0, <1>1, <1>2, <1>5, <1>6 DEF Inv

(* Every step keeps the invariant.                                         *)
LEMMA NextInv == Inv /\ [Next]_vars => Inv'
  <1> SUFFICES ASSUME Inv, [Next]_vars PROVE Inv'
    OBVIOUS
  <1>1. CASE Call
    BY <1>1 DEF Call, Inv, TypeOK, Complete
  <1>2. CASE Page
    BY <1>2, PageInv
  <1>3. CASE Fail
    BY <1>3 DEF Fail, Inv, TypeOK, Complete
  <1>4. CASE Log
    BY <1>4, LogInv
  <1>5. CASE Tick
    <2>1. UNCHANGED <<logged, matched, atCall, pc, now, offset, events>>
      BY <1>5 DEF Tick
    <2>2. clock' \in Nat
      BY <1>5 DEF Tick, Inv, TypeOK
    <2>3. TypeOK'
      BY <2>1, <2>2 DEF Inv, TypeOK
    <2>4. Complete' /\ (atCall <= matched)'
      BY <2>1 DEF Inv, Complete
    <2> QED
      BY <2>1, <2>3, <2>4 DEF Inv
  <1>6. CASE UNCHANGED vars
    BY <1>6 DEF vars, Inv, TypeOK, Complete
  <1> QED
    BY <1>1, <1>2, <1>3, <1>4, <1>5, <1>6 DEF Next

(* The invariant holds in every state of every behaviour.                  *)
THEOREM Invariant == Spec => []Inv
  BY InitInv, NextInv, PTL DEF Spec

(* The types of the variables hold throughout.                             *)
THEOREM TypeCorrect == Spec => []TypeOK
  <1>1. Inv => TypeOK
    BY DEF Inv
  <1> QED
    BY Invariant, <1>1, PTL

(* ListForwards returns the events of the period, each once and in order.  *)
THEOREM PagesComplete == Spec => []Complete
  <1>1. Inv => Complete
    BY DEF Inv
  <1> QED
    BY Invariant, <1>1, PTL

(***************************************************************************)
(* config.Load                                                             *)
(***************************************************************************)
(* Tenths of the weight 1 are natural numbers.                             *)
LEMMA TenthsType == \A n \in Nat : Tenths(n) \in Nat
<1> SUFFICES ASSUME NEW n \in Nat PROVE Tenths(n) \in Nat
  OBVIOUS
<1>1. n * One \in Nat
  BY HeuristicAssumption, Z3
<1> QED
  BY <1>1, DivFacts DEF Tenths

(* Replacing what is left out gives settings again.                        *)
LEMMA DefaultsTyped ==
  ASSUME NEW file \in Settings
  PROVE  /\ SetDefaults(file) \in Settings
         /\ SetDefaults(file).MinChannels # 0
         /\ SetDefaults(file).Close = OrAll(file.Close, DefaultCloseWeights)
<1>1. OrAll(file.Close, DefaultCloseWeights) \in [CloseNames -> Int]
  BY TenthsType, HeuristicAssumption
     DEF OrAll, DefaultCloseWeights, CloseNames, Settings
<1>2. OrAll(file.Open, DefaultOpenWeights) \in [OpenNames -> Int]
  BY TenthsType, HeuristicAssumption
     DEF OrAll, DefaultOpenWeights, OpenNames, Settings
<1> QED
  BY <1>1, <1>2 DEF SetDefaults, Or, Settings

(* Weights for closing that are valid after the defaults have a sum.       *)
LEMMA SumPositive ==
  ASSUME NEW w \in [CloseNames -> Int],
         WeightsValid(OrAll(w, DefaultCloseWeights))
  PROVE  SumCloseWeights(OrAll(w, DefaultCloseWeights)) > 0
<1>1. CASE \A name \in CloseNames : w[name] = 0
  <2>1. OrAll(w, DefaultCloseWeights) = DefaultCloseWeights
    BY <1>1 DEF OrAll
  <2> QED
    BY <2>1, TenthsType, HeuristicAssumption
       DEF SumCloseWeights, DefaultCloseWeights
<1>2. CASE ~(\A name \in CloseNames : w[name] = 0)
  <2>1. OrAll(w, DefaultCloseWeights) = w
    BY <1>2 DEF OrAll
  <2>2. \A name \in CloseNames : w[name] >= 0 /\ w[name] \in Int
    BY <2>1 DEF WeightsValid
  <2>3. PICK name \in CloseNames : w[name] > 0
    BY <1>2, <2>2
  <2> QED
    BY <2>1, <2>2, <2>3 DEF SumCloseWeights, CloseNames
<1> QED
  BY <1>1, <1>2

(* Until the settings are loaded they are those of a file.                 *)
FromFile == stage = "load" => config \in Settings

LEMMA InitUsable == CloseInit => FromFile /\ AcceptedUsable
  BY ClosingAssumption DEF CloseInit, FromFile, AcceptedUsable

LEMMA NextUsable ==
  ASSUME FromFile, AcceptedUsable, [CloseNext]_allVars
  PROVE  FromFile' /\ AcceptedUsable'
<1> USE DEF FromFile, AcceptedUsable
<1>1. CASE Load
  <2> DEFINE c == SetDefaults(config)
  <2>1. config \in Settings /\ config' = c
    BY <1>1 DEF Load
  <2>2. c \in Settings /\ c.MinChannels # 0
    BY <2>1, DefaultsTyped
  <2>3. CASE ~Valid(c)
    BY <1>1, <2>1, <2>3 DEF Load
  <2>4. CASE Valid(c)
    <3>1. SumCloseWeights(c.Close) > 0
      BY <2>1, <2>4, DefaultsTyped, SumPositive DEF Valid, Settings
    <3>2. /\ c.AllocationPercent \in 1 .. 100
          /\ c.MinBatchSize \in Nat
          /\ c.MinChannels \in Nat \ {0} /\ c.MaxChannels \in Nat
          /\ c.MinChannels <= c.MaxChannels
          /\ c.MinChannelSize \in Nat \ {0} /\ c.MaxChannelSize \in Nat
          /\ c.MinChannelSize <= c.MaxChannelSize
      <4> HIDE DEF c
      <4> QED
        BY <2>2, <2>4 DEF Valid, Settings
    <3>3. Size!ConfigAssumption'
      <4> HIDE DEF c
      <4>1. config' = c
        BY <2>1
      <4> QED
        BY <4>1, <3>2, ClosingAssumption DEF Size!ConfigAssumption
    <3>4. SumCloseWeights(config.Close)' = SumCloseWeights(c.Close)
      BY <2>1
    <3> QED
      BY <1>1, <3>1, <3>3, <3>4 DEF Load
  <2> QED
    BY <2>3, <2>4
<1>2. CASE ~Load
  <2>1. UNCHANGED config /\ (stage = "load" <=> stage' = "load")
        /\ (stage' \notin {"load", "refused"} => stage \notin {"load", "refused"})
    BY <1>2 DEF CloseNext, allVars, closeVars, GetInfo, ListingForwards,
                ForwardsListed, AddChannel, SelectChannel, Rank, Selected
  <2> QED
    BY <2>1 DEF Size!ConfigAssumption
<1> QED
  BY <1>1, <1>2

(* Whatever a configuration file leaves out or sets, once it is accepted   *)
(* the sizing arithmetic and the scores never divide by zero, and each     *)
(* lower limit is at most its upper one (setDefaults, Validate).           *)
THEOREM SettingsUsable == CloseSpec => []AcceptedUsable
<1> QED
  BY InitUsable, NextUsable, PTL DEF CloseSpec

(***************************************************************************)
(* getCandidateChannels and selectChannels                                 *)
(***************************************************************************)
LEMMA InitWorst == CloseInit => WorstFirst
  BY DEF CloseInit, WorstFirst, WorstClosed

(* What was measured and the weights do not change while channels are      *)
(* selected.                                                               *)
LEMMA NextWorst ==
  ASSUME WorstFirst, [CloseNext]_allVars PROVE WorstFirst'
<1>1. CASE UNCHANGED allVars
  BY <1>1 DEF WorstFirst, WorstClosed, Spared, Candidates, Closable, Score,
              allVars, closeVars
<1>2. CASE Load \/ GetInfo \/ ListingForwards \/ ForwardsListed
  BY <1>2 DEF WorstFirst, WorstClosed, Load, GetInfo, ListingForwards,
              ForwardsListed, closeVars
<1>3. ASSUME NEW c \in Chans, AddChannel(c) PROVE WorstFirst'
  BY <1>3 DEF WorstFirst, WorstClosed, AddChannel
<1>4. CASE Rank
  BY <1>4 DEF WorstFirst, WorstClosed, Rank
<1>5. ASSUME NEW c \in Chans, SelectChannel(c) PROVE WorstFirst'
  <2>1. /\ stage = "select" /\ stage' = "select"
        /\ c \in rest /\ \A d \in rest : Score(c) <= Score(d)
        /\ rest' = rest \ {c}
        /\ chosen' = IF Closable(c) THEN chosen \union {c} ELSE chosen
        /\ UNCHANGED <<value, heur>>
    BY <1>5 DEF SelectChannel, First
  <2>2. \A d : Score(d)' = Score(d) /\ (Closable(d)' <=> Closable(d))
    BY <2>1 DEF Score, Closable
  <2>3. \A d \in Candidates \ (rest' \union chosen') : ~Closable(d)
    BY <2>1 DEF WorstFirst
  <2>4. \A k \in chosen', d \in rest' : Score(k) <= Score(d)
    BY <2>1 DEF WorstFirst
  <2>5. Candidates' = Candidates
    BY DEF Candidates
  <2> HIDE DEF WorstFirst
  <2> QED
    BY <2>1, <2>2, <2>3, <2>4, <2>5, Zenon DEF WorstFirst, WorstClosed
<1>6. CASE Selected
  <2>1. /\ stage = "select" /\ stage' = "over"
        /\ UNCHANGED <<value, heur, rest, chosen>>
    BY <1>6 DEF Selected
  <2>2. Spared \subseteq rest
    BY <2>1 DEF WorstFirst, Spared
  <2>3. \A k \in chosen, d \in Spared : Score(k) <= Score(d)
    BY <2>1, <2>2 DEF WorstFirst
  <2>4. /\ \A d : Score(d)' = Score(d)
        /\ Spared' = Spared
    BY <2>1 DEF Score, Spared, Closable, Candidates
  <2> QED
    BY <2>1, <2>3, <2>4, Zenon DEF WorstFirst, WorstClosed
<1> QED
  BY <1>1, <1>2, <1>3, <1>4, <1>5, <1>6 DEF CloseNext

(* A channel that is kept although it might have been closed scores at     *)
(* least as high as every one that is closed, for any number of channels   *)
(* and any scores (selectChannels).                                        *)
THEOREM WorstAreClosed == CloseSpec => []WorstClosed
<1>1. WorstFirst => WorstClosed
  BY DEF WorstFirst
<1> QED
  BY <1>1, InitWorst, NextWorst, PTL DEF CloseSpec

(* The pages are listed as Forwards says, whatever surrounds the call.     *)
THEOREM ListsForwards == CloseSpec => Spec
<1>1. CloseInit => Init
  BY DEF CloseInit
<1>2. [CloseNext]_allVars => [Next]_vars
  BY DEF CloseNext, allVars, closeVars, Load, GetInfo, ListingForwards,
         ForwardsListed, AddChannel, Rank, SelectChannel, Selected
<1> QED
  BY <1>1, <1>2, PTL DEF CloseSpec, Spec

(* No measured value is negative, and a channel is active or not.          *)
LEMMA MeasuredType ==
  ASSUME Inv, logged <= MaxLogged, NEW c \in Chans, NEW report \in Reports
  PROVE  /\ Measured(c, report) \in [CloseNames -> Nat]
         /\ Measured(c, report)["Active"] \in {0, 1}
<1>1. \A i \in DOMAIN events : events[i] \in 1 .. MaxLogged
  <2>1. /\ events \in Seq(1 .. matched) /\ matched \in 0 .. logged
        /\ logged \in Nat /\ MaxLogged \in Nat
    BY ForwardsAssumption DEF Inv, TypeOK
  <2>2. \A i \in DOMAIN events : events[i] \in 1 .. matched
    BY <2>1
  <2> QED
    BY <2>1, <2>2
<1>2. \A i \in DOMAIN events : /\ Event[events[i]].amtIn \in Nat
                               /\ Event[events[i]].amtOut \in Nat
                               /\ Event[events[i]].fee \in Nat
  BY <1>1, ClosingAssumption
<1>3. IsFiniteSet(DOMAIN events)
  <2>1. DOMAIN events = 1 .. Len(events) /\ Len(events) \in Nat
    BY DEF Inv, TypeOK
  <2> QED
    BY <2>1, FS_Interval
<1>4. /\ Incoming(c) \subseteq DOMAIN events /\ IsFiniteSet(Incoming(c))
      /\ Outgoing(c) \subseteq DOMAIN events /\ IsFiniteSet(Outgoing(c))
  BY <1>3, FS_Subset DEF Incoming, Outgoing
<1>5. Cardinality(Incoming(c)) \in Nat /\ Cardinality(Outgoing(c)) \in Nat
  BY <1>4, FS_CardinalityType
<1>6. ForwardsAmount(c) \in Nat
  <2>1. SumFunction([i \in Incoming(c) |-> Event[events[i]].amtIn]) \in Nat
    BY <1>2, <1>4, SumType DEF SumFunction
  <2>2. SumFunction([i \in Outgoing(c) |-> Event[events[i]].amtOut]) \in Nat
    BY <1>2, <1>4, SumType DEF SumFunction
  <2> QED
    BY <2>1, <2>2 DEF ForwardsAmount
<1>7. Fees(c) \in Nat
  <2>1. SumFunction([i \in Incoming(c) |-> Event[events[i]].fee]) \in Nat
    BY <1>2, <1>4, SumType DEF SumFunction
  <2>2. SumFunction([i \in Outgoing(c) |-> Event[events[i]].fee]) \in Nat
    BY <1>2, <1>4, SumType DEF SumFunction
  <2> QED
    BY <2>1, <2>2 DEF Fees
<1>8. PingTime(report) \in Nat
  BY ClosingAssumption DEF PingTime
<1> QED
  BY <1>5, <1>6, <1>7, <1>8, ClosingAssumption DEF Measured, CloseNames

(* The heuristics begin with the weights of the file, and without values.  *)
LEMMA NewTyped ==
  ASSUME NEW w, \A name \in CloseNames : w[name] \in 0 .. One
  PROVE  /\ NewHeuristics(w) \in [CloseNames -> Heuristics]
         /\ \A name \in CloseNames : NewHeuristics(w)[name].weight = w[name]
BY HeuristicAssumption DEF NewHeuristics, New, NewFull, Heuristics

LEMMA InitRanges == CloseInit => ClosingTypeOK /\ RangesCover
<1> SUFFICES ASSUME CloseInit PROVE ClosingTypeOK /\ RangesCover
  OBVIOUS
<1>1. heur \in [CloseNames -> Heuristics]
  BY HeuristicAssumption DEF CloseInit, New, NewFull, Heuristics
<1>2. logged <= MaxLogged
  BY ForwardsAssumption DEF CloseInit, Init
<1> QED
  BY <1>1, <1>2, ClosingAssumption
     DEF CloseInit, ClosingTypeOK, RangesCover, Stages, Public, CloseNames,
         New, NewFull

(* The range that is collected channel by channel has those before it.     *)
LEMMA AddChannelRanges ==
  ASSUME Inv, ClosingTypeOK, RangesCover, NEW c \in Chans, AddChannel(c)
  PROVE  ClosingTypeOK' /\ RangesCover'
<1> USE DEF ClosingTypeOK, RangesCover
<1>1. /\ stage = "channels" /\ c \in todo /\ todo' = todo \ {c}
      /\ UNCHANGED <<vars, stage, config, num, rest, chosen>>
  BY DEF AddChannel
<1>2. UNCHANGED logged /\ chosen = {}
  BY <1>1 DEF vars
<1>3. CASE c \in Private
  <2>1. UNCHANGED <<value, heur>>
    BY <1>3 DEF AddChannel
  <2>2. Public \ todo' = Public \ todo
    BY <1>1, <1>3 DEF Public
  <2> QED
    BY <1>1, <1>2, <2>1, <2>2
<1>4. CASE c \notin Private
  <2>1. PICK report \in Reports :
          /\ value' = [value EXCEPT ![c] = Measured(c, report)]
          /\ heur' = [name \in CloseNames |->
                IF name = "Active" THEN heur[name]
                ELSE Update(heur[name], Measured(c, report)[name])]
    BY <1>4 DEF AddChannel
  <2> DEFINE v == Measured(c, report)
  <2>2. v \in [CloseNames -> Nat] /\ v["Active"] \in {0, 1}
    BY MeasuredType
  <2> HIDE DEF v
  <2>3. value' \in [Chans -> [CloseNames -> Nat]]
    BY <2>1, <2>2 DEF v
  <2>4. heur' \in [CloseNames -> Heuristics]
    BY <2>1, <2>2, UpdateCovers DEF v
  <2>5. \A name \in CloseNames : heur'[name].weight = heur[name].weight
    BY <2>1, <2>2, UpdateGrows DEF v
  <2>6. ASSUME NEW d \in Public \ todo', NEW name \in CloseNames
        PROVE  heur'[name].weight = 0 \/ Seen(heur'[name], value'[d][name])
    <3>1. value'[d][name] \in Nat /\ d \in Chans
      BY <2>3, <2>6 DEF Public
    <3>2. CASE d # c
      <4>1. value'[d] = value[d] /\ d \in Public \ todo
        BY <1>1, <2>1, <3>1, <3>2
      <4>2. heur[name].weight = 0 \/ Seen(heur[name], value[d][name])
        BY <4>1
      <4>3. CASE name = "Active"
        BY <2>1, <4>1, <4>2, <4>3
      <4>4. CASE name # "Active"
        <5>1. heur'[name] = Update(heur[name], v[name]) /\ v[name] \in Int
          BY <2>1, <2>2, <4>4 DEF v
        <5> QED
          BY <3>1, <4>1, <4>2, <5>1, UpdateGrows
      <4> QED
        BY <4>3, <4>4
    <3>3. CASE d = c
      <4>1. value'[d] = v
        BY <2>1, <3>3 DEF v
      <4>2. CASE name = "Active"
        <5>1. v[name] \in {0, 1} /\ heur'[name] = heur[name]
          BY <2>1, <2>2, <4>2
        <5> QED
          BY <4>1, <4>2, <5>1
      <4>3. CASE name # "Active"
        <5>1. heur'[name] = Update(heur[name], v[name]) /\ v[name] \in Int
          BY <2>1, <2>2, <4>3 DEF v
        <5>2. heur[name].weight # 0 => Seen(heur'[name], v[name])
          BY <5>1, UpdateCovers
        <5> QED
          BY <2>5, <4>1, <5>2
      <4> QED
        BY <4>2, <4>3
    <3> QED
      BY <3>2, <3>3
  <2> QED
    BY <1>1, <1>2, <2>1, <2>3, <2>4, <2>5, <2>6 DEF CloseNames
<1> QED
  BY <1>3, <1>4

(* Nothing is chosen before the channels are measured.                     *)
LEMMA NoneChosen ==
  ASSUME ClosingTypeOK, RangesCover, stage \notin {"channels", "select", "over"}
  PROVE  todo = Chans /\ chosen = {}
<1>1. todo = Chans
  BY DEF RangesCover
<1>2. CASE Chans = {}
  BY <1>1, <1>2 DEF ClosingTypeOK, Public
<1>3. CASE Chans # {}
  BY <1>1, <1>3 DEF RangesCover
<1> QED
  BY <1>1, <1>2, <1>3

(* The settings are checked before the weights are used.                   *)
LEMMA LoadRanges ==
  ASSUME ClosingTypeOK, RangesCover, Load PROVE ClosingTypeOK' /\ RangesCover'
<1> USE DEF ClosingTypeOK, RangesCover
<1>1. /\ config' = SetDefaults(config) /\ config' \in Settings
      /\ UNCHANGED <<vars, num, todo, value, heur, rest, chosen>>
      /\ stage = "load" /\ stage' = IF Valid(config') THEN "node" ELSE "refused"
  BY DefaultsTyped DEF Load
<1>2. todo = Chans /\ chosen = {} /\ UNCHANGED logged
  BY <1>1, NoneChosen DEF vars
<1>0. \A name \in CloseNames : heur[name].weight = 0
  BY <1>1
<1>3. CASE Valid(config')
  <2>1. \A name \in CloseNames : config'.Close[name] \in 0 .. One
    BY <1>1, <1>3 DEF Valid, WeightsValid, Settings
  <2> QED
    BY <1>1, <1>2, <1>3, <2>1 DEF Stages
<1>4. CASE ~Valid(config')
  BY <1>1, <1>2, <1>4 DEF Stages
<1> QED
  BY <1>3, <1>4

LEMMA NextRanges ==
  ASSUME Inv, ClosingTypeOK, RangesCover, [CloseNext]_allVars
  PROVE  ClosingTypeOK' /\ RangesCover'
<1> USE DEF ClosingTypeOK, RangesCover
<1>1. CASE UNCHANGED allVars
  BY <1>1 DEF allVars, closeVars, vars
<1>2. CASE Load
  BY <1>2, LoadRanges
<1>3. CASE GetInfo
  BY <1>3, ClosingAssumption DEF GetInfo, Stages, vars
<1>4. CASE ListingForwards
  <2>1. logged' <= MaxLogged
    BY <1>4, ForwardsAssumption
       DEF ListingForwards, Next, Call, Page, Fail, Log, Tick, Inv, TypeOK
  <2> QED
    BY <1>4, <2>1 DEF ListingForwards, closeVars
<1>5. CASE ForwardsListed
  <2>1. /\ stage = "forwards" /\ todo = Chans /\ chosen = {}
        /\ UNCHANGED <<logged, config, num, todo, value, rest, chosen>>
    BY <1>5, NoneChosen DEF ForwardsListed, vars
  <2>2. CASE stage' = "over" /\ UNCHANGED heur
    BY <2>1, <2>2 DEF Stages
  <2>3. CASE stage' = "channels" /\ heur' = NewHeuristics(config.Close)
    <3>1. \A name \in CloseNames : config.Close[name] \in 0 .. One
      BY <2>1
    <3>2. /\ heur' \in [CloseNames -> Heuristics]
          /\ \A name \in CloseNames : heur'[name].weight = config.Close[name]
      BY <2>3, <3>1, NewTyped
    <3>3. \A v \in {0, 1} : Seen(heur'["Active"], v)
      BY <2>3 DEF NewHeuristics, NewFull, Seen, CloseNames
    <3> QED
      BY <2>1, <2>3, <3>1, <3>2, <3>3 DEF Stages, Public
  <2> QED
    BY <1>5, <2>2, <2>3 DEF ForwardsListed
<1>6. ASSUME NEW c \in Chans, AddChannel(c) PROVE ClosingTypeOK' /\ RangesCover'
  BY <1>6, AddChannelRanges
<1>7. CASE Rank
  <2>1. rest' \subseteq Public
    BY <1>7 DEF Rank, Candidates
  <2> QED
    BY <1>7, <2>1 DEF Rank, Stages, vars
<1>8. ASSUME NEW c \in Chans, SelectChannel(c) PROVE ClosingTypeOK' /\ RangesCover'
  <2>1. /\ stage = "select" /\ rest' \subseteq Public /\ chosen' \subseteq Public
        /\ UNCHANGED <<logged, stage, config, num, todo, value, heur>>
    BY <1>8 DEF SelectChannel, First, vars
  <2> QED
    BY <2>1
<1>9. CASE Selected
  BY <1>9 DEF Selected, Stages, vars
<1> QED
  BY <1>1, <1>2, <1>3, <1>4, <1>5, <1>6, <1>7, <1>8 , <1>9 DEF CloseNext

(* The ranges are right whatever the configuration file, the number of     *)
(* forwarding events and pages, and the order of the channels.             *)
THEOREM RangesKept == CloseSpec => [](ClosingTypeOK /\ RangesCover)
<1> QED
  BY InitRanges, NextRanges, ListsForwards, Invariant, PTL DEF CloseSpec

(* The types of the variables hold: no value that is measured is negative. *)
THEOREM ClosingTypeCorrect == CloseSpec => []ClosingTypeOK
<1> QED
  BY RangesKept, PTL

(* No heuristic gives a channel less than zero or more than the weight     *)
(* that the configuration file gives it, for any values that LND reports   *)
(* (getChannels, Heuristic.GetScore).                                      *)
THEOREM ScoresWithinWeights == CloseSpec => []ScoresInRange
<1>1. ClosingTypeOK /\ RangesCover => ScoresInRange
  <2> SUFFICES ASSUME ClosingTypeOK, RangesCover, todo = {},
                      stage \in {"select", "over"},
                      NEW c \in Public, NEW name \in CloseNames
               PROVE  GetScore(heur[name], value[c][name]) \in 0 .. config.Close[name]
    BY DEF ScoresInRange
  <2> DEFINE h == heur[name]
             v == value[c][name]
  <2>1. /\ h \in Heuristics /\ v \in Nat /\ h.weight \in 0 .. One
        /\ config.Close[name] \in 0 .. One /\ h.weight <= config.Close[name]
    BY DEF ClosingTypeOK, RangesCover, Heuristics, Public
  <2>2. CASE h.weight = 0
    BY <2>1, <2>2 DEF GetScore
  <2>3. CASE h.weight # 0
    <3>1. Seen(h, v)
      BY <2>3 DEF RangesCover
    <3>2. GetScore(h, v) \in 0 .. h.weight
      BY <2>1, <3>1, ScoreBounds
    <3>3. 0 .. h.weight \subseteq 0 .. config.Close[name]
      BY <2>1, HeuristicAssumption
    <3> QED
      BY <3>2, <3>3
  <2> HIDE DEF h, v
  <2> QED
    BY <2>2, <2>3 DEF h, v
<1> QED
  BY <1>1, RangesKept, PTL

(* The score of a channel is the rounded sum of the scores of its values,  *)
(* and none of them is negative.                                           *)
LEMMA ScoreOfMeasured ==
  ASSUME ClosingTypeOK, RangesCover, NEW c \in Public, NEW name \in CloseNames,
         todo = {}
  PROVE  /\ GetScore(heur[name], value[c][name]) \in Nat
         /\ \A d \in Public :
               AsGood(heur[name], value[d][name], value[c][name])
               => GetScore(heur[name], value[c][name])
                     <= GetScore(heur[name], value[d][name])
<1> DEFINE h == heur[name]
<1>1. /\ h \in Heuristics /\ h.weight \in 0 .. One
      /\ \A d \in Public : /\ value[d][name] \in Nat
                            /\ (h.weight = 0 \/ Seen(h, value[d][name]))
  BY DEF ClosingTypeOK, RangesCover, Heuristics, Public
<1>2. CASE h.weight = 0
  BY <1>2 DEF GetScore
<1>3. CASE h.weight # 0
  <2>0. ASSUME NEW d \in Public
        PROVE  /\ value[d][name] \in Nat /\ value[d][name] \in Int
               /\ Seen(h, value[d][name])
    <3>1. value[d][name] \in Nat
      BY DEF ClosingTypeOK, Public
    <3>2. Seen(h, value[d][name])
      BY <1>1, <1>3, Zenon
    <3> QED
      BY <3>1, <3>2
  <2>1. ASSUME NEW d \in Public
        PROVE  GetScore(h, value[d][name]) \in 0 .. h.weight
    <3> DEFINE v == value[d][name]
    <3>1. v \in Int /\ Seen(h, v) /\ h \in Heuristics
      BY <1>1, <2>0
    <3> HIDE DEF h, v
    <3>2. GetScore(h, v) \in 0 .. h.weight
      BY <3>1, ScoreBounds
    <3> QED
      BY <3>2 DEF v
  <2>2. ASSUME NEW d \in Public, AsGood(h, value[d][name], value[c][name])
        PROVE  GetScore(h, value[d][name]) >= GetScore(h, value[c][name])
    <3> DEFINE v == value[d][name]
               w == value[c][name]
    <3>1. /\ v \in Nat /\ Seen(h, v) /\ h \in Heuristics
          /\ w \in Nat /\ Seen(h, w) /\ AsGood(h, v, w)
      BY <1>1, <2>0, <2>2
    <3> HIDE DEF h, v, w
    <3>2. GetScore(h, v) >= GetScore(h, w)
      BY <3>1, ScoreOrder
    <3> QED
      BY <3>2 DEF v, w
  <2>3. \A d \in Public : GetScore(h, value[d][name]) \in Nat
    BY <1>1, <2>1, HeuristicAssumption
  <2> HIDE DEF h
  <2>4. \A d \in Public :
           AsGood(h, value[d][name], value[c][name])
           => GetScore(h, value[c][name]) <= GetScore(h, value[d][name])
    BY <2>2, <2>3
  <2> QED
    BY <2>3, <2>4 DEF h
<1> QED
  BY <1>2, <1>3

(* Of two channels, the one that is nowhere worse does not score lower.    *)
LEMMA ScoreOrdered ==
  ASSUME ClosingTypeOK, RangesCover, todo = {},
         NEW k \in Public, NEW c \in Public,
         \A name \in CloseNames :
            AsGood(heur[name], value[k][name], value[c][name])
  PROVE  Score(c) \in Nat /\ Score(k) \in Nat /\ Score(c) <= Score(k)
<1> DEFINE Of(d, name) == GetScore(heur[name], value[d][name])
           Sum(d) == Of(d, "Active") + Of(d, "Capacity") + Of(d, "BlockHeight")
                       + Of(d, "NumForwards") + Of(d, "ForwardsAmount")
                       + Of(d, "Fees") + Of(d, "PingTime") + Of(d, "FlapCount")
<1>1. \A name \in CloseNames : /\ Of(c, name) \in Nat /\ Of(k, name) \in Nat
                                /\ Of(c, name) <= Of(k, name)
  BY ScoreOfMeasured
<1>2. /\ "Active" \in CloseNames /\ "Capacity" \in CloseNames
      /\ "BlockHeight" \in CloseNames /\ "NumForwards" \in CloseNames
      /\ "ForwardsAmount" \in CloseNames /\ "Fees" \in CloseNames
      /\ "PingTime" \in CloseNames /\ "FlapCount" \in CloseNames
  BY DEF CloseNames
<1>3. Score(c) = Rounded(Sum(c)) /\ Score(k) = Rounded(Sum(k))
  BY DEF Score
<1>4. Sum(c) \in Nat /\ Sum(k) \in Nat /\ Sum(c) <= Sum(k)
  <2> HIDE DEF Of
  <2> QED
    BY <1>1, <1>2
<1> QED
  <2> HIDE DEF Sum
  <2> QED
    BY <1>3, <1>4, RoundedMonotonic

(* Whatever the weights, the values and the rounding, a channel is closed  *)
(* before another one that is nowhere better only if they score the same   *)
(* (Heuristic.GetScore, Heuristics.GetScore, selectChannels).              *)
THEOREM WorseIsClosed == CloseSpec => []NoBetterClosed
<1>1. ClosingTypeOK /\ RangesCover /\ WorstClosed => NoBetterClosed
  <2> SUFFICES ASSUME ClosingTypeOK, RangesCover, WorstClosed, stage = "over",
                      NEW k \in chosen, NEW c \in Spared,
                      \A name \in CloseNames :
                         AsGood(heur[name], value[k][name], value[c][name])
               PROVE  Score(k) = Score(c)
    BY DEF NoBetterClosed
  <2>1. k \in Public /\ c \in Public /\ todo = {}
    BY DEF ClosingTypeOK, RangesCover, Spared, Candidates
  <2>2. Score(k) <= Score(c)
    BY DEF WorstClosed
  <2>3. Score(c) \in Nat /\ Score(k) \in Nat /\ Score(c) <= Score(k)
    BY <2>1, ScoreOrdered
  <2> QED
    BY <2>2, <2>3
<1> QED
  BY <1>1, RangesKept, WorstAreClosed, PTL
=============================================================================
