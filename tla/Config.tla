------------------------------- MODULE Config -------------------------------
(***************************************************************************)
(* config.Load: what the file leaves out is replaced by defaults, and the  *)
(* result is accepted or refused.  A setting that is left out reads as     *)
(* zero.  The weights are whole numbers of the unit of Heuristic, with One *)
(* the weight 1; times are in seconds.                                     *)
(***************************************************************************)
EXTENDS Heuristic

CloseNames == {"Capacity", "Active", "NumForwards", "ForwardsAmount", "Fees",
               "BlockHeight", "PingTime", "FlapCount"}

OpenNames == {"Capacity", "Features", "Hybrid",
              "Degree", "Betweenness", "Eigenvector", "Closeness",
              "BaseFee", "FeeRate", "InboundBaseFee", "InboundFeeRate",
              "MinHTLC", "MaxHTLC", "ChannelHeight"}

(* What the decoder may return: unsigned settings are not negative.        *)
Settings ==
    [AllocationPercent : Nat, MinBatchSize : Nat,
     MinChannels : Nat, MaxChannels : Nat,
     MinChannelSize : Nat, MaxChannelSize : Nat,
     TargetConf : Int, MinConf : Int, MaxSatvB : Nat, FeeRatePPM : Nat,
     Close : [CloseNames -> Int], Open : [OpenNames -> Int],
     Channels : Int, RoutingPolicies : Int,  \* agent.intervals
     Credentials : BOOLEAN]                  \* TLS and macaroon can be read

Tenths(n) == (n * One) \div 10

DefaultCloseWeights ==
    [Capacity |-> Tenths(5), Active |-> One, NumForwards |-> Tenths(8),
     ForwardsAmount |-> One, Fees |-> One, PingTime |-> Tenths(4),
     BlockHeight |-> Tenths(6), FlapCount |-> Tenths(2)]

DefaultOpenWeights ==
    [Capacity |-> One, Features |-> One, Hybrid |-> Tenths(8),
     Degree |-> Tenths(4), Betweenness |-> Tenths(8),
     Eigenvector |-> Tenths(5), Closeness |-> Tenths(8),
     BaseFee |-> One, FeeRate |-> Tenths(4), InboundBaseFee |-> Tenths(4),
     InboundFeeRate |-> Tenths(4), MinHTLC |-> One, MaxHTLC |-> Tenths(6),
     ChannelHeight |-> Tenths(8)]

Or(setting, default) == IF setting = 0 THEN default ELSE setting

(* A group of weights, and the two intervals, are replaced when all of     *)
(* them are left out.                                                      *)
OrAll(weights, default) ==
    IF \A name \in DOMAIN weights : weights[name] = 0 THEN default ELSE weights

SetDefaults(file) ==
    LET scheduled == file.Channels # 0 \/ file.RoutingPolicies # 0
    IN  [AllocationPercent |-> Or(file.AllocationPercent, 80),
         MinBatchSize |-> file.MinBatchSize,
         MinChannels |-> Or(file.MinChannels, 2),
         MaxChannels |-> Or(file.MaxChannels, 200),
         MinChannelSize |-> Or(file.MinChannelSize, 1000000),
         MaxChannelSize |-> Or(file.MaxChannelSize, 10000000),
         TargetConf |-> Or(file.TargetConf, 6),
         MinConf |-> Or(file.MinConf, 2),
         MaxSatvB |-> Or(file.MaxSatvB, 50),
         FeeRatePPM |-> Or(file.FeeRatePPM, 2000),
         Close |-> OrAll(file.Close, DefaultCloseWeights),
         Open |-> OrAll(file.Open, DefaultOpenWeights),
         Channels |-> IF scheduled THEN file.Channels ELSE 168 * 3600,
         RoutingPolicies |-> IF scheduled THEN file.RoutingPolicies ELSE 6 * 3600,
         Credentials |-> file.Credentials]

(* IterWeights with the test of Validate.                                  *)
WeightsValid(weights) ==
    \A name \in DOMAIN weights : weights[name] >= 0 /\ weights[name] <= One

(* Mutant: the two sizes are not compared.                                 *)
ValidAnyOrder(c) ==
    /\ c.AllocationPercent > 0 /\ c.AllocationPercent <= 100
    /\ c.MinChannelSize >= 20000
    /\ c.MinChannels <= c.MaxChannels
    /\ c.MinConf # 0
    /\ c.TargetConf >= 2
    /\ WeightsValid(c.Open) /\ WeightsValid(c.Close)
    /\ c.Channels >= 60 /\ c.RoutingPolicies >= 60
    /\ c.Credentials

(* Config.Validate returns no error.                                       *)
Valid(c) ==
    /\ c.AllocationPercent > 0 /\ c.AllocationPercent <= 100
    /\ c.MinChannelSize >= 20000
    /\ c.MinChannelSize <= c.MaxChannelSize
    /\ c.MinChannels <= c.MaxChannels
    /\ c.MinConf # 0
    /\ c.TargetConf >= 2
    /\ WeightsValid(c.Open) /\ WeightsValid(c.Close)
    /\ c.Channels >= 60 /\ c.RoutingPolicies >= 60
    /\ c.Credentials

(* SumWeights of the weights for closing.                                  *)
SumCloseWeights(w) ==
    w.Capacity + w.Active + w.NumForwards + w.ForwardsAmount
        + w.Fees + w.BlockHeight + w.PingTime + w.FlapCount
=============================================================================
