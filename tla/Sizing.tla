------------------------------- MODULE Sizing -------------------------------
(***************************************************************************)
(* The arithmetic with which Hydrus decides how many channels it may open  *)
(* and close and how much it puts into each of them: the end of            *)
(* local.GetNode, the guards of skipOpen and the funding amount of         *)
(* selectNodes.  The operators are pure; Agent.tla applies them to the     *)
(* snapshot a run has taken of the node.                                   *)
(***************************************************************************)
EXTENDS Integers

CONSTANTS
    AllocationPercent,  \* agent.allocation_percent
    MinBatchSize,       \* agent.min_batch_size
    MinChannels,        \* agent.min_channels
    MaxChannels,        \* agent.max_channels
    MinChannelSize,     \* agent.min_channel_size, in satoshis
    MaxChannelSize,     \* agent.max_channel_size, in satoshis
    Word                \* 2^64: unsigned products wrap at it

(* What Config.Validate lets through once setDefaults has replaced zeros.  *)
(* The 20,000 satoshis floor of MinChannelSize is only "positive" here.    *)
ASSUME ConfigAssumption ==
    /\ AllocationPercent \in 1 .. 100
    /\ MinBatchSize \in Nat
    /\ MinChannels \in Nat \ {0}
    /\ MaxChannels \in Nat
    /\ MinChannels <= MaxChannels
    /\ MinChannelSize \in Nat \ {0}
    /\ MaxChannelSize \in Nat
    /\ MinChannelSize <= MaxChannelSize
    /\ Word \in Nat \ {0}

(* Validate has no upper bound for max_channels: that the product below    *)
(* fits is an assumption about the configuration, stated apart.            *)
NoWrap == MaxChannels * MinChannelSize < Word

Smaller(a, b) == IF a <= b THEN a ELSE b

(* uint64(confirmed/100) * percent: the remainder is dropped first.        *)
AllocatedBalance(confirmed) == (confirmed \div 100) * AllocationPercent

(* Mutant: the room is not reduced by the channels there already are.      *)
MaxOpenIgnoringCount(num, allocated) ==
    IF num >= MaxChannels THEN 0
    ELSE Smaller(MaxChannels, allocated \div MinChannelSize)

(* The room below MaxChannels or, when the allocated balance cannot fund   *)
(* it at the minimum size, the number of minimum sizes it holds.           *)
MaxOpenChannels(num, allocated) ==
    IF num >= MaxChannels THEN 0
    ELSE LET room == MaxChannels - num
         IN  IF (room * MinChannelSize) % Word > allocated
             THEN allocated \div MinChannelSize
             ELSE room

(* Mutant: the minimum is passed by one.                                   *)
MaxCloseInclusive(num) == IF num >= MinChannels THEN num - MinChannels + 1 ELSE 0

MaxCloseChannels(num) == IF num > MinChannels THEN num - MinChannels ELSE 0

(* Mutant: every channel of the batch gets the whole balance.              *)
UndividedAmount(maxOpen, allocated) == Smaller(allocated, MaxChannelSize)

(* Only used with maxOpen >= 1.                                            *)
FundingAmount(maxOpen, allocated) ==
    Smaller(allocated \div maxOpen, MaxChannelSize)

(* skipOpen, in the order of its four tests.                               *)
SkipOpen(num, allocated) ==
    LET maxOpen == MaxOpenChannels(num, allocated)
    IN  \/ maxOpen < 1
        \/ allocated = 0
        \/ allocated < MinChannelSize
        \/ num > MaxChannels
        \/ maxOpen < MinBatchSize
=============================================================================
