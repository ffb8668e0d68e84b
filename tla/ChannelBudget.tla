--------------------------- MODULE ChannelBudget ---------------------------
(***************************************************************************)
(* What Hydrus promises about the number of channels, whatever runs and    *)
(* calls it takes: channels come in batches that end at or below           *)
(* MaxChannels and go one by one while there are more than MinChannels.    *)
(* It is silent about how a run knows either number.                       *)
(***************************************************************************)
EXTENDS Integers

CONSTANTS MinChannels, MaxChannels

VARIABLE channels  \* pending and open channels

Init == channels \in Nat

Open ==
    /\ channels' > channels
    /\ channels' <= MaxChannels

Close ==
    /\ channels > MinChannels
    /\ channels' = channels - 1

Spec == Init /\ [][Open \/ Close]_channels
=============================================================================
