----------------------------- MODULE MCPolicies -----------------------------
(***************************************************************************)
(* Small instances of Policies: one or two channels of 100 satoshis, with the     *)
(* percentages and the fee rates of the code and a "week" of one block.    *)
(***************************************************************************)
EXTENDS Policies

CONSTANTS c1, c2, r1, r2

OneChan == {c1}
TwoChans == {c1, c2}
=============================================================================
