--------------------------- MODULE PoliciesProofs ---------------------------
(***************************************************************************)
(* Proofs about FeeRule and Policies: for every fee rate and every amount  *)
(* forwarded, a fee rate that is lowered does not wrap around and one that *)
(* is raised grows by at most a half; and, however runs, the operator and  *)
(* LND interleave, a channel that forwards nothing out is never dearer     *)
(* than the operator or the rate for drained channels has made it.         *)
(***************************************************************************)
EXTENDS Policies, Arithmetic, TLAPS

(* A truncated quotient is a natural number and at most the exact one.     *)
LEMMA TruncatedFacts ==
  ASSUME NEW n \in Nat, NEW d \in Nat \ {0}, NEW q \in Truncated(n, d)
  PROVE  q \in Nat /\ q * d <= n
  <1>1. /\ n \div d \in Nat /\ d * (n \div d) <= n
    BY DivFacts
  <1>2. q \in Nat /\ q <= n \div d
    BY <1>1 DEF Truncated
  <1>3. q * d <= (n \div d) * d /\ q * d \in Nat /\ (n \div d) * d \in Nat
    BY <1>1, <1>2, TimesMonotonic
  <1>4. (n \div d) * d = d * (n \div d)
    BY <1>1, Z3
  <1> QED
    BY <1>1, <1>2, <1>3, <1>4

(* A percentage up to 100 of a number is a part of it.                     *)
LEMMA PercentageFacts ==
  ASSUME NEW v \in Nat, NEW p \in 0 .. 100
  PROVE  Percentage(v, p) \in Nat /\ Percentage(v, p) <= v
  <1>1. /\ v * p \in Nat /\ v * p <= v * 100
    BY TimesMonotonic
  <1>2. /\ (v * p) \div 100 \in Nat /\ 100 * ((v * p) \div 100) <= v * p
    BY <1>1, DivFacts
  <1> QED
    BY <1>1, <1>2 DEF Percentage

(* Lowering a fee rate that is not below the minimum update, by at most    *)
(* itself, ends at a natural number that is not above it.                  *)
LEMMA LowerFacts ==
  ASSUME NEW fee \in Nat, NEW delta \in Nat, delta <= fee, MinFeePPMUpdate <= fee
  PROVE  Lower(fee, delta) \in 0 .. fee
  BY FeeAssumption DEF Lower, Larger

(* Without outgoing forwards the fee rate never rises.                     *)
LEMMA IdleFeeFalls ==
  ASSUME NEW fee \in Nat
  PROVE  IdleFee(fee) \in 0 .. fee
  <1>1. CASE fee < MinFeePPMUpdate
    BY <1>1 DEF IdleFee
  <1>2. CASE fee >= MinFeePPMUpdate
    <2>1. Percentage(fee, 10) \in Nat /\ Percentage(fee, 10) <= fee
      BY PercentageFacts
    <2>2. Lower(fee, Percentage(fee, 10)) \in 0 .. fee
      BY <1>2, <2>1, LowerFacts, FeeAssumption
    <2> QED
      BY <1>2, <2>2, FeeAssumption DEF IdleFee
  <1> QED
    BY <1>1, <1>2, FeeAssumption

(* With outgoing forwards the fee rate does not fall below zero, and it    *)
(* grows by at most a half or the minimum update.                          *)
LEMMA BusyFeesBounded ==
  ASSUME NEW fee \in Nat, NEW in \in Nat, NEW out \in Nat \ {0},
         NEW f \in BusyFees(fee, in, out)
  PROVE  f \in Nat /\ 2 * f <= 3 * fee + 2 * MinFeePPMUpdate
  <1> DEFINE total == in + out
  <1>1. total \in Nat \ {0} /\ 2 * total \in Nat \ {0}
    OBVIOUS
  <1>2. CASE 10 * out < 4 * total
    <2>1. in - out \in Nat /\ in - out <= total
      BY <1>2
    <2>2. CASE fee < MinFeePPMUpdate
      <3>1. f = fee
        BY <1>2, <2>2 DEF BusyFees
      <3> QED
        BY <3>1, FeeAssumption
    <2>3. CASE fee >= MinFeePPMUpdate
      <3>1. PICK d \in Truncated(fee * (in - out), 2 * total) : f = Lower(fee, d)
        BY <1>2, <2>3, FeeAssumption DEF BusyFees
      <3>2. fee * (in - out) \in Nat
        BY <2>1, TimesMonotonic
      <3>3. d \in Nat /\ d * (2 * total) <= fee * (in - out)
        BY <1>1, <3>2, TruncatedFacts
      <3>4. 2 * d <= fee
        BY <1>1, <2>1, <3>3, HalfShare
      <3>5. f \in 0 .. fee
        BY <2>3, <3>1, <3>3, <3>4, LowerFacts, FeeAssumption
      <3> QED
        BY <3>5, FeeAssumption
    <2> QED
      BY <2>2, <2>3, FeeAssumption
  <1>3. CASE 10 * out > 6 * total
    <2>1. out - in \in Nat /\ out - in <= total
      BY <1>3
    <2>2. PICK d \in Truncated(fee * (out - in), 2 * total) :
             f = fee + Larger(d, MinFeePPMUpdate)
      <3>1. ~(10 * out < 4 * total)
        BY <1>1, <1>3
      <3> QED
        BY <1>3, <3>1 DEF BusyFees
    <2>3. fee * (out - in) \in Nat
      BY <2>1, TimesMonotonic
    <2>4. d \in Nat /\ d * (2 * total) <= fee * (out - in)
      BY <1>1, <2>3, TruncatedFacts
    <2>5. 2 * d <= fee
      BY <1>1, <2>1, <2>4, HalfShare
    <2> QED
      BY <2>2, <2>4, <2>5, FeeAssumption DEF Larger
  <1>4. CASE ~(10 * out < 4 * total) /\ ~(10 * out > 6 * total)
    <2>1. f = fee
      BY <1>4 DEF BusyFees
    <2> QED
      BY <2>1, FeeAssumption
  <1> QED
    BY <1>2, <1>3, <1>4

(* calculateNewFeeRate, for every channel: the result is no negative       *)
(* number, so its unsigned type loses nothing, and it is the rate for      *)
(* drained channels or at most half as much again as the old one, with the *)
(* minimum update added where that is more; and if nothing was forwarded   *)
(* out, at most the old one.                                               *)
THEOREM NewFeeRatesBounded ==
  ASSUME NEW local \in Nat, NEW capacity \in Nat, NEW age \in Nat,
         NEW fee \in Nat, NEW in \in Nat, NEW out \in Nat,
         NEW f \in NewFeeRates(local, capacity, age, fee, in, out)
  PROVE  /\ f \in Nat
         /\ f = DrainedFee \/ 2 * f <= 3 * fee + 2 * MinFeePPMUpdate
         /\ out = 0 => f = DrainedFee \/ f <= fee
  <1>1. CASE Drained(local, capacity)
    BY <1>1, FeeAssumption DEF NewFeeRates
  <1>2. CASE ~Drained(local, capacity)
    <2>1. f = 0 \/ f \in ForwardFees(fee, in, out)
      BY <1>2 DEF NewFeeRates
    <2>2. CASE f = 0
      BY <2>2, FeeAssumption
    <2>3. CASE f \in ForwardFees(fee, in, out) /\ out = 0
      <3>1. f \in 0 .. fee
        BY <2>3, IdleFeeFalls DEF ForwardFees
      <3> QED
        BY <3>1, FeeAssumption
    <2>4. CASE f \in ForwardFees(fee, in, out) /\ out # 0
      BY <2>4, BusyFeesBounded DEF ForwardFees
    <2> QED
      BY <2>1, <2>2, <2>3, <2>4
  <1> QED
    BY <1>1, <1>2

(* A number reduced to a word fits it, whatever its sign.                  *)
LEMMA Conversions ==
  ASSUME NEW a \in Int, NEW b \in Nat \ {0}
  PROVE  a % b \in 0 .. (b - 1)
  BY Z3

(* The maximum HTLC is a number of millisatoshis.                          *)
LEMMA MaxHTLCType ==
  ASSUME NEW b \in Nat
  PROVE  NewMaxHTLC(b) \in Nat
  <1>1. Percentage(b, 80) \in Nat
    BY PercentageFacts
  <1> QED
    BY <1>1 DEF NewMaxHTLC

(* The initial states have the invariant.                                  *)
LEMMA InitInv == Init => Inv
  <1> SUFFICES ASSUME Init PROVE Inv
    OBVIOUS
  <1>1. TypeOK
    <2>1. born \in [Chans -> Nat]
      <3>1. PICK age \in [Chans -> Ages] :
               born = [c \in Chans |-> IF c \in open THEN StartHeight - age[c] ELSE 0]
        BY DEF Init
      <3>2. \A c \in Chans : StartHeight - age[c] \in Nat
        <4> TAKE c \in Chans
        <4>1. age[c] \in 0 .. (StartHeight - 1) /\ StartHeight \in Nat
          BY PoliciesAssumption
        <4> QED
          BY <4>1
      <3> QED
        BY <3>1, <3>2
    <2>2. policy \in [Chans -> PolicyType]
      <3>1. ASSUME NEW c \in Chans PROVE policy[c] \in PolicyType
        <4>1. policy[c] \in [fee : Fees, base : Bases, htlc : {1000}]
          BY DEF Init
        <4>2. Fees \subseteq 0 .. (FeeWord - 1)
          BY PoliciesAssumption
        <4>3. policy[c].fee \in 0 .. (FeeWord - 1)
          <5>1. policy[c].fee \in Fees
            BY <4>1
          <5> QED
            BY <4>2, <5>1
        <4> QED
          BY <4>1, <4>3 DEF PolicyType
      <3> QED
        BY <3>1 DEF Init
    <2> QED
      BY <2>1, <2>2, PoliciesAssumption DEF Init, TypeOK
  <1>2. \A c \in Chans : policy[c].fee \in Fees /\ policy[c].fee \in Nat
    <2> TAKE c \in Chans
    <2>1. policy[c].fee \in Fees
      BY DEF Init
    <2>2. Fees \subseteq 0 .. (FeeWord - 1) /\ FeeWord \in Nat
      BY PoliciesAssumption
    <2>3. policy[c].fee \in 0 .. (FeeWord - 1)
      BY <2>1, <2>2
    <2> QED
      BY <2>1, <2>2, <2>3
  <1>3. QuietFeesCapped
    BY <1>2, PoliciesAssumption DEF QuietFeesCapped, Capped
  <1> QED
    BY <1>1, <1>3 DEF Inv, Init

(* A run that returns leaves the invariant as it is.                       *)
LEMMA EndInv ==
  ASSUME Inv, NEW r \in Runs, End(r), UNCHANGED lnVars
  PROVE  Inv'
  <1>1. TypeOK'
    BY DEF Inv, TypeOK, End, Goto, lnVars
  <1> QED
    BY <1>1 DEF Inv, TypeOK, End, Goto, lnVars, QuietFeesCapped

(* So does one that goes on with its next channel.                         *)
LEMMA ContinueInv ==
  ASSUME Inv, NEW r \in Runs, Continue(r), UNCHANGED lnVars,
         todo' \in [Runs -> SUBSET Chans]
  PROVE  Inv'
  <1>1. TypeOK'
    BY DEF Inv, TypeOK, Continue, Goto, lnVars
  <1> QED
    BY <1>1 DEF Inv, TypeOK, Continue, Goto, lnVars, QuietFeesCapped

(* What a run reads is what LND has, and that is capped.                   *)
LEMMA FoundInv ==
  ASSUME Inv, NEW r \in Runs, NEW c \in Chans, Found(r, c), UNCHANGED lnVars
  PROVE  Inv'
  <1>1. policy[c] \in PolicyType
    BY DEF Inv, TypeOK
  <1>2. TypeOK'
    BY <1>1 DEF Inv, TypeOK, Found, Goto, lnVars, WorkType
  <1>3. \A q \in Runs : pc'[q] = "update" /\ work'[q].chan \in Quiet
                          => Capped(work'[q].read.fee)
    <2> TAKE q \in Runs
    <2>1. CASE q = r
      BY <2>1 DEF Inv, TypeOK, Found, Goto, QuietFeesCapped
    <2>2. CASE q # r
      BY <2>2 DEF Inv, TypeOK, Found, Goto
    <2> QED
      BY <2>1, <2>2
  <1>4. QuietFeesCapped'
    BY DEF Inv, QuietFeesCapped, lnVars
  <1> QED
    BY <1>2, <1>3, <1>4 DEF Inv, Capped

(* The fee rate that a run writes is one that LND may have, and capped if  *)
(* nothing is forwarded out.                                               *)
LEMMA UpdateFee ==
  ASSUME Inv, NEW r \in Runs, pc[r] = "update",
         NEW in \in Amounts, NEW out \in Outgoing(work[r].chan),
         NEW fee \in NewFeeRates(snap[r][work[r].chan], Capacity,
                                 Age(r, work[r].chan), work[r].read.fee, in, out)
  PROVE  /\ Updated(work[r].read, fee, NewMaxHTLC(snap[r][work[r].chan]))
               \in PolicyType
         /\ work[r].chan \in Quiet => Capped(fee % FeeWord)
  <1> DEFINE c == work[r].chan
             read == work[r].read
  <1>1. /\ c \in Chans /\ read \in PolicyType
        /\ snap[r][c] \in Nat /\ seen[r] \in Nat /\ born[c] \in Nat
    <2>1. work[r] \in WorkType
      BY DEF Inv, TypeOK
    <2>2. c \in Chans /\ read \in PolicyType
      BY <2>1 DEF WorkType
    <2>3. snap[r][c] \in Balances /\ seen[r] \in Nat /\ born[c] \in Nat
      BY <2>2 DEF Inv, TypeOK
    <2>4. Balances \subseteq 0 .. Capacity /\ Capacity \in Nat
      BY PoliciesAssumption
    <2>5. snap[r][c] \in 0 .. Capacity
      BY <2>3, <2>4
    <2>6. snap[r][c] \in Nat
      BY <2>4, <2>5
    <2> QED
      BY <2>2, <2>3, <2>6
  <1>2. Age(r, c) \in Nat
    <2>1. seen[r] - born[c] \in Int
      BY <1>1
    <2>2. (seen[r] - born[c]) % HeightWord \in 0 .. (HeightWord - 1)
      BY <2>1, Conversions, PoliciesAssumption
    <2> QED
      BY <2>2, PoliciesAssumption DEF Age
  <1>3. read.fee \in Nat /\ read.base \in Bases
    BY <1>1, PoliciesAssumption DEF PolicyType
  <1>4. in \in Nat /\ out \in Nat /\ Capacity \in Nat
    BY PoliciesAssumption DEF Outgoing
  <1>5. fee \in Nat /\ (out = 0 => fee = DrainedFee \/ fee <= read.fee)
    BY <1>1, <1>2, <1>3, <1>4, NewFeeRatesBounded
  <1>6. fee % FeeWord \in 0 .. (FeeWord - 1) /\ fee % FeeWord <= fee
    BY <1>5, RemainderFacts, PoliciesAssumption
  <1>7. NewMaxHTLC(snap[r][c]) \in Nat
    BY <1>1, MaxHTLCType
  <1>8. ASSUME c \in Quiet PROVE Capped(fee % FeeWord)
    <2>1. out = 0
      BY <1>8 DEF Outgoing
    <2>2. PICK f \in Fees \union {DrainedFee} : read.fee <= f
      BY <1>8 DEF Inv, Capped
    <2>3. f \in Nat /\ DrainedFee \in Nat
      BY FeeAssumption, PoliciesAssumption
    <2>4. CASE fee = DrainedFee
      BY <2>3, <2>4, <1>6 DEF Capped
    <2>5. CASE fee <= read.fee
      <3>1. fee % FeeWord <= f
        BY <1>3, <1>5, <1>6, <2>2, <2>3, <2>5, PoliciesAssumption
      <3> QED
        BY <3>1 DEF Capped
    <2> QED
      BY <1>5, <2>1, <2>4, <2>5
  <1> QED
    BY <1>3, <1>6, <1>7, <1>8 DEF Updated, PolicyType

(* Writing keeps the invariant, whatever has changed since the read.       *)
LEMMA UpdateInv ==
  ASSUME Inv, NEW r \in Runs, UpdatePolicy(r)
  PROVE  Inv'
  <1> DEFINE c == work[r].chan
             read == work[r].read
             htlc == NewMaxHTLC(snap[r][c])
  <1>1. PICK in \in Amounts, out \in Outgoing(c) :
        \E fee \in NewFeeRates(snap[r][c], Capacity, Age(r, c), read.fee, in, out) :
           IF NoChange(read, fee, htlc) \/ DryRun
           THEN Continue(r) /\ UNCHANGED <<todo, policy>>
           ELSE IF c \in open
           THEN /\ policy' = [policy EXCEPT ![c] = Updated(read, fee, htlc)]
                /\ Continue(r) /\ UNCHANGED todo
           ELSE End(r) /\ UNCHANGED policy
    BY Zenon DEF UpdatePolicy
  <1>2. PICK fee \in NewFeeRates(snap[r][c], Capacity, Age(r, c), read.fee, in, out) :
           \/ Continue(r) /\ UNCHANGED <<todo, policy>>
           \/ /\ policy' = [policy EXCEPT ![c] = Updated(read, fee, htlc)]
              /\ Continue(r) /\ UNCHANGED todo
           \/ End(r) /\ UNCHANGED policy
    BY <1>1, Zenon
  <1>3. pc[r] = "update" /\ UNCHANGED <<open, born, balance, height>>
    BY DEF UpdatePolicy
  <1>4. CASE Continue(r) /\ UNCHANGED <<todo, policy>>
    BY <1>3, <1>4, ContinueInv DEF Inv, TypeOK, lnVars
  <1>5. CASE End(r) /\ UNCHANGED policy
    BY <1>3, <1>5, EndInv DEF lnVars
  <1>6. CASE /\ policy' = [policy EXCEPT ![c] = Updated(read, fee, htlc)]
             /\ Continue(r) /\ UNCHANGED todo
    <2>1. c \in Chans
      BY <1>3 DEF Inv, TypeOK, WorkType
    <2>2. /\ Updated(read, fee, htlc) \in PolicyType
          /\ c \in Quiet => Capped(fee % FeeWord)
      BY <1>3, UpdateFee
    <2>3. policy' \in [Chans -> PolicyType]
      BY <1>6, <2>1, <2>2 DEF Inv, TypeOK
    <2>4. TypeOK'
      BY <1>3, <1>6, <2>3 DEF Inv, TypeOK, Continue, Goto
    <2>5. ASSUME NEW d \in Quiet PROVE Capped(policy'[d].fee)
      <3>1. d \in Chans
        BY PoliciesAssumption
      <3>2. CASE d = c
        <4>1. policy'[d].fee = fee % FeeWord
          BY <1>6, <2>1, <3>1, <3>2 DEF Inv, TypeOK, Updated
        <4> QED
          BY <2>2, <3>2, <4>1
      <3>3. CASE d # c
        BY <1>6, <3>1, <3>3 DEF Inv, TypeOK, QuietFeesCapped
      <3> QED
        BY <3>2, <3>3
    <2>6. \A q \in Runs : pc'[q] = "update" /\ work'[q].chan \in Quiet
                            => Capped(work'[q].read.fee)
      BY <1>6 DEF Inv, TypeOK, Continue, Goto
    <2> QED
      BY <2>4, <2>5, <2>6 DEF Inv, QuietFeesCapped, Capped
  <1> QED
    BY <1>2, <1>4, <1>5, <1>6

(* Each step of a run keeps the invariant.                                 *)
LEMMA ProgressInv ==
  ASSUME Inv, NEW r \in Runs, Progress(r) \/ Abort(r)
  PROVE  Inv'
  <1>1. CASE GetInfo(r)
    <2>1. TypeOK'
      BY <1>1 DEF Inv, TypeOK, GetInfo, Goto, lnVars
    <2> QED
      BY <1>1, <2>1 DEF Inv, TypeOK, GetInfo, Goto, lnVars, QuietFeesCapped
  <1>2. CASE ListChannels(r)
    <2>1. TypeOK'
      BY <1>2 DEF Inv, TypeOK, ListChannels, Goto, lnVars
    <2> QED
      BY <1>2, <2>1 DEF Inv, TypeOK, ListChannels, Goto, lnVars, QuietFeesCapped
  <1>3. ASSUME NEW c \in Chans, GetChanInfo(r, c) PROVE Inv'
    <2>1. CASE Found(r, c)
      BY <1>3, <2>1, FoundInv DEF GetChanInfo
    <2>2. CASE todo' = [todo EXCEPT ![r] = @ \ {c}] /\ Continue(r)
      <3>1. todo' \in [Runs -> SUBSET Chans]
        BY <2>2 DEF Inv, TypeOK
      <3> QED
        BY <1>3, <2>2, <3>1, ContinueInv DEF GetChanInfo
    <2> QED
      BY <1>3, <2>1, <2>2 DEF GetChanInfo
  <1>4. CASE UpdatePolicy(r)
    BY <1>4, UpdateInv
  <1>5. CASE Return(r) \/ Abort(r)
    BY <1>5, EndInv DEF Return, Abort
  <1> QED
    BY <1>1, <1>2, <1>3, <1>4, <1>5 DEF Progress

(* So does what the operator, the peers and the chain do.                  *)
LEMMA WorldInv == Inv /\ World /\ UNCHANGED runVars => Inv'
  <1> SUFFICES ASSUME Inv, World, UNCHANGED runVars PROVE Inv'
    OBVIOUS
  <1>1. ASSUME NEW c \in Chans, Operator(c) PROVE Inv'
    <2>1. PICK fee \in Fees, base \in Bases :
             policy' = [policy EXCEPT ![c] = [@ EXCEPT !.fee = fee, !.base = base]]
      BY <1>1 DEF Operator
    <2>2. fee \in 0 .. (FeeWord - 1)
      BY PoliciesAssumption
    <2>3. policy' \in [Chans -> PolicyType]
      BY <1>1, <2>1, <2>2 DEF Inv, TypeOK, PolicyType
    <2>4. TypeOK'
      BY <1>1, <2>3 DEF Inv, TypeOK, Operator, runVars
    <2>5. Capped(fee)
      BY <2>2 DEF Capped
    <2>6. ASSUME NEW d \in Quiet PROVE Capped(policy'[d].fee)
      BY <1>1, <2>1, <2>5, PoliciesAssumption
         DEF Inv, TypeOK, PolicyType, QuietFeesCapped
    <2> QED
      BY <2>4, <2>6 DEF Inv, runVars, QuietFeesCapped, Capped
  <1>2. ASSUME UNCHANGED policy, TypeOK' PROVE Inv'
    BY <1>2 DEF Inv, runVars, QuietFeesCapped, Capped
  <1>3. ASSUME NEW c \in Chans, Payment(c) \/ Opened(c) \/ Closed(c) PROVE Inv'
    <2>1. TypeOK'
      BY <1>3 DEF Inv, TypeOK, Payment, Opened, Closed, runVars
    <2> QED
      BY <1>2, <1>3, <2>1 DEF Payment, Opened, Closed
  <1>4. CASE Block
    <2>1. TypeOK'
      BY <1>4 DEF Inv, TypeOK, Block, runVars
    <2> QED
      BY <1>2, <1>4, <2>1 DEF Block
  <1> QED
    BY <1>1, <1>3, <1>4 DEF World

(* Every step keeps the invariant.                                         *)
LEMMA NextInv == Inv /\ [Next]_vars => Inv'
  <1> SUFFICES ASSUME Inv, [Next]_vars PROVE Inv'
    OBVIOUS
  <1>1. CASE UNCHANGED vars
    <2>1. TypeOK'
      BY <1>1 DEF Inv, TypeOK, vars, lnVars, runVars
    <2> QED
      BY <1>1, <2>1 DEF Inv, vars, lnVars, runVars, QuietFeesCapped, Capped
  <1> QED
    BY <1>1, ProgressInv, WorldInv DEF Next

(* The invariant holds in every state of every behaviour.                  *)
THEOREM Invariant == Spec => []Inv
  BY InitInv, NextInv, PTL DEF Spec

(* The types of the variables hold throughout.                             *)
THEOREM TypeCorrect == Spec => []TypeOK
  <1>1. Inv => TypeOK
    BY DEF Inv
  <1> QED
    BY Invariant, <1>1, PTL

(* A channel that forwards nothing out is never dearer than the operator   *)
(* or the rate for drained channels has made it.                           *)
THEOREM QuietCapped == Spec => []QuietFeesCapped
  <1>1. Inv => QuietFeesCapped
    BY DEF Inv
  <1> QED
    BY Invariant, <1>1, PTL

(***************************************************************************)
(* A single executor.                                                      *)
(***************************************************************************)
OneRun == \A r, q \in Runs : r = q

(* What a step of the run may do to policies and to the channel at hand.   *)
LEMMA StepOfRun ==
  ASSUME Inv, NEW r \in Runs, Progress(r) \/ Abort(r)
  PROVE  \/ /\ UNCHANGED <<policy, open>>
            /\ pc'[r] = "idle" \/ pc'[r] = "info"
         \/ /\ ListChannels(r) /\ UNCHANGED <<policy, open>>
            /\ pc'[r] = "next" /\ todo'[r] = open
         \/ \E c \in todo[r] : /\ Found(r, c) /\ UNCHANGED <<policy, open>>
                               /\ pc[r] = "next"
                               /\ pc'[r] = "update" /\ snap'[r] = snap[r]
                               /\ todo'[r] = todo[r] \ {c}
                               /\ work'[r] = [chan |-> c, read |-> policy[c]]
         \/ \E c \in todo[r] : /\ NotFound(c) /\ UNCHANGED <<policy, open>>
                               /\ pc[r] = "next"
                               /\ pc'[r] = "next" /\ snap'[r] = snap[r]
                               /\ todo'[r] = todo[r] \ {c}
         \/ /\ UpdatePolicy(r)
            /\ pc[r] = "update" /\ pc'[r] = "next" /\ snap'[r] = snap[r]
            /\ todo'[r] = todo[r] /\ UNCHANGED open
            /\ \E in \in Amounts, out \in Outgoing(work[r].chan) :
               \E fee \in NewFeeRates(snap[r][work[r].chan], Capacity,
                                      Age(r, work[r].chan), work[r].read.fee, in, out) :
                  LET c == work[r].chan
                      htlc == NewMaxHTLC(snap[r][c])
                  IN  \/ /\ NoChange(work[r].read, fee, htlc) \/ DryRun
                         /\ UNCHANGED policy
                      \/ policy' = [policy EXCEPT ![c] = Updated(work[r].read, fee, htlc)]
  <1> USE DEF Inv, TypeOK
  <1>1. CASE GetInfo(r)
    BY <1>1 DEF GetInfo, Goto, lnVars
  <1>2. CASE ListChannels(r)
    BY <1>2 DEF ListChannels, Goto, lnVars
  <1>4. CASE \E c \in Chans : GetChanInfo(r, c)
    <2>1. PICK c \in Chans : GetChanInfo(r, c)
      BY <1>4
    <2>2. c \in todo[r] /\ pc[r] = "next" /\ UNCHANGED <<policy, open>>
      BY <2>1 DEF GetChanInfo, lnVars
    <2>3. CASE Found(r, c)
      BY <2>2, <2>3 DEF Found, Goto
    <2>4. CASE /\ NotFound(c) /\ todo' = [todo EXCEPT ![r] = @ \ {c}]
               /\ Continue(r)
      BY <2>2, <2>4 DEF Continue, Goto
    <2> QED
      BY <2>1, <2>3, <2>4 DEF GetChanInfo
  <1>5. CASE UpdatePolicy(r)
    <2> DEFINE c == work[r].chan
               read == work[r].read
               htlc == NewMaxHTLC(snap[r][c])
    <2>1. PICK in \in Amounts, out \in Outgoing(c) :
          \E fee \in NewFeeRates(snap[r][c], Capacity, Age(r, c), read.fee, in, out) :
             IF NoChange(read, fee, htlc) \/ DryRun
             THEN Continue(r) /\ UNCHANGED <<todo, policy>>
             ELSE IF c \in open
             THEN /\ policy' = [policy EXCEPT ![c] = Updated(read, fee, htlc)]
                  /\ Continue(r) /\ UNCHANGED todo
             ELSE End(r) /\ UNCHANGED policy
      BY <1>5, Zenon DEF UpdatePolicy
    <2>2. PICK fee \in NewFeeRates(snap[r][c], Capacity, Age(r, c), read.fee, in, out) :
             \/ /\ NoChange(read, fee, htlc) \/ DryRun
                /\ Continue(r) /\ UNCHANGED <<todo, policy>>
             \/ /\ policy' = [policy EXCEPT ![c] = Updated(read, fee, htlc)]
                /\ Continue(r) /\ UNCHANGED todo
             \/ End(r) /\ UNCHANGED policy
      BY <2>1, Zenon
    <2>3. pc[r] = "update" /\ UNCHANGED <<open, born, balance, height>>
      BY <1>5 DEF UpdatePolicy
    <2>4. CASE End(r) /\ UNCHANGED policy
      BY <2>3, <2>4 DEF End, Goto
    <2>5. CASE Continue(r)
      <3>1. pc'[r] = "next" /\ snap'[r] = snap[r]
        BY <2>5 DEF Continue, Goto
      <3>2. CASE /\ NoChange(read, fee, htlc) \/ DryRun
                 /\ UNCHANGED <<todo, policy>>
        BY <1>5, <2>3, <3>1, <3>2
      <3>3. CASE /\ policy' = [policy EXCEPT ![c] = Updated(read, fee, htlc)]
                 /\ UNCHANGED todo
        BY <1>5, <2>3, <3>1, <3>3
      <3>4. CASE End(r) /\ UNCHANGED policy
        BY <2>4, <3>4
      <3> QED
        BY <2>2, <3>2, <3>3, <3>4
    <2> QED
      BY <2>2, <2>4, <2>5
  <1>6. CASE Return(r) \/ Abort(r)
    BY <1>6 DEF Return, Abort, End, Goto, lnVars
  <1> QED
    BY <1>1, <1>2, <1>4, <1>5, <1>6 DEF Progress

(* Besides the run, only the operator touches a policy, and no maximum     *)
(* HTLC.                                                                   *)
LEMMA StepOfWorld ==
  ASSUME Inv, World, UNCHANGED runVars
  PROVE  /\ \A c \in Chans : policy'[c].htlc = policy[c].htlc
         /\ "operator" \notin Environment => UNCHANGED policy
         /\ "opens" \notin Environment => open' \subseteq open
  <1>1. ASSUME NEW c \in Chans, Operator(c)
        PROVE  /\ \A d \in Chans : policy'[d].htlc = policy[d].htlc
               /\ "operator" \in Environment /\ UNCHANGED open
    <2>1. PICK fee \in Fees, base \in Bases :
             policy' = [policy EXCEPT ![c] = [@ EXCEPT !.fee = fee, !.base = base]]
      BY <1>1 DEF Operator
    <2>2. ASSUME NEW d \in Chans PROVE policy'[d].htlc = policy[d].htlc
      BY <2>1 DEF Inv, TypeOK, PolicyType
    <2> QED
      BY <1>1, <2>2 DEF Operator
  <1>2. ASSUME NEW c \in Chans, Payment(c) \/ Opened(c) \/ Closed(c)
        PROVE  /\ UNCHANGED policy
               /\ "opens" \notin Environment => open' \subseteq open
    BY <1>2 DEF Payment, Opened, Closed
  <1>3. CASE Block
    BY <1>3 DEF Block
  <1> QED
    BY <1>1, <1>2, <1>3 DEF World

(* A step in which nothing happens to policies.                            *)
LEMMA NoStep ==
  ASSUME Inv, UNCHANGED vars
  PROVE  UNCHANGED <<policy, open, runVars>>
  BY DEF vars, lnVars

(* What a single executor has read of a policy is still LND's.             *)
LEMMA HTLCStands ==
  ASSUME OneRun, Inv, ReadHTLCStands, [Next]_vars
  PROVE  ReadHTLCStands'
  <1>1. CASE UNCHANGED vars
    BY <1>1, NoStep DEF ReadHTLCStands, runVars
  <1>2. CASE World /\ UNCHANGED runVars
    <2>1. \A r \in Runs : pc[r] = "update" => work[r].chan \in Chans
      BY DEF Inv, TypeOK, WorkType
    <2> QED
      BY <1>2, <2>1, StepOfWorld DEF ReadHTLCStands, runVars
  <1>3. ASSUME NEW r \in Runs, Progress(r) \/ Abort(r) PROVE ReadHTLCStands'
    <2> SUFFICES ASSUME NEW q \in Runs, pc'[q] = "update"
                 PROVE  work'[q].read.htlc = policy'[work'[q].chan].htlc
      BY DEF ReadHTLCStands
    <2>1. q = r
      BY DEF OneRun
    <2>2. PICK c \in todo[r] :
             work'[r] = [chan |-> c, read |-> policy[c]] /\ UNCHANGED policy
      BY <1>3, <2>1, StepOfRun, Zenon
    <2> QED
      BY <2>1, <2>2
  <1> QED
    BY <1>1, <1>2, <1>3 DEF Next

LEMMA FeeStands ==
  ASSUME OneRun, "operator" \notin Environment, Inv, ReadFeeStands, [Next]_vars
  PROVE  ReadFeeStands'
  <1>1. CASE UNCHANGED vars
    BY <1>1, NoStep DEF ReadFeeStands, runVars
  <1>2. CASE World /\ UNCHANGED runVars
    BY <1>2, StepOfWorld DEF ReadFeeStands, runVars
  <1>3. ASSUME NEW r \in Runs, Progress(r) \/ Abort(r) PROVE ReadFeeStands'
    <2> SUFFICES ASSUME NEW q \in Runs, pc'[q] = "update"
                 PROVE  work'[q].read.fee = policy'[work'[q].chan].fee
      BY DEF ReadFeeStands
    <2>1. q = r
      BY DEF OneRun
    <2>2. PICK c \in todo[r] :
             work'[r] = [chan |-> c, read |-> policy[c]] /\ UNCHANGED policy
      BY <1>3, <2>1, StepOfRun, Zenon
    <2> QED
      BY <2>1, <2>2
  <1> QED
    BY <1>1, <1>2, <1>3 DEF Next

(* Behind the run nothing is out of date: a channel it leaves behind has   *)
(* just been written, needed nothing, is unknown or is gone.               *)
LEMMA NextApplied ==
  ASSUME OneRun, ~DryRun, Environment \intersect {"opens", "failures"} = {},
         Inv, ReadHTLCStands, Applied, [Next]_vars
  PROVE  Applied'
  <1>1. CASE UNCHANGED vars
    BY <1>1, NoStep DEF Applied, runVars
  <1>2. CASE World /\ UNCHANGED runVars
    <2>1. \A c \in open' : c \in open /\ c \in Chans
      BY <1>2, StepOfWorld DEF Inv, TypeOK
    <2> QED
      BY <1>2, <2>1, StepOfWorld DEF Applied, runVars
  <1>3. ASSUME NEW r \in Runs, Progress(r) \/ Abort(r) PROVE Applied'
    <2> SUFFICES ASSUME pc'[r] \in {"next", "update"},
                        NEW d \in open' \ (todo'[r] \union Unknown)
                 PROVE  \/ policy'[d].htlc = NewMaxHTLC(snap'[r][d])
                        \/ pc'[r] = "update" /\ work'[r].chan = d
      BY DEF Applied, OneRun
    <2>1. CASE UNCHANGED <<policy, open>> /\ pc'[r] \in {"idle", "info"}
      BY <2>1
    <2>2. CASE /\ UNCHANGED <<policy, open>>
               /\ pc'[r] = "next" /\ todo'[r] = open
      BY <2>2
    <2>3. ASSUME NEW c \in todo[r], UNCHANGED <<policy, open>>, pc[r] = "next",
                 pc'[r] = "update", snap'[r] = snap[r], todo'[r] = todo[r] \ {c},
                 work'[r] = [chan |-> c, read |-> policy[c]]
          PROVE  \/ policy'[d].htlc = NewMaxHTLC(snap'[r][d])
                 \/ pc'[r] = "update" /\ work'[r].chan = d
      BY <2>3 DEF Applied
    <2>4. ASSUME NEW c \in todo[r], NotFound(c), UNCHANGED <<policy, open>>,
                 pc[r] = "next", snap'[r] = snap[r], todo'[r] = todo[r] \ {c}
          PROVE  policy'[d].htlc = NewMaxHTLC(snap'[r][d])
      BY <2>4 DEF Applied, NotFound
    <2>5. ASSUME pc[r] = "update", snap'[r] = snap[r], todo'[r] = todo[r],
                 UNCHANGED open,
                 NEW fee,
                 LET c == work[r].chan
                     htlc == NewMaxHTLC(snap[r][c])
                 IN  \/ /\ NoChange(work[r].read, fee, htlc) \/ DryRun
                        /\ UNCHANGED policy
                     \/ policy' = [policy EXCEPT ![c] = Updated(work[r].read, fee, htlc)]
          PROVE  policy'[d].htlc = NewMaxHTLC(snap'[r][d])
      <3> DEFINE c == work[r].chan
                 htlc == NewMaxHTLC(snap[r][c])
      <3>1. c \in Chans /\ d \in Chans
        BY <2>5 DEF Inv, TypeOK, WorkType
      <3>2. CASE d = c
        <4>1. CASE NoChange(work[r].read, fee, htlc) /\ UNCHANGED policy
          BY <2>5, <3>2, <4>1 DEF NoChange, ReadHTLCStands
        <4>2. CASE policy' = [policy EXCEPT ![c] = Updated(work[r].read, fee, htlc)]
          BY <2>5, <3>1, <3>2, <4>2 DEF Updated, Inv, TypeOK
        <4> QED
          BY <2>5, <4>1, <4>2
      <3>3. CASE d # c
        <4>1. policy'[d] = policy[d]
          BY <2>5, <3>1, <3>3 DEF Inv, TypeOK
        <4> QED
          BY <2>5, <3>3, <4>1 DEF Applied
      <3> QED
        BY <3>2, <3>3
    <2> QED
      BY <1>3, <2>1, <2>2, <2>3, <2>4, <2>5, StepOfRun
  <1> QED
    BY <1>1, <1>2, <1>3 DEF Next

(* Behind a run of a single executor that meets no errors, the maximum     *)
(* HTLC of every known channel fits the balance it has read: for any       *)
(* channels and policies, whatever the operator sets and whichever         *)
(* channels close meanwhile (agent.UpdatePolicies).                        *)
THEOREM NothingSkipped ==
  ASSUME OneRun, ~DryRun, Environment \intersect {"opens", "failures"} = {}
  PROVE  Spec => []Applied
  <1>1. Init => ReadHTLCStands /\ Applied
    BY DEF Init, ReadHTLCStands, Applied
  <1>2. Inv /\ ReadHTLCStands /\ Applied /\ [Next]_vars => (ReadHTLCStands /\ Applied)'
    BY HTLCStands, NextApplied
  <1> QED
    BY <1>1, <1>2, Invariant, PTL DEF Spec

(* No step raises the fee rate of a channel that forwards nothing out, but *)
(* to the rate for drained ones.                                           *)
LEMMA StepFalls ==
  ASSUME OneRun, "operator" \notin Environment,
         Inv, ReadFeeStands, [Next]_vars,
         NEW c \in Quiet, policy'[c].fee > policy[c].fee
  PROVE  \E r \in Runs : /\ pc[r] = "update" /\ work[r].chan = c
                         /\ Drained(snap[r][c], Capacity)
  <1>1. UNCHANGED policy => FALSE
    <2>1. policy[c].fee \in Int
      BY PoliciesAssumption DEF Inv, TypeOK, PolicyType
    <2> QED
      BY <2>1
  <1>2. PICK r \in Runs : Progress(r) \/ Abort(r)
    BY <1>1, NoStep, StepOfWorld DEF Next
  <1> DEFINE d == work[r].chan
             read == work[r].read
  <1> DEFINE Changed(fee) ==
               policy' = [policy EXCEPT ![d] = Updated(read, fee, NewMaxHTLC(snap[r][d]))]
  <1>3. /\ pc[r] = "update"
        /\ \E in \in Amounts, out \in Outgoing(d) :
           \E fee \in NewFeeRates(snap[r][d], Capacity, Age(r, d), read.fee, in, out) :
              \/ /\ NoChange(read, fee, NewMaxHTLC(snap[r][d])) \/ DryRun
                 /\ UNCHANGED policy
              \/ Changed(fee)
    <2>1. ~UNCHANGED policy
      BY <1>1
    <2> QED
      BY <1>2, <2>1, StepOfRun, Zenon
  <1>4. PICK in \in Amounts, out \in Outgoing(d) :
           \E fee \in NewFeeRates(snap[r][d], Capacity, Age(r, d), read.fee, in, out) :
              \/ /\ NoChange(read, fee, NewMaxHTLC(snap[r][d])) \/ DryRun
                 /\ UNCHANGED policy
              \/ Changed(fee)
    BY <1>3, Zenon
  <1>5. PICK fee \in NewFeeRates(snap[r][d], Capacity, Age(r, d), read.fee, in, out) :
           policy' = [policy EXCEPT ![d] = Updated(read, fee, NewMaxHTLC(snap[r][d]))]
    BY <1>1, <1>4, Zenon
  <1>6. d = c
    <2>1. c \in Chans
      BY PoliciesAssumption
    <2>2. CASE d # c
      <3>1. policy'[c] = policy[c]
        BY <1>5, <2>1, <2>2 DEF Inv, TypeOK
      <3>2. policy[c].fee \in Int
        BY <2>1, PoliciesAssumption DEF Inv, TypeOK, PolicyType
      <3> QED
        BY <3>1, <3>2
    <2> QED
      BY <2>2
  <1>7. policy'[c].fee = fee % FeeWord /\ read.fee = policy[c].fee
    BY <1>3, <1>5, <1>6, PoliciesAssumption
       DEF Inv, TypeOK, Updated, ReadFeeStands
  <1>8. out = 0
    BY <1>6 DEF Outgoing
  <1>9. SUFFICES ASSUME ~Drained(snap[r][c], Capacity) PROVE FALSE
    BY <1>3, <1>6
  <1>10. /\ snap[r][c] \in Nat /\ Age(r, c) \in Nat /\ read.fee \in Nat
         /\ in \in Nat /\ Capacity \in Nat
    <2>1. work[r] \in WorkType /\ c \in Chans
      BY <1>3, PoliciesAssumption DEF Inv, TypeOK
    <2>2. read \in PolicyType
      BY <2>1 DEF WorkType
    <2>3. snap[r][c] \in Balances /\ seen[r] \in Nat /\ born[c] \in Nat
      BY <2>1 DEF Inv, TypeOK
    <2>4. Balances \subseteq 0 .. Capacity /\ Capacity \in Nat
      BY PoliciesAssumption
    <2>5. snap[r][c] \in 0 .. Capacity
      BY <2>3, <2>4
    <2>6. (seen[r] - born[c]) % HeightWord \in Nat
      <3>1. HeightWord \in Nat \ {0} /\ seen[r] - born[c] \in Int
        BY <2>3, PoliciesAssumption
      <3> QED
        BY <3>1, SMT
    <2>7. Age(r, c) \in Nat
      BY <2>6, PoliciesAssumption DEF Age
    <2> QED
      BY <2>2, <2>4, <2>5, <2>7, PoliciesAssumption DEF PolicyType
  <1>11. fee \in Nat /\ fee <= read.fee
    <2>1. \A most \in Truncated(Capacity * 95, 100) :
             ForwardFees(read.fee, in, out) = {IdleFee(read.fee)}
      BY <1>8 DEF ForwardFees
    <2>2. fee = 0 \/ fee = IdleFee(read.fee)
      BY <1>5, <1>6, <1>9, <2>1 DEF NewFeeRates
    <2>3. IdleFee(read.fee) \in 0 .. read.fee
      BY <1>10, IdleFeeFalls
    <2> QED
      BY <1>10, <2>2, <2>3
  <1>12. fee % FeeWord \in Nat /\ fee % FeeWord <= fee
    BY <1>11, RemainderFacts, PoliciesAssumption
  <1> QED
    BY <1>7, <1>10, <1>11, <1>12

(* With a single executor and no operator, the fee rate of a channel that  *)
(* forwards nothing out rises only where its balance is nearly exhausted:  *)
(* no rounding, cut to 32 bits or failed call ever turns a decrease into   *)
(* an increase (calculateNewFeeRate, UpdatePolicy).                        *)
THEOREM QuietFall ==
  ASSUME OneRun, "operator" \notin Environment
  PROVE  Spec => QuietFeesFall
  <1>1. Init => ReadFeeStands
    BY DEF Init, ReadFeeStands
  <1>2. Inv /\ ReadFeeStands /\ [Next]_vars => ReadFeeStands'
    BY FeeStands
  <1>3. Inv /\ ReadFeeStands /\ [Next]_vars =>
          [\A c \in Quiet : policy'[c].fee > policy[c].fee =>
              \E r \in Runs : /\ pc[r] = "update" /\ work[r].chan = c
                              /\ Drained(snap[r][c], Capacity)]_vars
    BY StepFalls
  <1> QED
    BY <1>1, <1>2, <1>3, Invariant, PTL DEF Spec, QuietFeesFall
=============================================================================
