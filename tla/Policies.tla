------------------------------ MODULE Policies ------------------------------
(***************************************************************************)
(* The executions of Hydrus that update routing policies: the scheduler's  *)
(* routingPoliciesTask and the command "channels update-policies".  A run  *)
(* takes the height and the balances of the public channels once, then     *)
(* reads, computes and writes the policy of one channel after the other.   *)
(* Balances, policies, the chain and the channels move on meanwhile.       *)
(***************************************************************************)
EXTENDS FeeRule

CONSTANTS
    Runs,         \* executors of Hydrus: the scheduled job, a command
    Chans,        \* public channels
    Capacity,     \* capacity of every channel, in satoshis
    Balances,     \* local balances
    Amounts,      \* satoshis forwarded through a channel in a period
    Quiet,        \* channels that forward nothing out
    Unknown,      \* channels LND has no information about (GetChanInfo)
    Fees,         \* fee rates that are not Hydrus' work
    Bases,        \* base fees and time lock deltas, taken together
    StartHeight,  \* block height at the start
    MaxHeight,    \* bound: last block of the model
    Ages,         \* ages, in blocks, of the channels open at the start
    FeeWord,      \* 2^32: fee rates are sent as uint32
    HeightWord,   \* 2^32: heights are uint32
    DryRun,       \* agent.dry_run
    None,         \* no channel is being updated
    Environment   \* what may happen besides Hydrus, see below

(* "operator": the operator changes a fee rate or a base fee by hand       *)
(* "payments": the balance of a channel changes                            *)
(* "opens":    a channel is established in the block just found            *)
(* "closes":   a channel goes away                                         *)
(* "failures": calls fail                                                  *)
ASSUME PoliciesAssumption ==
    /\ Capacity \in Nat /\ Balances \subseteq 0 .. Capacity
    /\ Amounts \subseteq Nat
    /\ Quiet \subseteq Chans /\ Unknown \subseteq Chans
    /\ FeeWord \in Nat \ {0} /\ HeightWord \in Nat \ {0}
    /\ Fees \subseteq 0 .. (FeeWord - 1) /\ DrainedFee < FeeWord
    /\ StartHeight \in Nat /\ MaxHeight \in Nat
    /\ Ages \subseteq 0 .. (StartHeight - 1)
    /\ DryRun \in BOOLEAN

VARIABLES
    open,     \* channels that are open
    born,     \* the block height in the id of each channel, 0 before it has one
    balance,  \* local balance of each channel
    policy,   \* what LND announces for our side of each channel
    height,   \* best block
    pc,       \* the call each run is about to make
    seen,     \* CurrentBlockHeight of each run
    snap,     \* LocalBalance of the channels, when each run listed them
    todo,     \* channels each run has not reached yet
    work      \* the channel each run is at, with the policy it has read

lnVars == <<open, born, balance, policy, height>>
runVars == <<pc, seen, snap, todo, work>>
vars == <<lnVars, runVars>>

PolicyType == [fee : 0 .. (FeeWord - 1), base : Bases, htlc : Nat]

WorkType == [chan : Chans, read : PolicyType]

(* Types.  The fee rate that is sent fits into 32 bits (UpdatePolicy).     *)
TypeOK ==
    /\ open \subseteq Chans
    /\ born \in [Chans -> Nat]
    /\ balance \in [Chans -> Balances]
    /\ policy \in [Chans -> PolicyType]
    /\ height \in Nat
    /\ pc \in [Runs -> {"idle", "info", "next", "update"}]
    /\ seen \in [Runs -> Nat]
    /\ snap \in [Runs -> [Chans -> Balances]]
    /\ todo \in [Runs -> SUBSET Chans]
    /\ work \in [Runs -> WorkType \union {None}]
    /\ \A r \in Runs : pc[r] = "update" => work[r] \in WorkType

Init ==
    /\ open \in SUBSET Chans
    /\ \E age \in [Chans -> Ages] :
          born = [c \in Chans |-> IF c \in open THEN StartHeight - age[c] ELSE 0]
    /\ balance \in [Chans -> Balances]
    /\ policy \in [Chans -> [fee : Fees, base : Bases, htlc : {1000}]]
    /\ height = StartHeight
    /\ pc = [r \in Runs |-> "idle"]
    /\ seen = [r \in Runs |-> 0]
    /\ snap = [r \in Runs |-> balance]
    /\ todo = [r \in Runs |-> {}]
    /\ work = [r \in Runs |-> None]

Goto(r, stage) == pc' = [pc EXCEPT ![r] = stage]

(* The run returns; the next one of the same executor starts from nothing. *)
End(r) ==
    /\ Goto(r, "idle")
    /\ seen' = [seen EXCEPT ![r] = 0]
    /\ todo' = [todo EXCEPT ![r] = {}]
    /\ work' = [work EXCEPT ![r] = None]
    /\ UNCHANGED snap

(* The run goes on with its next channel.                                  *)
Continue(r) ==
    /\ Goto(r, "next")
    /\ work' = [work EXCEPT ![r] = None]
    /\ UNCHANGED <<seen, snap>>

(* local.GetNode: the height first, the channels and their balances later. *)
GetInfo(r) ==
    /\ pc[r] = "idle"
    /\ Goto(r, "info")
    /\ seen' = [seen EXCEPT ![r] = height]
    /\ UNCHANGED <<lnVars, snap, todo, work>>

ListChannels(r) ==
    /\ pc[r] = "info"
    /\ Goto(r, "next")
    /\ todo' = [todo EXCEPT ![r] = open]
    /\ snap' = [snap EXCEPT ![r] = balance]
    /\ UNCHANGED <<lnVars, seen, work>>

(* Mutant: the policy of neither side is taken for ours, and it is nil.    *)
FoundNil(r, c) ==
    /\ c \notin Unknown
    /\ Goto(r, "update")
    /\ work' = [work EXCEPT ![r] = [chan |-> c, read |-> None]]
    /\ todo' = [todo EXCEPT ![r] = @ \ {c}]
    /\ UNCHANGED <<seen, snap>>

(* The policy of c as LND knows it; a channel that is being closed may     *)
(* still be known.                                                         *)
Found(r, c) ==
    /\ c \notin Unknown
    /\ Goto(r, "update")
    /\ work' = [work EXCEPT ![r] = [chan |-> c, read |-> policy[c]]]
    /\ todo' = [todo EXCEPT ![r] = @ \ {c}]
    /\ UNCHANGED <<seen, snap>>

NotFound(c) == c \in Unknown \/ c \notin open \/ "failures" \in Environment

(* Mutant: an error of one channel ends the run.                           *)
GetChanInfoStrict(r, c) ==
    /\ pc[r] = "next"
    /\ c \in todo[r]
    /\ \/ Found(r, c)
       \/ NotFound(c) /\ End(r)
    /\ UNCHANGED lnVars

(* getChannelPolicy: an error is logged and the next channel is tried.     *)
GetChanInfo(r, c) ==
    /\ pc[r] = "next"
    /\ c \in todo[r]
    /\ \/ Found(r, c)
       \/ /\ NotFound(c)
          /\ todo' = [todo EXCEPT ![r] = @ \ {c}]
          /\ Continue(r)
    /\ UNCHANGED lnVars

(* currentBlockHeight - channel.BlockHeight, of two uint32.                *)
Age(r, c) == (seen[r] - born[c]) % HeightWord

(* What ListForwards may say of the period that ends now.                  *)
Outgoing(c) == IF c \in Quiet THEN {0} ELSE Amounts

(* Mutant: one of the two values is enough to skip the update.             *)
NoChangeEither(read, fee, htlc) == fee = read.fee \/ htlc = read.htlc

NoChange(read, fee, htlc) == fee = read.fee /\ htlc = read.htlc

(* Base fee and time lock delta are those that were read before.           *)
Updated(read, fee, htlc) == [fee |-> fee % FeeWord, base |-> read.base, htlc |-> htlc]

(* ListForwards, the new values and, if one differs, UpdateChannelPolicy.  *)
(* An error of the last, for a channel that is gone, ends the run.         *)
UpdatePolicy(r) ==
    /\ pc[r] = "update"
    /\ LET c    == work[r].chan
           read == work[r].read
           htlc == NewMaxHTLC(snap[r][c])
       IN  \E in \in Amounts, out \in Outgoing(c) :
           \E fee \in NewFeeRates(snap[r][c], Capacity, Age(r, c), read.fee, in, out) :
              IF NoChange(read, fee, htlc) \/ DryRun
              THEN Continue(r) /\ UNCHANGED <<todo, policy>>
              ELSE IF c \in open
              THEN /\ policy' = [policy EXCEPT ![c] = Updated(read, fee, htlc)]
                   /\ Continue(r) /\ UNCHANGED todo
              ELSE End(r) /\ UNCHANGED policy
    /\ UNCHANGED <<open, born, balance, height>>

(* Every channel has been reached.                                         *)
Return(r) ==
    /\ pc[r] = "next"
    /\ todo[r] = {}
    /\ End(r)
    /\ UNCHANGED lnVars

(* GetNode, ListForwards or UpdateChannelPolicy fail, our side of a channel *)
(* has no policy yet, the context is canceled or the process dies.         *)
Abort(r) ==
    /\ "failures" \in Environment
    /\ pc[r] # "idle"
    /\ End(r)
    /\ UNCHANGED lnVars

Progress(r) ==
    \/ GetInfo(r)
    \/ ListChannels(r)
    \/ \E c \in Chans : GetChanInfo(r, c)
    \/ UpdatePolicy(r)
    \/ Return(r)

(***************************************************************************)
(* What happens besides.                                                   *)
(***************************************************************************)
Operator(c) ==
    /\ "operator" \in Environment
    /\ \E fee \in Fees, base \in Bases :
          policy' = [policy EXCEPT ![c] = [@ EXCEPT !.fee = fee, !.base = base]]
    /\ UNCHANGED <<open, born, balance, height>>

Payment(c) ==
    /\ "payments" \in Environment
    /\ \E b \in Balances : balance' = [balance EXCEPT ![c] = b]
    /\ UNCHANGED <<open, born, policy, height>>

(* The funding transaction is in the best block; LND may need no more.     *)
Opened(c) ==
    /\ "opens" \in Environment
    /\ born[c] = 0
    /\ open' = open \union {c}
    /\ born' = [born EXCEPT ![c] = height]
    /\ UNCHANGED <<balance, policy, height>>

Closed(c) ==
    /\ "closes" \in Environment
    /\ c \in open
    /\ open' = open \ {c}
    /\ UNCHANGED <<born, balance, policy, height>>

Block ==
    /\ height < MaxHeight
    /\ height' = height + 1
    /\ UNCHANGED <<open, born, balance, policy>>

World ==
    \/ \E c \in Chans : Operator(c) \/ Payment(c) \/ Opened(c) \/ Closed(c)
    \/ Block

Next ==
    \/ \E r \in Runs : Progress(r) \/ Abort(r)
    \/ World /\ UNCHANGED runVars

Spec == Init /\ [][Next]_vars

(* The scheduler starts runs for ever and LND answers its calls.           *)
FairSpec == Spec /\ \A r \in Runs : WF_vars(Progress(r))

(***************************************************************************)
(* Properties                                                              *)
(***************************************************************************)
(* At most what the operator sets or the rate for drained channels.        *)
Capped(fee) == \E f \in Fees \union {DrainedFee} : fee <= f

(* Whatever overlaps with whatever, Hydrus never lets the fee rate of a    *)
(* channel that forwards nothing out rise above one that the operator had  *)
(* set or the rate for drained channels: no decrease wraps around, no      *)
(* stale write sums up (calculateNewFeeRate).                              *)
QuietFeesCapped == \A c \in Quiet : Capped(policy[c].fee)

(* PoliciesProofs: inductive; what a run has read is capped as well.       *)
Inv ==
    /\ TypeOK
    /\ QuietFeesCapped
    /\ \A r \in Runs : pc[r] = "update" /\ work[r].chan \in Quiet
                         => Capped(work[r].read.fee)

(* README: the fee rate of a channel that forwards nothing out falls,      *)
(* unless its balance is nearly exhausted.  A single executor keeps to it, *)
(* two that overlap do not: the older of two writes may come last.         *)
QuietFeesFall ==
    [][\A c \in Quiet : policy'[c].fee > policy[c].fee =>
          \E r \in Runs : /\ pc[r] = "update" /\ work[r].chan = c
                          /\ Drained(snap[r][c], Capacity)]_vars

(* Behind a run, the maximum HTLC of every channel that LND knows fits the *)
(* balance that the run has read: nothing that needs a change is skipped   *)
(* (the comparison in agent.UpdatePolicies).                               *)
Applied ==
    \A r \in Runs : pc[r] \in {"next", "update"} =>
        \A c \in open \ (todo[r] \union Unknown) :
            \/ policy[c].htlc = NewMaxHTLC(snap[r][c])
            \/ pc[r] = "update" /\ work[r].chan = c

(* PoliciesProofs: inductive together with Applied, and with nothing, for  *)
(* a single executor; the second one as long as no operator interferes.    *)
ReadHTLCStands ==
    \A r \in Runs : pc[r] = "update" =>
        work[r].read.htlc = policy[work[r].chan].htlc

ReadFeeStands ==
    \A r \in Runs : pc[r] = "update" =>
        work[r].read.fee = policy[work[r].chan].fee

(* A channel that stays open, stays funded and forwards nothing out ends   *)
(* up free and remains so, however many runs that takes, wherever its      *)
(* balance moves and although LND fails for other channels                 *)
(* (the errors of getChannelPolicy, calculateNewFeeRate).                  *)
IdleFeesVanish ==
    \A c \in Quiet \ Unknown :
        <>[](c \in open /\ ~Drained(balance[c], Capacity))
            => <>[](policy[c].fee = 0)

(***************************************************************************)
(* Documented, and not what the code does: each has a run that shows it.   *)
(***************************************************************************)

(* agent.go: a high balance frees a channel that is "older than 1 week".   *)
(* The heights are unsigned, and a channel may be newer than the height    *)
(* the run has read.  No other rule takes a greater fee rate to zero.      *)
OnlyOldFreed ==
    [][\A c \in Chans :
          policy[c].fee > MinFeePPMUpdate /\ policy'[c].fee = 0
             => height - born[c] > OneWeek]_vars
=============================================================================
