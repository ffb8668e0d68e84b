-------------------------------- MODULE Lnd --------------------------------
(***************************************************************************)
(* The Lightning node (LND) as Hydrus sees it through lightning.Client:    *)
(* the life of its channels, the requests it has accepted and not yet      *)
(* answered, the peers it is connected to and the block height.            *)
(* LND's own code is not part of the repository: this module says what     *)
(* Hydrus may observe, from the calls it makes and the fields it reads.    *)
(***************************************************************************)
EXTENDS Integers, FiniteSets

CONSTANTS
    Runs,         \* executions of Hydrus (scheduler ticks or commands)
    Peers,        \* the other nodes of the network
    Slots,        \* bound: channels a peer may have had with us, ever
    InitialOpen,  \* the sets of channels that may be open at the start
    StartHeight,  \* block height at the start
    MaxHeight,    \* bound: last block of the model
    Environment   \* what may happen besides Hydrus, see below

(* "losses":  channels disappear without Hydrus asking (a peer closes one, *)
(*            a funding transaction times out)                             *)
(* "gains":   peers open channels to us                                    *)
(* "flaps":   connections to peers come and go                             *)
(* "orphans": LND may carry on with a request whose caller went away       *)
(* "overlap": several executions of Hydrus may be alive at the same time   *)
ASSUME LndAssumption ==
    /\ Slots \in Nat \ {0}
    /\ IsFiniteSet(Peers)
    /\ InitialOpen \subseteq SUBSET (Peers \X (1 .. Slots))
    /\ StartHeight \in Nat \ {0}
    /\ MaxHeight \in Nat
    /\ Environment \subseteq {"losses", "gains", "flaps", "orphans", "overlap"}

Chans == Peers \X (1 .. Slots)
Peer(c) == c[1]

VARIABLES
    status,    \* where each channel is in its life
    closedAt,  \* the height at which each channel ended
    closeReq,  \* closures each run asked for and LND has not begun
    openReq,   \* the batch each run asked for and LND has not answered
    online,    \* peers we are connected to
    height     \* best block

lndVars == <<status, closedAt, closeReq, openReq, online, height>>

(* A canceled channel has an id, with a height; an unnamed one was         *)
(* canceled before it got one.                                             *)
Statuses == {"unused", "pending", "open", "waiting",
             "closed", "canceled", "unnamed"}

LndTypeOK ==
    /\ status \in [Chans -> Statuses]
    /\ closedAt \in [Chans -> Nat]
    /\ closeReq \in [Runs -> SUBSET Chans]
    /\ openReq \in [Runs -> SUBSET Peers]
    /\ online \in SUBSET Peers
    /\ height \in Nat \ {0}

(* GetInfo: active + pending + inactive channels.  A channel that waits    *)
(* for its closing transaction is in none of the three.                    *)
Counted == {c \in Chans : status[c] \in {"pending", "open"}}

(* ListChannels: open channels only, without the pending ones.             *)
OpenChans == {c \in Chans : status[c] = "open"}

(* A channel is active while we are connected to its peer.                 *)
Active == {c \in OpenChans : Peer(c) \in online}

(* Mutant: FundingCanceled is not asked for.                               *)
PeersClosedOnly(h) ==
    {Peer(c) : c \in {d \in Chans : status[d] = "closed" /\ closedAt[d] > h}}

(* What the two tests of discardNode compare: CloseHeight or, for a        *)
(* channel that was canceled, the height in its id, zero without an id.    *)
Reported(c) == IF status[c] = "unnamed" THEN 0 ELSE closedAt[c]

(* ClosedChannels: peers of those that ended after the given height, as    *)
(* far as it can be told.                                                  *)
PeersClosedAfter(h) ==
    {Peer(c) : c \in {d \in Chans : /\ status[d] \in {"closed", "canceled", "unnamed"}
                                    /\ Reported(d) > h}}

(* The name the next channel with its peer takes.                          *)
Fresh(c) ==
    /\ status[c] = "unused"
    /\ \A i \in 1 .. Slots : i < c[2] => status[<<Peer(c), i>>] # "unused"

LndInit ==
    /\ \E S \in InitialOpen :
          status = [c \in Chans |-> IF c \in S THEN "open" ELSE "unused"]
    /\ closedAt = [c \in Chans |-> 0]
    /\ closeReq = [r \in Runs |-> {}]
    /\ openReq = [r \in Runs |-> {}]
    /\ online \in SUBSET Peers
    /\ height = StartHeight

(* The closing transaction is broadcast: the stream gets a ClosePending.   *)
CloseBroadcast(r, c) ==
    /\ c \in closeReq[r]
    /\ status[c] = "open"
    /\ status' = [status EXCEPT ![c] = "waiting"]
    /\ closeReq' = [closeReq EXCEPT ![r] = @ \ {c}]
    /\ UNCHANGED <<closedAt, openReq, online, height>>

(* The batch is all or nothing: one funding transaction for every channel, *)
(* which LND builds only while it is connected to all the peers.           *)
BatchCommit(r) ==
    /\ openReq[r] # {}
    /\ openReq[r] \subseteq online
    /\ \A p \in openReq[r] : \E c \in Chans : Peer(c) = p /\ Fresh(c)
    /\ status' = [c \in Chans |-> IF Peer(c) \in openReq[r] /\ Fresh(c)
                                 THEN "pending" ELSE status[c]]
    /\ openReq' = [openReq EXCEPT ![r] = {}]
    /\ UNCHANGED <<closedAt, closeReq, online, height>>

BatchReject(r) ==
    /\ openReq[r] # {}
    /\ openReq' = [openReq EXCEPT ![r] = {}]
    /\ UNCHANGED <<status, closedAt, closeReq, online, height>>

FundingConfirmed(c) ==
    /\ status[c] = "pending"
    /\ status' = [status EXCEPT ![c] = "open"]
    /\ UNCHANGED <<closedAt, closeReq, openReq, online, height>>

ClosureConfirmed(c) ==
    /\ status[c] = "waiting"
    /\ status' = [status EXCEPT ![c] = "closed"]
    /\ closedAt' = [closedAt EXCEPT ![c] = height]
    /\ UNCHANGED <<closeReq, openReq, online, height>>

(* A channel whose funding never confirmed may have no id.                 *)
FundingCanceled(c) ==
    /\ "losses" \in Environment
    /\ status[c] = "pending"
    /\ \E end \in {"canceled", "unnamed"} : status' = [status EXCEPT ![c] = end]
    /\ closedAt' = [closedAt EXCEPT ![c] = height]
    /\ UNCHANGED <<closeReq, openReq, online, height>>

RemoteClose(c) ==
    /\ "losses" \in Environment
    /\ status[c] = "open"
    /\ status' = [status EXCEPT ![c] = "waiting"]
    /\ UNCHANGED <<closedAt, closeReq, openReq, online, height>>

RemoteOpen(c) ==
    /\ "gains" \in Environment
    /\ status[c] = "unused"
    /\ status' = [status EXCEPT ![c] = "open"]
    /\ UNCHANGED <<closedAt, closeReq, openReq, online, height>>

Flap(p) ==
    /\ "flaps" \in Environment
    /\ online' = IF p \in online THEN online \ {p} ELSE online \union {p}
    /\ UNCHANGED <<status, closedAt, closeReq, openReq, height>>

Block ==
    /\ height < MaxHeight
    /\ height' = height + 1
    /\ UNCHANGED <<status, closedAt, closeReq, openReq, online>>

LndNext ==
    \/ \E r \in Runs : \/ \E c \in Chans : CloseBroadcast(r, c)
                       \/ BatchCommit(r)
                       \/ BatchReject(r)
    \/ \E c \in Chans : \/ FundingConfirmed(c)
                        \/ ClosureConfirmed(c)
                        \/ FundingCanceled(c)
                        \/ RemoteClose(c)
                        \/ RemoteOpen(c)
    \/ \E p \in Peers : Flap(p)
    \/ Block
=============================================================================
