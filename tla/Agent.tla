------------------------------- MODULE Agent -------------------------------
(***************************************************************************)
(* The executions of Hydrus that open and close channels: the scheduler's  *)
(* channelsTask and the commands "channels close" and "channels open".     *)
(* A run reads a snapshot of the node call by call (local.GetNode), closes *)
(* the channels it selects with one goroutine per channel, and opens one   *)
(* batch of channels, always from that snapshot.  LND moves on between any *)
(* two calls.  Nothing is kept from one run to the next.                   *)
(***************************************************************************)
EXTENDS Lnd, Sizing

CONSTANTS
    Kinds,             \* which of "run", "close", "open" the runs may be
    Self,              \* our own node, which the graph lists too
    Private,           \* channels that are not announced
    Keeplist,          \* agent.keeplist: strings, of channels or of peers
    Blocklist,         \* agent.blocklist: peers
    AllowForceCloses,  \* agent.allow_force_closes
    DryRun,            \* agent.dry_run
    Links,             \* graph: the channels of a node, as <<peer, number>>
    SharingFloor,      \* 10: fewer peers than these may all be shared
    SharingPercent,    \* 30
    ThreeMonths,       \* threeMonthsInBlocks
    Balances           \* confirmed wallet balances, in satoshis

ASSUME AgentAssumption ==
    /\ Kinds \subseteq {"run", "close", "open"}
    /\ Self \notin Peers
    /\ Private \subseteq Chans /\ Keeplist \subseteq Chans \union Peers
    /\ Blocklist \subseteq Peers
    /\ AllowForceCloses \in BOOLEAN /\ DryRun \in BOOLEAN
    /\ SharingFloor \in Nat /\ SharingPercent \in Nat
    /\ ThreeMonths \in Nat
    /\ Balances \subseteq Nat

VARIABLES
    kind,    \* what each run is
    pc,      \* the call each run is about to make
    node,    \* local.Node: each run's snapshot
    closer,  \* the goroutine of each run and channel in manager.Close
    cand,    \* candidate nodes each run has not tried yet
    batch    \* nodes each run has selected

runVars == <<kind, pc, node, closer, cand, batch>>
vars == <<lndVars, runVars>>

Snapshots ==
    [num : Nat,                  \* NumChannels
     height : Nat,               \* CurrentBlockHeight
     allocated : Nat,            \* AllocatedBalance
     peers : SUBSET Peers,       \* ChannelPeers
     channels : SUBSET Chans,    \* Channels.List
     active : SUBSET Chans,      \* those of them with Active set
     sync : SUBSET Peers,        \* SyncPeers
     recent : SUBSET Peers]      \* peers in ClosedChannels, since ThreeMonths

Blank == [num |-> 0, height |-> 0, allocated |-> 0, peers |-> {},
          channels |-> {}, active |-> {}, sync |-> {}, recent |-> {}]

Reading == {"info", "channels", "peers", "closed"}
Stages == {"idle", "close", "closing", "open", "connecting", "batch", "done"}
             \union Reading

(* Types.  A batch never contains our own node, although it is in the      *)
(* graph: the last test of discardNode.                                    *)
TypeOK ==
    /\ LndTypeOK
    /\ kind \in [Runs -> Kinds]
    /\ pc \in [Runs -> Stages]
    /\ node \in [Runs -> Snapshots]
    /\ closer \in [Runs -> [Chans -> {"none", "start", "stream", "ok", "error"}]]
    /\ cand \in [Runs -> SUBSET (Peers \union {Self})]
    /\ batch \in [Runs -> SUBSET Peers]

Idle(r) == pc[r] \in {"idle", "done"}
Asked(r) == {c \in Chans : closer[r][c] # "none"}
Failed(r) == \E c \in Chans : closer[r][c] = "error"

MaxOpen(r) == MaxOpenChannels(node[r].num, node[r].allocated)
MaxClose(r) == MaxCloseChannels(node[r].num)
Funding(r) == FundingAmount(MaxOpen(r), node[r].allocated)

Init ==
    /\ LndInit
    /\ kind \in [Runs -> Kinds]
    /\ pc = [r \in Runs |-> "idle"]
    /\ node = [r \in Runs |-> Blank]
    /\ closer = [r \in Runs |-> [c \in Chans |-> "none"]]
    /\ cand = [r \in Runs |-> {}]
    /\ batch = [r \in Runs |-> {}]

Goto(r, stage) == pc' = [pc EXCEPT ![r] = stage]

(* The run returns: nothing it knew outlives it.                           *)
End(r) ==
    /\ Goto(r, "done")
    /\ node' = [node EXCEPT ![r] = Blank]
    /\ closer' = [closer EXCEPT ![r] = [c \in Chans |-> "none"]]
    /\ cand' = [cand EXCEPT ![r] = {}]
    /\ batch' = [batch EXCEPT ![r] = {}]

(***************************************************************************)
(* local.GetNode, one action per call whose answer may age.  The wallet    *)
(* balance, the fee and the forwards are inputs, read where they are used. *)
(***************************************************************************)
(* Mutant: channels that are still pending are not counted.                *)
GetInfoWithoutPending(r) ==
    /\ pc[r] = "idle"
    /\ "overlap" \in Environment \/ \A q \in Runs : Idle(q)
    /\ Goto(r, "info")
    /\ node' = [node EXCEPT ![r] = [@ EXCEPT !.num = Cardinality(OpenChans),
                                             !.height = height]]
    /\ UNCHANGED <<lndVars, kind, closer, cand, batch>>

GetInfo(r) ==
    /\ pc[r] = "idle"
    /\ "overlap" \in Environment \/ \A q \in Runs : Idle(q)
    /\ Goto(r, "info")
    /\ node' = [node EXCEPT ![r] = [@ EXCEPT !.num = Cardinality(Counted),
                                             !.height = height]]
    /\ UNCHANGED <<lndVars, kind, closer, cand, batch>>

ListChannels(r) ==
    /\ pc[r] = "info"
    /\ Goto(r, "channels")
    /\ \E confirmed \in Balances :
          node' = [node EXCEPT ![r] =
                     [@ EXCEPT !.allocated = AllocatedBalance(confirmed),
                               !.peers = {Peer(c) : c \in OpenChans},
                               !.channels = OpenChans \ Private,
                               !.active = Active \ Private]]
    /\ UNCHANGED <<lndVars, kind, closer, cand, batch>>

ListPeers(r) ==
    /\ pc[r] = "channels"
    /\ Goto(r, "peers")
    /\ node' = [node EXCEPT ![r] = [@ EXCEPT !.sync = online]]
    /\ UNCHANGED <<lndVars, kind, closer, cand, batch>>

ClosedChannels(r) ==
    /\ pc[r] = "peers"
    /\ Goto(r, "closed")
    /\ node' = [node EXCEPT ![r] =
                  [@ EXCEPT !.recent =
                       PeersClosedAfter(node[r].height - ThreeMonths)]]
    /\ UNCHANGED <<lndVars, kind, closer, cand, batch>>

(* EstimateTxFee and the comparison with max_sat_vb that follows GetNode.  *)
EstimateTxFee(r) ==
    /\ pc[r] = "closed"
    /\ \/ /\ Goto(r, IF kind[r] = "open" THEN "open" ELSE "close")
          /\ UNCHANGED <<node, closer, cand, batch>>
       \/ End(r)
    /\ UNCHANGED <<lndVars, kind>>

(***************************************************************************)
(* agent.CloseChannels.  The scores only decide which of the channels that *)
(* may be closed come first and which are bad enough, so any of them may.  *)
(* The keeplist is compared with channel points, whatever its entries are. *)
(***************************************************************************)
(* Mutant: the keeplist is forgotten.                                      *)
CandidatesUnlisted(r) == node[r].channels

CandidateChannels(r) == node[r].channels \ Keeplist

(* selectChannels: an inactive channel can only be closed by force.        *)
Closable(r) ==
    {c \in CandidateChannels(r) : c \in node[r].active \/ AllowForceCloses}

AfterClosing(r) ==
    IF kind[r] = "run"
    THEN Goto(r, "open") /\ UNCHANGED <<node, closer, cand, batch>>
    ELSE End(r)

CloseChannels(r) ==
    /\ pc[r] = "close"
    /\ \E chosen \in SUBSET Closable(r) :
          /\ Cardinality(chosen) <= MaxClose(r)
          /\ IF chosen = {} \/ DryRun
             THEN AfterClosing(r)
             ELSE /\ Goto(r, "closing")
                  /\ closer' = [closer EXCEPT ![r] =
                        [c \in Chans |-> IF c \in chosen THEN "start" ELSE "none"]]
                  /\ UNCHANGED <<node, cand, batch>>
    /\ UNCHANGED <<lndVars, kind>>

(* manager.close asks LND.  The first error cancels the context of all.    *)
CloseCall(r, c) ==
    /\ pc[r] = "closing"
    /\ closer[r][c] = "start"
    /\ ~Failed(r)
    /\ closer' = [closer EXCEPT ![r][c] = "stream"]
    /\ closeReq' = [closeReq EXCEPT ![r] = @ \union {c}]
    /\ UNCHANGED <<status, closedAt, openReq, online, height,
                   kind, pc, node, cand, batch>>

CloseRefused(r, c) ==
    /\ pc[r] = "closing"
    /\ closer[r][c] = "start"
    /\ closer' = [closer EXCEPT ![r][c] = "error"]
    /\ UNCHANGED <<lndVars, kind, pc, node, cand, batch>>

(* ClosePending: the closing transaction of c has been broadcast.          *)
StreamUpdate(r, c) ==
    /\ pc[r] = "closing"
    /\ closer[r][c] = "stream"
    /\ c \notin closeReq[r]
    /\ closer' = [closer EXCEPT ![r][c] = "ok"]
    /\ UNCHANGED <<lndVars, kind, pc, node, cand, batch>>

(* What LND does with the requests of a caller that is gone.               *)
Forsaken(req) == IF "orphans" \in Environment THEN {req, {}} ELSE {{}}

(* Recv fails: LND refuses, the connection is lost or another goroutine    *)
(* has failed and the context is canceled.                                 *)
StreamError(r, c) ==
    /\ pc[r] = "closing"
    /\ closer[r][c] = "stream"
    /\ closer' = [closer EXCEPT ![r][c] = "error"]
    /\ \E left \in Forsaken(closeReq[r] \intersect {c}) :
          closeReq' = [closeReq EXCEPT ![r] = (@ \ {c}) \union left]
    /\ UNCHANGED <<status, closedAt, openReq, online, height,
                   kind, pc, node, cand, batch>>

(* Mutant: the error of a goroutine is lost.                               *)
CloseWaitForgiving(r) ==
    /\ pc[r] = "closing"
    /\ \A c \in Chans : closer[r][c] \in {"none", "ok", "error"}
    /\ AfterClosing(r)
    /\ UNCHANGED <<lndVars, kind>>

(* Mutant: a goroutine that fails never reports that it is over.           *)
CloseWaitForAll(r) ==
    /\ pc[r] = "closing"
    /\ \A c \in Chans : closer[r][c] \in {"none", "ok"}
    /\ AfterClosing(r)
    /\ UNCHANGED <<lndVars, kind>>

(* g.Wait: every goroutine is over.  An error ends the whole run.          *)
CloseWait(r) ==
    /\ pc[r] = "closing"
    /\ \A c \in Chans : closer[r][c] \in {"none", "ok", "error"}
    /\ IF Failed(r) THEN End(r) ELSE AfterClosing(r)
    /\ UNCHANGED <<lndVars, kind>>

(***************************************************************************)
(* agent.OpenChannels                                                      *)
(***************************************************************************)
SharedPeers(r, n) == Cardinality({l \in Links[n] : l[1] \in node[r].peers})

(* Mutant: the channels are listed again instead of using the snapshot.    *)
DiscardNodeFresh(r, n) ==
    \/ n \in Blocklist
    \/ n \in {Peer(c) : c \in OpenChans}
    \/ n \in node[r].recent
    \/ n = Self

(* Mutant: our own node is a candidate.                                    *)
DiscardNodeNotSelf(r, n) ==
    \/ n \in Blocklist
    \/ n \in node[r].peers
    \/ n \in node[r].recent

DiscardNode(r, n) ==
    \/ n \in Blocklist
    \/ n \in node[r].peers
    \/ LET mine == Cardinality(node[r].peers)
       IN  /\ mine >= SharingFloor
           /\ SharedPeers(r, n) > (mine * SharingPercent) \div 100
    \/ n \in node[r].recent
    \/ n = Self

CandidateNodes(r, graph) == {n \in graph : ~DiscardNode(r, n)}

(* The graph may have filtered out any node; its ranking is any order.     *)
OpenChannels(r) ==
    /\ pc[r] = "open"
    /\ IF SkipOpen(node[r].num, node[r].allocated)
       THEN End(r)
       ELSE \E graph \in SUBSET (Peers \union {Self}) :
               /\ Goto(r, "connecting")
               /\ cand' = [cand EXCEPT ![r] = CandidateNodes(r, graph)]
               /\ UNCHANGED <<node, closer, batch>>
    /\ UNCHANGED <<lndVars, kind>>

Full(r) == Cardinality(batch[r]) = MaxOpen(r)

(* One turn of selectNodes: a peer of the snapshot is taken as connected,  *)
(* any other one is connected to and skipped when that fails.              *)
TryPeer(r, n) ==
    /\ pc[r] = "connecting"
    /\ n \in cand[r]
    /\ ~Full(r)
    /\ cand' = [cand EXCEPT ![r] = @ \ {n}]
    /\ \/ /\ batch' = [batch EXCEPT ![r] = @ \union {n}]
          /\ online' = IF n \in node[r].sync THEN online ELSE online \union {n}
       \/ /\ n \notin node[r].sync
          /\ UNCHANGED <<batch, online>>
    /\ UNCHANGED <<status, closedAt, closeReq, openReq, height,
                   kind, pc, node, closer>>

(* manager.Open: one request for all the selected nodes.                   *)
Open(r) ==
    /\ pc[r] = "connecting"
    /\ Full(r) \/ cand[r] = {}
    /\ IF batch[r] = {} \/ DryRun
       THEN End(r) /\ UNCHANGED openReq
       ELSE /\ Goto(r, "batch")
            /\ openReq' = [openReq EXCEPT ![r] = batch[r]]
            /\ UNCHANGED <<node, closer, cand, batch>>
    /\ UNCHANGED <<status, closedAt, closeReq, online, height, kind>>

(* LND has answered, with the transaction or with an error.                *)
BatchReply(r) ==
    /\ pc[r] = "batch"
    /\ openReq[r] = {}
    /\ End(r)
    /\ UNCHANGED <<lndVars, kind>>

(* A call returns an error, the context is canceled or the process dies.   *)
Abort(r) ==
    /\ ~Idle(r)
    /\ End(r)
    /\ \E left \in Forsaken(closeReq[r]) :
          closeReq' = [closeReq EXCEPT ![r] = left]
    /\ \E left \in Forsaken(openReq[r]) :
          openReq' = [openReq EXCEPT ![r] = left]
    /\ UNCHANGED <<status, closedAt, online, height, kind>>

Read(r) ==
    \/ ListChannels(r) \/ ListPeers(r) \/ ClosedChannels(r) \/ EstimateTxFee(r)

Close(r) ==
    \/ CloseChannels(r)
    \/ \E c \in Chans : \/ CloseCall(r, c)
                        \/ CloseRefused(r, c)
                        \/ StreamUpdate(r, c)
                        \/ StreamError(r, c)
    \/ CloseWait(r)

OpenBatch(r) ==
    \/ OpenChannels(r)
    \/ \E n \in Peers \union {Self} : TryPeer(r, n)
    \/ Open(r)
    \/ BatchReply(r)

RunNext(r) == GetInfo(r) \/ Read(r) \/ Close(r) \/ OpenBatch(r) \/ Abort(r)

Next == (\E r \in Runs : RunNext(r)) \/ (LndNext /\ UNCHANGED runVars)

Spec == Init /\ [][Next]_vars

(***************************************************************************)
(* A started run goes on and LND answers what it was asked.  No run has to *)
(* start, no call has to fail and nothing forces the chain or the peers.   *)
(***************************************************************************)
StreamEnd(r, c) ==
    \/ StreamUpdate(r, c)
    \/ StreamError(r, c) /\ (Failed(r) \/ (c \in closeReq[r] /\ status[c] # "open"))

Progress(r) ==
    \/ Read(r) \/ OpenBatch(r) \/ CloseChannels(r) \/ CloseWait(r)
    \/ \E c \in Chans : \/ CloseCall(r, c)
                        \/ CloseRefused(r, c) /\ Failed(r)
                        \/ StreamEnd(r, c)

Answer(r) ==
    /\ \/ \E c \in Chans : CloseBroadcast(r, c)
       \/ BatchCommit(r)
       \/ BatchReject(r)
    /\ UNCHANGED runVars

FairSpec == Spec /\ \A r \in Runs : WF_vars(Progress(r)) /\ WF_vars(Answer(r))

(***************************************************************************)
(* Properties                                                              *)
(***************************************************************************)
(* The number of channels behaves as ChannelBudget says: although a run    *)
(* decides from counts that are several calls old, and closes before it    *)
(* opens, LND never passes max_channels through a batch and never goes     *)
(* below min_channels through a closure (local.GetNode, manager.go).       *)
Budget == INSTANCE ChannelBudget WITH channels <- Cardinality(Counted)

(* Agent implements ChannelBudget.                                         *)
BudgetSpec == Budget!Spec

(* Half of the above that survives channels going away by themselves.      *)
OpensStayBelowMax ==
    [][Cardinality(Counted') > Cardinality(Counted)
          => Cardinality(Counted') <= MaxChannels]_vars

(* What a run puts into a batch is in range for each channel, and all of   *)
(* it together is covered by the balance the run allocated (selectNodes),  *)
(* as long as the product in local.GetNode does not wrap.                  *)
BatchFunded ==
    NoWrap => \A r \in Runs : batch[r] # {} =>
        /\ Funding(r) \in MinChannelSize .. MaxChannelSize
        /\ Cardinality(batch[r]) * Funding(r) <= node[r].allocated

(* A run never reopens what it has just closed: no peer of a channel that  *)
(* it closes is in its batch, although LND no longer lists that channel    *)
(* when the batch is built (discardNode works on the older snapshot).      *)
NoReopen ==
    \A r \in Runs : {Peer(c) : c \in Asked(r)} \intersect batch[r] = {}

(* Opening begins only when all the closing transactions of the run have   *)
(* been broadcast: an error of one goroutine ends the run (manager.Close). *)
ClosedBeforeOpening ==
    \A r \in Runs : pc[r] \in {"open", "connecting", "batch"} =>
        \A c \in Asked(r) : status[c] \in {"waiting", "closed"}

(* LND is never left with a request to close a private channel or one of   *)
(* the keeplist, whichever run asked and however it ended (getChannels,    *)
(* getCandidateChannels).                                                  *)
OnlyListedClosed ==
    \A r \in Runs : closeReq[r] \intersect (Private \union Keeplist) = {}

(* The three months before the run began.                                  *)
RecentBlocks(r) == (node[r].height - ThreeMonths + 1) .. (node[r].height - 1)

(* No channel is opened to a peer with whom one has ended within three     *)
(* months before the run began, closed by anybody or canceled after it got *)
(* an id, however the run's calls interleave with LND's changes            *)
(* (ClosedChannels and the two tests of discardNode).  Of channels         *)
(* canceled without an id it is false: CanceledNotReopened.                *)
RecentNotReopened ==
    \A r \in Runs, c \in Chans :
        Peer(c) \in batch[r] /\ status[c] \in {"closed", "canceled"}
        => closedAt[c] \notin RecentBlocks(r)

(* Every run that starts returns, whatever goroutine or call fails.        *)
RunsReturn == \A r \in Runs : pc[r] # "idle" ~> pc[r] = "done"

(***************************************************************************)
(* The inductive invariant: what a run knows at each stage.  TLC checks it *)
(* on small instances, AgentProofs proves it.                              *)
(***************************************************************************)
Opening == {"connecting", "batch"}

(* Candidates exist while a run opens; our own node is never one, and none *)
(* has a channel in the snapshot.                                          *)
NewPeers ==
  \A r \in Runs : /\ pc[r] \notin Opening => cand[r] \union batch[r] = {}
                  /\ Self \notin cand[r] \union batch[r]
                  /\ (cand[r] \union batch[r]) \intersect node[r].peers = {}

(* The channels of the snapshot, and those being closed, are with peers of *)
(* the snapshot.                                                           *)
KnownPeers ==
  \A r \in Runs : \A c \in node[r].channels \union Asked(r) :
      Peer(c) \in node[r].peers

(* Nodes are only selected after skipOpen has let the run through, and no  *)
(* more of them than there is room for.                                    *)
BatchFits ==
  \A r \in Runs : pc[r] \in Opening =>
     /\ ~SkipOpen(node[r].num, node[r].allocated)
     /\ Cardinality(batch[r]) <= MaxOpen(r)

(* An answered closure has begun; one not asked has nothing pending in the *)
(* stages that follow closing.                                             *)
Answered ==
  \A r \in Runs : \A c \in Chans :
     /\ \/ closer[r][c] = "ok"
        \/ closer[r][c] = "stream" /\ c \notin closeReq[r]
        => status[c] \in {"waiting", "closed"}
     /\ pc[r] \in {"open", "connecting", "batch"} => closer[r][c] \in {"none", "ok"}
     /\ closer[r][c] # "none" =>
           pc[r] \in {"closing", "open", "connecting", "batch"}

(* AgentProofs: inductive, and it implies the four invariants above.       *)
Inv == TypeOK /\ NewPeers /\ KnownPeers /\ BatchFits /\ Answered

(***************************************************************************)
(* While nobody interferes, the only live run knows the count: the stages  *)
(* of AgentProofs' induction for BudgetSpec.                               *)
(***************************************************************************)
Alone == \A r, q \in Runs : Idle(r) \/ Idle(q) \/ r = q

(* What LND has been asked belongs to a run that waits for the answer.     *)
NoLeftovers ==
  \A r \in Runs :
     /\ closeReq[r] # {} => pc[r] = "closing"
     /\ \A c \in closeReq[r] : closer[r][c] = "stream"
     /\ openReq[r] # {} => pc[r] = "batch" /\ openReq[r] = batch[r]

(* The channels that count now and those the run is closing are together   *)
(* the channels of its snapshot, until its batch has been answered.        *)
Counts ==
  \A r \in Runs :
     /\ pc[r] \in {"channels", "peers", "closed", "close"} =>
           node[r].channels \subseteq Counted
     /\ ~Idle(r) => Cardinality(Asked(r)) <= MaxClose(r)
     /\ ~Idle(r) /\ (pc[r] = "batch" => openReq[r] # {}) =>
           Cardinality(Counted \union Asked(r)) = node[r].num

(* AgentProofs: with Inv it is inductive in a calm environment, where      *)
(* what local.GetNode has counted stays true for as long as it is used.    *)
BudgetInv == Alone /\ NoLeftovers /\ Counts

(* What of it survives channels going away by themselves: the batch is the *)
(* request of the run that waits for it, and until LND has answered there  *)
(* are no more channels than the run has counted.                          *)
RoomKept ==
  \A r \in Runs :
     /\ openReq[r] # {} => pc[r] = "batch" /\ openReq[r] = batch[r]
     /\ ~Idle(r) /\ (pc[r] = "batch" => openReq[r] # {}) =>
           Cardinality(Counted) <= node[r].num

(* AgentProofs: with Inv it is inductive while runs do not overlap, peers  *)
(* open no channels and LND drops the requests of a caller that went away. *)
RoomInv == Alone /\ RoomKept

(***************************************************************************)
(* Documented, and not what the code does: each has a run that shows it.   *)
(***************************************************************************)

(* docs/config.md: max_channels is the "maximum number of channels         *)
(* allowed".  Runs that overlap each fill the room they saw (agent.Run).   *)
MaxChannelsRespected == Cardinality(Counted) <= MaxChannels

(* Comment in ClosedChannels of lightning.go: canceled fundings are listed *)
(* "to avoid selecting nodes that we have tried opening a channel to       *)
(* recently and failed".  discardNode dates them by the height in their    *)
(* id, and those that never got an id look older than three months.        *)
CanceledNotReopened ==
    \A r \in Runs, c \in Chans :
        Peer(c) \in batch[r] /\ status[c] \in {"canceled", "unnamed"}
        => closedAt[c] \notin RecentBlocks(r)
=============================================================================
