---------------------------- MODULE AgentProofs ----------------------------
(***************************************************************************)
(* Theorems of Agent, for any number of runs, peers and channels.          *)
(***************************************************************************)
EXTENDS Agent, Arithmetic

(***************************************************************************)
(* Sizing: what the arithmetic guarantees for every configuration that     *)
(* Config.Validate accepts                                                 *)
(***************************************************************************)
(* The allocated balance is a number of satoshis.                          *)
LEMMA AllocatedType ==
  ASSUME NEW confirmed \in Nat
  PROVE  AllocatedBalance(confirmed) \in Nat
<1>1. confirmed \div 100 \in Nat
  BY Z3
<1> QED
  BY <1>1, ConfigAssumption, Z3 DEF AllocatedBalance

(* A run never has room for more channels than max_channels leaves.        *)
LEMMA MaxOpenRoom ==
  ASSUME NEW num \in Nat, NEW allocated \in Nat, NoWrap
  PROVE  /\ MaxOpenChannels(num, allocated) \in Nat
         /\ MaxOpenChannels(num, allocated) > 0 =>
               /\ num + MaxOpenChannels(num, allocated) <= MaxChannels
               /\ MinChannelSize * MaxOpenChannels(num, allocated) <= allocated
<1> DEFINE room == MaxChannels - num
<1>1. CASE num >= MaxChannels
  BY <1>1, ConfigAssumption DEF MaxOpenChannels
<1>2. CASE num < MaxChannels
  <2>1. room \in Nat /\ room <= MaxChannels
    BY <1>2, ConfigAssumption
  <2>2. /\ room * MinChannelSize \in Nat
        /\ room * MinChannelSize <= MaxChannels * MinChannelSize
        /\ room * MinChannelSize = MinChannelSize * room
    BY <2>1, TimesMonotonic, ConfigAssumption, Z3
  <2>3. (room * MinChannelSize) % Word = room * MinChannelSize
    <3> DEFINE product == room * MinChannelSize
    <3>1. product \in Nat /\ product < Word
      BY <2>2, ConfigAssumption, TimesMonotonic DEF NoWrap
    <3> HIDE DEF product
    <3>2. product % Word = product
      BY <3>1, ConfigAssumption, Z3
    <3> QED
      BY <3>2 DEF product
  <2>4. CASE room * MinChannelSize > allocated
    <3> DEFINE most == allocated \div MinChannelSize
    <3>1. MaxOpenChannels(num, allocated) = most
      BY <1>2, <2>1, <2>3, <2>4, ConfigAssumption DEF MaxOpenChannels
    <3>2. most \in Nat /\ MinChannelSize * most <= allocated
      BY DivFacts, ConfigAssumption
    <3>3. most <= room
      <4> SUFFICES ASSUME most > room PROVE FALSE
        BY <2>1, <3>2
      <4>1. MinChannelSize * room <= MinChannelSize * most
        BY <2>1, <3>2, TimesMonotonic, ConfigAssumption
      <4> QED
        BY <4>1, <2>2, <2>4, <3>2, TimesMonotonic, <2>1, ConfigAssumption
    <3> QED
      BY <3>1, <3>2, <3>3, <2>1, ConfigAssumption
  <2>5. CASE ~(room * MinChannelSize > allocated)
    <3>1. MaxOpenChannels(num, allocated) = room
      BY <1>2, <2>1, <2>3, <2>5, ConfigAssumption DEF MaxOpenChannels
    <3> QED
      BY <3>1, <2>1, <2>2, <2>5, ConfigAssumption
  <2> QED
    BY <2>4, <2>5
<1> QED
  BY <1>1, <1>2, ConfigAssumption

(* The first half of it does not need the product to fit in a word: what   *)
(* wraps only makes the room look cheaper than it is.                      *)
LEMMA MaxOpenBelowMax ==
  ASSUME NEW num \in Nat, NEW allocated \in Nat,
         MaxOpenChannels(num, allocated) > 0
  PROVE  num + MaxOpenChannels(num, allocated) <= MaxChannels
<1> DEFINE room == MaxChannels - num
           product == room * MinChannelSize
           most == allocated \div MinChannelSize
<1>1. num < MaxChannels /\ room \in Nat
  BY ConfigAssumption DEF MaxOpenChannels
<1>2. MaxOpenChannels(num, allocated) =
        IF product % Word > allocated THEN most ELSE room
  BY <1>1, ConfigAssumption DEF MaxOpenChannels
<1>3. product \in Nat /\ product = MinChannelSize * room
  BY <1>1, ConfigAssumption, Z3
<1>4. product % Word <= product /\ product % Word \in Nat
  <2> HIDE DEF product
  <2> QED
    BY <1>3, ConfigAssumption, Z3
<1>5. CASE product % Word > allocated
  <2>1. most \in Nat /\ MinChannelSize * most <= allocated
    BY DivFacts, ConfigAssumption
  <2>2. most <= room
    <3> SUFFICES ASSUME room <= most PROVE most = room \/ FALSE
      BY <1>1, <2>1
    <3>1. MinChannelSize * room <= MinChannelSize * most
      BY <1>1, <2>1, TimesMonotonic, ConfigAssumption
    <3>2. MinChannelSize * most \in Nat
      BY <2>1, TimesMonotonic, ConfigAssumption
    <3> HIDE DEF product, most, room
    <3> QED
      BY <1>3, <1>4, <1>5, <2>1, <3>1, <3>2
  <2> QED
    BY <1>1, <1>2, <1>5, <2>1, <2>2, ConfigAssumption
<1>6. CASE ~(product % Word > allocated)
  BY <1>1, <1>2, <1>6, ConfigAssumption
<1> QED
  BY <1>5, <1>6

(* The amount of each channel is within the configured sizes, and as many  *)
(* of them as there is room for cost no more than what was allocated.      *)
LEMMA FundingRange ==
  ASSUME NEW num \in Nat, NEW allocated \in Nat, NoWrap,
         ~SkipOpen(num, allocated),
         NEW n \in Nat, n <= MaxOpenChannels(num, allocated)
  PROVE  LET amount == FundingAmount(MaxOpenChannels(num, allocated), allocated)
         IN  /\ amount \in MinChannelSize .. MaxChannelSize
             /\ n * amount <= allocated
<1> DEFINE most == MaxOpenChannels(num, allocated)
           share == allocated \div most
           amount == FundingAmount(most, allocated)
<1>1. most \in Nat \ {0} /\ MinChannelSize * most <= allocated
  <2>1. /\ most \in Nat
        /\ most > 0 => MinChannelSize * most <= allocated
    BY MaxOpenRoom
  <2>2. ~(most < 1)
    BY DEF SkipOpen
  <2> HIDE DEF most
  <2> QED
    BY <2>1, <2>2
<1> HIDE DEF most
<1>2. share \in Nat /\ most * share <= allocated /\ allocated < most * (share + 1)
  BY <1>1, DivFacts
<1>3. MinChannelSize <= share
  <2> SUFFICES ASSUME share + 1 <= MinChannelSize PROVE FALSE
    BY <1>2, ConfigAssumption
  <2>1. most * (share + 1) <= most * MinChannelSize
    BY <1>1, <1>2, TimesMonotonic, ConfigAssumption
  <2>2. most * MinChannelSize = MinChannelSize * most
    BY <1>1, ConfigAssumption, Z3
  <2>3. /\ most * (share + 1) \in Nat
        /\ most * MinChannelSize \in Nat
    BY <1>1, <1>2, ConfigAssumption, Z3
  <2> QED
    BY <2>1, <2>2, <2>3, <1>1, <1>2
<1>4. /\ amount \in Nat /\ amount <= share
      /\ amount \in MinChannelSize .. MaxChannelSize
  BY <1>2, <1>3, ConfigAssumption DEF FundingAmount, Smaller
<1> HIDE DEF amount, share
<1>5. n * amount <= most * amount
  BY <1>1, <1>4, TimesMonotonic DEF most
<1>6. most * amount <= most * share
  BY <1>1, <1>2, <1>4, TimesMonotonic
<1>7. n * amount \in Nat /\ most * amount \in Nat /\ most * share \in Nat
  BY <1>1, <1>2, <1>4, Z3
<1> QED
  BY <1>2, <1>4, <1>5, <1>6, <1>7 DEF amount, most

(* A run closes at most the channels above min_channels.                   *)
LEMMA MaxCloseRoom ==
  ASSUME NEW num \in Nat
  PROVE  /\ MaxCloseChannels(num) \in Nat
         /\ MaxCloseChannels(num) > 0 => num - MaxCloseChannels(num) = MinChannels
  BY ConfigAssumption DEF MaxCloseChannels

(***************************************************************************)
(* Finite sets                                                             *)
(***************************************************************************)
(* There are finitely many channels, peers of channels and batches.        *)
LEMMA FiniteChans ==
  /\ IsFiniteSet(Chans)
  /\ \A S \in SUBSET Chans : IsFiniteSet(S) /\ Cardinality(S) \in Nat
  /\ \A S \in SUBSET Peers : IsFiniteSet(S) /\ Cardinality(S) \in Nat
<1>1. IsFiniteSet(1 .. Slots)
  BY LndAssumption, FS_Interval
<1>2. IsFiniteSet(Chans)
  BY <1>1, LndAssumption, FS_Product DEF Chans
<1>3. IsFiniteSet(Peers)
  BY LndAssumption
<1>4. ASSUME NEW U, IsFiniteSet(U), NEW S \in SUBSET U
      PROVE  IsFiniteSet(S) /\ Cardinality(S) \in Nat
  BY <1>4, FS_Subset, FS_CardinalityType
<1> QED
  BY <1>2, <1>3, <1>4

(* The peer of a channel is a peer.                                        *)
LEMMA PeerType == \A c \in Chans : Peer(c) \in Peers
  BY DEF Chans, Peer

(* The channels that GetInfo counts are finitely many.                     *)
LEMMA CountedType ==
  /\ IsFiniteSet(Counted)
  /\ Cardinality(Counted) \in Nat
<1>1. Counted \in SUBSET Chans
  BY DEF Counted
<1> QED
  BY <1>1, FiniteChans

(***************************************************************************)
(* Type correctness                                                        *)
(***************************************************************************)
RunTypeOK ==
  /\ kind \in [Runs -> Kinds]
  /\ pc \in [Runs -> Stages]
  /\ node \in [Runs -> Snapshots]
  /\ closer \in [Runs -> [Chans -> {"none", "start", "stream", "ok", "error"}]]
  /\ cand \in [Runs -> SUBSET (Peers \union {Self})]
  /\ batch \in [Runs -> SUBSET Peers]

(* The snapshot of a run that has read nothing is a snapshot.              *)
LEMMA BlankType == Blank \in Snapshots
  BY DEF Blank, Snapshots

(* The initial states are well typed.                                      *)
LEMMA InitType == Init => TypeOK
<1> SUFFICES ASSUME Init PROVE TypeOK
  OBVIOUS
<1>1. LndTypeOK
  BY LndAssumption DEF Init, LndInit, LndTypeOK, Statuses, Chans
<1>2. RunTypeOK
  BY BlankType DEF Init, RunTypeOK, Stages
<1> QED
  BY <1>1, <1>2 DEF TypeOK, RunTypeOK

(* Returning keeps the types of what the run forgets.                      *)
LEMMA EndType ==
  ASSUME TypeOK, NEW r \in Runs, End(r), kind' = kind
  PROVE  RunTypeOK'
  BY BlankType DEF TypeOK, End, Goto, RunTypeOK, Stages

(* The types of LND's state depend on LND's variables only.                *)
LEMMA LndUnchanged ==
  ASSUME LndTypeOK, UNCHANGED lndVars PROVE LndTypeOK'
  BY DEF lndVars, LndTypeOK

(* Storing answers of the right types in a snapshot gives a snapshot.      *)
LEMMA SnapshotUpdate ==
  ASSUME NEW n \in Snapshots
  PROVE  /\ \A num, h \in Nat :
               [n EXCEPT !.num = num, !.height = h] \in Snapshots
         /\ \A a \in Nat, P \in SUBSET Peers, C, A \in SUBSET Chans :
               [n EXCEPT !.allocated = a, !.peers = P,
                         !.channels = C, !.active = A] \in Snapshots
         /\ \A P \in SUBSET Peers : [n EXCEPT !.sync = P] \in Snapshots
         /\ \A P \in SUBSET Peers : [n EXCEPT !.recent = P] \in Snapshots
  BY DEF Snapshots

(* Each call of local.GetNode stores an answer of its type.                *)
LEMMA ReadType ==
  ASSUME TypeOK, NEW r \in Runs, GetInfo(r) \/ Read(r)
  PROVE  TypeOK'
<1> USE DEF TypeOK, RunTypeOK
<1>1. LndTypeOK'
  BY LndUnchanged DEF GetInfo, Read, ListChannels, ListPeers, ClosedChannels,
                      EstimateTxFee
<1>2. CASE GetInfo(r)
  <2>1. node' \in [Runs -> Snapshots]
    BY <1>2, CountedType, SnapshotUpdate DEF GetInfo, LndTypeOK
  <2> QED
    BY <1>1, <1>2, <2>1 DEF GetInfo, Goto, Stages, Reading
<1>3. CASE ListChannels(r)
  <2>1. /\ {Peer(c) : c \in OpenChans} \in SUBSET Peers
        /\ OpenChans \ Private \in SUBSET Chans
        /\ Active \ Private \in SUBSET Chans
    BY PeerType DEF OpenChans, Active
  <2>2. PICK confirmed \in Balances :
          node' = [node EXCEPT ![r] =
                     [@ EXCEPT !.allocated = AllocatedBalance(confirmed),
                               !.peers = {Peer(c) : c \in OpenChans},
                               !.channels = OpenChans \ Private,
                               !.active = Active \ Private]]
    BY <1>3 DEF ListChannels
  <2>3. node' \in [Runs -> Snapshots]
    <3>1. AllocatedBalance(confirmed) \in Nat
      BY AllocatedType, AgentAssumption
    <3> DEFINE new == [node[r] EXCEPT !.allocated = AllocatedBalance(confirmed),
                                      !.peers = {Peer(c) : c \in OpenChans},
                                      !.channels = OpenChans \ Private,
                                      !.active = Active \ Private]
    <3>2. new \in Snapshots
      BY <2>1, <3>1, SnapshotUpdate
    <3>3. node' = [node EXCEPT ![r] = new]
      BY <2>2
    <3> HIDE DEF new
    <3> QED
      BY <3>2, <3>3
  <2> QED
    BY <1>1, <1>3, <2>3 DEF ListChannels, Goto, Stages, Reading
<1>4. CASE ListPeers(r)
  <2>1. node' \in [Runs -> Snapshots]
    BY <1>4, SnapshotUpdate DEF ListPeers, LndTypeOK
  <2> QED
    BY <1>1, <1>4, <2>1 DEF ListPeers, Goto, Stages, Reading
<1>5. CASE ClosedChannels(r)
  <2>1. PeersClosedAfter(node[r].height - ThreeMonths) \in SUBSET Peers
    BY PeerType DEF PeersClosedAfter
  <2>2. node' \in [Runs -> Snapshots]
    BY <1>5, <2>1, SnapshotUpdate DEF ClosedChannels
  <2> QED
    BY <1>1, <1>5, <2>2 DEF ClosedChannels, Goto, Stages, Reading
<1>6. CASE EstimateTxFee(r)
  <2>1. CASE End(r)
    BY <1>1, <1>6, <2>1, EndType DEF EstimateTxFee
  <2>2. CASE ~End(r)
    BY <1>1, <1>6, <2>2 DEF EstimateTxFee, Goto, Stages
  <2> QED
    BY <2>1, <2>2
<1> QED
  BY <1>2, <1>3, <1>4, <1>5, <1>6 DEF Read

(* So does each step of closing.                                           *)
LEMMA CloseType ==
  ASSUME TypeOK, NEW r \in Runs, Close(r)
  PROVE  TypeOK'
<1> USE DEF TypeOK, RunTypeOK
<1>1. ASSUME AfterClosing(r), kind' = kind PROVE RunTypeOK'
  <2>1. CASE End(r)
    BY <1>1, <2>1, EndType
  <2>2. CASE ~End(r)
    BY <1>1, <2>2 DEF AfterClosing, Goto, Stages
  <2> QED
    BY <2>1, <2>2
<1>2. CASE CloseChannels(r)
  <2>1. LndTypeOK'
    BY <1>2, LndUnchanged DEF CloseChannels
  <2>2. CASE AfterClosing(r)
    BY <1>1, <1>2, <2>1, <2>2 DEF CloseChannels
  <2>3. CASE ~AfterClosing(r)
    <3>1. PICK chosen \in SUBSET Closable(r) :
            closer' = [closer EXCEPT ![r] =
                        [c \in Chans |-> IF c \in chosen THEN "start" ELSE "none"]]
      BY <1>2, <2>3 DEF CloseChannels
    <3>2. closer' \in [Runs -> [Chans -> {"none", "start", "stream", "ok", "error"}]]
      BY <3>1
    <3>3. Goto(r, "closing") /\ UNCHANGED <<kind, node, cand, batch>>
      BY <1>2, <2>3 DEF CloseChannels
    <3>4. pc' \in [Runs -> Stages]
      BY <3>3 DEF Goto, Stages
    <3> QED
      BY <2>1, <3>2, <3>3, <3>4
  <2> QED
    BY <2>2, <2>3
<1>3. ASSUME NEW c \in Chans, CloseCall(r, c) PROVE TypeOK'
  BY <1>3 DEF CloseCall, LndTypeOK
<1>4. ASSUME NEW c \in Chans, CloseRefused(r, c) PROVE TypeOK'
  BY <1>4, LndUnchanged DEF CloseRefused
<1>5. ASSUME NEW c \in Chans, StreamUpdate(r, c) PROVE TypeOK'
  BY <1>5, LndUnchanged DEF StreamUpdate
<1>6. ASSUME NEW c \in Chans, StreamError(r, c) PROVE TypeOK'
  <2>1. closeReq' \in [Runs -> SUBSET Chans]
    BY <1>6 DEF StreamError, Forsaken, LndTypeOK
  <2> QED
    BY <1>6, <2>1 DEF StreamError, LndTypeOK
<1>7. CASE CloseWait(r)
  <2>1. LndTypeOK'
    BY <1>7, LndUnchanged DEF CloseWait
  <2>2. CASE End(r)
    BY <1>7, <2>1, <2>2, EndType DEF CloseWait
  <2>3. CASE AfterClosing(r)
    BY <1>1, <1>7, <2>1, <2>3 DEF CloseWait
  <2> QED
    BY <1>7, <2>2, <2>3 DEF CloseWait
<1> QED
  BY <1>2, <1>3, <1>4, <1>5, <1>6, <1>7 DEF Close

(* And of opening: only peers get into a batch, never our own node.        *)
LEMMA OpenType ==
  ASSUME TypeOK, NEW r \in Runs, OpenBatch(r), Self \notin cand[r]
  PROVE  TypeOK'
<1> USE DEF TypeOK, RunTypeOK
<1>1. CASE OpenChannels(r)
  <2>1. LndTypeOK'
    BY <1>1, LndUnchanged DEF OpenChannels
  <2>2. CASE End(r)
    BY <1>1, <2>1, <2>2, EndType DEF OpenChannels
  <2>3. CASE ~End(r)
    BY <1>1, <2>1, <2>3 DEF OpenChannels, CandidateNodes, Goto, Stages
  <2> QED
    BY <2>2, <2>3
<1>2. ASSUME NEW n \in Peers \union {Self}, TryPeer(r, n) PROVE TypeOK'
  <2>1. n \in Peers
    BY <1>2 DEF TryPeer
  <2> QED
    BY <1>2, <2>1 DEF TryPeer, LndTypeOK
<1>3. CASE Open(r)
  <2>1. CASE End(r)
    BY <1>3, <2>1, EndType, SMTT(30) DEF Open, LndTypeOK
  <2>2. CASE ~End(r)
    BY <1>3, <2>2 DEF Open, LndTypeOK, Goto, Stages
  <2> QED
    BY <2>1, <2>2
<1>4. CASE BatchReply(r)
  BY <1>4, EndType, LndUnchanged DEF BatchReply
<1> QED
  BY <1>1, <1>2, <1>3, <1>4 DEF OpenBatch

(* A run that is cut short leaves well typed requests behind.              *)
LEMMA AbortType ==
  ASSUME TypeOK, NEW r \in Runs, Abort(r)
  PROVE  TypeOK'
<1>1. RunTypeOK'
  BY EndType DEF Abort
<1>2. closeReq' \in [Runs -> SUBSET Chans] /\ openReq' \in [Runs -> SUBSET Peers]
  BY DEF Abort, Forsaken, TypeOK, LndTypeOK
<1>3. LndTypeOK'
  BY <1>2 DEF Abort, TypeOK, LndTypeOK
<1> QED
  BY <1>1, <1>3 DEF TypeOK, RunTypeOK

(* What LND, the peers and the chain do is well typed.                     *)
LEMMA LndType ==
  ASSUME LndTypeOK, LndNext
  PROVE  LndTypeOK'
<1> USE DEF LndTypeOK, Statuses
<1>1. ASSUME NEW r \in Runs, NEW c \in Chans, CloseBroadcast(r, c) PROVE LndTypeOK'
  BY <1>1 DEF CloseBroadcast
<1>2. ASSUME NEW r \in Runs, BatchCommit(r) PROVE LndTypeOK'
  BY <1>2 DEF BatchCommit
<1>3. ASSUME NEW r \in Runs, BatchReject(r) PROVE LndTypeOK'
  BY <1>3 DEF BatchReject
<1>4. ASSUME NEW c \in Chans, FundingConfirmed(c) PROVE LndTypeOK'
  BY <1>4 DEF FundingConfirmed
<1>5. ASSUME NEW c \in Chans, ClosureConfirmed(c) PROVE LndTypeOK'
  BY <1>5 DEF ClosureConfirmed
<1>6. ASSUME NEW c \in Chans, FundingCanceled(c) PROVE LndTypeOK'
  BY <1>6 DEF FundingCanceled
<1>7. ASSUME NEW c \in Chans, RemoteClose(c) PROVE LndTypeOK'
  BY <1>7 DEF RemoteClose
<1>8. ASSUME NEW c \in Chans, RemoteOpen(c) PROVE LndTypeOK'
  BY <1>8 DEF RemoteOpen
<1>9. ASSUME NEW p \in Peers, Flap(p) PROVE LndTypeOK'
  BY <1>9 DEF Flap
<1>10. CASE Block
  BY <1>10 DEF Block
<1> QED
  BY <1>1, <1>2, <1>3, <1>4, <1>5, <1>6, <1>7, <1>8, <1>9, <1>10 DEF LndNext

(* The numbers of a snapshot.                                              *)
LEMMA NodeNumbers ==
  ASSUME TypeOK, NEW r \in Runs
  PROVE  /\ node[r].num \in Nat /\ node[r].allocated \in Nat
         /\ MaxOpen(r) \in Nat
<1>1. node[r].num \in Nat /\ node[r].allocated \in Nat
  BY DEF TypeOK, Snapshots
<1>2. node[r].allocated \div MinChannelSize \in Nat
  BY <1>1, DivFacts, ConfigAssumption
<1> QED
  BY <1>1, <1>2, ConfigAssumption DEF MaxOpen, MaxOpenChannels

(***************************************************************************)
(* The inductive invariant                                                 *)
(***************************************************************************)
LEMMA InitInv == Init => Inv
<1> SUFFICES ASSUME Init PROVE Inv
  OBVIOUS
<1>1. TypeOK
  BY InitType
<1>2. NewPeers
  BY DEF Init, NewPeers, Opening
<1>3. KnownPeers
  BY DEF Init, KnownPeers, Blank, Asked
<1>4. BatchFits
  BY DEF Init, BatchFits, Opening
<1>5. Answered
  BY DEF Init, LndInit, Answered
<1> QED
  BY <1>1, <1>2, <1>3, <1>4, <1>5 DEF Inv

(* A step of LND or of its peers leaves all that a run knows as it was, and  *)
(* takes no channel out of its closure.                                      *)
LEMMA LndInv ==
  ASSUME Inv, LndNext, UNCHANGED runVars
  PROVE  Inv'
<1> USE DEF Inv
<1>1. TypeOK'
  BY LndType DEF TypeOK, runVars
<1>2. NewPeers' /\ KnownPeers' /\ BatchFits'
  BY DEF NewPeers, KnownPeers, BatchFits, Asked, MaxOpen, runVars
<1>3. ASSUME NEW c \in Chans, status[c] \in {"waiting", "closed"}
      PROVE  status'[c] \in {"waiting", "closed"}
  <2> USE <1>3 DEF TypeOK, LndTypeOK
  <2>1. ASSUME NEW r \in Runs, BatchCommit(r) PROVE status'[c] = status[c]
    BY <2>1 DEF BatchCommit, Fresh
  <2> QED
    BY <2>1 DEF LndNext, CloseBroadcast, BatchReject, FundingConfirmed,
                ClosureConfirmed, FundingCanceled, RemoteClose, RemoteOpen,
                Flap, Block
<1>4. ASSUME NEW r \in Runs, NEW c \in Chans, c \in closeReq[r], c \notin closeReq'[r]
      PROVE  status'[c] \in {"waiting", "closed"}
  <2>1. PICK q \in Runs, d \in Chans : CloseBroadcast(q, d)
    BY <1>4 DEF LndNext, BatchCommit, BatchReject, FundingConfirmed,
                ClosureConfirmed, FundingCanceled, RemoteClose, RemoteOpen,
                Flap, Block
  <2>2. q = r /\ d = c
    BY <1>4, <2>1 DEF CloseBroadcast, TypeOK, LndTypeOK
  <2> QED
    BY <2>1, <2>2 DEF CloseBroadcast, TypeOK, LndTypeOK
<1>5. Answered'
  BY <1>3, <1>4 DEF Answered, runVars
<1> QED
  BY <1>1, <1>2, <1>5

(* A run that returns forgets everything.                                    *)
LEMMA EndInv ==
  ASSUME Inv, NEW r \in Runs, End(r), kind' = kind, LndTypeOK', status' = status,
         \A q \in Runs \ {r} : closeReq'[q] = closeReq[q]
  PROVE  Inv'
<1> USE DEF Inv
<1>1. TypeOK'
  BY EndType DEF TypeOK, RunTypeOK
<1>2. /\ \A q \in Runs \ {r} : /\ pc'[q] = pc[q] /\ node'[q] = node[q]
                               /\ closer'[q] = closer[q]
                               /\ cand'[q] = cand[q] /\ batch'[q] = batch[q]
      /\ pc'[r] = "done" /\ node'[r] = Blank
      /\ cand'[r] = {} /\ batch'[r] = {}
      /\ \A c \in Chans : closer'[r][c] = "none"
  BY DEF End, Goto, TypeOK
<1>3. NewPeers'
  BY <1>2 DEF NewPeers, Opening
<1>4. KnownPeers'
  BY <1>2 DEF KnownPeers, Asked, Blank
<1>5. BatchFits'
  BY <1>2 DEF BatchFits, Opening, MaxOpen
<1>6. Answered'
  BY <1>2 DEF Answered
<1> QED
  BY <1>1, <1>3, <1>4, <1>5, <1>6

(* Reading happens before there are candidates or closures.                  *)
LEMMA ReadInv ==
  ASSUME Inv, NEW r \in Runs, GetInfo(r) \/ Read(r), ~End(r)
  PROVE  Inv'
<1> USE DEF Inv
<1>1. TypeOK'
  BY ReadType
<1>2. /\ UNCHANGED <<lndVars, closer, cand, batch>>
      /\ \A q \in Runs \ {r} : pc'[q] = pc[q] /\ node'[q] = node[q]
      /\ pc[r] \in {"idle"} \union Reading
      /\ pc'[r] \in Reading \union {"open", "close"}
  BY DEF GetInfo, Read, ListChannels, ListPeers, ClosedChannels, EstimateTxFee,
         Goto, TypeOK, Reading, Stages
<1>3. cand[r] \union batch[r] = {} /\ \A c \in Chans : closer[r][c] = "none"
  BY <1>2 DEF NewPeers, Opening, Answered, Reading, TypeOK
<1>4. NewPeers'
  BY <1>2, <1>3 DEF NewPeers, Opening, Reading
<1>5. KnownPeers'
  <2>1. \A c \in node'[r].channels : Peer(c) \in node'[r].peers
    <3>1. CASE ListChannels(r)
      BY <3>1 DEF ListChannels, TypeOK, Snapshots
    <3>2. CASE ~ListChannels(r)
      <4>1. /\ node'[r].channels = node[r].channels
            /\ node'[r].peers = node[r].peers
        BY <3>2, ZenonT(30) DEF GetInfo, Read, ListPeers, ClosedChannels, EstimateTxFee,
                    TypeOK, Snapshots
      <4> QED
        BY <4>1 DEF KnownPeers
    <3> QED
      BY <3>1, <3>2
  <2> QED
    BY <1>2, <1>3, <2>1 DEF KnownPeers, Asked
<1>6. BatchFits'
  BY <1>2 DEF BatchFits, Opening, MaxOpen, Reading
<1>7. Answered'
  BY <1>2, <1>3 DEF Answered, lndVars, Reading
<1> QED
  BY <1>1, <1>4, <1>5, <1>6, <1>7

(* A stage in which the goroutines of r and the requests it made change.     *)
LEMMA CloserInv ==
  ASSUME Inv, NEW r \in Runs, NEW c \in Chans,
         \/ CloseCall(r, c) \/ CloseRefused(r, c)
         \/ StreamUpdate(r, c) \/ StreamError(r, c)
  PROVE  Inv'
<1> USE DEF Inv
<1>1. TypeOK'
  BY CloseType DEF Close
<1>2. /\ UNCHANGED <<status, pc, node, cand, batch>>
      /\ pc[r] = "closing"
      /\ closer[r][c] # "none" /\ closer'[r][c] # "none"
      /\ \A q \in Runs, d \in Chans :
            q # r \/ d # c => /\ closer'[q][d] = closer[q][d]
                              /\ d \in closeReq'[q] <=> d \in closeReq[q]
  BY DEF CloseCall, CloseRefused, StreamUpdate, StreamError, Forsaken, lndVars,
         TypeOK, LndTypeOK
<1>3. /\ closer'[r][c] = "ok" => closer[r][c] = "stream" /\ c \notin closeReq[r]
      /\ closer'[r][c] = "stream" => c \in closeReq'[r]
  BY DEF CloseCall, CloseRefused, StreamUpdate, StreamError, TypeOK, LndTypeOK
<1>4. NewPeers' /\ BatchFits'
  BY <1>2 DEF NewPeers, BatchFits, MaxOpen
<1>5. KnownPeers'
  BY <1>2 DEF KnownPeers, Asked
<1>6. Answered'
  <2> SUFFICES ASSUME NEW q \in Runs, NEW d \in Chans
               PROVE /\ \/ closer'[q][d] = "ok"
                        \/ closer'[q][d] = "stream" /\ d \notin closeReq'[q]
                        => status'[d] \in {"waiting", "closed"}
                     /\ pc'[q] \in {"open", "connecting", "batch"}
                           => closer'[q][d] \in {"none", "ok"}
                     /\ closer'[q][d] # "none" =>
                           pc'[q] \in {"closing", "open", "connecting", "batch"}
    BY DEF Answered
  <2>1. CASE q = r /\ d = c
    BY <1>2, <1>3, <2>1 DEF Answered
  <2>2. CASE ~(q = r /\ d = c)
    BY <1>2, <2>2 DEF Answered
  <2> QED
    BY <2>1, <2>2
<1> QED
  BY <1>1, <1>4, <1>5, <1>6

(* The run goes on to another stage with what it has.                        *)
LEMMA CloseInv ==
  ASSUME Inv, NEW r \in Runs, CloseChannels(r) \/ CloseWait(r), ~End(r)
  PROVE  Inv'
<1> USE DEF Inv
<1>1. TypeOK'
  BY CloseType DEF Close
<1>2. /\ UNCHANGED <<lndVars, node, cand, batch>>
      /\ \A q \in Runs \ {r} : pc'[q] = pc[q] /\ closer'[q] = closer[q]
      /\ pc[r] \in {"close", "closing"} /\ pc'[r] \in {"closing", "open"}
  BY DEF CloseChannels, CloseWait, AfterClosing, Goto, TypeOK
<1>3. \/ /\ closer'[r] = closer[r]
         /\ \A c \in Chans : closer[r][c] \in {"none", "ok"}
      \/ /\ pc'[r] = "closing"
         /\ \A c \in Chans : /\ closer'[r][c] \in {"none", "start"}
                             /\ closer'[r][c] # "none" => c \in node[r].channels
  <2>1. CASE CloseChannels(r)
    <3>1. PICK chosen \in SUBSET Closable(r) :
            IF chosen = {} \/ DryRun
            THEN AfterClosing(r)
            ELSE /\ Goto(r, "closing")
                 /\ closer' = [closer EXCEPT ![r] =
                       [c \in Chans |-> IF c \in chosen THEN "start" ELSE "none"]]
                 /\ UNCHANGED <<node, cand, batch>>
      BY <2>1 DEF CloseChannels
    <3>2. CASE chosen = {} \/ DryRun
      <4>1. closer'[r] = closer[r]
        BY <3>1, <3>2 DEF AfterClosing
      <4>2. pc[r] = "close"
        BY <2>1 DEF CloseChannels
      <4> QED
        BY <4>1, <4>2 DEF Answered
    <3>3. CASE ~(chosen = {} \/ DryRun)
      BY <3>1, <3>3 DEF Goto, TypeOK, Closable, CandidateChannels
    <3> QED
      BY <3>2, <3>3
  <2>2. CASE CloseWait(r)
    BY <2>2 DEF CloseWait, AfterClosing, Failed, TypeOK
  <2> QED
    BY <2>1, <2>2
<1>4. NewPeers'
  BY <1>2 DEF NewPeers, Opening
<1>5. KnownPeers'
  BY <1>2, <1>3 DEF KnownPeers, Asked
<1>6. BatchFits'
  BY <1>2 DEF BatchFits, Opening, MaxOpen
<1>7. Answered'
  <2>1. \A q \in Runs \ {r} : closeReq'[q] = closeReq[q]
    BY <1>2 DEF lndVars
  <2> QED
    BY <1>2, <1>3, <2>1 DEF Answered, lndVars
<1> QED
  BY <1>1, <1>4, <1>5, <1>6, <1>7

(* The candidates are new peers, and a batch never outgrows the room.        *)
LEMMA OpenInv ==
  ASSUME Inv, NEW r \in Runs, OpenBatch(r), ~End(r)
  PROVE  Inv'
<1> USE DEF Inv
<1>1. TypeOK'
  BY OpenType DEF NewPeers
<1>2. /\ UNCHANGED <<status, closeReq, node, closer>>
      /\ \A q \in Runs \ {r} : /\ pc'[q] = pc[q]
                               /\ cand'[q] = cand[q] /\ batch'[q] = batch[q]
      /\ pc[r] \in {"open", "connecting", "batch"}
      /\ pc'[r] \in Opening
  BY DEF OpenBatch, OpenChannels, TryPeer, Open, BatchReply, Goto, Opening,
         lndVars, TypeOK
<1>3. KnownPeers'
  BY <1>2 DEF KnownPeers, Asked
<1>4. Answered'
  BY <1>2 DEF Answered, Opening
<1>5. CASE OpenChannels(r)
  <2>1. /\ ~SkipOpen(node[r].num, node[r].allocated)
        /\ pc[r] = "open"
        /\ UNCHANGED batch
    BY <1>5 DEF OpenChannels
  <2>2. batch[r] = {}
    BY <2>1 DEF NewPeers, Opening
  <2>3. \A n \in cand'[r] : n # Self /\ n \notin node[r].peers
    BY <1>5, <2>1 DEF OpenChannels, DiscardNode, CandidateNodes, TypeOK
  <2>4. NewPeers'
    BY <1>2, <2>2, <2>3, <2>1 DEF NewPeers, Opening
  <2>5. Cardinality(batch[r]) <= MaxOpen(r)
    BY <2>1, <2>2, FS_EmptySet, NodeNumbers DEF SkipOpen, MaxOpen
  <2>6. BatchFits'
    BY <1>2, <2>1, <2>5 DEF BatchFits, MaxOpen
  <2> QED
    BY <1>1, <1>3, <1>4, <2>4, <2>6
<1>6. ASSUME NEW n \in Peers \union {Self}, TryPeer(r, n)
      PROVE  Inv'
  <2>1. /\ pc[r] = "connecting" /\ UNCHANGED pc
        /\ n \in cand[r] /\ ~Full(r)
        /\ cand'[r] \subseteq cand[r]
        /\ batch'[r] = batch[r] \/ batch'[r] = batch[r] \union {n}
    BY <1>6 DEF TryPeer, TypeOK
  <2>2. NewPeers'
    BY <1>2, <2>1 DEF NewPeers, Opening
  <2>3. Cardinality(batch'[r]) <= MaxOpen(r)
    <3>1. IsFiniteSet(batch[r]) /\ Cardinality(batch[r]) \in Nat
      BY FiniteChans DEF TypeOK
    <3>2. Cardinality(batch[r]) < MaxOpen(r)
      BY <2>1, <3>1, NodeNumbers DEF Full, BatchFits, Opening
    <3>3. Cardinality(batch'[r]) <= Cardinality(batch[r]) + 1
      <4>1. Cardinality(batch[r] \union {n}) <= Cardinality(batch[r]) + 1
        <5>1. Cardinality(batch[r] \union {n}) =
                IF n \in batch[r] THEN Cardinality(batch[r])
                                  ELSE Cardinality(batch[r]) + 1
          BY <3>1, FS_AddElement, Zenon
        <5> QED
          BY <3>1, <5>1
      <4>2. CASE batch'[r] = batch[r]
        BY <3>1, <4>2
      <4>3. CASE batch'[r] = batch[r] \union {n}
        BY <4>1, <4>3, Zenon
      <4> QED
        BY <2>1, <4>2, <4>3
    <3>4. Cardinality(batch'[r]) \in Nat
      BY <1>1, FiniteChans DEF TypeOK
    <3> QED
      BY <3>1, <3>2, <3>3, <3>4, NodeNumbers
  <2>4. BatchFits'
    BY <1>2, <2>1, <2>3 DEF BatchFits, MaxOpen, Opening
  <2> QED
    BY <1>1, <1>3, <1>4, <2>2, <2>4
<1>7. CASE Open(r)
  <2>1. pc[r] = "connecting" /\ UNCHANGED <<cand, batch>>
    BY <1>7 DEF Open
  <2>2. NewPeers'
    BY <1>2, <2>1 DEF NewPeers, Opening
  <2>3. BatchFits'
    BY <1>2, <2>1 DEF BatchFits, MaxOpen, Opening
  <2> QED
    BY <1>1, <1>3, <1>4, <2>2, <2>3
<1>8. CASE BatchReply(r)
  BY <1>8 DEF BatchReply
<1> QED
  BY <1>5, <1>6, <1>7, <1>8 DEF OpenBatch

(* Every step keeps the invariant: a run that returns forgets, any other   *)
(* step is one of the stages of a run or none of its business.             *)
LEMMA NextInv == Inv /\ [Next]_vars => Inv'
<1> SUFFICES ASSUME Inv, [Next]_vars PROVE Inv'
  OBVIOUS
<1>1. CASE UNCHANGED vars
  BY <1>1 DEF vars, lndVars, runVars, Inv, TypeOK, LndTypeOK, NewPeers,
              KnownPeers, BatchFits, Answered, Asked, MaxOpen
<1>2. CASE LndNext /\ UNCHANGED runVars
  BY <1>2, LndInv
<1>3. ASSUME NEW r \in Runs, RunNext(r) PROVE Inv'
  <2>1. CASE End(r)
    <3>1. LndTypeOK'
      BY <1>3, ReadType, CloseType, OpenType, AbortType
         DEF RunNext, Inv, NewPeers, TypeOK
    <3>2. /\ kind' = kind /\ status' = status
          /\ \A q \in Runs \ {r} : closeReq'[q] = closeReq[q]
      BY <1>3 DEF RunNext, GetInfo, Read, ListChannels, ListPeers,
           ClosedChannels, EstimateTxFee, Close, CloseChannels, CloseCall,
           CloseRefused, StreamUpdate, StreamError, CloseWait, OpenBatch,
           OpenChannels, TryPeer, Open, BatchReply, Abort, lndVars, Inv,
           TypeOK, LndTypeOK
    <3> QED
      BY <2>1, <3>1, <3>2, EndInv
  <2>2. CASE ~End(r)
    <3>1. CASE GetInfo(r) \/ Read(r)
      BY <2>2, <3>1, ReadInv
    <3>2. CASE Close(r)
      BY <2>2, <3>2, CloseInv, CloserInv DEF Close
    <3>3. CASE OpenBatch(r)
      BY <2>2, <3>3, OpenInv
    <3>4. CASE Abort(r)
      BY <2>2, <3>4 DEF Abort
    <3> QED
      BY <1>3, <3>1, <3>2, <3>3, <3>4 DEF RunNext
  <2> QED
    BY <2>1, <2>2
<1> QED
  BY <1>1, <1>2, <1>3 DEF Next

(* The invariant holds in every state of every behaviour: what a run still *)
(* knows from its snapshot stays true of the batch it builds, however LND, *)
(* the peers and other runs interleave with it.                            *)
THEOREM Invariant == Spec => []Inv
<1> QED
  BY InitInv, NextInv, PTL DEF Spec

(***************************************************************************)
(* The theorems about batches and closures                                 *)
(***************************************************************************)
(* Every variable keeps its type; in particular a batch holds peers only,  *)
(* although our own node is in the graph the candidates are taken from.    *)
THEOREM TypeCorrect == Spec => []TypeOK
<1>1. Inv => TypeOK
  BY DEF Inv
<1> QED
  BY <1>1, Invariant, PTL

(* Every channel of a batch is funded within the configured sizes and the  *)
(* batch within the allocated balance, for every configuration in which    *)
(* max_channels * min_channel_size does not wrap (agent.selectNodes).      *)
THEOREM BatchesFunded == Spec => []BatchFunded
<1>1. ASSUME Inv PROVE BatchFunded
  <2> SUFFICES ASSUME NoWrap, NEW r \in Runs, batch[r] # {}
               PROVE /\ Funding(r) \in MinChannelSize .. MaxChannelSize
                     /\ Cardinality(batch[r]) * Funding(r) <= node[r].allocated
    BY DEF BatchFunded
  <2>1. pc[r] \in Opening
    BY <1>1 DEF Inv, NewPeers
  <2>2. /\ ~SkipOpen(node[r].num, node[r].allocated)
        /\ Cardinality(batch[r]) <= MaxOpenChannels(node[r].num, node[r].allocated)
    BY <1>1, <2>1 DEF Inv, BatchFits, MaxOpen
  <2>3. node[r].num \in Nat /\ node[r].allocated \in Nat
    BY <1>1, NodeNumbers DEF Inv
  <2>4. Cardinality(batch[r]) \in Nat
    BY <1>1, FiniteChans DEF Inv, TypeOK
  <2> QED
    BY <1>1, <2>2, <2>3, <2>4, FundingRange DEF Funding, MaxOpen
<1> QED
  BY <1>1, Invariant, PTL

(* No run gives a channel to a peer whose channel it has just closed, even *)
(* with overlapping runs and peers that open and close channels meanwhile. *)
THEOREM NeverReopens == Spec => []NoReopen
<1>1. Inv => NoReopen
  BY DEF Inv, NoReopen, NewPeers, KnownPeers
<1> QED
  BY <1>1, Invariant, PTL

(* A run that opens has seen all its closing transactions broadcast.       *)
THEOREM OpensAfterClosing == Spec => []ClosedBeforeOpening
<1>1. Inv => ClosedBeforeOpening
  BY DEF Inv, ClosedBeforeOpening, Answered, Asked
<1> QED
  BY <1>1, Invariant, PTL

(***************************************************************************)
(* What a run never asks LND to close                                      *)
(***************************************************************************)
Protected == Private \union Keeplist

(* No run has a protected channel in its hands.                            *)
Spares ==
  \A r \in Runs : /\ node[r].channels \intersect Private = {}
                  /\ Asked(r) \intersect Protected = {}
                  /\ closeReq[r] \intersect Protected = {}

LEMMA InitSpares == Init => Spares
<1> SUFFICES ASSUME Init, NEW r \in Runs
             PROVE  /\ node[r].channels = {} /\ Asked(r) = {} /\ closeReq[r] = {}
  BY DEF Spares
<1> QED
  BY DEF Init, LndInit, Blank, Asked

(* One run's step leaves the other runs' requests alone.                   *)
LEMMA RunSpares ==
  ASSUME TypeOK, Spares, NEW r \in Runs, RunNext(r) PROVE Spares'
<1> USE DEF Spares, Asked, TypeOK, LndTypeOK
<1>1. ASSUME End(r), \A q \in Runs : closeReq'[q] \subseteq closeReq[q]
      PROVE  Spares'
  <2>1. /\ node'[r].channels = {} /\ \A c \in Chans : closer'[r][c] = "none"
        /\ \A q \in Runs \ {r} : node'[q] = node[q] /\ closer'[q] = closer[q]
    BY <1>1 DEF End, Blank
  <2> SUFFICES ASSUME NEW q \in Runs
               PROVE  /\ node'[q].channels \intersect Private = {}
                      /\ Asked(q)' \intersect Protected = {}
                      /\ closeReq'[q] \intersect Protected = {}
    OBVIOUS
  <2>2. CASE q = r
    BY <1>1, <2>1, <2>2
  <2>3. CASE q # r
    BY <1>1, <2>1, <2>3
  <2> QED
    BY <2>2, <2>3
<1>2. CASE GetInfo(r) \/ ListPeers(r) \/ ClosedChannels(r)
  <2>1. /\ node'[r].channels = node[r].channels
        /\ \A q \in Runs \ {r} : node'[q] = node[q]
        /\ UNCHANGED <<closer, closeReq>>
    <3>1. CASE GetInfo(r)
      BY <3>1 DEF GetInfo, lndVars, Snapshots
    <3>2. CASE ListPeers(r)
      BY <3>2 DEF ListPeers, lndVars, Snapshots
    <3>3. CASE ClosedChannels(r)
      BY <3>3 DEF ClosedChannels, lndVars, Snapshots
    <3> QED
      BY <1>2, <3>1, <3>2, <3>3
  <2> HIDE DEF TypeOK
  <2> QED
    BY <2>1
<1>3. CASE ListChannels(r)
  <2>1. /\ node'[r].channels \intersect Private = {}
        /\ \A q \in Runs \ {r} : node'[q] = node[q]
        /\ UNCHANGED <<closer, closeReq>>
    BY <1>3 DEF ListChannels, lndVars
  <2> QED
    BY <2>1
<1>4. CASE EstimateTxFee(r)
  BY <1>1, <1>4 DEF EstimateTxFee, lndVars
<1>5. CASE CloseChannels(r)
  <2> PICK chosen \in SUBSET Closable(r) :
         IF chosen = {} \/ DryRun
         THEN AfterClosing(r)
         ELSE /\ closer' = [closer EXCEPT ![r] =
                    [c \in Chans |-> IF c \in chosen THEN "start" ELSE "none"]]
              /\ UNCHANGED node
    BY <1>5 DEF CloseChannels
  <2>1. chosen \intersect Protected = {} /\ UNCHANGED closeReq
    BY <1>5 DEF Closable, CandidateChannels, Protected, CloseChannels, lndVars
  <2> QED
    BY <1>1, <2>1, SMTT(30) DEF AfterClosing
<1>6. ASSUME NEW c \in Chans, CloseCall(r, c) \/ CloseRefused(r, c) \/ StreamUpdate(r, c)
      PROVE  Spares'
  BY <1>6 DEF CloseCall, CloseRefused, StreamUpdate, lndVars
<1>7. ASSUME NEW c \in Chans, StreamError(r, c) PROVE Spares'
  <2>1. closeReq'[r] \subseteq closeReq[r]
        /\ \A q \in Runs \ {r} : closeReq'[q] = closeReq[q]
    BY <1>7 DEF StreamError, Forsaken
  <2> QED
    BY <1>7, <2>1 DEF StreamError
<1>8. CASE CloseWait(r)
  BY <1>1, <1>8 DEF CloseWait, AfterClosing, lndVars
<1>9. CASE OpenBatch(r)
  BY <1>1, <1>9 DEF OpenBatch, OpenChannels, TryPeer, Open, BatchReply, lndVars
<1>10. CASE Abort(r)
  <2>1. \A q \in Runs : closeReq'[q] \subseteq closeReq[q]
    BY <1>10 DEF Abort, Forsaken
  <2> QED
    BY <1>1, <1>10, <2>1 DEF Abort
<1> QED
  BY <1>2, <1>3, <1>4, <1>5, <1>6, <1>7, <1>8, <1>9, <1>10 DEF RunNext, Read, Close

LEMMA NextSpares ==
  ASSUME TypeOK, Spares, [Next]_vars PROVE Spares'
<1>1. CASE UNCHANGED vars
  BY <1>1 DEF vars, lndVars, runVars, Spares, Asked
<1>2. CASE LndNext /\ UNCHANGED runVars
  <2>1. \A r \in Runs : closeReq'[r] \subseteq closeReq[r]
    BY <1>2 DEF LndNext, CloseBroadcast, BatchCommit, BatchReject,
         FundingConfirmed, ClosureConfirmed, FundingCanceled, RemoteClose,
         RemoteOpen, Flap, Block, TypeOK, LndTypeOK
  <2> QED
    BY <1>2, <2>1 DEF runVars, Spares, Asked
<1> QED
  BY <1>1, <1>2, RunSpares DEF Next

(* LND is never asked to close a private channel or one of the keeplist,   *)
(* whatever peers, LND and other runs do meanwhile.                        *)
THEOREM ProtectedNotClosed == Spec => []OnlyListedClosed
<1>1. Spares => OnlyListedClosed
  BY DEF Spares, Protected, OnlyListedClosed
<1>2. Inv => TypeOK
  BY DEF Inv
<1> QED
  BY <1>1, <1>2, InitSpares, NextSpares, Invariant, PTL DEF Spec

(***************************************************************************)
(* What a run remembers of channels that have ended                        *)
(***************************************************************************)
(* The channel ended in the three months before the run began.             *)
EndedBefore(r, c) ==
  /\ status[c] \in {"closed", "canceled"}
  /\ closedAt[c] \in RecentBlocks(r)

(* Once a run has asked for closed channels, it knows all that matter.     *)
Remembers ==
  \A r \in Runs :
     /\ ~Idle(r) => node[r].height <= height
     /\ pc[r] \notin {"idle", "done", "info", "channels", "peers"} =>
           \A c \in Chans : EndedBefore(r, c) => Peer(c) \in node[r].recent
     /\ (cand[r] \union batch[r]) \intersect node[r].recent = {}

LEMMA InitRemembers == Init => Remembers
  BY DEF Init, Remembers, Idle

(* What LND adds to its closed channels from now on is newer than the run. *)
LEMMA LndRemembers ==
  ASSUME TypeOK, Remembers, LndNext, UNCHANGED runVars
  PROVE  Remembers'
<1> USE DEF TypeOK, LndTypeOK, RecentBlocks
<1>1. height' \in Nat /\ height' >= height
  BY DEF LndNext, CloseBroadcast, BatchCommit, BatchReject, FundingConfirmed,
     ClosureConfirmed, FundingCanceled, RemoteClose, RemoteOpen, Flap, Block
<1>2. ASSUME NEW r \in Runs, ~Idle(r), NEW c \in Chans, EndedBefore(r, c)'
      PROVE  EndedBefore(r, c)
  <2>1. /\ node[r].height \in Nat /\ node[r].height <= height
        /\ ThreeMonths \in Nat /\ node' = node
    BY <1>2, AgentAssumption DEF Remembers, Snapshots, runVars
  <2>2. CASE status'[c] = status[c] /\ closedAt'[c] = closedAt[c]
    BY <1>2, <2>1, <2>2 DEF EndedBefore
  <2>3. CASE closedAt'[c] = height
    BY <1>2, <2>1, <2>3 DEF EndedBefore
  <2>4. CASE status'[c] \notin {"closed", "canceled"}
    BY <1>2, <2>4 DEF EndedBefore
  <2>5. \/ status'[c] = status[c] /\ closedAt'[c] = closedAt[c]
        \/ closedAt'[c] = height
        \/ status'[c] \notin {"closed", "canceled"}
    BY DEF LndNext, CloseBroadcast, BatchCommit, BatchReject, FundingConfirmed,
       ClosureConfirmed, FundingCanceled, RemoteClose, RemoteOpen, Flap, Block
  <2> QED
    BY <2>2, <2>3, <2>4, <2>5
<1> QED
  BY <1>1, <1>2 DEF Remembers, Snapshots, Idle, runVars

LEMMA RunRemembers ==
  ASSUME TypeOK, NewPeers, Remembers, NEW r \in Runs, RunNext(r)
  PROVE  Remembers'
<1> USE DEF TypeOK, LndTypeOK, Remembers, RecentBlocks
<1>1. UNCHANGED <<status, closedAt, height>>
  BY DEF RunNext, GetInfo, Read, ListChannels, ListPeers, ClosedChannels,
     EstimateTxFee, Close, CloseChannels, CloseCall, CloseRefused,
     StreamUpdate, StreamError, CloseWait, OpenBatch, OpenChannels, TryPeer,
     Open, BatchReply, Abort, lndVars
<1>2. CASE End(r)
  BY <1>1, <1>2 DEF End, Goto, Idle, Blank, EndedBefore
<1>3. ASSUME NEW stage, Goto(r, stage), UNCHANGED <<node, cand, batch>>,
             ~Idle(r), pc[r] \notin {"info", "channels", "peers"}
      PROVE  Remembers'
  BY <1>1, <1>3 DEF Goto, Idle, EndedBefore
<1>4. CASE GetInfo(r)
  <2>1. /\ pc' = [pc EXCEPT ![r] = "info"]
        /\ node'[r].height = height /\ node'[r].recent = node[r].recent
        /\ \A q \in Runs \ {r} : node'[q] = node[q]
        /\ UNCHANGED <<cand, batch>>
    BY <1>4 DEF GetInfo, Goto, Snapshots
  <2>2. cand[r] \union batch[r] = {}
    BY <1>4 DEF GetInfo, NewPeers, Opening
  <2>3. \A q \in Runs \ {r}, c \in Chans : EndedBefore(q, c)' <=> EndedBefore(q, c)
    BY <1>1, <2>1 DEF EndedBefore
  <2>4. pc'[r] = "info" /\ \A q \in Runs \ {r} : pc'[q] = pc[q]
    BY <2>1
  <2> HIDE DEF TypeOK
  <2>5. node'[r].height <= height'
    BY <1>1, <2>1 DEF TypeOK
  <2> QED
    BY <1>1, <2>1, <2>2, <2>3, <2>4, <2>5 DEF Idle
<1>5. CASE ListChannels(r) \/ ListPeers(r)
  <2>1. /\ pc'[r] \in {"channels", "peers"} /\ ~Idle(r)
        /\ node'[r].height = node[r].height /\ node'[r].recent = node[r].recent
        /\ \A q \in Runs \ {r} : node'[q] = node[q] /\ pc'[q] = pc[q]
        /\ UNCHANGED <<cand, batch>>
    <3>1. CASE ListChannels(r)
      BY <3>1 DEF ListChannels, Goto, Snapshots, Idle
    <3>2. CASE ListPeers(r)
      BY <3>2 DEF ListPeers, Goto, Snapshots, Idle
    <3> QED
      BY <1>5, <3>1, <3>2
  <2>2. \A q \in Runs \ {r}, c \in Chans : EndedBefore(q, c)' <=> EndedBefore(q, c)
    BY <1>1, <2>1 DEF EndedBefore
  <2> SUFFICES ASSUME NEW q \in Runs
               PROVE  /\ ~Idle(q)' => node'[q].height <= height'
                      /\ pc'[q] \notin {"idle", "done", "info", "channels", "peers"}
                           => \A c \in Chans : EndedBefore(q, c)'
                                               => Peer(c) \in node'[q].recent
                      /\ (cand'[q] \union batch'[q]) \intersect node'[q].recent = {}
    BY <1>1
  <2>3. CASE q = r
    BY <1>1, <2>1, <2>3
  <2>4. CASE q # r
    BY <1>1, <2>1, <2>2, <2>4 DEF Idle
  <2> QED
    BY <2>3, <2>4
<1>6. CASE ClosedChannels(r)
  <2>1. /\ pc[r] = "peers" /\ pc' = [pc EXCEPT ![r] = "closed"]
        /\ node'[r].height = node[r].height
        /\ node'[r].recent = PeersClosedAfter(node[r].height - ThreeMonths)
        /\ \A q \in Runs \ {r} : node'[q] = node[q]
        /\ UNCHANGED <<cand, batch>>
    BY <1>6 DEF ClosedChannels, Goto, Snapshots
  <2>2. \A c \in Chans : EndedBefore(r, c)' => Peer(c) \in node'[r].recent
    BY <1>1, <2>1, AgentAssumption DEF EndedBefore, PeersClosedAfter, Reported, Snapshots
  <2>3. cand[r] \union batch[r] = {}
    BY <2>1 DEF NewPeers, Opening
  <2> QED
    BY <1>1, <2>1, <2>2, <2>3 DEF Idle, EndedBefore
<1>7. CASE EstimateTxFee(r)
  BY <1>2, <1>3, <1>7 DEF EstimateTxFee, Idle
<1>8. CASE Close(r)
  <2>1. ASSUME NEW c \in Chans, \/ CloseCall(r, c) \/ CloseRefused(r, c)
                                \/ StreamUpdate(r, c) \/ StreamError(r, c)
        PROVE  UNCHANGED <<node, pc, cand, batch>>
    BY <2>1 DEF CloseCall, CloseRefused, StreamUpdate, StreamError
  <2>2. CASE UNCHANGED <<node, pc, cand, batch>>
    BY <1>1, <2>2 DEF Idle, EndedBefore
  <2>3. CASE CloseChannels(r)
    BY <1>2, <1>3, <2>3 DEF CloseChannels, AfterClosing, Idle
  <2>4. CASE CloseWait(r)
    BY <1>2, <1>3, <2>4 DEF CloseWait, AfterClosing, Idle
  <2> QED
    BY <1>8, <2>1, <2>2, <2>3, <2>4 DEF Close
<1>9. CASE OpenChannels(r) /\ ~End(r)
  <2>1. /\ pc[r] = "open" /\ pc' = [pc EXCEPT ![r] = "connecting"]
        /\ \A n \in cand'[r] : ~DiscardNode(r, n)
        /\ \A q \in Runs \ {r} : cand'[q] = cand[q]
        /\ UNCHANGED <<node, batch>>
    BY <1>9 DEF OpenChannels, CandidateNodes, Goto
  <2>2. cand'[r] \intersect node[r].recent = {}
    BY <2>1 DEF DiscardNode
  <2> QED
    BY <1>1, <2>1, <2>2 DEF Idle, EndedBefore
<1>10. ASSUME NEW n \in Peers \union {Self}, TryPeer(r, n) PROVE Remembers'
  <2>1. /\ n \in cand[r] /\ UNCHANGED <<pc, node>>
        /\ cand'[r] \union batch'[r] \subseteq cand[r] \union batch[r]
        /\ \A q \in Runs \ {r} : cand'[q] = cand[q] /\ batch'[q] = batch[q]
    BY <1>10 DEF TryPeer
  <2> QED
    BY <1>1, <2>1 DEF Idle, EndedBefore
<1>11. CASE Open(r)
  BY <1>2, <1>3, <1>11 DEF Open, Idle
<1> QED
  BY <1>2, <1>4, <1>5, <1>6, <1>7, <1>8, <1>9, <1>10, <1>11
     DEF RunNext, Read, OpenBatch, BatchReply, Abort

LEMMA NextRemembers ==
  ASSUME TypeOK, NewPeers, Remembers, [Next]_vars
  PROVE  Remembers'
<1>1. CASE UNCHANGED vars
  BY <1>1 DEF vars, lndVars, runVars, Remembers, EndedBefore, RecentBlocks, Idle
<1> QED
  BY <1>1, LndRemembers, RunRemembers DEF Next

(* No run opens a channel to a peer with whom one has been closed, or      *)
(* canceled after it got an id, in the three months before the run began,  *)
(* whatever LND closes or cancels while the run goes on (discardNode).     *)
(* Channels that are canceled before they have an id are not covered: the  *)
(* code does reopen them (CanceledNotReopened).                            *)
THEOREM RecentlyEndedAvoided == Spec => []RecentNotReopened
<1>1. ASSUME Inv, Remembers PROVE RecentNotReopened
  <2> SUFFICES ASSUME NEW r \in Runs, NEW c \in Chans, Peer(c) \in batch[r],
                      EndedBefore(r, c)
               PROVE  FALSE
    BY DEF RecentNotReopened, EndedBefore
  <2>1. pc[r] \in Opening
    BY <1>1 DEF Inv, NewPeers
  <2> QED
    BY <1>1, <2>1 DEF Remembers, Opening
<1>2. Inv => TypeOK /\ NewPeers
  BY DEF Inv
<1> QED
  BY <1>1, <1>2, InitRemembers, NextRemembers, Invariant, PTL DEF Spec

(***************************************************************************)
(* Agent implements ChannelBudget, for any number of runs, peers and       *)
(* channels, while runs do not overlap, LND drops the requests of a caller *)
(* that went away, and the peers leave the number of channels alone.       *)
(***************************************************************************)
(* Nobody but Hydrus changes the number of channels, one run at a time.    *)
Calm == Environment \intersect {"losses", "gains", "orphans", "overlap"} = {}

(* Nothing runs and nothing has been asked at the start.                   *)
LEMMA InitBudget == Init => BudgetInv
<1> SUFFICES ASSUME Init PROVE BudgetInv
  OBVIOUS
<1> QED
  BY DEF Init, LndInit, BudgetInv, Alone, NoLeftovers, Counts, Idle

(* Only a closure that is broadcast and a batch that is committed change   *)
(* the set of counted channels.                                            *)
LEMMA CountedSteps ==
  ASSUME TypeOK, Calm, [Next]_vars
  PROVE  \/ Counted' = Counted
         \/ \E r \in Runs, c \in Chans : CloseBroadcast(r, c) /\ UNCHANGED runVars
         \/ \E r \in Runs : BatchCommit(r) /\ UNCHANGED runVars
<1>1. CASE UNCHANGED status
  BY <1>1 DEF Counted
<1>2. CASE UNCHANGED vars \/ \E r \in Runs : RunNext(r)
  <2>1. UNCHANGED status
    BY <1>2, ZenonT(30) DEF vars, lndVars, RunNext, GetInfo, Read, ListChannels, ListPeers,
         ClosedChannels, EstimateTxFee, Close, CloseChannels, CloseCall,
         CloseRefused, StreamUpdate, StreamError, CloseWait, OpenBatch,
         OpenChannels, TryPeer, Open, BatchReply, Abort
  <2> QED
    BY <1>1, <2>1
<1>3. ASSUME NEW c \in Chans, \/ FundingConfirmed(c) \/ ClosureConfirmed(c)
                              \/ FundingCanceled(c) \/ RemoteClose(c)
                              \/ RemoteOpen(c)
      PROVE  Counted' = Counted
  BY <1>3 DEF FundingConfirmed, ClosureConfirmed, FundingCanceled, RemoteClose,
              RemoteOpen, Counted, TypeOK, LndTypeOK, Calm
<1>4. CASE LndNext /\ UNCHANGED runVars
  BY <1>1, <1>3, <1>4 DEF LndNext, BatchReject, Flap, Block
<1> QED
  BY <1>2, <1>4 DEF Next

(* The run that asked for a closure is the only one alive and the channels *)
(* it asked to close and LND still counts are above the minimum.           *)
LEMMA CloseKeepsBudget ==
  ASSUME Inv, BudgetInv, NEW r \in Runs, NEW c \in Chans, CloseBroadcast(r, c)
  PROVE  /\ Cardinality(Counted) > MinChannels
         /\ Cardinality(Counted') = Cardinality(Counted) - 1
         /\ Counted' = Counted \ {c}
         /\ Counted' \union Asked(r) = Counted \union Asked(r)
         /\ pc[r] = "closing"
<1> DEFINE gone == Asked(r) \ Counted
<1>1. /\ pc[r] = "closing" /\ c \in Asked(r) /\ c \in Counted
      /\ Counted' = Counted \ {c}
  BY DEF CloseBroadcast, BudgetInv, NoLeftovers, Asked, Counted, Inv, TypeOK,
         LndTypeOK
<1>2. /\ Counted \in SUBSET Chans /\ Asked(r) \in SUBSET Chans
      /\ gone \in SUBSET (Asked(r) \ {c})
  BY <1>1 DEF Counted, Asked
<1>3. /\ IsFiniteSet(Counted) /\ Cardinality(Counted) \in Nat
      /\ IsFiniteSet(Asked(r)) /\ Cardinality(Asked(r)) \in Nat
      /\ IsFiniteSet(gone) /\ Cardinality(gone) \in Nat
      /\ IsFiniteSet(Asked(r) \ {c}) /\ Cardinality(Asked(r) \ {c}) \in Nat
  BY <1>2, FiniteChans
<1>4. Cardinality(Asked(r) \ {c}) = Cardinality(Asked(r)) - 1
  <2>1. Cardinality(Asked(r) \ {c}) =
          IF c \in Asked(r) THEN Cardinality(Asked(r)) - 1
                            ELSE Cardinality(Asked(r))
    BY <1>3, FS_RemoveElement, Zenon
  <2> QED
    BY <1>1, <2>1
<1>5. Cardinality(gone) <= Cardinality(Asked(r)) - 1
  <2>1. Cardinality(gone) <= Cardinality(Asked(r) \ {c})
    BY <1>2, <1>3, FS_Subset
  <2> QED
    BY <1>4, <2>1
<1>6. Cardinality(Counted \union gone) = Cardinality(Counted) + Cardinality(gone)
  <2>1. Cardinality(Counted \union gone) =
          Cardinality(Counted) + Cardinality(gone)
            - Cardinality(Counted \intersect gone)
    BY <1>3, FS_Union
  <2>2. Counted \intersect gone = {}
    OBVIOUS
  <2>3. Cardinality(Counted \intersect gone) = 0
    BY <2>2, FS_EmptySet, Zenon
  <2> HIDE DEF gone
  <2> QED
    BY <1>3, <2>1, <2>3
<1>7. Counted \union gone = Counted \union Asked(r)
  OBVIOUS
<1>8. /\ Cardinality(Counted \union Asked(r)) = node[r].num
      /\ Cardinality(Asked(r)) <= MaxClose(r)
  BY <1>1 DEF BudgetInv, Counts, Idle
<1>9. /\ node[r].num \in Nat /\ MaxClose(r) \in Nat
      /\ MaxClose(r) > 0 => node[r].num - MaxClose(r) = MinChannels
  BY NodeNumbers, MaxCloseRoom DEF Inv, MaxClose
<1>10. Cardinality(Counted) > MinChannels
  <2>1. Cardinality(Counted) + Cardinality(gone) = node[r].num
    BY <1>6, <1>7, <1>8
  <2> HIDE DEF gone
  <2> QED
    BY <1>3, <1>5, <1>8, <1>9, <2>1, ConfigAssumption
<1>11. Cardinality(Counted') = Cardinality(Counted) - 1
  <2>1. Cardinality(Counted \ {c}) =
          IF c \in Counted THEN Cardinality(Counted) - 1 ELSE Cardinality(Counted)
    BY <1>3, FS_RemoveElement, Zenon
  <2> QED
    BY <1>1, <2>1
<1> QED
  BY <1>1, <1>10, <1>11

(* A batch fits in the room the run has seen, if no more channels than it  *)
(* has counted are there when LND answers.                                 *)
LEMMA CommitFits ==
  ASSUME Inv, NEW r \in Runs, BatchCommit(r), pc[r] = "batch",
         openReq[r] = batch[r], Cardinality(Counted) <= node[r].num
  PROVE  /\ Cardinality(Counted') >= Cardinality(Counted)
         /\ Cardinality(Counted') <= MaxChannels
<1> DEFINE new == Counted' \ Counted
<1>1. /\ pc[r] = "batch" /\ openReq[r] = batch[r] /\ openReq[r] # {}
  BY DEF BatchCommit
<1>2. /\ Counted \in SUBSET Chans /\ Counted' \in SUBSET Chans
      /\ new \in SUBSET Chans /\ batch[r] \in SUBSET Peers
      /\ Counted \subseteq Counted' /\ Counted' = Counted \union new
      /\ \A c \in new : Peer(c) \in batch[r] /\ Fresh(c)
  BY <1>1 DEF BatchCommit, Counted, Chans, Fresh, Inv, TypeOK, LndTypeOK
<1>3. /\ IsFiniteSet(Counted) /\ Cardinality(Counted) \in Nat
      /\ IsFiniteSet(Counted') /\ Cardinality(Counted') \in Nat
      /\ IsFiniteSet(new) /\ Cardinality(new) \in Nat
      /\ IsFiniteSet(batch[r]) /\ Cardinality(batch[r]) \in Nat
  BY <1>2, FiniteChans
<1>4. Cardinality(Counted) <= Cardinality(Counted')
  BY <1>2, <1>3, FS_Subset
<1>6. Cardinality(new) <= Cardinality(batch[r])
  <2> DEFINE f == [c \in new |-> Peer(c)]
  <2>1. f \in [new -> batch[r]]
    BY <1>2
  <2>2. ASSUME NEW c \in new, NEW d \in new, f[c] = f[d]
        PROVE  c = d
    <3>1. Peer(c) = Peer(d) /\ Fresh(c) /\ Fresh(d)
      BY <1>2, <2>2
    <3>2. /\ c = <<c[1], c[2]>> /\ c[2] \in 1 .. Slots
          /\ d = <<d[1], d[2]>> /\ d[2] \in 1 .. Slots
      BY <1>2 DEF Chans
    <3>3. ~(c[2] < d[2]) /\ ~(d[2] < c[2])
      BY <3>1, <3>2 DEF Fresh, Peer
    <3>4. c[2] = d[2]
      BY <3>2, <3>3, LndAssumption
    <3> QED
      BY <3>1, <3>2, <3>4 DEF Peer
  <2>3. f \in Injection(new, batch[r])
    BY <2>1, <2>2 DEF Injection, IsInjective
  <2> HIDE DEF f, new
  <2> QED
    BY <1>3, <2>3, FS_Injection
<1>7. Cardinality(Counted') <= Cardinality(Counted) + Cardinality(new)
  <2>1. Cardinality(Counted \union new) =
          Cardinality(Counted) + Cardinality(new)
            - Cardinality(Counted \intersect new)
    BY <1>3, FS_Union
  <2>2. Counted \intersect new = {}
    OBVIOUS
  <2>3. Cardinality(Counted \intersect new) = 0
    BY <2>2, FS_EmptySet, Zenon
  <2> HIDE DEF new
  <2> QED
    BY <1>2, <1>3, <2>1, <2>3
<1>8. /\ Cardinality(batch[r]) <= MaxOpen(r) /\ MaxOpen(r) > 0
      /\ MaxOpen(r) \in Nat /\ node[r].num \in Nat /\ node[r].allocated \in Nat
  BY <1>1, NodeNumbers DEF Inv, BatchFits, Opening, SkipOpen, MaxOpen
<1>9. node[r].num + MaxOpen(r) <= MaxChannels
  BY <1>8, MaxOpenBelowMax DEF MaxOpen
<1> QED
  BY <1>1, <1>3, <1>4, <1>6, <1>7, <1>8, <1>9, ConfigAssumption

(* The batch fits in the room left by the channels there are.              *)
LEMMA CommitKeepsBudget ==
  ASSUME Inv, BudgetInv, NEW r \in Runs, BatchCommit(r)
  PROVE  /\ Cardinality(Counted') >= Cardinality(Counted)
         /\ Cardinality(Counted') <= MaxChannels
         /\ pc[r] = "batch"
<1>1. /\ pc[r] = "batch" /\ openReq[r] = batch[r] /\ openReq[r] # {}
  BY DEF BatchCommit, BudgetInv, NoLeftovers
<1>2. Cardinality(Counted) <= node[r].num
  <2>1. Counted \union Asked(r) \in SUBSET Chans
    BY DEF Counted, Asked
  <2>2. /\ IsFiniteSet(Counted \union Asked(r))
        /\ Counted \subseteq Counted \union Asked(r)
    BY <2>1, FiniteChans
  <2>3. Cardinality(Counted) <= Cardinality(Counted \union Asked(r))
    BY <2>2, FS_Subset
  <2>4. Cardinality(Counted \union Asked(r)) = node[r].num
    BY <1>1 DEF BudgetInv, Counts, Idle
  <2> QED
    BY <2>3, <2>4
<1> QED
  BY <1>1, <1>2, CommitFits

(***************************************************************************)
(* BudgetInv is inductive, together with Inv                               *)
(***************************************************************************)
LEMMA LndBudget ==
  ASSUME Inv, Inv', BudgetInv, Calm, LndNext, UNCHANGED runVars
  PROVE  BudgetInv'
<1> USE DEF BudgetInv
<1>1. Alone'
  BY DEF Alone, Idle, runVars
<1>2. \A r \in Runs : /\ closeReq'[r] \subseteq closeReq[r]
                      /\ openReq'[r] \in {openReq[r], {}}
  <2>1. ASSUME NEW q \in Runs, NEW c \in Chans, CloseBroadcast(q, c)
        PROVE  \A r \in Runs : /\ closeReq'[r] \subseteq closeReq[r]
                               /\ openReq'[r] \in {openReq[r], {}}
    BY <2>1 DEF CloseBroadcast, Inv, TypeOK, LndTypeOK
  <2>2. ASSUME NEW q \in Runs, BatchCommit(q) \/ BatchReject(q)
        PROVE  \A r \in Runs : /\ closeReq'[r] \subseteq closeReq[r]
                               /\ openReq'[r] \in {openReq[r], {}}
    BY <2>2 DEF BatchCommit, BatchReject, Inv, TypeOK, LndTypeOK
  <2> QED
    BY <2>1, <2>2 DEF LndNext, FundingConfirmed, ClosureConfirmed,
         FundingCanceled, RemoteClose, RemoteOpen, Flap, Block
<1>3. NoLeftovers'
  BY <1>2 DEF NoLeftovers, runVars
<1>4. CASE Counted' = Counted
  <2>1. Counts'
    BY <1>2, <1>4 DEF Counts, Idle, Asked, MaxClose, runVars
  <2> QED
    BY <1>1, <1>3, <2>1
<1>5. ASSUME NEW r \in Runs, NEW c \in Chans, CloseBroadcast(r, c)
      PROVE  Counts'
  <2>1. /\ pc[r] = "closing" /\ Counted' \union Asked(r) = Counted \union Asked(r)
    BY <1>5, CloseKeepsBudget
  <2>2. \A q \in Runs : q # r => Idle(q)
    BY <2>1 DEF Alone, Idle
  <2> QED
    BY <2>1, <2>2 DEF Counts, Idle, Asked, MaxClose, runVars
<1>6. ASSUME NEW r \in Runs, BatchCommit(r)
      PROVE  Counts'
  <2>1. pc[r] = "batch" /\ openReq'[r] = {}
    BY <1>6, CommitKeepsBudget DEF BatchCommit, Inv, TypeOK, LndTypeOK
  <2>2. \A q \in Runs : q # r => Idle(q)
    BY <2>1 DEF Alone, Idle
  <2> QED
    BY <2>1, <2>2 DEF Counts, Idle, Asked, MaxClose, runVars
<1> QED
  BY <1>1, <1>3, <1>4, <1>5, <1>6, CountedSteps DEF Inv, Next

(* What is common to the steps of runs: the others are idle and stay so.   *)
LEMMA RunAlone ==
  ASSUME Inv, BudgetInv, Calm, NEW r \in Runs, RunNext(r)
  PROVE  /\ Counted' = Counted
         /\ \A q \in Runs \ {r} : /\ Idle(q) /\ Idle(q)'
                                  /\ pc'[q] = pc[q] /\ closer'[q] = closer[q]
                                  /\ closeReq'[q] = {} /\ openReq'[q] = {}
<1>1. \A q \in Runs \ {r} : Idle(q)
  <2>1. CASE GetInfo(r)
    BY <2>1 DEF GetInfo, Calm
  <2>2. CASE ~GetInfo(r)
    <3>1. ~Idle(r)
      BY <2>2 DEF RunNext, Read, ListChannels, ListPeers, ClosedChannels,
           EstimateTxFee, Close, CloseChannels, CloseCall, CloseRefused,
           StreamUpdate, StreamError, CloseWait, OpenBatch, OpenChannels,
           TryPeer, Open, BatchReply, Abort, Idle
    <3> QED
      BY <3>1 DEF BudgetInv, Alone
  <2> QED
    BY <2>1, <2>2
<1>2. \A q \in Runs \ {r} : closeReq[q] = {} /\ openReq[q] = {}
  BY <1>1 DEF BudgetInv, NoLeftovers, Idle
<1>3. /\ status' = status
      /\ \A q \in Runs \ {r} : /\ pc'[q] = pc[q] /\ closer'[q] = closer[q]
                               /\ closeReq'[q] = closeReq[q]
                               /\ openReq'[q] = openReq[q]
  <2>1. \A q \in Runs \ {r} : End(r) => pc'[q] = pc[q] /\ closer'[q] = closer[q]
    BY DEF End, Goto, Inv, TypeOK
  <2>2. CASE GetInfo(r) \/ Read(r)
    BY <2>1, <2>2 DEF GetInfo, Read, ListChannels, ListPeers, ClosedChannels,
         EstimateTxFee, Goto, lndVars, Inv, TypeOK
  <2>3. CASE Close(r)
    BY <2>1, <2>3 DEF Close, CloseChannels, CloseCall, CloseRefused,
         StreamUpdate, StreamError, CloseWait, AfterClosing, Goto, lndVars,
         Inv, TypeOK, LndTypeOK
  <2>4. CASE OpenBatch(r)
    BY <2>1, <2>4 DEF OpenBatch, OpenChannels, TryPeer, Open, BatchReply, Goto,
         lndVars, Inv, TypeOK, LndTypeOK
  <2>5. CASE Abort(r)
    BY <2>1, <2>5 DEF Abort, Inv, TypeOK, LndTypeOK
  <2> QED
    BY <2>2, <2>3, <2>4, <2>5 DEF RunNext
<1> QED
  BY <1>1, <1>2, <1>3 DEF Counted, Idle

(* A run that returns leaves no request behind.                            *)
LEMMA EndBudget ==
  ASSUME Inv, BudgetInv, Calm, NEW r \in Runs, RunNext(r), End(r),
         closeReq'[r] = {}, openReq'[r] = {}
  PROVE  BudgetInv'
<1>1. pc'[r] = "done"
  BY DEF End, Goto, Inv, TypeOK
<1>2. \A q \in Runs : Idle(q)' /\ closeReq'[q] = {} /\ openReq'[q] = {}
  BY <1>1, RunAlone DEF Idle
<1> QED
  BY <1>2 DEF BudgetInv, Alone, NoLeftovers, Counts, Idle

(* Reading: the count that GetInfo stored stays the count.                 *)
LEMMA ReadBudget ==
  ASSUME Inv, BudgetInv, Calm, NEW r \in Runs, GetInfo(r) \/ Read(r)
  PROVE  BudgetInv'
<1>1. RunNext(r) /\ UNCHANGED lndVars
  BY DEF RunNext, GetInfo, Read, ListChannels, ListPeers, ClosedChannels,
         EstimateTxFee
<1>2. /\ closeReq[r] = {} /\ openReq[r] = {}
      /\ closeReq'[r] = {} /\ openReq'[r] = {}
  BY <1>1 DEF BudgetInv, NoLeftovers, GetInfo, Read, ListChannels, ListPeers,
              ClosedChannels, EstimateTxFee, lndVars
<1>3. CASE End(r)
  BY <1>1, <1>2, <1>3, EndBudget
<1>4. CASE ~End(r)
  <2>1. /\ closer' = closer /\ \A c \in Chans : closer[r][c] = "none"
        /\ pc'[r] \in Reading \union {"open", "close"}
    <3>1. /\ closer' = closer /\ pc[r] \in {"idle"} \union Reading
          /\ pc'[r] \in Reading \union {"open", "close"}
      BY <1>4 DEF GetInfo, Read, ListChannels, ListPeers, ClosedChannels,
           EstimateTxFee, Goto, Inv, TypeOK, Reading
    <3>2. \A c \in Chans : closer[r][c] = "none"
      BY <3>1 DEF Inv, Answered, Reading
    <3> QED
      BY <3>1, <3>2
  <2>2. Asked(r) = {} /\ Asked(r)' = {}
    BY <2>1 DEF Asked
  <2>3. Alone'
    BY <1>1, RunAlone DEF Alone
  <2>4. NoLeftovers'
    BY <1>1, <1>2, RunAlone DEF NoLeftovers
  <2>5. node'[r].num = Cardinality(Counted)
    <3>1. CASE GetInfo(r)
      BY <3>1 DEF GetInfo, Inv, TypeOK, Snapshots
    <3>2. CASE Read(r)
      <4>1. node'[r].num = node[r].num /\ pc[r] \in Reading
        BY <1>4, <3>2 DEF Read, ListChannels, ListPeers, ClosedChannels,
             EstimateTxFee, Inv, TypeOK, Snapshots, Reading
      <4>2. Counted \union Asked(r) = Counted
        BY <2>2
      <4> QED
        BY <4>1, <4>2 DEF BudgetInv, Counts, Idle, Reading
    <3> QED
      BY <3>1, <3>2
  <2>6. Cardinality(Asked(r)') <= MaxClose(r)'
    <3>1. node'[r].num \in Nat
      BY <2>5, CountedType
    <3>2. MaxClose(r)' \in Nat
      BY <3>1, MaxCloseRoom DEF MaxClose
    <3> QED
      BY <2>2, <3>2, FS_EmptySet
  <2>7. pc'[r] \in {"channels", "peers", "closed", "close"} =>
          node'[r].channels \subseteq Counted
    <3>1. CASE ListChannels(r)
      <4>1. node'[r].channels = OpenChans \ Private
        BY <3>1 DEF ListChannels, Inv, TypeOK, Snapshots
      <4> QED
        BY <4>1 DEF OpenChans, Counted
    <3>2. CASE GetInfo(r)
      BY <3>2 DEF GetInfo, Goto, Inv, TypeOK
    <3>3. CASE ListPeers(r) \/ ClosedChannels(r) \/ EstimateTxFee(r)
      BY <1>4, <3>3, ZenonT(30) DEF ListPeers, ClosedChannels, EstimateTxFee, BudgetInv,
                        Counts, Inv, TypeOK, Snapshots
    <3> QED
      BY <3>1, <3>2, <3>3 DEF Read
  <2>8. Counts'
    <3>1. Counted' = Counted /\ \A q \in Runs \ {r} : Idle(q)'
      BY <1>1, RunAlone
    <3>2. Counted' \union Asked(r)' = Counted
      BY <2>2, <3>1
    <3> QED
      BY <2>5, <2>6, <2>7, <3>1, <3>2 DEF Counts, Idle
  <2> QED
    BY <2>3, <2>4, <2>8 DEF BudgetInv
<1> QED
  BY <1>3, <1>4

(* Closing: the requests are those of goroutines that wait on a stream.    *)
LEMMA CloserBudget ==
  ASSUME Inv, BudgetInv, Calm, NEW r \in Runs, NEW c \in Chans,
         \/ CloseCall(r, c) \/ CloseRefused(r, c)
         \/ StreamUpdate(r, c) \/ StreamError(r, c)
  PROVE  BudgetInv'
<1>1. RunNext(r)
  BY DEF RunNext, Close
<1>2. /\ UNCHANGED <<pc, node, batch, openReq>> /\ pc[r] = "closing"
      /\ closer[r][c] # "none" /\ closer'[r][c] # "none"
      /\ \A d \in Chans : d # c => /\ closer'[r][d] = closer[r][d]
                                   /\ d \in closeReq'[r] <=> d \in closeReq[r]
  BY DEF CloseCall, CloseRefused, StreamUpdate, StreamError, Forsaken, lndVars,
         Inv, TypeOK, LndTypeOK
<1>3. c \in closeReq'[r] => closer'[r][c] = "stream"
  <2>1. CASE CloseCall(r, c)
    BY <2>1 DEF CloseCall, Inv, TypeOK
  <2>2. CASE CloseRefused(r, c)
    BY <2>2 DEF CloseRefused, BudgetInv, NoLeftovers, lndVars
  <2>3. CASE StreamUpdate(r, c)
    BY <2>3 DEF StreamUpdate, lndVars
  <2>4. CASE StreamError(r, c)
    BY <2>4 DEF StreamError, Forsaken, Calm, Inv, TypeOK, LndTypeOK
  <2> QED
    BY <2>1, <2>2, <2>3, <2>4
<1>4. Asked(r)' = Asked(r)
  BY <1>2 DEF Asked
<1>5. Alone'
  BY <1>1, RunAlone DEF Alone
<1>6. closeReq'[r] \subseteq Chans
  BY <1>1, CloseType DEF Inv, TypeOK, LndTypeOK, Close
<1>7. NoLeftovers'
  BY <1>1, <1>2, <1>3, <1>6, RunAlone DEF NoLeftovers, BudgetInv
<1>8. Counts'
  <2>1. Counted' = Counted /\ \A q \in Runs \ {r} : Idle(q)'
    BY <1>1, RunAlone
  <2> QED
    BY <1>2, <1>4, <2>1 DEF Counts, BudgetInv, Idle, MaxClose
<1> QED
  BY <1>5, <1>7, <1>8 DEF BudgetInv

(* Choosing the channels to close and waiting for the closures leaves the  *)
(* count of the snapshot right.                                            *)
LEMMA CloseBudget ==
  ASSUME Inv, BudgetInv, Calm, NEW r \in Runs, CloseChannels(r) \/ CloseWait(r)
  PROVE  BudgetInv'
<1>1. RunNext(r) /\ UNCHANGED lndVars
  BY DEF RunNext, Close, CloseChannels, CloseWait
<1>2. closeReq[r] = {} /\ openReq[r] = {}
  BY DEF CloseChannels, CloseWait, BudgetInv, NoLeftovers, Inv, TypeOK, LndTypeOK
<1>3. closeReq'[r] = {} /\ openReq'[r] = {}
  BY <1>1, <1>2 DEF lndVars
<1>4. CASE End(r)
  BY <1>1, <1>3, <1>4, EndBudget
<1>5. CASE ~End(r)
  <2>1. /\ node' = node /\ pc[r] \in {"close", "closing"}
        /\ pc'[r] \in {"closing", "open"}
    BY <1>5 DEF CloseChannels, CloseWait, AfterClosing, Goto, Inv, TypeOK
  <2>2. \/ Asked(r)' = Asked(r)
        \/ /\ pc[r] = "close" /\ Asked(r)' \subseteq node[r].channels
           /\ Cardinality(Asked(r)') <= MaxClose(r)
    <3>1. CASE closer' = closer
      BY <3>1 DEF Asked
    <3>2. CASE closer' # closer
      <4>1. PICK chosen \in SUBSET Closable(r) :
              /\ pc[r] = "close"
              /\ Cardinality(chosen) <= MaxClose(r)
              /\ closer' = [closer EXCEPT ![r] =
                    [c \in Chans |-> IF c \in chosen THEN "start" ELSE "none"]]
        BY <1>5, <3>2 DEF CloseChannels, CloseWait, AfterClosing
      <4>2. chosen \subseteq node[r].channels /\ chosen \subseteq Chans
        BY DEF Closable, CandidateChannels, Inv, TypeOK, Snapshots
      <4>3. Asked(r)' = chosen
        BY <4>1, <4>2 DEF Asked, Inv, TypeOK
      <4> QED
        BY <4>1, <4>2, <4>3
    <3> QED
      BY <3>1, <3>2
  <2>3. pc[r] = "close" => Asked(r) = {}
    BY DEF Inv, Answered, Asked
  <2>4. /\ Counted \union Asked(r)' = Counted \union Asked(r)
        /\ Cardinality(Asked(r)') <= MaxClose(r)
    <3>1. CASE Asked(r)' = Asked(r)
      BY <2>1, <3>1 DEF BudgetInv, Counts, Idle
    <3>2. CASE Asked(r)' # Asked(r)
      <4>1. node[r].channels \subseteq Counted
        BY <2>2, <3>2 DEF BudgetInv, Counts
      <4> QED
        BY <2>2, <2>3, <3>2, <4>1
    <3> QED
      BY <3>1, <3>2
  <2>5. Alone'
    BY <1>1, RunAlone DEF Alone
  <2>6. NoLeftovers'
    BY <1>1, <1>3, RunAlone DEF NoLeftovers
  <2>7. Counts'
    <3>1. Counted' = Counted /\ \A q \in Runs \ {r} : Idle(q)'
      BY <1>1, RunAlone
    <3>2. MaxClose(r)' = MaxClose(r)
      BY <2>1 DEF MaxClose
    <3>3. Cardinality(Counted \union Asked(r)) = node[r].num
      BY <2>1 DEF BudgetInv, Counts, Idle
    <3> QED
      BY <2>1, <2>4, <3>1, <3>2, <3>3 DEF Counts, Idle
  <2> QED
    BY <2>5, <2>6, <2>7 DEF BudgetInv
<1> QED
  BY <1>4, <1>5

(* Opening: the request is the batch, and nothing closes meanwhile.        *)
LEMMA OpenBudget ==
  ASSUME Inv, BudgetInv, Calm, NEW r \in Runs, OpenBatch(r)
  PROVE  BudgetInv'
<1>1. RunNext(r)
  BY DEF RunNext
<1>2. /\ UNCHANGED closeReq /\ closeReq[r] = {}
      /\ pc[r] \in {"open", "connecting", "batch"}
  BY DEF OpenBatch, OpenChannels, TryPeer, Open, BatchReply, lndVars, BudgetInv,
         NoLeftovers
<1>3. CASE End(r)
  <2>1. openReq'[r] = {}
    <3>1. pc'[r] = "done"
      BY <1>3 DEF End, Goto, Inv, TypeOK
    <3>2. openReq'[r] = openReq[r] /\ (pc[r] = "batch" => openReq[r] = {})
      BY <3>1 DEF OpenBatch, OpenChannels, TryPeer, Open, BatchReply, Goto,
           lndVars, Inv, TypeOK
    <3> QED
      BY <1>2, <3>2 DEF BudgetInv, NoLeftovers
  <2> QED
    BY <1>1, <1>2, <1>3, <2>1, EndBudget
<1>4. CASE ~End(r)
  <2>1. /\ UNCHANGED <<node, closer>> /\ pc'[r] \in Opening
        /\ pc[r] # "batch"
        /\ openReq'[r] # {} => pc'[r] = "batch" /\ openReq'[r] = batch'[r]
        /\ pc'[r] = "batch" => openReq'[r] # {}
    <3>1. CASE Open(r)
      BY <1>4, <3>1 DEF Open, Goto, Opening, Inv, TypeOK, LndTypeOK
    <3>2. CASE ~Open(r)
      BY <1>4, <3>2 DEF OpenBatch, OpenChannels, TryPeer, BatchReply, Goto,
           Opening, lndVars, BudgetInv, NoLeftovers, Inv, TypeOK
    <3> QED
      BY <3>1, <3>2
  <2>2. Asked(r)' = Asked(r) /\ MaxClose(r)' = MaxClose(r)
    BY <2>1 DEF Asked, MaxClose
  <2>3. Alone'
    BY <1>1, RunAlone DEF Alone
  <2>4. NoLeftovers'
    BY <1>1, <1>2, <2>1, RunAlone DEF NoLeftovers
  <2>5. Counts'
    <3>1. Counted' = Counted /\ \A q \in Runs \ {r} : Idle(q)'
      BY <1>1, RunAlone
    <3>2. /\ Cardinality(Counted \union Asked(r)) = node[r].num
          /\ Cardinality(Asked(r)) <= MaxClose(r)
      BY <1>2, <2>1 DEF BudgetInv, Counts, Idle
    <3> QED
      BY <2>1, <2>2, <3>1, <3>2 DEF Counts, Idle, Opening
  <2> QED
    BY <2>3, <2>4, <2>5 DEF BudgetInv
<1> QED
  BY <1>3, <1>4

(* Every step of a calm system keeps the invariant about the counts.       *)
LEMMA NextBudget == Calm => (Inv /\ Inv' /\ BudgetInv /\ [Next]_vars => BudgetInv')
<1> SUFFICES ASSUME Calm, Inv, Inv', BudgetInv, [Next]_vars PROVE BudgetInv'
  OBVIOUS
<1>1. CASE UNCHANGED vars
  BY <1>1 DEF vars, lndVars, runVars, BudgetInv, Alone, NoLeftovers, Counts,
              Idle, Asked, MaxClose, Counted
<1>2. CASE LndNext /\ UNCHANGED runVars
  BY <1>2, LndBudget
<1>3. ASSUME NEW r \in Runs, RunNext(r) PROVE BudgetInv'
  <2>1. CASE GetInfo(r) \/ Read(r)
    BY <2>1, ReadBudget
  <2>2. CASE Close(r)
    BY <2>2, CloserBudget, CloseBudget DEF Close
  <2>3. CASE OpenBatch(r)
    BY <2>3, OpenBudget
  <2>4. CASE Abort(r)
    <3>1. End(r) /\ closeReq'[r] = {} /\ openReq'[r] = {}
      BY <2>4 DEF Abort, Forsaken, Calm, Inv, TypeOK, LndTypeOK
    <3> QED
      BY <1>3, <3>1, EndBudget
  <2> QED
    BY <1>3, <2>1, <2>2, <2>3, <2>4 DEF RunNext
<1> QED
  BY <1>1, <1>2, <1>3 DEF Next

(* A step of Agent is a step of ChannelBudget or leaves the number alone.  *)
LEMMA StepBudget ==
  Calm => (Inv /\ Inv' /\ BudgetInv /\ [Next]_vars
             => [Budget!Open \/ Budget!Close]_(Cardinality(Counted)))
<1> SUFFICES ASSUME Calm, Inv, Inv', BudgetInv, [Next]_vars
             PROVE  [Budget!Open \/ Budget!Close]_(Cardinality(Counted))
  OBVIOUS
<1>1. CASE Counted' = Counted
  BY <1>1
<1>2. ASSUME NEW r \in Runs, NEW c \in Chans, CloseBroadcast(r, c)
      PROVE  Budget!Close
  BY <1>2, CloseKeepsBudget DEF Budget!Close
<1>3. ASSUME NEW r \in Runs, BatchCommit(r)
      PROVE  [Budget!Open \/ Budget!Close]_(Cardinality(Counted))
  <2>1. /\ Cardinality(Counted') >= Cardinality(Counted)
        /\ Cardinality(Counted') <= MaxChannels
    BY <1>3, CommitKeepsBudget
  <2>2. Cardinality(Counted) \in Nat
    BY CountedType
  <2>3. Cardinality(Counted') \in Nat
    <3>1. Counted' \in SUBSET Chans
      BY DEF Counted, Chans
    <3> QED
      BY <3>1, FiniteChans
  <2> QED
    BY <2>1, <2>2, <2>3 DEF Budget!Open
<1> QED
  BY <1>1, <1>2, <1>3, CountedSteps DEF Inv

(* Budget!Spec, as a property of every behaviour of Agent: with one run at *)
(* a time and nobody else touching the channels, the number of channels    *)
(* never passes max_channels through an opening nor min_channels through a *)
(* closing, although it is only read once, at the start of the run.        *)
THEOREM ImplementsBudget == ASSUME Calm PROVE Spec => BudgetSpec
<1>1. Init => Budget!Init
  BY CountedType DEF Budget!Init
<1>2. Inv /\ Inv' /\ BudgetInv /\ [Next]_vars => BudgetInv'
  BY NextBudget
<1>3. Inv /\ Inv' /\ BudgetInv /\ [Next]_vars
        => [Budget!Open \/ Budget!Close]_(Cardinality(Counted))
  BY StepBudget
<1> QED
  BY <1>1, <1>2, <1>3, InitBudget, Invariant, PTL DEF Spec, BudgetSpec, Budget!Spec

(* What the run that is alive has counted stays true for as long as it is  *)
(* used.                                                                   *)
THEOREM CountKept == ASSUME Calm PROVE Spec => []BudgetInv
<1>1. Inv /\ Inv' /\ BudgetInv /\ [Next]_vars => BudgetInv'
  BY NextBudget
<1> QED
  BY <1>1, InitBudget, Invariant, PTL DEF Spec

(***************************************************************************)
(* Openings, when channels may also go away by themselves                  *)
(***************************************************************************)
(* Nobody but Hydrus opens channels, one run at a time.                    *)
Closed == Environment \intersect {"gains", "orphans", "overlap"} = {}

(* Only a batch adds to the counted channels.                              *)
LEMMA OnlyBatchesOpen ==
  ASSUME TypeOK, Closed, [Next]_vars
  PROVE  \/ Counted' \subseteq Counted
         \/ \E r \in Runs : BatchCommit(r) /\ UNCHANGED runVars
<1>1. CASE UNCHANGED status
  BY <1>1 DEF Counted
<1>2. CASE UNCHANGED vars \/ \E r \in Runs : RunNext(r)
  <2>1. UNCHANGED status
    BY <1>2, ZenonT(30) DEF vars, lndVars, RunNext, GetInfo, Read, ListChannels, ListPeers,
         ClosedChannels, EstimateTxFee, Close, CloseChannels, CloseCall,
         CloseRefused, StreamUpdate, StreamError, CloseWait, OpenBatch,
         OpenChannels, TryPeer, Open, BatchReply, Abort
  <2> QED
    BY <1>1, <2>1
<1>3. ASSUME NEW c \in Chans, \/ FundingConfirmed(c) \/ ClosureConfirmed(c)
                              \/ FundingCanceled(c) \/ RemoteClose(c)
                              \/ RemoteOpen(c)
      PROVE  Counted' \subseteq Counted
  BY <1>3 DEF FundingConfirmed, ClosureConfirmed, FundingCanceled, RemoteClose,
              RemoteOpen, Counted, TypeOK, LndTypeOK, Closed
<1>4. ASSUME NEW r \in Runs, NEW c \in Chans, CloseBroadcast(r, c)
      PROVE  Counted' \subseteq Counted
  BY <1>4 DEF CloseBroadcast, Counted, TypeOK, LndTypeOK
<1>5. CASE LndNext /\ UNCHANGED runVars
  BY <1>1, <1>3, <1>4, <1>5 DEF LndNext, BatchReject, Flap, Block
<1> QED
  BY <1>2, <1>5 DEF Next

(* Fewer channels, and the others' requests as they were.                  *)
LEMMA FewerCounted ==
  ASSUME Counted' \subseteq Counted
  PROVE  Cardinality(Counted') <= Cardinality(Counted)
BY CountedType, FS_Subset

(* LND: the requests shrink, and while one of them waits to be answered    *)
(* no channel is added.                                                    *)
LEMMA LndRoom ==
  ASSUME Inv, RoomInv, Closed, LndNext, UNCHANGED runVars
  PROVE  RoomInv'
<1>1. Alone'
  BY DEF RoomInv, Alone, Idle, runVars
<1>2. \A r \in Runs : openReq'[r] \in {openReq[r], {}}
  BY DEF LndNext, CloseBroadcast, BatchCommit, BatchReject, FundingConfirmed,
         ClosureConfirmed, FundingCanceled, RemoteClose, RemoteOpen, Flap, Block,
         Inv, TypeOK, LndTypeOK
<1>3. CASE Counted' \subseteq Counted
  <2>1. Cardinality(Counted') <= Cardinality(Counted)
    BY <1>3, FewerCounted
  <2>2. /\ Cardinality(Counted) \in Nat /\ Cardinality(Counted)' \in Nat
        /\ \A r \in Runs : node[r].num \in Nat
    <3>1. Counted' \in SUBSET Chans
      BY DEF Counted, Chans
    <3> QED
      BY <3>1, FiniteChans, CountedType, NodeNumbers DEF Inv
  <2> QED
    BY <1>1, <1>2, <2>1, <2>2 DEF RoomInv, RoomKept, Idle, runVars
<1>4. ASSUME NEW r \in Runs, BatchCommit(r)
      PROVE  RoomInv'
  <2>1. pc[r] = "batch" /\ openReq'[r] = {}
    BY <1>4 DEF BatchCommit, RoomInv, RoomKept, Inv, TypeOK, LndTypeOK
  <2>2. \A q \in Runs : q # r => Idle(q)
    BY <2>1 DEF RoomInv, Alone, Idle
  <2> QED
    BY <1>1, <1>2, <2>1, <2>2 DEF RoomInv, RoomKept, Idle, runVars
<1> QED
  BY <1>3, <1>4, OnlyBatchesOpen DEF Inv, Next

(* A run takes its count while it is the only one, and asks for a batch    *)
(* it then waits for.                                                      *)
LEMMA RunRoom ==
  ASSUME Inv, RoomInv, Closed, NEW r \in Runs, RunNext(r)
  PROVE  RoomInv'
<1>1. \A q \in Runs \ {r} : Idle(q)
  <2>1. CASE GetInfo(r)
    BY <2>1 DEF GetInfo, Closed
  <2>2. CASE ~GetInfo(r)
    <3>1. ~Idle(r)
      BY <2>2 DEF RunNext, Read, ListChannels, ListPeers, ClosedChannels,
           EstimateTxFee, Close, CloseChannels, CloseCall, CloseRefused,
           StreamUpdate, StreamError, CloseWait, OpenBatch, OpenChannels,
           TryPeer, Open, BatchReply, Abort, Idle
    <3> QED
      BY <3>1 DEF RoomInv, Alone
  <2> QED
    BY <2>1, <2>2
<1> DEFINE Kept(q) == pc'[q] = pc[q] /\ node'[q] = node[q] /\ openReq'[q] = openReq[q]
<1>2. End(r) => /\ pc'[r] = "done"
                /\ \A q \in Runs \ {r} : pc'[q] = pc[q] /\ node'[q] = node[q]
  BY DEF End, Goto, Inv, TypeOK
<1>3. status' = status /\ \A q \in Runs \ {r} : Kept(q)
  <2>1. CASE GetInfo(r) \/ Read(r)
    BY <1>2, <2>1 DEF GetInfo, Read, ListChannels, ListPeers, ClosedChannels,
         EstimateTxFee, Goto, lndVars, Inv, TypeOK
  <2>2. CASE Close(r)
    BY <1>2, <2>2 DEF Close, CloseChannels, CloseCall, CloseRefused,
         StreamUpdate, StreamError, CloseWait, AfterClosing, Goto, lndVars,
         Inv, TypeOK
  <2>3. CASE OpenBatch(r)
    BY <1>2, <2>3 DEF OpenBatch, OpenChannels, TryPeer, Open, BatchReply, Goto,
         lndVars, Inv, TypeOK, LndTypeOK
  <2>4. CASE Abort(r)
    BY <1>2, <2>4 DEF Abort, Inv, TypeOK, LndTypeOK
  <2> QED
    BY <2>1, <2>2, <2>3, <2>4 DEF RunNext
<1>4. Counted' = Counted
  BY <1>3 DEF Counted
<1>5. Alone'
  BY <1>1, <1>3 DEF Alone, Idle
<1>6. SUFFICES /\ openReq'[r] # {} => pc'[r] = "batch" /\ openReq'[r] = batch'[r]
               /\ pc'[r] # "done" /\ (pc'[r] = "batch" => openReq'[r] # {}) =>
                     Cardinality(Counted) <= node'[r].num
  <2>1. \A q \in Runs \ {r} : openReq'[q] = {} /\ Idle(q)'
    BY <1>1, <1>3 DEF RoomInv, RoomKept, Idle
  <2> QED
    BY <1>4, <1>5, <2>1 DEF RoomInv, RoomKept, Idle
<1>7. CASE End(r)
  <2>1. openReq'[r] = {}
    <3>1. CASE Abort(r)
      BY <3>1 DEF Abort, Forsaken, Closed, Inv, TypeOK, LndTypeOK
    <3>2. CASE BatchReply(r)
      BY <3>2 DEF BatchReply, lndVars
    <3>3. CASE ~Abort(r) /\ ~BatchReply(r)
      <4>1. openReq'[r] = openReq[r] /\ pc[r] # "batch"
        BY <1>2, <1>7, <3>3
           DEF RunNext, GetInfo, Read, ListChannels, ListPeers, ClosedChannels,
               EstimateTxFee, Close, CloseChannels, CloseCall, CloseRefused,
               StreamUpdate, StreamError, CloseWait, OpenBatch, OpenChannels,
               TryPeer, Open, Goto, lndVars, Inv, TypeOK
      <4> QED
        BY <4>1 DEF RoomInv, RoomKept
    <3> QED
      BY <3>1, <3>2, <3>3
  <2> QED
    BY <1>2, <1>7, <2>1
<1>8. CASE ~End(r) /\ GetInfo(r)
  <2>1. openReq'[r] = {}
    BY <1>8 DEF GetInfo, lndVars, RoomInv, RoomKept
  <2>2. node'[r].num = Cardinality(Counted)
    BY <1>8 DEF GetInfo, Inv, TypeOK, Snapshots
  <2> QED
    BY <2>1, <2>2, CountedType
<1>9. CASE ~End(r) /\ Open(r)
  <2>1. /\ openReq'[r] = batch[r] /\ batch' = batch /\ node' = node
        /\ pc[r] = "connecting" /\ pc'[r] = "batch"
    BY <1>9 DEF Open, Goto, Inv, TypeOK, LndTypeOK
  <2> QED
    BY <2>1 DEF RoomInv, RoomKept, Idle
<1>10. CASE ~End(r) /\ ~GetInfo(r) /\ ~Open(r)
  <2>1. /\ openReq'[r] = openReq[r] /\ ~Idle(r) /\ pc[r] # "batch" /\ pc'[r] # "batch"
        /\ node'[r].num = node[r].num
    <3>1. CASE Read(r)
      <4>1. /\ openReq'[r] = openReq[r] /\ pc[r] \in Reading
            /\ pc'[r] \in Reading \union {"open", "close"}
        BY <1>10, <3>1 DEF Read, ListChannels, ListPeers, ClosedChannels,
             EstimateTxFee, Goto, lndVars, Inv, TypeOK, Reading
      <4>2. node'[r].num = node[r].num
        BY <1>10, <3>1, ZenonT(30) DEF Read, ListChannels, ListPeers, ClosedChannels,
             EstimateTxFee, Inv, TypeOK, Snapshots
      <4> QED
        BY <4>1, <4>2 DEF Idle, Reading
    <3>2. CASE Close(r)
      BY <1>10, <3>2 DEF Close, CloseChannels, CloseCall, CloseRefused,
           StreamUpdate, StreamError, CloseWait, AfterClosing, Goto, lndVars,
           Idle, Inv, TypeOK
    <3>3. CASE OpenBatch(r) \/ Abort(r)
      BY <1>10, <3>3 DEF OpenBatch, OpenChannels, TryPeer, BatchReply, Abort,
           Goto, lndVars, Idle, Inv, TypeOK
    <3> QED
      BY <1>10, <3>1, <3>2, <3>3 DEF RunNext
  <2> QED
    BY <2>1 DEF RoomInv, RoomKept
<1> QED
  BY <1>6, <1>7, <1>8, <1>9, <1>10

LEMMA NextRoom ==
  ASSUME Inv, RoomInv, Closed, [Next]_vars
  PROVE  RoomInv'
<1>1. CASE UNCHANGED vars
  BY <1>1 DEF vars, lndVars, runVars, RoomInv, RoomKept, Alone, Idle, Counted
<1> QED
  BY <1>1, LndRoom, RunRoom DEF Next

(* Whatever channels go away while a run decides, and however connections  *)
(* come and go, no step that adds channels passes max_channels: the count  *)
(* is read once, before the run closes channels and opens others, and is   *)
(* never below the number of channels when LND opens the batch.            *)
THEOREM OpensKeepMax == ASSUME Closed PROVE Spec => OpensStayBelowMax
<1>1. Init => RoomInv
  BY DEF Init, LndInit, RoomInv, RoomKept, Alone, Idle
<1>2. Inv /\ RoomInv /\ [Next]_vars => RoomInv'
  BY NextRoom
<1>3. Inv /\ RoomInv /\ [Next]_vars =>
        [Cardinality(Counted') > Cardinality(Counted)
           => Cardinality(Counted') <= MaxChannels]_vars
  <2> SUFFICES ASSUME Inv, RoomInv, [Next]_vars,
                      Cardinality(Counted') > Cardinality(Counted)
               PROVE  Cardinality(Counted') <= MaxChannels
    OBVIOUS
  <2>1. CASE Counted' \subseteq Counted
    <3>1. Cardinality(Counted) \in Nat /\ Cardinality(Counted') \in Nat
      <4>1. Counted \in SUBSET Chans /\ Counted' \in SUBSET Chans
        BY <2>1 DEF Counted
      <4> QED
        BY <4>1, FiniteChans
    <3> QED
      BY <2>1, <3>1, FewerCounted
  <2>2. ASSUME NEW r \in Runs, BatchCommit(r)
        PROVE  Cardinality(Counted') <= MaxChannels
    <3>1. /\ pc[r] = "batch" /\ openReq[r] = batch[r]
          /\ Cardinality(Counted) <= node[r].num
      BY <2>2 DEF BatchCommit, RoomInv, RoomKept, Idle
    <3> QED
      BY <2>2, <3>1, CommitFits
  <2> QED
    BY <2>1, <2>2, OnlyBatchesOpen DEF Inv
<1> QED
  BY <1>1, <1>2, <1>3, Invariant, PTL DEF Spec, OpensStayBelowMax
=============================================================================
