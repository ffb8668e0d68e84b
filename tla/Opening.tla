------------------------------- MODULE Opening -------------------------------
(***************************************************************************)
(* Which nodes a run opens channels to, and why: the network graph is read *)
(* (graph.New), unusable edges and small nodes are left out, the rest is   *)
(* measured and scored, and the best nodes that LND is or can be connected *)
(* with are selected.  Agent.tla allows any graph and any ranking and has  *)
(* discardNode and what becomes of the batch.                              *)
(***************************************************************************)
EXTENDS Config, Paths

CONSTANTS
    Edges,      \* what DescribeGraph may list as its first edge, its second...
    Addresses,  \* sets of addresses that a node may have announced
    Onions,     \* those addresses that are .onion
    Features,   \* numbers of features that a node may have
    Weights,    \* heuristic_weights.open
    Discarded,  \* what discardNode discards, our own node among them
    SyncPeers,  \* peers in the snapshot
    MaxOpen     \* MaxOpenChannels of the snapshot, at least one

(* A public key is the index of its node, or N for one that is missing in  *)
(* the list of nodes.                                                      *)
Keys == 0 .. N

(* lnrpc.RoutingPolicy, which one side of an edge may not have announced,  *)
(* and lnrpc.ChannelEdge.                                                  *)
RoutingPolicies ==
    [known : BOOLEAN, disabled : BOOLEAN, BaseFee : Nat, FeeRate : Nat,
     InboundBaseFee : Int, InboundFeeRate : Int, MinHTLC : Nat, MaxHTLC : Nat]

ChannelEdges ==
    [node1 : Keys, node2 : Keys, capacity : Nat, height : Nat,
     policy1 : RoutingPolicies, policy2 : RoutingPolicies]

(* Our own node is always in LND's graph.                                  *)
ASSUME OpeningAssumption ==
    /\ Edges \in Seq(SUBSET ChannelEdges)
    /\ Features \subseteq Nat
    /\ Weights \in [OpenNames -> 0 .. One]
    /\ Discarded \subseteq Nodes /\ SyncPeers \subseteq Nodes
    /\ MaxOpen \in Nat \ {0}

VARIABLES
    stage,      \* what is done next
    edges,      \* edges that have been read
    channels,   \* usable channels of each node
    next,       \* index of the next node
    addresses,  \* of the nodes that have been looked at
    features,
    nodes,      \* Graph.Nodes: those that were not discarded
    adjList,    \* adjacency list
    value,      \* graph.Node: what is measured of the nodes
    heur,       \* graph.Heuristics
    score,      \* of the candidates
    rest,       \* candidates not looked at yet
    dialing,    \* the one being connected with, if any
    untried,    \* its addresses that have not been tried
    refused,    \* failed attempts, as <<node, address>>
    reached,    \* nodes LND has been connected with
    batch       \* selected nodes

NodeNames == {"Capacity", "Features", "Hybrid",
              "Degree", "Betweenness", "Eigenvector", "Closeness"}

ChannelNames == OpenNames \ NodeNames

describeVars == <<edges, channels>>
filterVars == <<next, addresses, features, nodes, adjList>>
dialVars == <<rest, dialing, untried, refused, reached, batch>>
measureVars == <<value, heur, score>>
vars == <<stage, describeVars, filterVars, measureVars, dialVars>>

(* The dearest channels that are used, in msat and in ppm.                 *)
MaxBaseFee == 50000
MaxFeeRate == 5000

Channels ==
    [PeerPublicKey : Keys, Capacity : Nat, ChannelHeight : Nat,
     BaseFee : 0 .. MaxBaseFee, FeeRate : 0 .. MaxFeeRate,
     InboundBaseFee : Int, InboundFeeRate : Int, MinHTLC : Nat, MaxHTLC : Nat]

(* Types.  A channel without a policy, or a dear one, never gets into the  *)
(* graph (discardChannel).                                                 *)
TypeOK ==
    /\ stage \in {"edges", "failed", "nodes", "measure", "rank", "select", "over"}
    /\ Len(edges) <= Len(Edges)
    /\ channels \in [Keys -> Seq(Channels)]
    /\ next \in 0 .. N
    /\ nodes \subseteq Nodes
    /\ adjList \in [Nodes -> Seq(Nodes)]
    /\ value \in [Nodes -> [NodeNames -> Nat]]
    /\ heur \in [OpenNames -> Heuristics]
    /\ score \in [Nodes -> Nat]
    /\ rest \subseteq nodes /\ batch \subseteq nodes /\ dialing \subseteq nodes
    /\ Cardinality(dialing) <= 1
    /\ reached \subseteq nodes

(* Lower is better for what a channel costs and for its age.               *)
NewHeuristics(w) ==
    [name \in OpenNames |->
        IF name = "Hybrid" THEN NewFull(0, 1, w[name], FALSE)
        ELSE New(w[name], name \in ChannelNames \ {"MaxHTLC"})]

Init ==
    /\ stage = "edges"
    /\ edges = << >>
    /\ channels = [key \in Keys |-> << >>]
    /\ next = 0
    /\ addresses = [n \in Nodes |-> {}]
    /\ features = [n \in Nodes |-> 0]
    /\ nodes = {}
    /\ adjList = [n \in Nodes |-> << >>]
    /\ value = [n \in Nodes |-> [name \in NodeNames |-> 0]]
    /\ heur = NewHeuristics(Weights)
    /\ score = [n \in Nodes |-> 0]
    /\ rest = {} /\ dialing = {} /\ untried = {} /\ refused = {}
    /\ reached = {} /\ batch = {}

(***************************************************************************)
(* graph.New                                                               *)
(***************************************************************************)
(* Mutant: a high fee rate is not looked at.                               *)
DiscardChannelCheap(policy) ==
    ~policy.known \/ policy.disabled \/ policy.BaseFee > MaxBaseFee

DiscardChannel(policy) ==
    \/ ~policy.known
    \/ policy.disabled
    \/ policy.FeeRate > MaxFeeRate
    \/ policy.BaseFee > MaxBaseFee

(* getNode1Channel, getNode2Channel                                        *)
ChannelOf(edge, policy, peer) ==
    [PeerPublicKey |-> peer, Capacity |-> edge.capacity,
     ChannelHeight |-> edge.height,
     BaseFee |-> policy.BaseFee, FeeRate |-> policy.FeeRate,
     InboundBaseFee |-> policy.InboundBaseFee,
     InboundFeeRate |-> policy.InboundFeeRate,
     MinHTLC |-> policy.MinHTLC, MaxHTLC |-> policy.MaxHTLC]

Usable(edge, key) ==
    LET from1 == IF edge.node1 = key /\ ~DiscardChannel(edge.policy1)
                 THEN <<ChannelOf(edge, edge.policy1, edge.node2)>> ELSE << >>
        from2 == IF edge.node2 = key /\ ~DiscardChannel(edge.policy2)
                 THEN <<ChannelOf(edge, edge.policy2, edge.node1)>> ELSE << >>
    IN  from1 \o from2

AddEdge ==
    /\ stage = "edges"
    /\ Len(edges) < Len(Edges)
    /\ \E edge \in Edges[Len(edges) + 1] :
          /\ edges' = Append(edges, edge)
          /\ channels' = [key \in Keys |-> channels[key] \o Usable(edge, key)]
    /\ UNCHANGED <<stage, filterVars, measureVars, dialVars>>

Skipped == {i \in DOMAIN edges : ~edges[i].policy1.known /\ ~edges[i].policy2.known}

(* More than half of the graph must be known.                              *)
EdgesRead ==
    /\ stage = "edges"
    /\ stage' = IF Cardinality(Skipped) > Len(edges) \div 2 THEN "failed" ELSE "nodes"
    /\ UNCHANGED <<describeVars, filterVars, measureVars, dialVars>>

TotalCapacity == SumFunction([i \in DOMAIN edges |-> edges[i].capacity])

CapacityOf(key) ==
    SumFunction([i \in DOMAIN channels[key] |-> channels[key][i].Capacity])

AvgNodeSize == TotalCapacity \div N
AvgNumChannels == Len(edges) \div N

(* Mutant: nodes without an address are kept.                              *)
SmallAddressed(n, addrs) ==
    \/ CapacityOf(n) < AvgNodeSize
    \/ Len(channels[n]) < AvgNumChannels

(* Mutant: the capacity is not compared.                                   *)
SmallByChannels(n, addrs) ==
    \/ addrs = {}
    \/ Len(channels[n]) < AvgNumChannels

(* Nodes that would not be ranked at the top.                              *)
Small(n, addrs) ==
    \/ addrs = {}
    \/ CapacityOf(n) < AvgNodeSize
    \/ Len(channels[n]) < AvgNumChannels

(* A node that is missing has the index zero of a Go map.                  *)
IndexOf(key) == IF key \in Nodes THEN key ELSE 0

(* One turn of the loop over graph.Nodes, with the node's part of          *)
(* newAdjacencyList.                                                       *)
AddNode ==
    /\ stage = "nodes"
    /\ \E addrs \in Addresses, count \in Features :
          IF Small(next, addrs)
          THEN UNCHANGED <<addresses, features, nodes, adjList>>
          ELSE /\ addresses' = [addresses EXCEPT ![next] = addrs]
               /\ features' = [features EXCEPT ![next] = count]
               /\ nodes' = nodes \union {next}
               /\ adjList' = [adjList EXCEPT ![next] =
                     [i \in DOMAIN channels[next] |->
                        IndexOf(channels[next][i].PeerPublicKey)]]
    /\ IF next = N - 1
       THEN stage' = "measure" /\ next' = 0
       ELSE next' = next + 1 /\ UNCHANGED stage
    /\ UNCHANGED <<describeVars, measureVars, dialVars>>

(* What Centrality.tla checks of getCentrality.                            *)
SumDistances(n) ==
    LET d == [t \in Nodes |-> Distance(adjList, n, t)]
    IN  SumFunction([t \in {t \in Nodes : \A u \in 0 .. t : d[u] # -1} |-> d[t]])

Closeness(n) ==
    IF SumDistances(n) = 0 THEN 0
    ELSE (Scale * (Cardinality(nodes) - 1)) \div SumDistances(n)

(* isHybrid                                                                *)
Hybrid(n) ==
    IF addresses[n] \intersect Onions # {} /\ addresses[n] \ Onions # {} THEN 1 ELSE 0

(* graph.Node; a degree out of no edges is not a number.                   *)
Measured(n) ==
    [Capacity |-> CapacityOf(n), Features |-> features[n], Hybrid |-> Hybrid(n),
     Degree |-> IF edges = << >> THEN 0 ELSE (Scale * Len(channels[n])) \div Len(edges),
     Betweenness |-> Betweenness(adjList, n),
     Eigenvector |-> Cardinality(Walks(adjList, n)[4]),
     Closeness |-> Closeness(n)]

(* Mutant: only the first channel of the node is looked at.                *)
UpdatedByFirst(n, v) ==
    [name \in OpenNames |->
        IF name = "Hybrid" \/ (name \notin NodeNames /\ channels[n] = << >>)
        THEN heur[name]
        ELSE Update(heur[name], IF name \in NodeNames THEN v[name]
                                ELSE channels[n][1][name])]

(* Heuristics.Update                                                       *)
Updated(n, v) ==
    [name \in OpenNames |->
        IF name = "Hybrid" THEN heur[name]
        ELSE IF name \in NodeNames THEN Update(heur[name], v[name])
        ELSE FoldFunction(LAMBDA channel, h : Update(h, channel[name]),
                          heur[name], channels[n])]

(* One turn of the last loop of New.                                       *)
AddCentrality ==
    /\ stage = "measure"
    /\ IF next \in nodes
       THEN LET v == Measured(next)
            IN  value' = [value EXCEPT ![next] = v] /\ heur' = Updated(next, v)
       ELSE UNCHANGED <<value, heur>>
    /\ IF next = N - 1
       THEN stage' = (IF nodes = {} THEN "over" ELSE "rank") /\ next' = 0
       ELSE next' = next + 1 /\ UNCHANGED stage
    /\ UNCHANGED <<describeVars, addresses, features, nodes, adjList, score, dialVars>>

(***************************************************************************)
(* getCandidateNodes, selectNodes and ConnectPeer                          *)
(***************************************************************************)
ChannelScore(channel) ==
    SumFunction([name \in ChannelNames |-> GetScore(heur[name], channel[name])])

(* The mean of no channels is not a number, nor is any sum with it.        *)
Defined(n) == channels[n] # << >>

Score(n) ==
    LET own == SumFunction([name \in NodeNames |-> GetScore(heur[name], value[n][name])])
        theirs == SumFunction([i \in DOMAIN channels[n] |-> ChannelScore(channels[n][i])])
    IN  Rounded(own + (theirs \div Len(channels[n])))

Rank ==
    /\ stage = "rank"
    /\ stage' = "select"
    /\ rest' = nodes \ Discarded
    /\ score' = [n \in Nodes |->
                   IF n \in rest' /\ Defined(n) THEN Score(n) ELSE 0]
    /\ UNCHANGED <<describeVars, filterVars, value, heur,
                   dialing, untried, refused, reached, batch>>

Ranked == \A n \in nodes \ Discarded : Defined(n)

(* The next one in the ranking; equal scores are in any order, and all of  *)
(* them are when one is not a number.                                      *)
First(n) ==
    /\ n \in rest
    /\ Ranked => \A m \in rest : score[n] >= score[m]

(* One turn of the loop of selectNodes.  ConnectPeer without an address    *)
(* tries nothing and returns no error.                                     *)
TryCandidate(n) ==
    /\ stage = "select"
    /\ dialing = {} /\ Cardinality(batch) < MaxOpen
    /\ First(n)
    /\ rest' = rest \ {n}
    /\ IF n \in SyncPeers \/ addresses[n] = {}
       THEN batch' = batch \union {n} /\ UNCHANGED <<dialing, untried>>
       ELSE dialing' = {n} /\ untried' = addresses[n] /\ UNCHANGED batch
    /\ UNCHANGED <<stage, describeVars, filterVars, measureVars, refused, reached>>

(* Mutant: the first error is returned.                                    *)
RefusedOnce(n, a) ==
    /\ dialing = {n} /\ a \in untried
    /\ refused' = refused \union {<<n, a>>}
    /\ untried' = {} /\ dialing' = {}
    /\ UNCHANGED <<stage, describeVars, filterVars, measureVars, rest, reached, batch>>

(* LND has connected to an address within the time limit.                  *)
Connected(n, a) ==
    /\ dialing = {n} /\ a \in untried
    /\ reached' = reached \union {n}
    /\ batch' = batch \union {n}
    /\ dialing' = {} /\ untried' = {}
    /\ UNCHANGED <<stage, describeVars, filterVars, measureVars, rest, refused>>

(* An error or the time limit: the next address is tried.  The last error  *)
(* is returned.                                                            *)
Refused(n, a) ==
    /\ dialing = {n} /\ a \in untried
    /\ refused' = refused \union {<<n, a>>}
    /\ untried' = untried \ {a}
    /\ dialing' = IF untried = {a} THEN {} ELSE dialing
    /\ UNCHANGED <<stage, describeVars, filterVars, measureVars, rest, reached, batch>>

Selected ==
    /\ stage = "select"
    /\ dialing = {}
    /\ Cardinality(batch) = MaxOpen \/ rest = {}
    /\ stage' = "over"
    /\ UNCHANGED <<describeVars, filterVars, measureVars, dialVars>>

ConnectPeer(n) == \E a \in UNION Addresses : Connected(n, a) \/ Refused(n, a)

Next ==
    \/ AddEdge \/ EdgesRead \/ AddNode \/ AddCentrality \/ Rank \/ Selected
    \/ \E n \in Nodes : TryCandidate(n) \/ ConnectPeer(n)

Spec == Init /\ [][Next]_vars

(***************************************************************************)
(* Properties                                                              *)
(***************************************************************************)
(* As long as the network has at least one satoshi per node, the averages  *)
(* that are rounded down still keep out every node without a usable        *)
(* channel: all scores are numbers and the ranking is one (graph.New,      *)
(* Heuristics.GetScore).                                                   *)
ScoresDefined ==
    stage = "select" /\ TotalCapacity >= N => \A n \in nodes : Defined(n)

(* No heuristic adds less than zero or more than its weight, for nodes and *)
(* for their channels, inbound discounts included (Heuristics.Update).     *)
ScoresInRange ==
    stage = "select" => \A n \in nodes :
        /\ \A name \in NodeNames :
              GetScore(heur[name], value[n][name]) \in 0 .. Weights[name]
        /\ \A i \in DOMAIN channels[n], name \in ChannelNames :
              GetScore(heur[name], channels[n][i][name]) \in 0 .. Weights[name]

(* Every node of a batch was a peer in the snapshot or LND has been        *)
(* connected with it since: a call that tries nothing reports no error, and *)
(* only the filter of the graph prevents it (client.ConnectPeer).          *)
BatchConnected == batch \subseteq SyncPeers \union reached

(* A candidate that does not score lower than a node of the batch is in it *)
(* too, unless it could not be connected with at any of its addresses      *)
(* (selectNodes, ConnectPeer).                                             *)
BestOpened ==
    stage = "over" /\ Ranked =>
        \A n \in batch, m \in nodes \ (Discarded \union batch) :
            \/ score[n] >= score[m]
            \/ m \notin SyncPeers /\ {m} \X addresses[m] \subseteq refused

(***************************************************************************)
(* OpeningProofs: the parts are inductive together, and the two properties *)
(* about batches follow from them.                                         *)
(***************************************************************************)
(* Every node that is kept has an address, until ConnectPeer is called.    *)
Addressed ==
    /\ next \in Nodes /\ nodes \subseteq Nodes
    /\ addresses \in [Nodes -> SUBSET UNION Addresses]
    /\ \A n \in nodes : addresses[n] # {}

(* What has been selected, tried or is being tried comes before the rest.  *)
TriedFirst ==
    /\ rest \subseteq nodes /\ dialing \subseteq nodes
    /\ stage # "select" => dialing = {}
    /\ stage \notin {"select", "over"} => batch = {}
    /\ stage = "select" =>
          /\ Ranked => \A n \in batch \union dialing, m \in rest : score[n] >= score[m]
          /\ \A m \in nodes \ (Discarded \union rest \union batch) :
                /\ m \notin SyncPeers
                /\ {m} \X (addresses[m] \ untried) \subseteq refused
                /\ m \notin dialing => {m} \X addresses[m] \subseteq refused

Inv == Addressed /\ TriedFirst /\ BatchConnected /\ BestOpened

(***************************************************************************)
(* OpeningProofs: the scores follow from what the ranges cover.            *)
(***************************************************************************)
(* No node is kept that has less than the average.                         *)
Large ==
    /\ edges \in Seq(ChannelEdges)
    /\ stage = "edges" => nodes = {}
    /\ \A n \in nodes : CapacityOf(n) >= AvgNodeSize

(* The loop over the nodes has come past them.                             *)
Passed ==
    IF stage = "measure" THEN {n \in nodes : n < next}
    ELSE IF stage \in {"rank", "select", "over"} THEN nodes
    ELSE {}

(* The ranges cover every value that has been measured, and the weights    *)
(* are those of the configuration.                                         *)
Covered ==
    /\ features \in [Nodes -> Nat]
    /\ heur["Hybrid"] = NewFull(0, 1, Weights["Hybrid"], FALSE)
    /\ \A name \in OpenNames : heur[name].weight = Weights[name]
    /\ \A n \in Passed :
          /\ \A name \in NodeNames :
                heur[name].weight = 0 \/ Seen(heur[name], value[n][name])
          /\ \A i \in DOMAIN channels[n], name \in ChannelNames :
                heur[name].weight = 0 \/ Seen(heur[name], channels[n][i][name])
=============================================================================
