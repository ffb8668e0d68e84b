---------------------------- MODULE OpeningProofs ----------------------------
(***************************************************************************)
(* Theorems of Opening: which nodes are in a batch, for any graph, any     *)
(* scores and any attempt to connect that fails.                           *)
(***************************************************************************)
EXTENDS Opening, MeasureProofs

LEMMA InitInv == Init => Inv
<1> SUFFICES ASSUME Init PROVE Inv
  OBVIOUS
<1>1. 0 \in Nodes
  BY NodesFinite
<1> QED
  BY <1>1 DEF Init, Inv, Addressed, TriedFirst, BatchConnected, BestOpened

(* Until the candidates are ranked there is no batch.                      *)
LEMMA ReadInv ==
  ASSUME Inv, AddEdge \/ EdgesRead \/ AddCentrality PROVE Inv'
<1> USE DEF Inv, Addressed, TriedFirst, BatchConnected, BestOpened
<1>1. CASE AddEdge \/ EdgesRead
  BY <1>1 DEF AddEdge, EdgesRead, filterVars, dialVars
<1>2. CASE AddCentrality
  <2>1. next' \in Nodes
    BY <1>2, PathsAssumption DEF AddCentrality, Nodes
  <2>2. stage = "measure" /\ stage' \in {"measure", "rank", "over"}
        /\ UNCHANGED <<nodes, addresses, dialVars>>
    BY <1>2 DEF AddCentrality
  <2> QED
    BY <2>1, <2>2 DEF dialVars
<1> QED
  BY <1>1, <1>2

(* The filter keeps no node without an address (graph.New).                *)
LEMMA AddNodeInv == ASSUME Inv, AddNode PROVE Inv'
<1> USE DEF Inv, Addressed, TriedFirst, BatchConnected, BestOpened
<1>1. next' \in Nodes
  BY PathsAssumption DEF AddNode, Nodes
<1>2. /\ nodes' \subseteq Nodes /\ nodes \subseteq nodes'
      /\ addresses' \in [Nodes -> SUBSET UNION Addresses]
      /\ \A n \in nodes' : addresses'[n] # {}
  <2> PICK addrs \in Addresses, count \in Features :
         IF Small(next, addrs)
         THEN UNCHANGED <<addresses, nodes>>
         ELSE /\ addresses' = [addresses EXCEPT ![next] = addrs]
              /\ nodes' = nodes \union {next}
    BY DEF AddNode
  <2>1. CASE Small(next, addrs)
    BY <2>1
  <2>2. CASE ~Small(next, addrs)
    <3>1. addrs # {}
      BY <2>2 DEF Small
    <3> QED
      BY <2>2, <3>1
  <2> QED
    BY <2>1, <2>2
<1>3. stage' \in {"nodes", "measure"} /\ stage = "nodes" /\ UNCHANGED dialVars
  BY DEF AddNode
<1> QED
  BY <1>1, <1>2, <1>3 DEF dialVars

LEMMA RankInv == ASSUME Inv, Rank PROVE Inv'
  BY DEF Inv, Addressed, TriedFirst, BatchConnected, BestOpened, Rank,
         filterVars

(* The graph and the scores are not touched any more.                      *)
LEMMA SelectInv ==
  ASSUME Inv, \/ \E n \in Nodes : TryCandidate(n) \/ ConnectPeer(n)
              \/ Selected
  PROVE  Inv'
<1> USE DEF Inv, Addressed, TriedFirst, BatchConnected, BestOpened
<1>1. ASSUME NEW n \in Nodes, TryCandidate(n) PROVE Inv'
  <2>1. /\ stage = "select" /\ dialing = {} /\ n \in rest /\ rest' = rest \ {n}
        /\ Ranked => \A m \in rest : score[n] >= score[m]
        /\ UNCHANGED <<stage, channels, next, nodes, addresses, score,
                       refused, reached>>
    BY <1>1 DEF TryCandidate, First, describeVars, filterVars, measureVars
  <2>2. Ranked' <=> Ranked
    BY <2>1 DEF Ranked, Defined
  <2>3. CASE n \in SyncPeers \/ addresses[n] = {}
    <3>1. batch' = batch \union {n} /\ UNCHANGED <<dialing, untried>>
      BY <1>1, <2>3 DEF TryCandidate
    <3>2. n \in SyncPeers
      BY <2>1, <2>3
    <3> QED
      BY <2>1, <2>2, <3>1, <3>2
  <2>4. CASE ~(n \in SyncPeers \/ addresses[n] = {})
    <3>1. dialing' = {n} /\ untried' = addresses[n] /\ UNCHANGED batch
      BY <1>1, <2>4 DEF TryCandidate
    <3> QED
      BY <2>1, <2>2, <2>4, <3>1
  <2> QED
    BY <2>3, <2>4
<1>2. ASSUME NEW n \in Nodes, NEW a, Connected(n, a) \/ Refused(n, a) PROVE Inv'
  <2>1. /\ dialing = {n}
        /\ UNCHANGED <<stage, channels, next, nodes, addresses, score, rest>>
    BY <1>2 DEF Connected, Refused, describeVars, filterVars, measureVars
  <2>2. (Ranked' <=> Ranked) /\ stage = "select" /\ n \in nodes
    BY <2>1 DEF Ranked, Defined
  <2>3. CASE Connected(n, a)
    <3>1. /\ reached' = reached \union {n} /\ batch' = batch \union {n}
          /\ dialing' = {} /\ untried' = {} /\ UNCHANGED refused
      BY <2>3 DEF Connected
    <3> QED
      BY <2>1, <2>2, <3>1
  <2>4. CASE Refused(n, a)
    <3>1. /\ refused' = refused \union {<<n, a>>} /\ untried' = untried \ {a}
          /\ dialing' = IF untried = {a} THEN {} ELSE dialing
          /\ UNCHANGED <<batch, reached>>
      BY <2>4 DEF Refused
    <3>2. n \notin Discarded \union rest \union batch =>
             {n} \X (addresses[n] \ untried') \subseteq refused'
      BY <2>1, <2>2, <3>1
    <3>3. n \notin Discarded \union rest \union batch \union dialing' =>
             {n} \X addresses[n] \subseteq refused'
      BY <2>1, <3>1, <3>2
    <3>4. \A m \in nodes \ (Discarded \union rest \union batch) :
             m # n => /\ m \notin SyncPeers
                      /\ {m} \X addresses[m] \subseteq refused
      BY <2>1, <2>2
    <3> QED
      BY <2>1, <2>2, <3>1, <3>2, <3>3, <3>4
  <2> QED
    BY <1>2, <2>3, <2>4
<1>3. CASE Selected
  BY <1>3 DEF Selected, Ranked, Defined, describeVars, filterVars, measureVars,
              dialVars
<1> QED
  BY <1>1, <1>2, <1>3 DEF ConnectPeer

(* A step of the run keeps the invariant.                                  *)
LEMMA NextInv == ASSUME Inv, [Next]_vars PROVE Inv'
<1>1. CASE UNCHANGED vars
  BY <1>1 DEF vars, describeVars, filterVars, measureVars, dialVars, Inv,
     Addressed, TriedFirst, BatchConnected, BestOpened, Ranked, Defined
<1> QED
  BY <1>1, ReadInv, AddNodeInv, RankInv, SelectInv DEF Next

THEOREM Invariant == Spec => []Inv
<1> QED
  BY InitInv, NextInv, PTL DEF Spec

(* LND has been connected with every node of a batch, although ConnectPeer *)
(* reports no error for a node without addresses, for any graph.           *)
THEOREM BatchIsConnected == Spec => []BatchConnected
<1>1. Inv => BatchConnected
  BY DEF Inv
<1> QED
  BY <1>1, Invariant, PTL

(* The best candidates are taken first, and one is only passed over when   *)
(* each of its addresses has been refused, for any scores.                 *)
THEOREM BestAreOpened == Spec => []BestOpened
<1>1. Inv => BestOpened
  BY DEF Inv
<1> QED
  BY <1>1, Invariant, PTL

(***************************************************************************)
(* Types: what is read and measured                                        *)
(***************************************************************************)
LEMMA NamesFinite ==
  IsFiniteSet(OpenNames) /\ IsFiniteSet(NodeNames) /\ IsFiniteSet(ChannelNames)
<1> DEFINE names == <<"Capacity", "Features", "Hybrid", "Degree", "Betweenness",
                      "Eigenvector", "Closeness", "BaseFee", "FeeRate",
                      "InboundBaseFee", "InboundFeeRate", "MinHTLC", "MaxHTLC",
                      "ChannelHeight">>
<1>1. OpenNames = {names[i] : i \in 1 .. 14}
  <2>1. \A name \in OpenNames : \E i \in 1 .. 14 : name = names[i]
    BY DEF OpenNames
  <2>2. \A i \in 1 .. 14 : names[i] \in OpenNames
    BY DEF OpenNames
  <2> HIDE DEF names
  <2> QED
    BY <2>1, <2>2
<1> HIDE DEF names
<1>2. IsFiniteSet(OpenNames)
  <2>1. IsFiniteSet(1 .. 14)
    <3>1. 14 \in Nat
      OBVIOUS
    <3> QED
      BY <3>1, IntervalFinite
  <2>2. IsFiniteSet({names[i] : i \in 1 .. 14})
    BY <2>1, ImageFinite
  <2> QED
    BY <1>1, <2>2
<1>3. NodeNames \in SUBSET OpenNames /\ ChannelNames \in SUBSET OpenNames
  BY DEF NodeNames, OpenNames, ChannelNames
<1> QED
  BY <1>2, <1>3, FS_Subset

LEMMA MaximaType == MaxBaseFee \in Nat /\ MaxFeeRate \in Nat
  BY DEF MaxBaseFee, MaxFeeRate

(* A policy that is not discarded becomes a channel (discardChannel).      *)
LEMMA UsableType ==
  ASSUME NEW edge \in ChannelEdges, NEW key \in Keys
  PROVE  Usable(edge, key) \in Seq(Channels)
<1>1. /\ edge.node1 \in Keys /\ edge.node2 \in Keys
      /\ edge.policy1 \in RoutingPolicies /\ edge.policy2 \in RoutingPolicies
  BY DEF ChannelEdges
<1>2. ASSUME NEW policy \in RoutingPolicies, ~DiscardChannel(policy),
             NEW peer \in Keys
      PROVE  ChannelOf(edge, policy, peer) \in Channels
  <2>1. /\ policy.BaseFee \in Nat /\ policy.FeeRate \in Nat
        /\ policy.InboundBaseFee \in Int /\ policy.InboundFeeRate \in Int
        /\ policy.MinHTLC \in Nat /\ policy.MaxHTLC \in Nat
    BY DEF RoutingPolicies
  <2>2. policy.BaseFee \in 0 .. MaxBaseFee /\ policy.FeeRate \in 0 .. MaxFeeRate
    BY <1>2, <2>1, MaximaType DEF DiscardChannel
  <2>3. edge.capacity \in Nat /\ edge.height \in Nat
    BY DEF ChannelEdges
  <2> QED
    BY <2>1, <2>2, <2>3 DEF ChannelOf, Channels
<1> DEFINE from1 == IF edge.node1 = key /\ ~DiscardChannel(edge.policy1)
                    THEN <<ChannelOf(edge, edge.policy1, edge.node2)>> ELSE << >>
           from2 == IF edge.node2 = key /\ ~DiscardChannel(edge.policy2)
                    THEN <<ChannelOf(edge, edge.policy2, edge.node1)>> ELSE << >>
<1>3. from1 \in Seq(Channels)
  BY <1>1, <1>2
<1>4. from2 \in Seq(Channels)
  BY <1>1, <1>2
<1> HIDE DEF from1, from2
<1>5. from1 \o from2 \in Seq(Channels)
  BY <1>3, <1>4
<1> QED
  BY <1>5 DEF Usable, from1, from2

(* The values of a channel are whole numbers.                              *)
LEMMA ChannelValues ==
  ASSUME NEW channel \in Channels
  PROVE  /\ channel.Capacity \in Nat
         /\ \A name \in ChannelNames : channel[name] \in Int
<1>1. ChannelNames = {"BaseFee", "FeeRate", "InboundBaseFee", "InboundFeeRate",
                      "MinHTLC", "MaxHTLC", "ChannelHeight"}
  BY DEF ChannelNames, NodeNames, OpenNames
<1>2. /\ channel.Capacity \in Nat
      /\ channel["ChannelHeight"] \in Nat
      /\ channel["MinHTLC"] \in Nat /\ channel["MaxHTLC"] \in Nat
      /\ channel["InboundBaseFee"] \in Int /\ channel["InboundFeeRate"] \in Int
  BY DEF Channels
<1>3. channel["BaseFee"] \in 0 .. MaxBaseFee /\ channel["FeeRate"] \in 0 .. MaxFeeRate
  BY DEF Channels
<1>4. channel["BaseFee"] \in Int /\ channel["FeeRate"] \in Int
  BY <1>3, MaximaType
<1>5. \A i \in Nat : i \in Int
  OBVIOUS
<1> QED
  BY <1>1, <1>2, <1>4, <1>5

(* The sum of natural numbers along a sequence is one.                     *)
LEMMA SequenceSum ==
  ASSUME NEW n \in Nat, NEW f, f = [i \in 1 .. n |-> f[i]],
         \A i \in 1 .. n : f[i] \in Nat
  PROVE  SumFunction(f) \in Nat /\ (n = 0 => SumFunction(f) = 0)
<1>0. DOMAIN f = 1 .. n
  OBVIOUS
<1>1. IsFiniteSet(1 .. n)
  BY IntervalFinite
<1>2. SumFunctionOnSet(f, 1 .. n) \in Nat
  BY <1>1, SumType
<1>3. n = 0 => SumFunctionOnSet(f, 1 .. n) = 0
  <2>1. n = 0 => 1 .. n = {}
    OBVIOUS
  <2> QED
    BY <2>1, SumOfNone
<1> QED
  BY <1>0, <1>2, <1>3 DEF SumFunction

LEMMA CapacityType ==
  ASSUME TypeOK, NEW key \in Keys
  PROVE  CapacityOf(key) \in Nat /\ (channels[key] = << >> => CapacityOf(key) = 0)
<1> DEFINE n == Len(channels[key])
           f == [i \in DOMAIN channels[key] |-> channels[key][i].Capacity]
<1>1. channels[key] \in Seq(Channels)
  BY DEF TypeOK
<1>2. n \in Nat /\ DOMAIN channels[key] = 1 .. n
  BY <1>1
<1>3. ASSUME NEW i \in 1 .. n PROVE f[i] \in Nat
  <2>1. channels[key][i] \in Channels
    BY <1>1
  <2>2. f[i] = channels[key][i].Capacity
    BY <1>2
  <2> QED
    BY <2>1, <2>2, ChannelValues
<1>4. f = [i \in 1 .. n |-> f[i]]
  BY <1>2
<1>5. channels[key] = << >> => n = 0
  OBVIOUS
<1> HIDE DEF f, n
<1>6. SumFunction(f) \in Nat /\ (n = 0 => SumFunction(f) = 0)
  BY <1>2, <1>3, <1>4, SequenceSum
<1> QED
  BY <1>5, <1>6 DEF CapacityOf, f

LEMMA TotalType ==
  ASSUME edges \in Seq(ChannelEdges)
  PROVE  /\ TotalCapacity \in Nat /\ AvgNodeSize \in Nat
         /\ TotalCapacity >= N => AvgNodeSize >= 1
<1> DEFINE n == Len(edges)
           f == [i \in DOMAIN edges |-> edges[i].capacity]
<1>1. n \in Nat /\ DOMAIN edges = 1 .. n
  OBVIOUS
<1>2. ASSUME NEW i \in 1 .. n PROVE f[i] \in Nat
  <2>1. edges[i] \in ChannelEdges
    OBVIOUS
  <2>2. edges[i].capacity \in Nat
    BY <2>1 DEF ChannelEdges
  <2>3. f[i] = edges[i].capacity
    BY <1>1
  <2> QED
    BY <2>2, <2>3
<1>3. f = [i \in 1 .. n |-> f[i]]
  BY <1>1
<1> HIDE DEF f, n
<1>4. SumFunction(f) \in Nat
  BY <1>1, <1>2, <1>3, SequenceSum
<1>5. TotalCapacity \in Nat
  BY <1>4 DEF TotalCapacity, f
<1> DEFINE q == TotalCapacity \div N
<1>6. N \in Nat \ {0}
  BY PathsAssumption
<1>7. q \in Nat /\ TotalCapacity < N * (q + 1)
  <2> HIDE DEF TotalCapacity
  <2> QED
    BY <1>5, <1>6, DivFacts
<1>8. TotalCapacity >= N => q >= 1
  <2> HIDE DEF q, TotalCapacity
  <2>1. q = 0 => N * (q + 1) = N
    BY <1>6
  <2> QED
    BY <1>5, <1>6, <1>7, <2>1
<1> QED
  BY <1>5, <1>7, <1>8 DEF AvgNodeSize

(***************************************************************************)
(* Ranges that follow what is measured                                     *)
(***************************************************************************)
(* The heuristic has grown to g by the values of a set.                    *)
Grown(g, h, values) ==
    /\ g \in Heuristics /\ g.weight = h.weight
    /\ \A w \in Int : h.weight = 0 \/ Seen(h, w) => g.weight = 0 \/ Seen(g, w)
    /\ \A w \in values : g.weight = 0 \/ Seen(g, w)

(* The fold over the channels gives every one of them to Update.           *)
LEMMA FoldGrows ==
  ASSUME TypeOK, NEW n \in Keys, NEW name \in ChannelNames,
         NEW h \in Heuristics
  PROVE  Grown(FoldFunction(LAMBDA channel, u : Update(u, channel[name]),
                            h, channels[n]),
               h, {channels[n][i][name] : i \in DOMAIN channels[n]})
<1> DEFINE S == DOMAIN channels[n]
           G == CHOOSE g : Updates(g, h, channels[n], name, S)
           F == FoldFunction(LAMBDA channel, u : Update(u, channel[name]),
                             h, channels[n])
<1>1. channels[n] \in Seq(Channels) /\ S = 1 .. Len(channels[n])
  BY DEF TypeOK
<1>2. IsFiniteSet(S)
  <2>1. Len(channels[n]) \in Nat
    BY <1>1
  <2> QED
    BY <1>1, <2>1, IntervalFinite
<1>3. \A i \in S : channels[n][i][name] \in Int
  <2>1. \A i \in S : channels[n][i] \in Channels
    BY <1>1
  <2> QED
    BY <2>1, ChannelValues
<1>4. F = G[S]
  BY DEF FoldFunction, FoldFunctionOnSet, MapThenFoldSet, Updates, Taken
<1>5. Updates(G, h, channels[n], name, S)
  <2> HIDE DEF S
  <2> QED
    BY <1>2, UpdatesExist
<1> HIDE DEF G, S, F
<1>6. /\ G[S] \in Heuristics /\ G[S].weight = h.weight
      /\ \A v \in Int : h.weight = 0 \/ Seen(h, v)
                           => G[S].weight = 0 \/ Seen(G[S], v)
      /\ \A x \in S : G[S].weight = 0 \/ Seen(G[S], channels[n][x][name])
  <2>1. PICK records : records = channels[n]
    OBVIOUS
  <2>2. PICK g : g = G
    OBVIOUS
  <2>3. Updates(g, h, records, name, S) /\ \A i \in S : records[i][name] \in Int
    BY <1>3, <1>5, <2>1, <2>2
  <2>4. /\ g[S] \in Heuristics /\ g[S].weight = h.weight
        /\ \A v \in Int : h.weight = 0 \/ Seen(h, v)
                             => g[S].weight = 0 \/ Seen(g[S], v)
        /\ \A x \in S : g[S].weight = 0 \/ Seen(g[S], records[x][name])
    BY <1>2, <2>3, UpdatesCover
  <2> QED
    BY <2>1, <2>2, <2>4
<1>7. Grown(F, h, {channels[n][i][name] : i \in S})
  BY <1>4, <1>6 DEF Grown
<1> QED
  BY <1>7 DEF F, S

(* What is measured of a node and of its channels.                         *)
LEMMA UpdatedFacts ==
  ASSUME TypeOK, NEW n \in Nodes, NEW v \in [NodeNames -> Nat],
         NEW name \in OpenNames
  PROVE  /\ Grown(Updated(n, v)[name], heur[name], {})
         /\ name = "Hybrid" => Updated(n, v)[name] = heur[name]
         /\ name \in NodeNames \ {"Hybrid"} =>
               Grown(Updated(n, v)[name], heur[name], {v[name]})
         /\ name \in ChannelNames =>
               Grown(Updated(n, v)[name], heur[name],
                     {channels[n][i][name] : i \in DOMAIN channels[n]})
<1>1. heur[name] \in Heuristics /\ n \in Keys
  BY PathsAssumption DEF TypeOK, Nodes, Keys
<1>2. CASE name = "Hybrid"
  <2>1. Updated(n, v)[name] = heur[name]
    BY <1>2 DEF Updated
  <2>2. name \in NodeNames /\ name \notin ChannelNames
    BY <1>2 DEF NodeNames, ChannelNames
  <2> QED
    BY <1>1, <1>2, <2>1, <2>2 DEF Grown
<1>3. CASE name \in NodeNames \ {"Hybrid"}
  <2>1. Updated(n, v)[name] = Update(heur[name], v[name])
    BY <1>3 DEF Updated
  <2>2. v[name] \in Int /\ name \notin ChannelNames
    BY <1>3 DEF ChannelNames
  <2>3. /\ Update(heur[name], v[name]) \in Heuristics
        /\ heur[name].weight # 0 => Seen(Update(heur[name], v[name]), v[name])
    BY <1>1, <2>2, UpdateCovers
  <2>4. /\ Update(heur[name], v[name]).weight = heur[name].weight
        /\ \A w \in Int : heur[name].weight = 0 \/ Seen(heur[name], w)
              => \/ Update(heur[name], v[name]).weight = 0
                 \/ Seen(Update(heur[name], v[name]), w)
    BY <1>1, <2>2, UpdateGrows
  <2> QED
    BY <1>3, <2>1, <2>2, <2>3, <2>4 DEF Grown
<1>4. CASE name \in ChannelNames
  <2>1. name \notin NodeNames /\ name # "Hybrid"
    BY <1>4 DEF ChannelNames, NodeNames
  <2>2. Updated(n, v)[name] =
           FoldFunction(LAMBDA channel, u : Update(u, channel[name]),
                        heur[name], channels[n])
    BY <2>1 DEF Updated
  <2>3. Grown(Updated(n, v)[name], heur[name],
              {channels[n][i][name] : i \in DOMAIN channels[n]})
    BY <1>1, <1>4, <2>2, FoldGrows
  <2>4. Grown(Updated(n, v)[name], heur[name], {})
    BY <2>3 DEF Grown
  <2> QED
    BY <1>4, <2>1, <2>3, <2>4
<1> QED
  BY <1>2, <1>3, <1>4 DEF ChannelNames

(***************************************************************************)
(* What is measured is a whole number                                      *)
(***************************************************************************)
LEMMA ClosenessType ==
  ASSUME nodes \subseteq Nodes, NEW n \in nodes PROVE Closeness(n) \in Nat
<1>1. SumDistances(n) \in Nat
  BY DistancesSum DEF SumDistances
<1>2. IsFiniteSet(nodes)
  BY NodesFinite, FS_Subset
<1>3. Cardinality(nodes) \in Nat \ {0}
  BY <1>2, FS_CardinalityType, FS_EmptySet
<1> DEFINE a == Scale * (Cardinality(nodes) - 1)
           d == SumDistances(n)
<1>4. a \in Nat
  <2>1. Cardinality(nodes) - 1 \in Nat /\ Scale \in Nat
    BY <1>3, PathsAssumption
  <2> HIDE DEF a
  <2> DEFINE c == Cardinality(nodes) - 1
  <2>2. a = Scale * c
    BY DEF a
  <2> HIDE DEF c
  <2> QED
    BY <2>1, <2>2 DEF c
<1> HIDE DEF a, d
<1>5. d # 0 => a \div d \in Nat
  BY <1>1, <1>4, DivFacts DEF d
<1> QED
  BY <1>5 DEF Closeness, a, d

LEMMA DegreeType ==
  ASSUME TypeOK, edges \in Seq(ChannelEdges), NEW n \in Keys, edges # << >>
  PROVE  (Scale * Len(channels[n])) \div Len(edges) \in Nat
<1>1. Len(channels[n]) \in Nat
  BY DEF TypeOK
<1>2. Len(edges) \in Nat \ {0}
  OBVIOUS
<1> DEFINE a == Scale * Len(channels[n])
           d == Len(edges)
<1>3. a \in Nat
  BY <1>1, PathsAssumption
<1> HIDE DEF a, d
<1>4. a \div d \in Nat
  BY <1>2, <1>3, DivFacts DEF d
<1> QED
  BY <1>4 DEF a, d

LEMMA MeasuredType ==
  ASSUME TypeOK, edges \in Seq(ChannelEdges), features \in [Nodes -> Nat],
         NEW n \in nodes
  PROVE  Measured(n) \in [NodeNames -> Nat]
<1>1. n \in Nodes /\ n \in Keys /\ adjList \in Graphs
  BY PathsAssumption DEF TypeOK, Nodes, Keys, Graphs
<1>2. CapacityOf(n) \in Nat /\ features[n] \in Nat /\ Hybrid(n) \in Nat
  <2>1. Hybrid(n) \in Nat
    BY DEF Hybrid
  <2> QED
    BY <1>1, <2>1, CapacityType
<1>3. Betweenness(adjList, n) \in Nat
  BY <1>1, BetweennessType
<1>4. Cardinality(Walks(adjList, n)[4]) \in Nat
  BY <1>1, WalksFinite
<1>5. Closeness(n) \in Nat
  BY ClosenessType DEF TypeOK
<1>6. (IF edges = << >> THEN 0
       ELSE (Scale * Len(channels[n])) \div Len(edges)) \in Nat
  BY <1>1, DegreeType
<1> QED
  BY <1>2, <1>3, <1>4, <1>5, <1>6 DEF Measured, NodeNames

(***************************************************************************)
(* Scores                                                                  *)
(***************************************************************************)
(* A score is between zero and the weight once the range covers the value, *)
(* and zero without a weight.                                              *)
LEMMA WithinWeight ==
  ASSUME NEW h \in Heuristics, NEW v \in Int, h.weight = 0 \/ Seen(h, v)
  PROVE  GetScore(h, v) \in 0 .. h.weight
<1>1. CASE h.weight = 0
  BY <1>1 DEF GetScore
<1>2. CASE Seen(h, v)
  BY <1>2, ScoreBounds
<1> QED
  BY <1>1, <1>2

LEMMA ScoresHold ==
  ASSUME TypeOK, Covered, NEW n \in Passed
  PROVE  /\ \A name \in NodeNames :
              GetScore(heur[name], value[n][name]) \in 0 .. Weights[name]
         /\ \A i \in DOMAIN channels[n], name \in ChannelNames :
              GetScore(heur[name], channels[n][i][name]) \in 0 .. Weights[name]
<1>1. n \in Nodes /\ n \in Keys
  BY PathsAssumption DEF TypeOK, Passed, Nodes, Keys
<1>2. \A name \in OpenNames :
         heur[name] \in Heuristics /\ heur[name].weight = Weights[name]
  BY DEF TypeOK, Covered
<1>3. NodeNames \subseteq OpenNames /\ ChannelNames \subseteq OpenNames
  BY DEF NodeNames, OpenNames, ChannelNames
<1>4. ASSUME NEW name \in NodeNames
      PROVE  GetScore(heur[name], value[n][name]) \in 0 .. Weights[name]
  <2>1. value[n][name] \in Int
    <3>1. value[n] \in [NodeNames -> Nat]
      BY <1>1 DEF TypeOK
    <3>2. value[n][name] \in Nat
      BY <3>1
    <3> QED
      BY <3>2
  <2>2. heur[name].weight = 0 \/ Seen(heur[name], value[n][name])
    BY DEF Covered
  <2>3. GetScore(heur[name], value[n][name]) \in 0 .. heur[name].weight
    BY <1>2, <1>3, <2>1, <2>2, WithinWeight
  <2> QED
    BY <1>2, <1>3, <2>3
<1>5. ASSUME NEW i \in DOMAIN channels[n], NEW name \in ChannelNames
      PROVE  GetScore(heur[name], channels[n][i][name]) \in 0 .. Weights[name]
  <2>1. channels[n][i] \in Channels
    BY <1>1 DEF TypeOK
  <2>2. channels[n][i][name] \in Int
    BY <2>1, ChannelValues
  <2>3. heur[name].weight = 0 \/ Seen(heur[name], channels[n][i][name])
    BY DEF Covered
  <2>4. GetScore(heur[name], channels[n][i][name]) \in 0 .. heur[name].weight
    BY <1>2, <1>3, <2>2, <2>3, WithinWeight
  <2> QED
    BY <1>2, <1>3, <2>4
<1> QED
  BY <1>4, <1>5

(* The sum of what the heuristics add to a score.                          *)
LEMMA PartSum ==
  ASSUME NEW S, IsFiniteSet(S), NEW f, f = [x \in S |-> f[x]],
         \A x \in S : f[x] \in Nat
  PROVE  SumFunction(f) \in Nat
<1>1. DOMAIN f = S
  OBVIOUS
<1>2. SumFunctionOnSet(f, S) \in Nat
  BY SumType
<1> QED
  BY <1>1, <1>2 DEF SumFunction

LEMMA ScoreType ==
  ASSUME TypeOK, Covered, NEW n \in Passed, Defined(n) PROVE Score(n) \in Nat
<1>0. \A name \in OpenNames : Weights[name] \in Nat
  BY OpeningAssumption, HeuristicAssumption
<1>00. NodeNames \subseteq OpenNames /\ ChannelNames \subseteq OpenNames
  BY DEF NodeNames, OpenNames, ChannelNames
<1>1. n \in Nodes /\ n \in Keys
  BY PathsAssumption DEF TypeOK, Passed, Nodes, Keys
<1>2. \A name \in NodeNames : GetScore(heur[name], value[n][name]) \in Nat
  BY <1>0, <1>00, ScoresHold
<1>3. \A i \in DOMAIN channels[n], name \in ChannelNames :
         GetScore(heur[name], channels[n][i][name]) \in Nat
  BY <1>0, <1>00, ScoresHold
<1> DEFINE f == [name \in NodeNames |-> GetScore(heur[name], value[n][name])]
           own == SumFunction(f)
<1>4. own \in Nat
  <2>1. \A name \in NodeNames : f[name] \in Nat
    BY <1>2
  <2>2. f = [name \in NodeNames |-> f[name]]
    OBVIOUS
  <2> HIDE DEF f
  <2> QED
    BY <2>1, <2>2, NamesFinite, PartSum
<1>5. ASSUME NEW i \in DOMAIN channels[n] PROVE ChannelScore(channels[n][i]) \in Nat
  <2> DEFINE g == [name \in ChannelNames |->
                     GetScore(heur[name], channels[n][i][name])]
  <2>1. \A name \in ChannelNames : g[name] \in Nat
    BY <1>3
  <2>2. g = [name \in ChannelNames |-> g[name]]
    OBVIOUS
  <2> HIDE DEF g
  <2>3. SumFunction(g) \in Nat
    BY <2>1, <2>2, NamesFinite, PartSum
  <2> QED
    BY <2>3 DEF ChannelScore, g
<1> DEFINE c == [i \in DOMAIN channels[n] |-> ChannelScore(channels[n][i])]
           theirs == SumFunction(c)
           len == Len(channels[n])
<1>6. DOMAIN channels[n] = 1 .. len /\ len \in Nat \ {0}
  <2>1. channels[n] \in Seq(Channels)
    BY <1>1 DEF TypeOK
  <2> QED
    BY <2>1 DEF Defined
<1>7. theirs \in Nat
  <2>1. \A i \in 1 .. len : c[i] \in Nat
    BY <1>5, <1>6
  <2>2. c = [i \in 1 .. len |-> c[i]]
    BY <1>6
  <2> HIDE DEF c, len
  <2> QED
    BY <1>6, <2>1, <2>2, SequenceSum
<1> HIDE DEF f, c, len, own, theirs
<1>8. theirs \div len \in Nat
  BY <1>6, <1>7, DivFacts
<1>9. own + (theirs \div len) \in Nat
  BY <1>4, <1>8
<1>10. Rounded(own + (theirs \div len)) \in Nat
  BY <1>9, RoundedMonotonic
<1> QED
  BY <1>10 DEF Score, f, c, len, own, theirs

(***************************************************************************)
(* The invariant of the types and ranges: what is read is typed, no node   *)
(* that is kept has less than the average, and the ranges cover whatever   *)
(* the loop over the nodes has come past.                                  *)
(***************************************************************************)
TypeInv == TypeOK /\ Inv /\ Large /\ Covered

LEMMA InitType == Init => TypeInv
<1> SUFFICES ASSUME Init PROVE TypeInv
  OBVIOUS
<1>1. Inv
  BY InitInv
<1>2. Len(Edges) \in Nat /\ 0 <= Len(Edges)
  BY OpeningAssumption
<1>3. ASSUME NEW name \in OpenNames
      PROVE  heur[name] \in Heuristics /\ heur[name].weight = Weights[name]
  <2>1. /\ Weights[name] \in 0 .. One /\ MaxInt \in Int
        /\ (name \in ChannelNames \ {"MaxHTLC"}) \in BOOLEAN
    BY OpeningAssumption, HeuristicAssumption
  <2>2. heur[name] = IF name = "Hybrid" THEN NewFull(0, 1, Weights[name], FALSE)
                     ELSE New(Weights[name], name \in ChannelNames \ {"MaxHTLC"})
    BY DEF Init, NewHeuristics
  <2> QED
    BY <2>1, <2>2 DEF New, NewFull, Heuristics
<1>4. heur \in [OpenNames -> Heuristics]
  BY <1>3 DEF Init, NewHeuristics
<1>5. heur["Hybrid"] = NewFull(0, 1, Weights["Hybrid"], FALSE)
  <2>1. "Hybrid" \in OpenNames
    BY DEF OpenNames
  <2> QED
    BY <2>1 DEF Init, NewHeuristics
<1>6. TypeOK
  <2>1. /\ 0 \in 0 .. N /\ Cardinality({}) <= 1
    BY PathsAssumption, FS_EmptySet
  <2> QED
    BY <1>2, <1>4, <2>1 DEF Init, TypeOK
<1>7. Large
  BY DEF Init, Large
<1>8. Covered
  BY <1>3, <1>5 DEF Init, Covered, Passed
<1> QED
  BY <1>1, <1>6, <1>7, <1>8 DEF TypeInv

LEMMA AddEdgeType == ASSUME TypeInv, AddEdge PROVE TypeInv'
<1> USE DEF TypeInv
<1>1. Inv'
  BY ReadInv
<1>2. edges \in Seq(ChannelEdges) /\ Len(edges) \in Nat /\ nodes = {}
  BY DEF Large, AddEdge
<1>3. PICK edge \in Edges[Len(edges) + 1] :
         /\ edges' = Append(edges, edge)
         /\ channels' = [key \in Keys |-> channels[key] \o Usable(edge, key)]
  BY DEF AddEdge
<1>4. edge \in ChannelEdges
  <2>1. Len(edges) + 1 \in 1 .. Len(Edges)
    BY <1>2, OpeningAssumption DEF AddEdge
  <2>2. Edges[Len(edges) + 1] \in SUBSET ChannelEdges
    BY <2>1, OpeningAssumption
  <2> QED
    BY <2>2
<1>5. edges' \in Seq(ChannelEdges) /\ Len(edges') = Len(edges) + 1
  BY <1>2, <1>3, <1>4
<1>6. Len(edges') <= Len(Edges)
  BY <1>2, <1>5, OpeningAssumption DEF AddEdge
<1>7. channels' \in [Keys -> Seq(Channels)]
  <2>1. ASSUME NEW key \in Keys PROVE channels[key] \o Usable(edge, key) \in Seq(Channels)
    <3>1. channels[key] \in Seq(Channels) /\ Usable(edge, key) \in Seq(Channels)
      BY <1>4, UsableType DEF TypeOK
    <3> QED
      BY <3>1
  <2> QED
    BY <1>3, <2>1
<1>8. UNCHANGED <<stage, filterVars, measureVars, dialVars>> /\ stage = "edges"
  BY DEF AddEdge
<1> USE <1>8 DEF filterVars, measureVars, dialVars
<1>9. TypeOK'
  BY <1>6, <1>7 DEF TypeOK
<1>10. Large'
  BY <1>2, <1>5 DEF Large
<1>11. Covered'
  BY DEF Covered, Passed
<1> QED
  BY <1>1, <1>9, <1>10, <1>11

LEMMA EdgesReadType == ASSUME TypeInv, EdgesRead PROVE TypeInv'
<1> USE DEF TypeInv
<1>1. Inv'
  BY ReadInv
<1>2. /\ UNCHANGED <<describeVars, filterVars, measureVars, dialVars>>
      /\ stage = "edges" /\ stage' \in {"failed", "nodes"}
  BY DEF EdgesRead
<1> USE <1>2 DEF describeVars, filterVars, measureVars, dialVars
<1>3. TypeOK'
  BY DEF TypeOK
<1>4. Large'
  BY DEF Large
<1>5. Covered'
  BY DEF Covered, Passed
<1> QED
  BY <1>1, <1>3, <1>4, <1>5

(* A node that is not small has no less than the average.                  *)
LEMMA AddNodeType == ASSUME TypeInv, AddNode PROVE TypeInv'
<1> USE DEF TypeInv
<1>1. Inv'
  BY AddNodeInv
<1>2. next \in Nodes /\ next \in Keys /\ N \in Nat
  BY PathsAssumption DEF Inv, Addressed, Nodes, Keys
<1>3. /\ stage = "nodes" /\ UNCHANGED <<describeVars, measureVars, dialVars>>
      /\ \/ stage' = "measure" /\ next' = 0
         \/ stage' = "nodes" /\ next' = next + 1 /\ next # N - 1
  BY DEF AddNode
<1>4. next' \in 0 .. N
  BY <1>2, <1>3 DEF Nodes
<1>5. /\ nodes' \subseteq Nodes /\ nodes \subseteq nodes'
      /\ features' \in [Nodes -> Nat]
      /\ adjList' \in [Nodes -> Seq(Nodes)]
      /\ \A n \in nodes' : CapacityOf(n) >= AvgNodeSize
  <2> PICK addrs \in Addresses, count \in Features :
         IF Small(next, addrs)
         THEN UNCHANGED <<addresses, features, nodes, adjList>>
         ELSE /\ features' = [features EXCEPT ![next] = count]
              /\ nodes' = nodes \union {next}
              /\ adjList' = [adjList EXCEPT ![next] =
                    [i \in DOMAIN channels[next] |->
                       IndexOf(channels[next][i].PeerPublicKey)]]
    BY DEF AddNode
  <2>0. /\ nodes \subseteq Nodes /\ features \in [Nodes -> Nat]
        /\ adjList \in [Nodes -> Seq(Nodes)]
        /\ \A n \in nodes : CapacityOf(n) >= AvgNodeSize
    BY DEF TypeOK, Large, Covered
  <2>1. CASE Small(next, addrs)
    BY <2>0, <2>1
  <2>2. CASE ~Small(next, addrs)
    <3> DEFINE row == [i \in DOMAIN channels[next] |->
                         IndexOf(channels[next][i].PeerPublicKey)]
    <3>1. CapacityOf(next) >= AvgNodeSize
      <4>1. CapacityOf(next) \in Nat /\ AvgNodeSize \in Nat
        BY <1>2, CapacityType, TotalType DEF Large
      <4> QED
        BY <2>2, <4>1 DEF Small
    <3>2. row \in Seq(Nodes)
      <4>1. channels[next] \in Seq(Channels)
        BY <1>2 DEF TypeOK
      <4>2. \A key : IndexOf(key) \in Nodes
        BY NodesFinite DEF IndexOf
      <4> QED
        BY <4>1, <4>2
    <3>3. adjList' = [adjList EXCEPT ![next] = row]
      BY <2>2
    <3> HIDE DEF row
    <3>4. count \in Nat
      BY OpeningAssumption
    <3> QED
      BY <1>2, <2>0, <2>2, <3>1, <3>2, <3>3, <3>4
  <2> QED
    BY <2>1, <2>2
<1>6. \A n : CapacityOf(n)' = CapacityOf(n)
  BY <1>3 DEF describeVars, CapacityOf
<1>7. AvgNodeSize' = AvgNodeSize
  BY <1>3 DEF describeVars, AvgNodeSize, TotalCapacity
<1>8. TypeOK'
  BY <1>3, <1>4, <1>5 DEF TypeOK, describeVars, measureVars, dialVars
<1>9. Large'
  BY <1>3, <1>5, <1>6, <1>7 DEF Large, describeVars
<1>10. Passed' = {}
  <2>1. \A n \in nodes' : ~(n < 0)
    BY <1>2, <1>5 DEF Nodes
  <2> QED
    BY <1>3, <2>1 DEF Passed
<1>11. Covered'
  BY <1>3, <1>5, <1>10 DEF Covered, measureVars
<1> QED
  BY <1>1, <1>8, <1>9, <1>11

(* One turn of the last loop of New measures the next node and lets the    *)
(* ranges grow by what it has measured.                                    *)
LEMMA AddCentralityType == ASSUME TypeInv, AddCentrality PROVE TypeInv'
<1> USE DEF TypeInv
<1>1. Inv'
  BY ReadInv
<1>2. next \in Nodes /\ N \in Nat \ {0}
  BY PathsAssumption DEF Inv, Addressed
<1>3. /\ stage = "measure"
      /\ UNCHANGED <<describeVars, addresses, features, nodes, adjList, score, dialVars>>
      /\ \/ stage' = "measure" /\ next' = next + 1 /\ next # N - 1
         \/ stage' \in {"over", "rank"} /\ next' = 0 /\ next = N - 1
  BY DEF AddCentrality
<1>4. next' \in 0 .. N
  BY <1>2, <1>3 DEF Nodes
<1>5. Passed' \subseteq Passed \union {next}
  <2>1. Passed = {n \in nodes : n < next}
    BY <1>3 DEF Passed
  <2>2. nodes' = nodes /\ \A n \in nodes : n \in Nat /\ n <= N - 1
    BY <1>2, <1>3 DEF TypeOK, Nodes
  <2>3. CASE stage' = "measure" /\ next' = next + 1
    <3>1. Passed' = {n \in nodes : n < next + 1}
      BY <2>2, <2>3 DEF Passed
    <3>2. next \in Nat
      BY <1>2 DEF Nodes
    <3> QED
      BY <2>1, <2>2, <3>1, <3>2
  <2>4. CASE stage' \in {"over", "rank"} /\ next = N - 1
    <3>1. Passed' = nodes
      BY <2>2, <2>4 DEF Passed
    <3> QED
      BY <1>2, <2>1, <2>2, <2>4, <3>1
  <2> QED
    BY <1>3, <2>3, <2>4
<1>6. Passed' \subseteq nodes
  BY <1>3 DEF Passed
<1>7. CASE next \notin nodes
  <2>1. UNCHANGED <<value, heur>>
    BY <1>7 DEF AddCentrality
  <2>2. TypeOK'
    BY <1>3, <1>4, <2>1 DEF TypeOK, describeVars, dialVars
  <2>3. Large'
    BY <1>3 DEF Large, describeVars, CapacityOf, AvgNodeSize, TotalCapacity
  <2>4. Passed' \subseteq Passed
    BY <1>5, <1>6, <1>7
  <2>5. Covered'
    BY <1>3, <2>1, <2>4 DEF Covered, describeVars
  <2> QED
    BY <1>1, <2>2, <2>3, <2>5
<1>8. CASE next \in nodes
  <2> DEFINE v == Measured(next)
             h == Updated(next, v)
  <2>1. value' = [value EXCEPT ![next] = v] /\ heur' = h
    BY <1>8 DEF AddCentrality
  <2>2. v \in [NodeNames -> Nat]
    BY <1>8, MeasuredType DEF Large, Covered
  <2> HIDE DEF v
  <2>3. \A name \in OpenNames :
           /\ Grown(h[name], heur[name], {})
           /\ name = "Hybrid" => h[name] = heur[name]
           /\ name \in NodeNames \ {"Hybrid"} => Grown(h[name], heur[name], {v[name]})
           /\ name \in ChannelNames =>
                 Grown(h[name], heur[name],
                       {channels[next][i][name] : i \in DOMAIN channels[next]})
    BY <1>2, <2>2, UpdatedFacts
  <2>4. h = [name \in OpenNames |-> h[name]]
    BY DEF Updated
  <2> HIDE DEF h
  <2>5. \A name \in OpenNames :
           h[name] \in Heuristics /\ h[name].weight = heur[name].weight
    BY <2>3 DEF Grown
  <2>6. h \in [OpenNames -> Heuristics]
    BY <2>4, <2>5
  <2>7. value' \in [Nodes -> [NodeNames -> Nat]] /\ heur' \in [OpenNames -> Heuristics]
    BY <2>1, <2>2, <2>6 DEF TypeOK
  <2>8. TypeOK'
    BY <1>3, <1>4, <2>7 DEF TypeOK, describeVars, dialVars
  <2>9. Large'
    BY <1>3 DEF Large, describeVars, CapacityOf, AvgNodeSize, TotalCapacity
  <2>10. /\ heur'["Hybrid"] = NewFull(0, 1, Weights["Hybrid"], FALSE)
         /\ \A name \in OpenNames : heur'[name].weight = Weights[name]
    <3>1. "Hybrid" \in OpenNames
      BY DEF OpenNames
    <3> QED
      BY <2>1, <2>3, <2>5, <3>1 DEF Covered
  <2>11. ASSUME NEW name \in OpenNames, NEW w \in Int,
                heur[name].weight = 0 \/ Seen(heur[name], w)
         PROVE  h[name].weight = 0 \/ Seen(h[name], w)
    BY <2>3, <2>11 DEF Grown
  <2>12. NodeNames \subseteq OpenNames /\ ChannelNames \subseteq OpenNames
    BY DEF NodeNames, OpenNames, ChannelNames
  <2>13. ASSUME NEW n \in Passed' PROVE n = next \/ n \in Passed
    BY <1>5, <2>13
  <2>14. ASSUME NEW n \in Passed', NEW name \in NodeNames
         PROVE  h[name].weight = 0 \/ Seen(h[name], value'[n][name])
    <3>1. n \in Nodes
      BY <1>3, <1>6 DEF TypeOK
    <3>2. CASE n = next
      <4>1. value'[n] = v
        BY <2>1, <3>1, <3>2 DEF TypeOK
      <4>2. CASE name = "Hybrid"
        <5>1. h[name] = NewFull(0, 1, Weights["Hybrid"], FALSE)
          BY <2>3, <2>12, <4>2 DEF Covered
        <5>2. v[name] = Hybrid(next)
          BY <4>2 DEF v, Measured
        <5>3. Hybrid(next) \in {0, 1}
          BY DEF Hybrid
        <5> QED
          BY <4>1, <5>1, <5>2, <5>3 DEF NewFull, Seen
      <4>3. CASE name # "Hybrid"
        <5>1. Grown(h[name], heur[name], {v[name]})
          BY <2>3, <2>12, <4>3
        <5> QED
          BY <4>1, <5>1 DEF Grown
      <4> QED
        BY <4>2, <4>3
    <3>3. CASE n # next
      <4>1. n \in Passed /\ value'[n] = value[n]
        BY <2>1, <2>13, <3>1, <3>3 DEF TypeOK
      <4>2. heur[name].weight = 0 \/ Seen(heur[name], value[n][name])
        BY <4>1 DEF Covered
      <4>3. value[n][name] \in Int
        <5>1. value[n] \in [NodeNames -> Nat]
          BY <3>1 DEF TypeOK
        <5>2. value[n][name] \in Nat
          BY <5>1
        <5> QED
          BY <5>2
      <4> QED
        BY <2>11, <2>12, <4>1, <4>2, <4>3
    <3> QED
      BY <3>2, <3>3
  <2>15. ASSUME NEW n \in Passed', NEW name \in ChannelNames,
                NEW i \in DOMAIN channels[n]
         PROVE  h[name].weight = 0 \/ Seen(h[name], channels[n][i][name])
    <3>1. n \in Nodes /\ n \in Keys
      BY <1>2, <1>3, <1>6 DEF TypeOK, Nodes, Keys
    <3>2. CASE n = next
      <4>1. Grown(h[name], heur[name],
                  {channels[n][j][name] : j \in DOMAIN channels[n]})
        BY <2>3, <2>12, <3>2
      <4> QED
        BY <4>1 DEF Grown
    <3>3. CASE n # next
      <4>1. n \in Passed
        BY <2>13, <3>3
      <4>2. heur[name].weight = 0 \/ Seen(heur[name], channels[n][i][name])
        BY <4>1 DEF Covered
      <4>3. channels[n][i] \in Channels
        BY <3>1 DEF TypeOK
      <4>4. channels[n][i][name] \in Int
        BY <4>3, ChannelValues
      <4> QED
        BY <2>11, <2>12, <4>2, <4>4
    <3> QED
      BY <3>2, <3>3
  <2>16. channels' = channels /\ features' = features
    BY <1>3 DEF describeVars
  <2>17. Covered'
    <3>1. \A n \in Passed', name \in NodeNames :
             h[name].weight = 0 \/ Seen(h[name], value'[n][name])
      BY <2>14
    <3>2. \A n \in Passed' : \A i \in DOMAIN channels'[n], name \in ChannelNames :
             h[name].weight = 0 \/ Seen(h[name], channels'[n][i][name])
      BY <2>15, <2>16
    <3> QED
      BY <2>1, <2>10, <2>16, <3>1, <3>2 DEF Covered
  <2> QED
    BY <1>1, <2>8, <2>9, <2>17
<1> QED
  BY <1>7, <1>8

(* All the ranges are covered when the candidates are ranked.              *)
LEMMA RankType == ASSUME TypeInv, Rank PROVE TypeInv'
<1> USE DEF TypeInv
<1>1. Inv'
  BY RankInv
<1>2. /\ stage = "rank" /\ stage' = "select" /\ rest' = nodes \ Discarded
      /\ score' = [n \in Nodes |-> IF n \in rest' /\ Defined(n) THEN Score(n) ELSE 0]
      /\ UNCHANGED <<describeVars, filterVars, value, heur,
                     dialing, untried, refused, reached, batch>>
  BY DEF Rank
<1>3. score' \in [Nodes -> Nat]
  <2>1. Passed = nodes
    BY <1>2 DEF Passed
  <2>2. ASSUME NEW n \in rest', Defined(n) PROVE Score(n) \in Nat
    BY <1>2, <2>1, <2>2, ScoreType
  <2>3. ASSUME NEW n \in Nodes
        PROVE  (IF n \in rest' /\ Defined(n) THEN Score(n) ELSE 0) \in Nat
    BY <2>2
  <2> QED
    BY <1>2, <2>3
<1>4. rest' \subseteq nodes
  BY <1>2
<1>5. TypeOK'
  BY <1>2, <1>3, <1>4 DEF TypeOK, describeVars, filterVars
<1>6. Large'
  BY <1>2 DEF Large, describeVars, filterVars, CapacityOf, AvgNodeSize, TotalCapacity
<1>7. Passed' = Passed
  BY <1>2 DEF Passed, filterVars
<1>8. Covered'
  BY <1>2, <1>7 DEF Covered, describeVars, filterVars
<1> QED
  BY <1>1, <1>5, <1>6, <1>8

(* Nothing that has been read or measured changes while nodes are selected.*)
LEMMA SelectType ==
  ASSUME TypeInv, \/ \E n \in Nodes : TryCandidate(n) \/ ConnectPeer(n)
                  \/ Selected
  PROVE  TypeInv'
<1> USE DEF TypeInv
<1>1. Inv'
  BY SelectInv
<1>2. /\ stage = "select" \/ dialing # {}
      /\ stage' \in {stage, "over"}
      /\ UNCHANGED <<describeVars, filterVars, measureVars>>
  <2>1. ASSUME NEW n \in Nodes, TryCandidate(n)
        PROVE  /\ stage = "select" /\ stage' = stage
               /\ UNCHANGED <<describeVars, filterVars, measureVars>>
    BY <2>1 DEF TryCandidate
  <2>2. ASSUME NEW n \in Nodes, NEW a, Connected(n, a) \/ Refused(n, a)
        PROVE  /\ dialing # {} /\ stage' = stage
               /\ UNCHANGED <<describeVars, filterVars, measureVars>>
    BY <2>2 DEF Connected, Refused
  <2>3. CASE Selected
    BY <2>3 DEF Selected
  <2> QED
    BY <2>1, <2>2, <2>3 DEF ConnectPeer
<1>3. stage = "select"
  BY <1>2 DEF Inv, TriedFirst
<1>4. /\ rest' \subseteq nodes /\ batch' \subseteq nodes /\ dialing' \subseteq nodes
      /\ reached' \subseteq nodes /\ Cardinality(dialing') <= 1
  <2>0. Cardinality({}) <= 1 /\ \A n \in Nodes : Cardinality({n}) <= 1
    <3>1. Cardinality({}) = 0
      BY FS_EmptySet
    <3>2. \A n \in Nodes : Cardinality({n}) = 1
      BY FS_Singleton
    <3> QED
      BY <3>1, <3>2
  <2>1. ASSUME NEW n \in Nodes, TryCandidate(n)
        PROVE  /\ rest' \subseteq nodes /\ batch' \subseteq nodes
               /\ dialing' \subseteq nodes
               /\ reached' \subseteq nodes /\ Cardinality(dialing') <= 1
    <3>1. /\ n \in rest /\ rest' = rest \ {n} /\ reached' = reached
          /\ \/ batch' = batch \union {n} /\ dialing' = dialing
             \/ dialing' = {n} /\ batch' = batch
      BY <2>1 DEF TryCandidate, First, dialVars
    <3> QED
      BY <2>0, <3>1 DEF TypeOK
  <2>2. ASSUME NEW n \in Nodes, NEW a, Connected(n, a) \/ Refused(n, a)
        PROVE  /\ rest' \subseteq nodes /\ batch' \subseteq nodes
               /\ dialing' \subseteq nodes
               /\ reached' \subseteq nodes /\ Cardinality(dialing') <= 1
    <3>1. /\ dialing = {n} /\ rest' = rest
          /\ dialing' \in {{}, dialing}
          /\ reached' \in {reached, reached \union {n}}
          /\ batch' \in {batch, batch \union {n}}
      BY <2>2 DEF Connected, Refused
    <3> QED
      BY <2>0, <3>1 DEF TypeOK
  <2>3. CASE Selected
    BY <2>3 DEF Selected, dialVars, TypeOK
  <2> QED
    BY <2>1, <2>2, <2>3 DEF ConnectPeer
<1>5. TypeOK'
  BY <1>2, <1>3, <1>4 DEF TypeOK, describeVars, filterVars, measureVars
<1>6. Large'
  BY <1>2, <1>3 DEF Large, describeVars, filterVars, CapacityOf, AvgNodeSize,
                    TotalCapacity
<1>7. Passed' = Passed
  BY <1>2, <1>3 DEF Passed, filterVars
<1>8. Covered'
  BY <1>2, <1>7 DEF Covered, describeVars, filterVars, measureVars
<1> QED
  BY <1>1, <1>5, <1>6, <1>8

LEMMA NextType == ASSUME TypeInv, [Next]_vars PROVE TypeInv'
<1>1. CASE UNCHANGED vars
  <2> USE <1>1 DEF vars, describeVars, filterVars, measureVars, dialVars, TypeInv
  <2>1. Inv'
    BY NextInv
  <2>2. TypeOK'
    BY DEF TypeOK
  <2>3. Large'
    BY DEF Large, CapacityOf, AvgNodeSize, TotalCapacity
  <2>4. Covered'
    BY DEF Covered, Passed
  <2> QED
    BY <2>1, <2>2, <2>3, <2>4
<1> QED
  BY <1>1, AddEdgeType, EdgesReadType, AddNodeType, AddCentralityType, RankType,
     SelectType DEF Next

(* Every run of the algorithm has the types, for any graph that LND may    *)
(* return: no channel that discardChannel refuses is in the graph, and     *)
(* every measure and every score is a whole number.                        *)
THEOREM OpeningTypeCorrect == Spec => []TypeOK
<1>1. TypeInv => TypeOK
  BY DEF TypeInv
<1> QED
  BY <1>1, InitType, NextType, PTL DEF Spec

(* No heuristic adds less than zero or more than its weight to the score   *)
(* of a node or of its channels, for any weights and any graph             *)
(* (Heuristics.Update, GetScore).                                          *)
THEOREM OpeningScoresWithinWeights == Spec => []ScoresInRange
<1>1. TypeInv => ScoresInRange
  <2> SUFFICES ASSUME TypeInv, stage = "select", NEW n \in nodes
               PROVE  /\ \A name \in NodeNames :
                            GetScore(heur[name], value[n][name]) \in 0 .. Weights[name]
                      /\ \A i \in DOMAIN channels[n], name \in ChannelNames :
                            GetScore(heur[name], channels[n][i][name])
                               \in 0 .. Weights[name]
    BY DEF ScoresInRange
  <2>1. n \in Passed
    BY DEF Passed
  <2> QED
    BY <2>1, ScoresHold DEF TypeInv
<1> QED
  BY <1>1, InitType, NextType, PTL DEF Spec

(* A network with a satoshi per node has an average of at least one, so    *)
(* every node that is kept has a channel and its score is a number         *)
(* (graph.New, Heuristics.GetScore).                                       *)
THEOREM ScoresAreDefined == Spec => []ScoresDefined
<1>1. TypeInv => ScoresDefined
  <2> SUFFICES ASSUME TypeInv, TotalCapacity >= N, NEW n \in nodes
               PROVE  Defined(n)
    BY DEF ScoresDefined
  <2>1. AvgNodeSize \in Nat /\ AvgNodeSize >= 1
    BY TotalType DEF TypeInv, Large
  <2>2. n \in Keys
    BY PathsAssumption DEF TypeInv, TypeOK, Nodes, Keys
  <2>3. CapacityOf(n) \in Nat /\ (channels[n] = << >> => CapacityOf(n) = 0)
    BY <2>2, CapacityType DEF TypeInv
  <2>4. CapacityOf(n) >= AvgNodeSize
    BY DEF TypeInv, Large
  <2> QED
    BY <2>1, <2>3, <2>4 DEF Defined
<1> QED
  BY <1>1, InitType, NextType, PTL DEF Spec
=============================================================================
