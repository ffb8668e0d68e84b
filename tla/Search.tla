------------------------------- MODULE Search -------------------------------
(***************************************************************************)
(* getNodeCentrality: Brandes' algorithm from one source.  A breadth-first *)
(* search finds distances, numbers of shortest paths and predecessors; the *)
(* nodes are then taken back from a stack, the farthest first, and hand    *)
(* their dependency on to their predecessors.  Floating point is modelled  *)
(* by exact multiples of 1 / Scale.                                        *)
(***************************************************************************)
EXTENDS Paths

CONSTANT Lists  \* adjacency lists of the graphs under consideration

ASSUME SearchAssumption == Lists \subseteq [Nodes -> Seq(Nodes)]

(* Quotients of real numbers lose nothing, and Scale is to be such that    *)
(* those of the model do not either.  Finitely many lists have such a one. *)
ASSUME ExactAssumption == \A list \in Lists : \A s \in Nodes : Exact(list, s)

VARIABLES
    adj,        \* adjacency list, with one entry per channel
    source,     \* s
    distances,  \* distance from the source, -1 for infinity
    sigma,      \* number of shortest paths from the source
    pred,       \* predecessors on shortest paths
    queue,      \* nodes found and not visited
    stack,      \* nodes visited and not taken back
    edges,      \* neighbours of the top of the stack still to be looked at
    delta,      \* dependency of the source on each node, times Scale
    bc          \* what is returned for each node, times 2 * Scale

graph == <<adj, source>>
found == <<distances, sigma, pred>>
vars == <<graph, found, queue, stack, edges, delta, bc>>

Elements(seq) == {seq[i] : i \in DOMAIN seq}

(* Types.  A node is found once: it is in the queue or in the stack, and   *)
(* not twice (getNodeCentrality).                                          *)
TypeOK ==
    /\ adj \in [Nodes -> Seq(Nodes)] /\ source \in Nodes
    /\ distances \in [Nodes -> -1 .. (N - 1)]
    /\ sigma \in [Nodes -> Nat]
    /\ pred \in [Nodes -> Seq(Nodes)]
    /\ stack \o queue \in Seq(Nodes)
    /\ Cardinality(Elements(stack \o queue)) = Len(stack \o queue)
    /\ edges \in Seq(Nodes)
    /\ delta \in [Nodes -> Nat] /\ bc \in [Nodes -> Nat]

Init ==
    /\ adj \in Lists
    /\ source \in Nodes
    /\ distances = [t \in Nodes |-> IF t = source THEN 0 ELSE -1]
    /\ sigma = [t \in Nodes |-> IF t = source THEN 1 ELSE 0]
    /\ pred = [t \in Nodes |-> << >>]
    /\ queue = <<source>>
    /\ stack = << >>
    /\ edges = << >>
    /\ delta = [t \in Nodes |-> 0]
    /\ bc = [t \in Nodes |-> 0]

Top == stack[Len(stack)]
Pop(seq) == SubSeq(seq, 1, Len(seq) - 1)

(* Mutant: the queue is a stack.                                           *)
VisitNewest ==
    /\ edges = << >> /\ queue # << >>
    /\ stack' = Append(stack, queue[Len(queue)])
    /\ queue' = Pop(queue)
    /\ edges' = adj[queue[Len(queue)]]
    /\ UNCHANGED <<graph, found, delta, bc>>

Visit ==
    /\ edges = << >> /\ queue # << >>
    /\ stack' = Append(stack, Head(queue))
    /\ queue' = Tail(queue)
    /\ edges' = adj[Head(queue)]
    /\ UNCHANGED <<graph, found, delta, bc>>

(* Mutant: a node is queued for every shortest path.                       *)
EdgeQueued ==
    /\ edges # << >>
    /\ LET v == Top
           w == Head(edges)
           d == IF distances[w] < 0 THEN distances[v] + 1 ELSE distances[w]
       IN  /\ distances' = [distances EXCEPT ![w] = d]
           /\ IF d = distances[v] + 1
              THEN /\ queue' = Append(queue, w)
                   /\ sigma' = [sigma EXCEPT ![w] = @ + sigma[v]]
                   /\ pred' = [pred EXCEPT ![w] = Append(@, v)]
              ELSE UNCHANGED <<queue, sigma, pred>>
    /\ edges' = Tail(edges)
    /\ UNCHANGED <<graph, stack, delta, bc>>

Edge ==
    /\ edges # << >>
    /\ LET v == Top
           w == Head(edges)
           new == distances[w] < 0
           d == IF new THEN distances[v] + 1 ELSE distances[w]
       IN  /\ distances' = [distances EXCEPT ![w] = d]
           /\ queue' = IF new THEN Append(queue, w) ELSE queue
           /\ IF d = distances[v] + 1
              THEN /\ sigma' = [sigma EXCEPT ![w] = @ + sigma[v]]
                   /\ pred' = [pred EXCEPT ![w] = Append(@, v)]
              ELSE UNCHANGED <<sigma, pred>>
    /\ edges' = Tail(edges)
    /\ UNCHANGED <<graph, stack, delta, bc>>

Searching == edges # << >> \/ queue # << >>

(* What w adds to the delta of v; v precedes w once per channel.           *)
Handed(v, w) ==
    Cardinality({i \in DOMAIN pred[w] : pred[w][i] = v})
        * ((sigma[v] * (Scale + delta[w])) \div sigma[w])

(* Mutant: the nodes are taken back in the order of their visits.          *)
BackFirst ==
    /\ ~Searching /\ stack # << >>
    /\ LET w == Head(stack)
       IN  /\ delta' = [v \in Nodes |-> delta[v] + Handed(v, w)]
           /\ bc' = IF w = source THEN bc ELSE [bc EXCEPT ![w] = @ + delta[w]]
    /\ stack' = Tail(stack)
    /\ UNCHANGED <<graph, found, queue, edges>>

Back ==
    /\ ~Searching /\ stack # << >>
    /\ LET w == Top
       IN  /\ delta' = [v \in Nodes |-> delta[v] + Handed(v, w)]
           /\ bc' = IF w = source THEN bc ELSE [bc EXCEPT ![w] = @ + delta[w]]
    /\ stack' = Pop(stack)
    /\ UNCHANGED <<graph, found, queue, edges>>

Next == Visit \/ Edge \/ Back

Spec == Init /\ [][Next]_vars

(* No distance that has been set is ever wrong, no node within reach is    *)
(* missed, and a node is not visited before all the shortest paths to it   *)
(* have been counted, parallel channels as paths of their own              *)
(* (the queue and the two tests in getNodeCentrality).                     *)
ShortestFound ==
    \A t \in Nodes :
        /\ distances[t] >= 0 \/ ~Searching => distances[t] = Distance(adj, source, t)
        /\ t \in Elements(stack) \/ ~Searching =>
              sigma[t] = Cardinality(ShortestPaths(adj, source, t))

(* In the end every node has the shares of the shortest paths from the     *)
(* source that lead through it, although each one is only handed on from   *)
(* node to node (Brandes' equation in getNodeCentrality).                  *)
DependenciesRight ==
    ~Searching /\ stack = << >> =>
        \A v \in Nodes :
            bc[v] = IF v = source THEN 0 ELSE Dependency(adj, source, v)
=============================================================================
