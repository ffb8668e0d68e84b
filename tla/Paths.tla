-------------------------------- MODULE Paths --------------------------------
(***************************************************************************)
(* What the centralities of a network are meant to be: distances and       *)
(* numbers of shortest paths in a directed multigraph that is given as an  *)
(* adjacency list.  These are the definitions that Search and Centrality   *)
(* are checked against; the code computes none of them like this.          *)
(***************************************************************************)
EXTENDS Integers, Sequences, FiniteSets, Functions

CONSTANTS
    N,      \* number of nodes, len(nodeIndices)
    Scale   \* quotients of numbers of paths are multiples of 1 / Scale

Nodes == 0 .. (N - 1)

ASSUME PathsAssumption == N \in Nat \ {0} /\ Scale \in Nat \ {0}

(* The walks of each length from s: the nodes on the way, each with the    *)
(* channel that was taken to it.  Parallel channels are different ways.    *)
End(walk) == walk[Len(walk)].node

Extended(adj, w, i) == Append(w, [channel |-> i, node |-> adj[End(w)][i]])

Longer(adj, walks) ==
    UNION {{Extended(adj, w, i) : i \in DOMAIN adj[End(w)]} : w \in walks}

Walks(adj, s) ==
    LET walks[k \in Nat] ==
            IF k = 0 THEN {<<[channel |-> 0, node |-> s]>>}
            ELSE Longer(adj, walks[k - 1])
    IN  walks

(* -1 for a node that cannot be reached.                                   *)
Distance(adj, s, t) ==
    LET lengths == {k \in 0 .. (N - 1) : \E w \in Walks(adj, s)[k] : End(w) = t}
    IN  IF lengths = {} THEN -1
        ELSE CHOOSE k \in lengths : \A l \in lengths : k <= l

ShortestPaths(adj, s, t) ==
    LET d == Distance(adj, s, t)
    IN  IF d < 0 THEN {} ELSE {w \in Walks(adj, s)[d] : End(w) = t}

(* No quotient by a number of shortest paths from s is rounded.            *)
Exact(adj, s) ==
    \A t \in Nodes : ShortestPaths(adj, s, t) # {} =>
        Scale % Cardinality(ShortestPaths(adj, s, t)) = 0

(* The share of the shortest paths from s to t that pass v, in 1 / Scale.  *)
Share(adj, s, v, t) ==
    LET paths == ShortestPaths(adj, s, t)
        passing == {w \in paths : \E i \in DOMAIN w : w[i].node = v}
    IN  IF paths = {} THEN 0
        ELSE (Scale * Cardinality(passing)) \div Cardinality(paths)

Dependency(adj, s, v) ==
    SumFunction([t \in Nodes \ {s, v} |-> Share(adj, s, v, t)])

(* The sum of the dependencies of all the other nodes on v.                *)
Betweenness(adj, v) ==
    SumFunction([s \in Nodes \ {v} |-> Dependency(adj, s, v)])

(* The sum of the distances to all the nodes that can be reached.          *)
Reachable(adj, s) == {t \in Nodes : Distance(adj, s, t) # -1}

Remoteness(adj, s) ==
    SumFunction([t \in Reachable(adj, s) |-> Distance(adj, s, t)])
=============================================================================
