----------------------------- MODULE Centrality -----------------------------
(***************************************************************************)
(* getCentrality: one goroutine per node searches the network from that    *)
(* node (module Search, whose result is taken from Paths), sums up its own *)
(* distances and adds its dependencies to a slice all goroutines share.    *)
(* Floating point is modelled by exact multiples of 1 / Scale.             *)
(***************************************************************************)
EXTENDS Paths

CONSTANTS
    Lists,  \* adjacency lists of the graphs under consideration
    NumCPU  \* runtime.NumCPU(): goroutines at a time

(* A node that has been filtered out has an index and an empty list.       *)
ASSUME CentralityAssumption ==
    /\ Lists \subseteq [Nodes -> Seq(Nodes)]
    /\ NumCPU \in Nat \ {0}

VARIABLES
    adj,           \* adjacency list
    pc,            \* what each node's goroutine does next
    bc,            \* what the search of each goroutine has returned
    mu,            \* the goroutines that hold the mutex
    at,            \* element of bCentrality each goroutine is at
    value,         \* what it has read there
    sumDistances,
    bCentrality    \* times 2 * Scale

vars == <<adj, pc, bc, mu, at, value, sumDistances, bCentrality>>

(* Types.  At most one goroutine holds the mutex (getCentrality).          *)
TypeOK ==
    /\ adj \in [Nodes -> Seq(Nodes)]
    /\ pc \in [Nodes -> {"waiting", "search", "lock", "read", "write", "over"}]
    /\ bc \in [Nodes -> [Nodes -> Nat]]
    /\ \E s \in Nodes : mu \subseteq {s}
    /\ at \in [Nodes -> Nodes]
    /\ value \in [Nodes -> Nat]
    /\ sumDistances \in [Nodes -> Nat]
    /\ bCentrality \in [Nodes -> Nat]

Init ==
    /\ adj \in Lists
    /\ pc = [s \in Nodes |-> "waiting"]
    /\ bc = [s \in Nodes |-> [v \in Nodes |-> 0]]
    /\ mu = {}
    /\ at = [s \in Nodes |-> 0]
    /\ value = [s \in Nodes |-> 0]
    /\ sumDistances = [s \in Nodes |-> 0]
    /\ bCentrality = [s \in Nodes |-> 0]

Goto(s, stage) == pc' = [pc EXCEPT ![s] = stage]

(* g.Go, in any order of the map, as long as the limit allows another one. *)
Go(s) ==
    /\ pc[s] = "waiting"
    /\ Cardinality({t \in Nodes : pc[t] \notin {"waiting", "over"}}) < NumCPU
    /\ Goto(s, "search")
    /\ UNCHANGED <<adj, bc, mu, at, value, sumDistances, bCentrality>>

(* What getNodeCentrality returns for each network and node.               *)
Results ==
    [l \in Lists |-> [s \in Nodes |->
        [d |-> [t \in Nodes |-> Distance(l, s, t)],
         bc |-> [v \in Nodes |-> IF v = s THEN 0 ELSE Dependency(l, s, v)]]]]

(* Nodes before the first one that is out of reach.                        *)
Summed(d) == {t \in Nodes : \A u \in 0 .. t : d[u] # -1}

Search(s) ==
    /\ pc[s] = "search"
    /\ Goto(s, "lock")
    /\ LET result == Results[adj][s]
       IN  /\ bc' = [bc EXCEPT ![s] = result.bc]
           /\ sumDistances' = [sumDistances EXCEPT ![s] =
                 SumFunction([t \in Summed(result.d) |-> result.d[t]])]
    /\ UNCHANGED <<adj, mu, at, value, bCentrality>>

(* Mutant: there is no mutex.                                              *)
Enter(s) ==
    /\ pc[s] = "lock"
    /\ Goto(s, "read")
    /\ UNCHANGED <<adj, bc, mu, at, value, sumDistances, bCentrality>>

(* Mutant: the mutex is taken whether it is free or not.                   *)
LockTaken(s) ==
    /\ pc[s] = "lock"
    /\ mu' = mu \union {s}
    /\ Goto(s, "read")
    /\ UNCHANGED <<adj, bc, at, value, sumDistances, bCentrality>>

Lock(s) ==
    /\ pc[s] = "lock"
    /\ mu = {}
    /\ mu' = {s}
    /\ Goto(s, "read")
    /\ UNCHANGED <<adj, bc, at, value, sumDistances, bCentrality>>

Read(s) ==
    /\ pc[s] = "read"
    /\ value' = [value EXCEPT ![s] = bCentrality[at[s]]]
    /\ Goto(s, "write")
    /\ UNCHANGED <<adj, bc, mu, at, sumDistances, bCentrality>>

(* Mutant: the mutex is not released.                                      *)
WriteKeepingLock(s) ==
    /\ pc[s] = "write"
    /\ bCentrality' = [bCentrality EXCEPT ![at[s]] = value[s] + bc[s][at[s]]]
    /\ IF at[s] = N - 1
       THEN Goto(s, "over") /\ UNCHANGED at
       ELSE Goto(s, "read") /\ at' = [at EXCEPT ![s] = @ + 1]
    /\ UNCHANGED <<adj, bc, mu, value, sumDistances>>

(* The mutex is released behind the last element.                          *)
Write(s) ==
    /\ pc[s] = "write"
    /\ bCentrality' = [bCentrality EXCEPT ![at[s]] = value[s] + bc[s][at[s]]]
    /\ IF at[s] = N - 1
       THEN Goto(s, "over") /\ mu' = mu \ {s} /\ UNCHANGED at
       ELSE Goto(s, "read") /\ at' = [at EXCEPT ![s] = @ + 1] /\ UNCHANGED mu
    /\ UNCHANGED <<adj, bc, value, sumDistances>>

Goroutine(s) == Go(s) \/ Search(s) \/ Lock(s) \/ Read(s) \/ Write(s)

Next == \E s \in Nodes : Goroutine(s)

Spec == Init /\ [][Next]_vars

FairSpec == Spec /\ \A s \in Nodes : WF_vars(Goroutine(s))

(* g.Wait                                                                  *)
Over == \A s \in Nodes : pc[s] = "over"

(* When all the goroutines are over, none of their additions to the shared *)
(* slice has been lost, and a node that reaches all the others has the sum *)
(* of its distances (getCentrality).  Of other nodes it may have less: the *)
(* code stops at the first one out of reach.                               *)
SumsComplete ==
    Over => \A s \in Nodes :
        /\ bCentrality[s] = Betweenness(adj, s)
        /\ Reachable(adj, s) = Nodes =>
              sumDistances[s] = Remoteness(adj, s)

(* Whatever goroutines come between a read and the write that follows it,  *)
(* a written element grows from what it is at that moment by the share of  *)
(* the goroutine that writes it (the mutex in getCentrality).              *)
AdditionsAtomic ==
    [][\A v \in Nodes : bCentrality'[v] # bCentrality[v] =>
          \E s \in Nodes :
              /\ pc[s] = "write" /\ at[s] = v
              /\ bCentrality'[v] = bCentrality[v] + bc[s][v]]_vars

(* The inductive invariant of CentralityProofs: the mutex is held by the   *)
(* goroutine between its first read and its last write, and only by it,    *)
(* and what it has read is still there.                                    *)
Exclusive ==
    /\ pc \in [Nodes -> {"waiting", "search", "lock", "read", "write", "over"}]
    /\ at \in [Nodes -> Nodes]
    /\ value = [s \in Nodes |-> value[s]]
    /\ bCentrality = [v \in Nodes |-> bCentrality[v]]
    /\ mu = {s \in Nodes : pc[s] \in {"read", "write"}}
    /\ \A s, t \in mu : s = t
    /\ \A s \in Nodes : pc[s] = "write" => value[s] = bCentrality[at[s]]

(* It says that nothing has been lost so far: every element is the sum of  *)
(* what the goroutines that have passed it have found.                     *)
Added(v) ==
    {s \in Nodes : \/ pc[s] = "over"
                   \/ pc[s] \in {"read", "write"} /\ at[s] > v}

AddedUp ==
    /\ \A s \in Nodes :
          /\ pc[s] \in {"waiting", "search", "lock"} => at[s] = 0
          /\ pc[s] \notin {"waiting", "search"} =>
                LET result == Results[adj][s]
                IN  /\ bc[s] = result.bc
                    /\ sumDistances[s] =
                          SumFunction([t \in Summed(result.d) |-> result.d[t]])
    /\ \A v \in Nodes :
          bCentrality[v] = SumFunctionOnSet([s \in Nodes |-> bc[s][v]], Added(v))

(* The goroutines come to an end although they wait for a processor and    *)
(* for one mutex (getCentrality).                                          *)
Finishes == <>Over

(***************************************************************************)
(* getEigenvectorCentrality: starts from the number of channels and adds   *)
(* up the values of the peers three times.                                 *)
(***************************************************************************)
Iterations == 4

(* Mutant: every node starts with one.                                     *)
EigenvectorFromOnes ==
    LET matrix[i \in 1 .. Iterations] ==
            IF i = 1
            THEN [v \in Nodes |-> 1]
            ELSE LET before == matrix[i - 1]
                 IN  [v \in Nodes |->
                        SumFunction([e \in DOMAIN adj[v] |-> before[adj[v][e]]])]
    IN  matrix[Iterations]

Eigenvector ==
    LET matrix[i \in 1 .. Iterations] ==
            IF i = 1
            THEN [v \in Nodes |-> Len(adj[v])]
            ELSE LET before == matrix[i - 1]
                 IN  [v \in Nodes |->
                        SumFunction([e \in DOMAIN adj[v] |-> before[adj[v][e]]])]
    IN  matrix[Iterations]

(* The value of a node is the number of walks of four channels that begin  *)
(* there, through parallel channels and filtered nodes as well: summing    *)
(* backwards from the peers agrees with counting forwards from the node.   *)
EigenvectorCountsWalks ==
    Over => \A v \in Nodes :
        Eigenvector[v] = Cardinality(Walks(adj, v)[Iterations])
=============================================================================
