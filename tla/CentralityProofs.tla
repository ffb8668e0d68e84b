-------------------------- MODULE CentralityProofs --------------------------
(***************************************************************************)
(* The mutex of getCentrality and what it is there for, for any network    *)
(* and any number of processors.                                           *)
(***************************************************************************)
EXTENDS Centrality, MeasureProofs

(* Nobody holds the mutex before the first goroutine.                      *)
LEMMA InitExclusive == Init => Exclusive
<1> SUFFICES ASSUME Init PROVE Exclusive
  OBVIOUS
<1>1. 0 \in Nodes
  BY PathsAssumption DEF Nodes
<1> QED
  BY <1>1 DEF Init, Exclusive

(* Only the holder of the mutex is between reading and writing.            *)
LEMMA NextExclusive ==
  ASSUME Exclusive, [Next]_vars PROVE Exclusive'
<1> USE DEF Exclusive
<1>1. CASE UNCHANGED vars
  BY <1>1 DEF vars
<1>2. CASE Next
  <2> PICK s \in Nodes : Goroutine(s)
    BY <1>2 DEF Next
  <2>1. CASE Go(s)
    BY <2>1 DEF Go, Goto
  <2>2. CASE Search(s)
    BY <2>2 DEF Search, Goto
  <2>3. CASE Lock(s)
    BY <2>3 DEF Lock, Goto
  <2>4. CASE Read(s)
    BY <2>4 DEF Read, Goto
  <2>5. CASE Write(s)
    <3>1. s \in mu /\ pc[s] = "write"
      BY <2>5 DEF Write
    <3>2. \A t \in Nodes \ {s} : pc[t] \notin {"read", "write"}
      BY <3>1
    <3>3. bCentrality' = [v \in Nodes |-> bCentrality'[v]]
      BY <2>5 DEF Write
    <3>4. CASE at[s] = N - 1
      BY <2>5, <3>1, <3>2, <3>3, <3>4 DEF Write, Goto
    <3>5. CASE at[s] # N - 1
      <4>1. at[s] + 1 \in Nodes
        BY <3>5, PathsAssumption DEF Nodes
      <4> QED
        BY <2>5, <3>1, <3>2, <3>3, <3>5, <4>1 DEF Write, Goto
    <3> QED
      BY <3>4, <3>5
  <2> QED
    BY <2>1, <2>2, <2>3, <2>4, <2>5 DEF Goroutine
<1> QED
  BY <1>1, <1>2

(* At any time at most one goroutine is between its first read and its     *)
(* last write of the shared slice (the mutex of getCentrality).            *)
THEOREM MutualExclusion == Spec => []Exclusive
<1> QED
  BY InitExclusive, NextExclusive, PTL DEF Spec

(* A step that changes an element is a write, from the current value.      *)
LEMMA WriteAtomic ==
  ASSUME Exclusive, [Next]_vars, NEW v \in Nodes,
         bCentrality'[v] # bCentrality[v]
  PROVE  \E s \in Nodes : /\ pc[s] = "write" /\ at[s] = v
                          /\ bCentrality'[v] = bCentrality[v] + bc[s][v]
<1>1. PICK s \in Nodes : Goroutine(s)
  BY DEF Next, vars
<1>2. Write(s)
  BY <1>1 DEF Goroutine, Go, Search, Lock, Read
<1>3. /\ pc[s] = "write"
      /\ bCentrality' = [bCentrality EXCEPT ![at[s]] = value[s] + bc[s][at[s]]]
  BY <1>2 DEF Write
<1>4. at[s] = v
  BY <1>3 DEF Exclusive
<1> QED
  BY <1>3, <1>4 DEF Exclusive

(* No addition to a centrality is ever based on an older value than the    *)
(* one it replaces, for any network and number of goroutines.              *)
THEOREM AdditionsKept == Spec => AdditionsAtomic
<1>1. Exclusive /\ [Next]_vars =>
        [\A v \in Nodes : bCentrality'[v] # bCentrality[v] =>
            \E s \in Nodes : /\ pc[s] = "write" /\ at[s] = v
                             /\ bCentrality'[v] = bCentrality[v] + bc[s][v]]_vars
  BY WriteAtomic
<1> QED
  BY <1>1, MutualExclusion, PTL DEF Spec, AdditionsAtomic

(***************************************************************************)
(* Types                                                                   *)
(***************************************************************************)
(* What a search returns are distances and natural numbers.                *)
LEMMA ResultsType ==
  ASSUME NEW l \in Lists, NEW s \in Nodes
  PROVE  LET result == Results[l][s]
         IN  /\ result.d = [t \in Nodes |-> Distance(l, s, t)]
             /\ result.bc = [v \in Nodes |-> IF v = s THEN 0 ELSE Dependency(l, s, v)]
             /\ result.bc \in [Nodes -> Nat]
             /\ SumFunction([t \in Summed(result.d) |-> result.d[t]]) \in Nat
<1> DEFINE d == [t \in Nodes |-> Distance(l, s, t)]
<1>1. l \in Graphs
  BY CentralityAssumption DEF Graphs
<1>2. /\ Results[l][s].d = d
      /\ Results[l][s].bc = [v \in Nodes |-> IF v = s THEN 0 ELSE Dependency(l, s, v)]
  BY DEF Results
<1>3. \A v \in Nodes : Dependency(l, s, v) \in Nat
  BY <1>1, DependencyType
<1>4. Results[l][s].bc \in [Nodes -> Nat]
  BY <1>2, <1>3
<1>5. SumFunction([t \in Summed(d) |-> d[t]]) \in Nat
  BY DistancesSum DEF Summed
<1> QED
  BY <1>2, <1>4, <1>5

Typed == TypeOK /\ Exclusive /\ adj \in Lists

LEMMA InitTyped == Init => Typed
<1> SUFFICES ASSUME Init PROVE Typed
  OBVIOUS
<1>1. Exclusive
  BY InitExclusive
<1>2. 0 \in Nodes
  BY NodesFinite
<1>3. \E s \in Nodes : mu \subseteq {s}
  BY <1>2 DEF Init
<1>4. adj \in [Nodes -> Seq(Nodes)]
  BY CentralityAssumption DEF Init
<1> QED
  BY <1>1, <1>2, <1>3, <1>4 DEF Init, Typed, TypeOK

LEMMA NextTyped == ASSUME Typed, [Next]_vars PROVE Typed'
<1>1. Exclusive /\ Exclusive'
  BY NextExclusive DEF Typed
<1>2. \E s \in Nodes : mu' \subseteq {s}
  <2>1. mu' \subseteq Nodes /\ \A s, t \in mu' : s = t
    BY <1>1 DEF Exclusive
  <2>2. 0 \in Nodes
    BY NodesFinite
  <2>3. CASE mu' = {}
    BY <2>2, <2>3
  <2>4. CASE mu' # {}
    BY <2>1, <2>4
  <2> QED
    BY <2>3, <2>4
<1>3. pc' \in [Nodes -> {"waiting", "search", "lock", "read", "write", "over"}]
      /\ at' \in [Nodes -> Nodes]
  BY <1>1 DEF Exclusive
<1>4. /\ adj' = adj
      /\ bc' \in [Nodes -> [Nodes -> Nat]]
      /\ value' \in [Nodes -> Nat]
      /\ sumDistances' \in [Nodes -> Nat]
      /\ bCentrality' \in [Nodes -> Nat]
  <2> USE DEF Typed, TypeOK
  <2>1. CASE UNCHANGED vars
    BY <2>1 DEF vars
  <2>2. CASE Next
    <3> PICK s \in Nodes : Goroutine(s)
      BY <2>2 DEF Next
    <3>1. CASE Go(s)
      BY <3>1 DEF Go
    <3>2. CASE Search(s)
      <4>1. LET result == Results[adj][s]
            IN  /\ result.bc \in [Nodes -> Nat]
                /\ SumFunction([t \in Summed(result.d) |-> result.d[t]]) \in Nat
        BY ResultsType
      <4> QED
        BY <3>2, <4>1 DEF Search
    <3>3. CASE Lock(s)
      BY <3>3 DEF Lock
    <3>4. CASE Read(s)
      BY <3>4 DEF Read
    <3>5. CASE Write(s)
      <4>1. value[s] + bc[s][at[s]] \in Nat
        <5>1. at[s] \in Nodes /\ bc[s] \in [Nodes -> Nat] /\ value[s] \in Nat
          OBVIOUS
        <5>2. bc[s][at[s]] \in Nat
          BY <5>1
        <5>3. \A a, b \in Nat : a + b \in Nat
          OBVIOUS
        <5> QED
          BY <5>1, <5>2, <5>3, Zenon
      <4> QED
        BY <3>5, <4>1 DEF Write
    <3> QED
      BY <3>1, <3>2, <3>3, <3>4, <3>5 DEF Goroutine
  <2> QED
    BY <2>1, <2>2
<1> QED
  BY <1>1, <1>2, <1>3, <1>4 DEF Typed, TypeOK

LEMMA AlwaysTyped == Spec => []Typed
<1> QED
  BY InitTyped, NextTyped, PTL DEF Spec

(* Distances, dependencies and their sums are natural numbers, whichever   *)
(* nodes are out of reach, and one goroutine at a time is at the shared    *)
(* slice (getCentrality).                                                  *)
THEOREM CentralityTypeCorrect == Spec => []TypeOK
<1>1. Typed => TypeOK
  BY DEF Typed
<1> QED
  BY <1>1, AlwaysTyped, PTL

(***************************************************************************)
(* No addition is lost                                                     *)
(***************************************************************************)
(* What the goroutines have found for v.                                   *)
Shares(v) == [s \in Nodes |-> bc[s][v]]

Found(s) ==
    LET result == Results[adj][s]
    IN  /\ bc[s] = result.bc
        /\ sumDistances[s] = SumFunction([t \in Summed(result.d) |-> result.d[t]])

InvTyped == Typed /\ AddedUp

LEMMA InitAddedUp == Init => InvTyped
<1> SUFFICES ASSUME Init PROVE AddedUp
  BY InitTyped DEF InvTyped
<1>1. \A s \in Nodes : pc[s] = "waiting" /\ at[s] = 0
  BY DEF Init
<1>2. ASSUME NEW v \in Nodes
      PROVE  bCentrality[v] = SumFunctionOnSet(Shares(v), Added(v))
  <2>1. Added(v) = {}
    BY <1>1 DEF Added
  <2>2. bCentrality[v] = 0
    BY DEF Init
  <2> QED
    BY <2>1, <2>2, SumOfNone
<1> QED
  BY <1>1, <1>2 DEF AddedUp, Shares

(* A sum over some goroutines does not notice what the others find.        *)
LEMMA AddedFinite ==
  ASSUME NEW v PROVE Added(v) \in SUBSET Nodes /\ IsFiniteSet(Added(v))
<1>1. Added(v) \in SUBSET Nodes
  BY DEF Added
<1> QED
  BY <1>1, NodesFinite, FS_Subset

(* A step that neither adds to an element nor passes one leaves the sums.  *)
LEMMA SumsUntouched ==
  ASSUME InvTyped, UNCHANGED bCentrality,
         \A v \in Nodes : Added(v)' = Added(v),
         \A v \in Nodes : \A s \in Added(v) : bc'[s][v] = bc[s][v],
         NEW v \in Nodes
  PROVE  bCentrality'[v] = SumFunctionOnSet(Shares(v)', Added(v)')
<1>1. Added(v) \in SUBSET Nodes /\ IsFiniteSet(Added(v))
  BY AddedFinite
<1>2. \A s \in Added(v) : Shares(v)[s] = Shares(v)'[s]
  BY <1>1 DEF Shares
<1>3. SumFunctionOnSet(Shares(v), Added(v)) = SumFunctionOnSet(Shares(v)', Added(v))
  BY <1>1, <1>2, SumSame
<1>4. bCentrality[v] = SumFunctionOnSet(Shares(v), Added(v))
  BY DEF InvTyped, AddedUp, Shares
<1> QED
  BY <1>3, <1>4

(* The goroutine that passes an element has added its share to it.         *)
LEMMA WriteAdds ==
  ASSUME InvTyped, NEW s \in Nodes, Write(s), NEW v \in Nodes
  PROVE  bCentrality'[v] = SumFunctionOnSet(Shares(v)', Added(v)')
<1>1. /\ pc[s] = "write" /\ at[s] \in Nodes
      /\ bCentrality' = [bCentrality EXCEPT ![at[s]] = value[s] + bc[s][at[s]]]
      /\ UNCHANGED bc
      /\ \A t \in Nodes \ {s} : pc'[t] = pc[t] /\ at'[t] = at[t]
      /\ IF at[s] = N - 1 THEN pc'[s] = "over" /\ at'[s] = at[s]
         ELSE pc'[s] = "read" /\ at'[s] = at[s] + 1
  <2>1. /\ pc \in [Nodes -> {"waiting", "search", "lock", "read", "write", "over"}]
        /\ at \in [Nodes -> Nodes]
    BY DEF InvTyped, Typed, Exclusive
  <2>2. CASE at[s] = N - 1
    BY <2>1, <2>2 DEF Write, Goto
  <2>3. CASE at[s] # N - 1
    BY <2>1, <2>3 DEF Write, Goto
  <2> QED
    BY <2>2, <2>3
<1>2. value[s] = bCentrality[at[s]] /\ bCentrality \in [Nodes -> Nat]
  BY <1>1 DEF InvTyped, Typed, TypeOK, Exclusive
<1>3. \A t \in Nodes \ {s} : t \in Added(v)' <=> t \in Added(v)
  BY <1>1 DEF Added
<1>4. s \in Added(v) <=> at[s] > v
  BY <1>1 DEF Added
<1>5. s \in Added(v)' <=> at[s] >= v
  <2>1. v \in 0 .. (N - 1) /\ at[s] \in 0 .. (N - 1)
    BY <1>1 DEF Nodes
  <2>2. CASE at[s] = N - 1
    <3>1. s \in Added(v)'
      BY <1>1, <2>2 DEF Added
    <3> QED
      BY <2>1, <2>2, <3>1
  <2>3. CASE at[s] # N - 1
    <3>1. s \in Added(v)' <=> at[s] + 1 > v
      BY <1>1, <2>3 DEF Added
    <3> QED
      BY <2>1, <3>1
  <2> QED
    BY <2>2, <2>3
<1>6. UNCHANGED Shares(v)
  BY <1>1 DEF Shares
<1>7. bCentrality[v] = SumFunctionOnSet(Shares(v), Added(v))
  BY DEF InvTyped, AddedUp, Shares
<1>8. v \in Int /\ at[s] \in Int
  BY <1>1 DEF Nodes
<1>9. Added(v) \in SUBSET Nodes /\ Added(v)' \in SUBSET Nodes
  BY DEF Added
<1>10. CASE v # at[s]
  <2>1. Added(v)' = Added(v)
    <3>1. s \in Added(v)' <=> s \in Added(v)
      BY <1>4, <1>5, <1>8, <1>10
    <3> QED
      BY <1>3, <1>9, <3>1
  <2>2. bCentrality'[v] = bCentrality[v]
    BY <1>1, <1>2, <1>10
  <2> QED
    BY <1>6, <1>7, <2>1, <2>2
<1>11. CASE v = at[s]
  <2> DEFINE after == Added(v)'
  <2>1. s \in after /\ s \notin Added(v)
    BY <1>4, <1>5, <1>8, <1>11
  <2>2. after \ {s} = Added(v)
    BY <1>3, <1>9, <2>1
  <2>3. after \in SUBSET Nodes /\ IsFiniteSet(after)
    BY <1>9, NodesFinite, FS_Subset
  <2>4. \A t \in Nodes : Shares(v)[t] \in Int
    BY DEF Shares, InvTyped, Typed, TypeOK
  <2> HIDE DEF after
  <2>5. SumFunctionOnSet(Shares(v), after)
          = Shares(v)[s] + SumFunctionOnSet(Shares(v), after \ {s})
    BY <2>1, <2>3, <2>4, SumStep
  <2>6. bCentrality'[v] = bCentrality[v] + bc[s][v]
    BY <1>1, <1>2, <1>11
  <2>7. Shares(v)[s] = bc[s][v] /\ bCentrality[v] \in Int /\ bc[s][v] \in Int
    BY DEF Shares, InvTyped, Typed, TypeOK
  <2>8. SumFunctionOnSet(Shares(v), after) = bc[s][v] + bCentrality[v]
    BY <1>7, <2>2, <2>5, <2>7
  <2>9. bCentrality'[v] = SumFunctionOnSet(Shares(v), after)
    BY <2>6, <2>7, <2>8
  <2> QED
    BY <1>6, <2>9 DEF after
<1> QED
  BY <1>10, <1>11

LEMMA NextAddedUp == ASSUME InvTyped, [Next]_vars PROVE InvTyped'
<1>1. Typed /\ Typed'
  BY NextTyped DEF InvTyped
<1>2. /\ pc \in [Nodes -> {"waiting", "search", "lock", "read", "write", "over"}]
      /\ at \in [Nodes -> Nodes] /\ adj \in Lists
      /\ bc \in [Nodes -> [Nodes -> Nat]] /\ sumDistances \in [Nodes -> Nat]
  BY <1>1 DEF Typed, TypeOK
<1>3. \A s \in Nodes :
         /\ pc[s] \in {"waiting", "search", "lock"} => at[s] = 0
         /\ pc[s] \notin {"waiting", "search"} => Found(s)
  BY DEF InvTyped, AddedUp, Found
<1> DEFINE Local == \A s \in Nodes :
              /\ pc[s] \in {"waiting", "search", "lock"} => at[s] = 0
              /\ pc[s] \notin {"waiting", "search"} => Found(s)
           Global == \A v \in Nodes :
              bCentrality[v] = SumFunctionOnSet(Shares(v), Added(v))
<1>4. AddedUp' <=> Local' /\ Global'
  BY DEF AddedUp, Found, Shares
<1> SUFFICES Local' /\ Global'
  BY <1>1, <1>4 DEF InvTyped
<1>5. CASE UNCHANGED vars
  <2>1. UNCHANGED <<AddedUp, Local, Global>>
    BY <1>5 DEF vars, AddedUp, Found, Shares, Added
  <2>2. Local /\ Global
    BY DEF InvTyped, AddedUp, Found, Shares
  <2> QED
    BY <2>1, <2>2
<1>6. CASE Next
  <2> PICK s \in Nodes : Goroutine(s)
    BY <1>6 DEF Next
  <2>0. UNCHANGED adj
    BY DEF Goroutine, Go, Search, Lock, Read, Write
  <2>1. CASE Go(s)
    <3>1. /\ pc[s] = "waiting" /\ pc' = [pc EXCEPT ![s] = "search"]
          /\ UNCHANGED <<adj, bc, at, sumDistances, bCentrality>>
      BY <2>1 DEF Go, Goto
    <3>2. \A v \in Nodes : Added(v)' = Added(v)
      BY <1>2, <3>1 DEF Added
    <3>3. Global'
      BY <3>1, <3>2, SumsUntouched
    <3>4. Local'
      BY <1>2, <1>3, <3>1 DEF Found
    <3> QED
      BY <3>3, <3>4
  <2>2. CASE Search(s)
    <3>1. /\ pc[s] = "search" /\ pc' = [pc EXCEPT ![s] = "lock"]
          /\ UNCHANGED <<adj, at, bCentrality>>
          /\ bc' = [bc EXCEPT ![s] = Results[adj][s].bc]
          /\ sumDistances' = [sumDistances EXCEPT ![s] =
                SumFunction([t \in Summed(Results[adj][s].d) |->
                               Results[adj][s].d[t]])]
      BY <2>2 DEF Search, Goto
    <3>2. \A v \in Nodes : Added(v)' = Added(v) /\ s \notin Added(v)
      BY <1>2, <3>1 DEF Added
    <3>3. \A v \in Nodes : \A t \in Added(v) : t \in Nodes /\ bc'[t][v] = bc[t][v]
      BY <1>2, <3>1, <3>2 DEF Added
    <3>4. Global'
      BY <3>1, <3>2, <3>3, SumsUntouched
    <3>5. Found(s)'
      BY <1>2, <3>1 DEF Found
    <3>6. \A t \in Nodes \ {s} : pc'[t] = pc[t] /\ (Found(t)' <=> Found(t))
      BY <1>2, <3>1 DEF Found
    <3>7. pc'[s] = "lock" /\ at'[s] = 0 /\ UNCHANGED at
      BY <1>2, <1>3, <3>1
    <3>8. Local'
      <4> HIDE DEF Found
      <4> QED
        BY <1>3, <3>5, <3>6, <3>7
    <3> QED
      BY <3>4, <3>8
  <2>3. CASE Lock(s)
    <3>1. /\ pc[s] = "lock" /\ pc' = [pc EXCEPT ![s] = "read"]
          /\ UNCHANGED <<adj, bc, at, sumDistances, bCentrality>>
      BY <2>3 DEF Lock, Goto
    <3>2. ASSUME NEW v \in Nodes PROVE Added(v)' = Added(v)
      <4>1. at[s] = 0 /\ v \in Nat /\ ~(at[s] > v)
        BY <1>3, <3>1 DEF Nodes
      <4> QED
        BY <1>2, <3>1, <4>1 DEF Added
    <3>3. Global'
      BY <3>1, <3>2, SumsUntouched
    <3>4. Local'
      BY <1>2, <1>3, <3>1 DEF Found
    <3> QED
      BY <3>3, <3>4
  <2>4. CASE Read(s)
    <3>1. /\ pc[s] = "read" /\ pc' = [pc EXCEPT ![s] = "write"]
          /\ UNCHANGED <<adj, bc, at, sumDistances, bCentrality>>
      BY <2>4 DEF Read, Goto
    <3>2. \A v \in Nodes : Added(v)' = Added(v)
      BY <1>2, <3>1 DEF Added
    <3>3. Global'
      BY <3>1, <3>2, SumsUntouched
    <3>4. Local'
      BY <1>2, <1>3, <3>1 DEF Found
    <3> QED
      BY <3>3, <3>4
  <2>5. CASE Write(s)
    <3>1. Global'
      BY <2>5, WriteAdds
    <3>2. /\ pc[s] = "write" /\ pc'[s] \in {"read", "over"}
          /\ \A t \in Nodes \ {s} : pc'[t] = pc[t] /\ at'[t] = at[t]
          /\ UNCHANGED <<adj, bc, sumDistances>>
      BY <1>2, <2>5 DEF Write, Goto
    <3>3. \A t \in Nodes : Found(t)' <=> Found(t)
      BY <3>2 DEF Found
    <3>4. Local'
      <4> HIDE DEF Found
      <4> QED
        BY <1>3, <3>2, <3>3
    <3> QED
      BY <3>1, <3>4
  <2> QED
    BY <2>1, <2>2, <2>3, <2>4, <2>5 DEF Goroutine
<1> QED
  BY <1>5, <1>6

LEMMA AlwaysAddedUp == Spec => []InvTyped
<1> QED
  BY InitAddedUp, NextAddedUp, PTL DEF Spec

(* In the end every element is the sum over all the other nodes, and a     *)
(* node that reaches all of them has summed up all its distances.          *)
LEMMA SumsAreComplete == InvTyped => SumsComplete
<1> SUFFICES ASSUME InvTyped, Over, NEW v \in Nodes
             PROVE  /\ bCentrality[v] = Betweenness(adj, v)
                    /\ Reachable(adj, v) = Nodes =>
                          sumDistances[v] = Remoteness(adj, v)
  BY DEF SumsComplete
<1> DEFINE d(s) == [t \in Nodes |-> Distance(adj, s, t)]
<1>1. ASSUME NEW s \in Nodes
      PROVE  /\ bc[s] = [u \in Nodes |-> IF u = s THEN 0 ELSE Dependency(adj, s, u)]
             /\ sumDistances[s] = SumFunction([t \in Summed(d(s)) |-> d(s)[t]])
  <2>1. adj \in Lists /\ pc[s] \notin {"waiting", "search"}
    BY DEF InvTyped, Typed, Over
  <2>2. Found(s)
    BY <2>1 DEF InvTyped, AddedUp, Found
  <2>3. /\ Results[adj][s].d = d(s)
        /\ Results[adj][s].bc =
              [u \in Nodes |-> IF u = s THEN 0 ELSE Dependency(adj, s, u)]
    BY <2>1, ResultsType
  <2> QED
    BY <2>2, <2>3 DEF Found
<1>2. bCentrality[v] = Betweenness(adj, v)
  <2> DEFINE S == Nodes \ {v}
             f == [s \in S |-> Dependency(adj, s, v)]
  <2>1. Added(v) = Nodes
    BY DEF Added, Over
  <2>2. bCentrality[v] = SumFunctionOnSet(Shares(v), Nodes)
    BY <2>1 DEF InvTyped, AddedUp, Shares
  <2>3. \A s \in Nodes : Shares(v)[s] \in Int
    BY DEF Shares, InvTyped, Typed, TypeOK
  <2>4. SumFunctionOnSet(Shares(v), Nodes)
          = Shares(v)[v] + SumFunctionOnSet(Shares(v), Nodes \ {v})
        /\ SumFunctionOnSet(Shares(v), Nodes \ {v}) \in Int
    BY <2>3, NodesFinite, SumStep
  <2>5. Shares(v)[v] = 0
    BY <1>1 DEF Shares
  <2>6. IsFiniteSet(S)
    BY NodesFinite, FS_Subset
  <2>7. ASSUME NEW s \in S PROVE Shares(v)[s] = f[s]
    <3>1. s \in Nodes /\ s # v
      OBVIOUS
    <3>2. bc[s] = [u \in Nodes |-> IF u = s THEN 0 ELSE Dependency(adj, s, u)]
      BY <1>1, <3>1
    <3>3. bc[s][v] = Dependency(adj, s, v)
      BY <3>1, <3>2
    <3> QED
      BY <3>1, <3>3 DEF Shares
  <2>8. DOMAIN f = S /\ S = Nodes \ {v}
    OBVIOUS
  <2>9. Betweenness(adj, v) = SumFunctionOnSet(f, S)
    BY DEF Betweenness, SumFunction
  <2> HIDE DEF f, S
  <2>10. SumFunctionOnSet(Shares(v), S) = SumFunctionOnSet(f, S)
    BY <2>6, <2>7, SumSame
  <2> QED
    BY <2>2, <2>4, <2>5, <2>8, <2>9, <2>10
<1>3. ASSUME Reachable(adj, v) = Nodes
      PROVE  sumDistances[v] = Remoteness(adj, v)
  <2>1. \A t \in Nodes : Distance(adj, v, t) # -1
    BY <1>3 DEF Reachable
  <2>2. \A t \in Nodes : \A u \in 0 .. t : u \in Nodes
    BY PathsAssumption DEF Nodes
  <2>3. \A t \in Nodes : \A u \in 0 .. t : d(v)[u] # -1
    BY <2>1, <2>2
  <2>4. Summed(d(v)) = Nodes
    BY <2>3 DEF Summed
  <2>5. [t \in Nodes |-> d(v)[t]] = d(v)
    OBVIOUS
  <2> QED
    BY <1>1, <1>3, <2>4, <2>5 DEF Remoteness
<1> QED
  BY <1>2, <1>3

(* However the goroutines take turns and however many may run at a time,   *)
(* none of their additions is lost: the shared slice ends with the sums    *)
(* over all sources (the mutex in getCentrality).                          *)
THEOREM NothingLost == Spec => []SumsComplete
<1> QED
  BY SumsAreComplete, AlwaysAddedUp, PTL

(***************************************************************************)
(* Eigenvector centrality                                                  *)
(***************************************************************************)
(* The values after each iteration.                                        *)
Iterated(matrix) ==
    matrix = [i \in 1 .. Iterations |->
        IF i = 1
        THEN [v \in Nodes |-> Len(adj[v])]
        ELSE [v \in Nodes |->
                SumFunction([e \in DOMAIN adj[v] |-> matrix[i - 1][adj[v][e]]])]]

(* The numbers of walks satisfy the recursion that the values are defined  *)
(* by, and nothing else does.                                              *)
LEMMA WalksIterated ==
  ASSUME adj \in Graphs, NEW matrix, Iterated(matrix), NEW i \in 1 .. Iterations
  PROVE  matrix[i] = [v \in Nodes |-> Cardinality(Walks(adj, v)[i])]
<1> DEFINE walks(k) == [v \in Nodes |-> Cardinality(Walks(adj, v)[k])]
           A == {k \in Nat : k + 1 <= Iterations => matrix[k + 1] = walks(k + 1)}
<1>1. \A k \in 1 .. Iterations :
         matrix[k] = IF k = 1
                     THEN [v \in Nodes |-> Len(adj[v])]
                     ELSE [v \in Nodes |->
                             SumFunction([e \in DOMAIN adj[v] |->
                                            matrix[k - 1][adj[v][e]]])]
  BY DEF Iterated
<1>2. 0 \in A
  <2>1. \A v \in Nodes : Cardinality(Walks(adj, v)[1]) = Len(adj[v])
    BY WalksOfOne
  <2>2. matrix[1] = [v \in Nodes |-> Len(adj[v])]
    BY <1>1 DEF Iterations
  <2>3. matrix[1] = walks(1)
    BY <2>1, <2>2
  <2> QED
    BY <2>3
<1>3. ASSUME NEW k \in A PROVE k + 1 \in A
  <2>0. k \in Nat
    OBVIOUS
  <2> SUFFICES ASSUME k + 2 <= Iterations PROVE matrix[k + 2] = walks(k + 2)
    <3>1. (k + 1) + 1 = k + 2
      BY <2>0
    <3> QED
      BY <2>0, <3>1
  <2>1. matrix[k + 1] = walks(k + 1)
    BY <2>0 DEF Iterations
  <2>2. k + 2 \in 1 .. Iterations /\ k + 2 # 1 /\ (k + 2) - 1 = k + 1
    BY <2>0 DEF Iterations
  <2>3. matrix[k + 2] = [v \in Nodes |->
                           SumFunction([e \in DOMAIN adj[v] |->
                                          matrix[k + 1][adj[v][e]]])]
    <3>1. matrix[k + 2] = [v \in Nodes |->
                             SumFunction([e \in DOMAIN adj[v] |->
                                            matrix[(k + 2) - 1][adj[v][e]]])]
      BY <1>1, <2>2
    <3> QED
      BY <2>2, <3>1
  <2>4. ASSUME NEW v \in Nodes
        PROVE  SumFunction([e \in DOMAIN adj[v] |-> matrix[k + 1][adj[v][e]]])
                 = Cardinality(Walks(adj, v)[k + 2])
    <3> DEFINE S == DOMAIN adj[v]
               f == [e \in S |-> matrix[k + 1][adj[v][e]]]
               g == [e \in S |-> Cardinality(Walks(adj, adj[v][e])[k + 1])]
    <3>1. adj[v] \in Seq(Nodes)
      BY DEF Graphs
    <3>2. \A e \in S : adj[v][e] \in Nodes
      BY <3>1
    <3>3. ASSUME NEW e \in S PROVE f[e] = g[e]
      BY <2>1, <3>2
    <3>4. f = g
      BY <3>3
    <3>5. SumFunction(g) = SumFunctionOnSet(g, S)
      BY DEF SumFunction
    <3>6. Cardinality(Walks(adj, v)[(k + 1) + 1]) = SumFunctionOnSet(g, S)
      <4>1. k + 1 \in Nat
        BY <2>0
      <4> QED
        BY <4>1, WalksCounted
    <3>7. (k + 1) + 1 = k + 2
      BY <2>0
    <3> HIDE DEF f, g, S
    <3>8. SumFunction(f) = Cardinality(Walks(adj, v)[k + 2])
      BY <3>4, <3>5, <3>6, <3>7
    <3> QED
      BY <3>8 DEF f, S
  <2> QED
    BY <2>3, <2>4
<1>4. A = Nat
  <2> HIDE DEF A
  <2>1. A \subseteq Nat
    BY DEF A
  <2> QED
    BY <1>2, <1>3, <2>1, NaturalInduction
<1>5. i - 1 \in Nat /\ (i - 1) + 1 = i /\ i <= Iterations
  BY DEF Iterations
<1>6. i - 1 \in A
  BY <1>4, <1>5
<1> QED
  BY <1>5, <1>6

LEMMA WalksSolve ==
  ASSUME adj \in Graphs
  PROVE  Iterated([i \in 1 .. Iterations |->
                     [v \in Nodes |-> Cardinality(Walks(adj, v)[i])]])
<1> DEFINE walks(k) == [v \in Nodes |-> Cardinality(Walks(adj, v)[k])]
           m == [i \in 1 .. Iterations |-> walks(i)]
           next(i) == IF i = 1
                      THEN [v \in Nodes |-> Len(adj[v])]
                      ELSE [v \in Nodes |->
                              SumFunction([e \in DOMAIN adj[v] |->
                                             m[i - 1][adj[v][e]]])]
<1>1. ASSUME NEW i \in 1 .. Iterations PROVE walks(i) = next(i)
  <2>1. CASE i = 1
    <3>1. \A v \in Nodes : Cardinality(Walks(adj, v)[1]) = Len(adj[v])
      BY WalksOfOne
    <3> QED
      BY <2>1, <3>1
  <2>2. CASE i # 1
    <3>0. /\ i - 1 \in Nat /\ (i - 1) + 1 = i
          /\ i - 1 \in 1 .. Iterations
      BY <2>2 DEF Iterations
    <3>1. m[i - 1] = walks(i - 1)
      BY <3>0
    <3>2. ASSUME NEW v \in Nodes
          PROVE  SumFunction([e \in DOMAIN adj[v] |-> m[i - 1][adj[v][e]]])
                   = Cardinality(Walks(adj, v)[i])
      <4> DEFINE S == DOMAIN adj[v]
                 f == [e \in S |-> m[i - 1][adj[v][e]]]
                 g == [e \in S |-> Cardinality(Walks(adj, adj[v][e])[i - 1])]
      <4>1. adj[v] \in Seq(Nodes)
        BY DEF Graphs
      <4>2. \A e \in S : adj[v][e] \in Nodes
        BY <4>1
      <4>3. f = g
        <5> HIDE DEF m
        <5> QED
          BY <3>1, <4>2
      <4>4. SumFunction(g) = SumFunctionOnSet(g, S)
        BY DEF SumFunction
      <4>5. Cardinality(Walks(adj, v)[(i - 1) + 1]) = SumFunctionOnSet(g, S)
        BY <3>0, WalksCounted
      <4> HIDE DEF f, g, S
      <4>6. SumFunction(f) = Cardinality(Walks(adj, v)[i])
        BY <3>0, <4>3, <4>4, <4>5
      <4> QED
        BY <4>6 DEF f, S
    <3> HIDE DEF m
    <3> QED
      BY <2>2, <3>2
  <2> QED
    BY <2>1, <2>2
<1>2. m = [i \in 1 .. Iterations |-> next(i)]
  <2> HIDE DEF walks, next
  <2>1. m = [i \in 1 .. Iterations |-> walks(i)]
    BY DEF m
  <2> HIDE DEF m
  <2> QED
    BY <1>1, <2>1
<1> QED
  BY <1>2 DEF Iterated

LEMMA EigenvectorIs ==
  ASSUME adj \in Graphs
  PROVE  Eigenvector = [v \in Nodes |-> Cardinality(Walks(adj, v)[Iterations])]
<1> DEFINE M == CHOOSE matrix : Iterated(matrix)
<1>1. Iterated(M)
  BY WalksSolve
<1>2. Eigenvector = M[Iterations]
  BY DEF Eigenvector, Iterated
<1>3. Iterations \in 1 .. Iterations
  BY DEF Iterations
<1> HIDE DEF M
<1>4. M[Iterations] = [v \in Nodes |-> Cardinality(Walks(adj, v)[Iterations])]
  BY <1>1, <1>3, WalksIterated
<1> QED
  BY <1>2, <1>4

(* Adding up the values of the peers three times counts the walks of four  *)
(* channels, in any network (getEigenvectorCentrality).                    *)
THEOREM WalksAreCounted == Spec => []EigenvectorCountsWalks
<1>1. ASSUME Typed PROVE EigenvectorCountsWalks
  <2>1. adj \in Graphs
    BY <1>1 DEF Typed, TypeOK, Graphs
  <2>2. Eigenvector = [v \in Nodes |-> Cardinality(Walks(adj, v)[Iterations])]
    BY <2>1, EigenvectorIs
  <2> QED
    BY <2>2 DEF EigenvectorCountsWalks
<1> QED
  BY <1>1, AlwaysTyped, PTL
=============================================================================
