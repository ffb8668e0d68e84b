---------------------------- MODULE SearchProofs ----------------------------
(***************************************************************************)
(* Theorems of Search: in every multigraph the breadth-first search of     *)
(* getNodeCentrality settles each distance and each number of shortest     *)
(* paths rightly, and what it hands back are the right dependencies.       *)
(***************************************************************************)
EXTENDS Search, MeasureProofs

(* Nodes in the order in which they were found; as many have been visited  *)
(* as are in the stack.                                                    *)
Order == stack \o queue

(* The channels of the visited nodes that have been looked at.             *)
Looked(v, i) ==
    \E p \in 1 .. Len(stack) :
       /\ Order[p] = v
       /\ i \in 1 .. (IF p = Len(stack) THEN Len(adj[v]) - Len(edges) ELSE Len(adj[v]))

LookedAt == {x \in Nodes \X Nat : Looked(x[1], x[2])}

SearchTyped ==
    /\ adj \in Graphs /\ source \in Nodes
    /\ distances \in [Nodes -> Int] /\ sigma \in [Nodes -> Nat]
    /\ pred \in [Nodes -> Seq(Nodes)]
    /\ stack \in Seq(Nodes) /\ queue \in Seq(Nodes) /\ edges \in Seq(Nodes)
    /\ delta \in [Nodes -> Nat] /\ bc \in [Nodes -> Nat]

(* Nodes are found once, nearer ones first, and no node in the queue is    *)
(* more than one step farther than the one that is being visited.          *)
Breadth ==
    /\ stack # << >> \/ Len(Order) = 1
    /\ \A t \in Nodes : distances[t] # -1 <=> \E i \in 1 .. Len(Order) : Order[i] = t
    /\ \A i, j \in 1 .. Len(Order) : Order[i] = Order[j] => i = j
    /\ \A i, j \in 1 .. Len(Order) :
          i <= j => distances[Order[i]] <= distances[Order[j]]
    /\ \A i \in 1 .. Len(Order) :
          stack # << >> => distances[Order[i]] <= distances[Order[Len(stack)]] + 1

(* The channels of the node being visited that are still to be looked at.  *)
Remaining ==
    /\ stack = << >> => edges = << >>
    /\ stack # << >> =>
          LET row == adj[Order[Len(stack)]]
          IN  /\ Len(edges) <= Len(row)
              /\ \A j \in 1 .. Len(edges) :
                    edges[j] = row[(Len(row) - Len(edges)) + j]

(* What has been found is right, and every channel that has been looked at *)
(* has been followed and counted.                                          *)
Followed ==
    /\ distances[source] = 0
    /\ \A t \in Nodes : distances[t] # -1 => distances[t] = Distance(adj, source, t)
    /\ \A v \in Nodes : \A i \in DOMAIN adj[v] :
          Looked(v, i) => distances[adj[v][i]] # -1
    /\ \A t \in Nodes : sigma[t] = Cardinality(Along(adj, source, t, LookedAt))

Breadthfirst == SearchTyped /\ Breadth /\ Remaining /\ Followed

LEMMA OrderFacts ==
  ASSUME SearchTyped
  PROVE  /\ Order \in Seq(Nodes) /\ Len(Order) \in Nat /\ Len(stack) \in Nat
         /\ Len(Order) = Len(stack) + Len(queue)
         /\ \A p \in 1 .. Len(stack) : Order[p] = stack[p]
         /\ \A p \in 1 .. Len(queue) : Order[Len(stack) + p] = queue[p]
         /\ \A p \in 1 .. Len(Order) : Order[p] \in Nodes
         /\ stack = << >> <=> Len(stack) = 0
  BY DEF Order, SearchTyped

(* Everything that is not farther than the node being visited is found.    *)
LEMMA NearFound ==
  ASSUME Breadthfirst, stack # << >>, NEW t \in Nodes,
         Distance(adj, source, t) # -1,
         Distance(adj, source, t) <= distances[Order[Len(stack)]]
  PROVE  distances[t] # -1
<1> DEFINE n == Len(stack)
           top == distances[Order[n]]
           A == {k \in Nat : k <= top => \A x \in Nodes :
                               Distance(adj, source, x) = k => distances[x] # -1}
<1>0. /\ adj \in Graphs /\ source \in Nodes
      /\ n \in 1 .. Len(Order) /\ n \in Nat /\ Len(Order) \in Nat
      /\ \A p \in 1 .. Len(Order) : Order[p] \in Nodes
  <2>1. SearchTyped
    BY DEF Breadthfirst
  <2>2. Len(queue) \in Nat /\ adj \in Graphs /\ source \in Nodes
    BY <2>1 DEF SearchTyped
  <2> QED
    BY <2>1, <2>2, OrderFacts
<1>1. 0 \in A
  <2>1. \A x \in Nodes : Distance(adj, source, x) = 0 => x = source
    BY <1>0, DistanceStart
  <2>2. distances[source] # -1
    BY DEF Breadthfirst, Followed
  <2> QED
    BY <2>1, <2>2
<1>2. ASSUME NEW k \in A PROVE k + 1 \in A
  <2>0. k \in Nat
    OBVIOUS
  <2> SUFFICES ASSUME k + 1 <= top, NEW x \in Nodes,
                      Distance(adj, source, x) = k + 1
               PROVE  distances[x] # -1
    BY <2>0
  <2>1. top \in Int
    BY <1>0 DEF Breadthfirst, SearchTyped
  <2>2. PICK v \in Nodes : /\ Distance(adj, source, v) = k
                           /\ \E i \in DOMAIN adj[v] : adj[v][i] = x
    BY <1>0, <2>0, Predecessor
  <2>3. PICK i \in DOMAIN adj[v] : adj[v][i] = x
    BY <2>2
  <2>4. distances[v] # -1
    BY <2>0, <2>1, <2>2
  <2>5. distances[v] = k
    BY <2>2, <2>4 DEF Breadthfirst, Followed
  <2>6. PICK p \in 1 .. Len(Order) : Order[p] = v
    BY <2>4 DEF Breadthfirst, Breadth
  <2>7. p < n
    <3> SUFFICES ASSUME n <= p PROVE FALSE
      BY <1>0
    <3>1. distances[Order[n]] <= distances[Order[p]]
      BY <1>0 DEF Breadthfirst, Breadth
    <3> QED
      BY <2>0, <2>1, <2>5, <2>6, <3>1
  <2>8. i \in 1 .. Len(adj[v])
    BY <1>0 DEF Graphs
  <2>9. Looked(v, i)
    BY <1>0, <2>6, <2>7, <2>8 DEF Looked
  <2> QED
    BY <2>3, <2>9 DEF Breadthfirst, Followed
<1>3. A = Nat
  <2> HIDE DEF A
  <2>1. A \subseteq Nat
    BY DEF A
  <2> QED
    BY <1>1, <1>2, <2>1, NaturalInduction
<1>4. Distance(adj, source, t) \in Nat
  BY <1>0, DistanceReached
<1> QED
  BY <1>3, <1>4

(* Once there is nothing left to look at everything within reach is found. *)
LEMMA AllFound ==
  ASSUME Breadthfirst, ~Searching, NEW t \in Nodes,
         Distance(adj, source, t) # -1
  PROVE  distances[t] # -1
<1> DEFINE A == {k \in Nat : \A x \in Nodes :
                               Distance(adj, source, x) = k => distances[x] # -1}
<1>0. /\ adj \in Graphs /\ source \in Nodes
      /\ edges = << >> /\ queue = << >> /\ Len(stack) = Len(Order)
      /\ Len(Order) \in Nat
  BY OrderFacts, SMTT(30) DEF Breadthfirst, SearchTyped, Searching
<1>1. 0 \in A
  <2>1. \A x \in Nodes : Distance(adj, source, x) = 0 => x = source
    BY <1>0, DistanceStart
  <2>2. distances[source] # -1
    BY DEF Breadthfirst, Followed
  <2> QED
    BY <2>1, <2>2
<1>2. ASSUME NEW k \in A PROVE k + 1 \in A
  <2>0. k \in Nat
    OBVIOUS
  <2> SUFFICES ASSUME NEW x \in Nodes, Distance(adj, source, x) = k + 1
               PROVE  distances[x] # -1
    BY <2>0
  <2>1. PICK v \in Nodes : /\ Distance(adj, source, v) = k
                           /\ \E i \in DOMAIN adj[v] : adj[v][i] = x
    BY <1>0, <2>0, Predecessor
  <2>2. PICK i \in DOMAIN adj[v] : adj[v][i] = x
    BY <2>1
  <2>3. distances[v] # -1
    BY <2>1
  <2>4. PICK p \in 1 .. Len(Order) : Order[p] = v
    BY <2>3 DEF Breadthfirst, Breadth
  <2>5. i \in 1 .. Len(adj[v]) /\ Len(adj[v]) - Len(edges) = Len(adj[v])
    BY <1>0 DEF Graphs
  <2>6. Looked(v, i)
    BY <1>0, <2>4, <2>5 DEF Looked
  <2> QED
    BY <2>2, <2>6 DEF Breadthfirst, Followed
<1>3. A = Nat
  <2> HIDE DEF A
  <2>1. A \subseteq Nat
    BY DEF A
  <2> QED
    BY <1>1, <1>2, <2>1, NaturalInduction
<1>4. Distance(adj, source, t) \in Nat
  BY <1>0, DistanceReached
<1> QED
  BY <1>3, <1>4

(* All the shortest paths to a node have been counted when it is visited:  *)
(* the last steps come from nearer nodes, which have been visited before.  *)
LEMMA VisitedCounted ==
  ASSUME Breadthfirst, NEW q \in 1 .. Len(stack)
  PROVE  /\ sigma[Order[q]] = Cardinality(ShortestPaths(adj, source, Order[q]))
         /\ distances[Order[q]] # -1
<1> DEFINE n == Len(stack)
           t == Order[q]
<1>0. /\ adj \in Graphs /\ source \in Nodes /\ n \in Nat /\ n <= Len(Order)
      /\ t \in Nodes /\ stack # << >> /\ Len(Order) \in Nat
      /\ distances \in [Nodes -> Int]
      /\ \A p \in 1 .. Len(Order) : Order[p] \in Nodes
  <2>1. SearchTyped
    BY DEF Breadthfirst
  <2>2. /\ Len(queue) \in Nat /\ adj \in Graphs /\ source \in Nodes
        /\ distances \in [Nodes -> Int]
    BY <2>1 DEF SearchTyped
  <2> QED
    BY <2>1, <2>2, OrderFacts
<1> USE DEF Breadthfirst
<1>1. distances[t] # -1 /\ distances[t] = Distance(adj, source, t)
  BY <1>0 DEF Breadth, Followed
<1>2. distances[t] <= distances[Order[n]]
  BY <1>0, SMTT(30) DEF Breadth
<1>3. ASSUME NEW v \in Nodes, NEW i \in DOMAIN adj[v],
             Distance(adj, source, v) # -1,
             Distance(adj, source, t) = Distance(adj, source, v) + 1
      PROVE  <<v, i>> \in LookedAt
  <2>1. Distance(adj, source, v) \in Nat /\ Order[n] \in Nodes
    BY <1>0, <1>3, DistanceReached
  <2>2. Distance(adj, source, v) <= distances[Order[n]]
    BY <1>0, <1>1, <1>2, <1>3, <2>1
  <2>3. distances[v] # -1
    BY <1>0, <1>3, <2>2, NearFound
  <2>4. PICK p \in 1 .. Len(Order) : Order[p] = v
    BY <2>3 DEF Breadth
  <2>5. distances[v] < distances[t]
    BY <1>1, <1>3, <2>1, <2>3 DEF Followed
  <2>6. p < q
    <3> SUFFICES ASSUME q <= p PROVE FALSE
      BY <1>0
    <3>1. distances[Order[q]] <= distances[Order[p]]
      BY <1>0 DEF Breadth
    <3>2. distances[t] \in Int /\ distances[v] \in Int
      BY <1>0
    <3> QED
      BY <2>4, <2>5, <3>1, <3>2
  <2>7. i \in 1 .. Len(adj[v]) /\ i \in Nat
    <3>1. adj[v] \in Seq(Nodes)
      BY <1>0 DEF Graphs
    <3> HIDE DEF Breadthfirst
    <3> QED
      BY <3>1
  <2>8. Looked(v, i)
    BY <1>0, <2>4, <2>6, <2>7 DEF Looked
  <2> QED
    BY <2>7, <2>8 DEF LookedAt
<1>4. Along(adj, source, t, LookedAt) = ShortestPaths(adj, source, t)
  BY <1>0, <1>3, AlongAll
<1>5. sigma[t] = Cardinality(Along(adj, source, t, LookedAt))
  BY <1>0 DEF Followed
<1> QED
  BY <1>1, <1>4, <1>5

LEMMA SearchedRight ==
  ASSUME Breadthfirst
  PROVE  /\ ShortestFound
         /\ \A p \in 1 .. Len(stack) : distances[stack[p]] # -1
<1>0. /\ SearchTyped /\ adj \in Graphs /\ source \in Nodes
      /\ distances \in [Nodes -> Int]
  BY DEF Breadthfirst, SearchTyped
<1> USE DEF Breadthfirst
<1>1. \A p \in 1 .. Len(stack) : Order[p] = stack[p] /\ stack[p] \in Nodes
  <2>1. \A p \in 1 .. Len(stack) : Order[p] = stack[p]
    BY <1>0, OrderFacts
  <2>2. stack \in Seq(Nodes)
    BY <1>0 DEF SearchTyped
  <2>3. \A p \in 1 .. Len(stack) : stack[p] \in Nodes
    BY <2>2
  <2> QED
    BY <2>1, <2>3
<1>2. ASSUME NEW t \in Nodes, distances[t] >= 0 \/ ~Searching
      PROVE  distances[t] = Distance(adj, source, t)
  <2>1. CASE distances[t] # -1
    BY <2>1 DEF Followed
  <2>2. CASE distances[t] = -1
    <3>1. ~Searching
      BY <1>2, <2>2
    <3>2. Distance(adj, source, t) = -1
      BY <2>2, <3>1, AllFound
    <3> QED
      BY <2>2, <3>2
  <2> QED
    BY <2>1, <2>2
<1>3. ASSUME NEW t \in Nodes, t \in Elements(stack)
      PROVE  sigma[t] = Cardinality(ShortestPaths(adj, source, t))
  <2>1. PICK p \in 1 .. Len(stack) : stack[p] = t
    <3>1. DOMAIN stack = 1 .. Len(stack)
      BY <1>0 DEF SearchTyped
    <3> QED
      BY <1>3, <3>1 DEF Elements
  <2> QED
    BY <1>1, <2>1, VisitedCounted
<1>4. ASSUME NEW t \in Nodes, ~Searching
      PROVE  sigma[t] = Cardinality(ShortestPaths(adj, source, t))
  <2>1. CASE distances[t] # -1
    <3>1. PICK p \in 1 .. Len(Order) : Order[p] = t
      BY <2>1 DEF Breadth
    <3>2. queue = << >>
      BY <1>4 DEF Searching
    <3>3. Len(Order) = Len(stack)
      <4>1. Len(queue) = 0
        BY <3>2
      <4>2. Len(Order) = Len(stack) + Len(queue) /\ Len(stack) \in Nat
        BY <1>0, OrderFacts
      <4> HIDE DEF Breadthfirst
      <4> QED
        BY <4>1, <4>2
    <3> QED
      BY <3>1, <3>3, VisitedCounted
  <2>2. CASE distances[t] = -1
    <3>1. Distance(adj, source, t) = -1
      BY <1>4, <2>2, AllFound
    <3>2. ShortestPaths(adj, source, t) = {}
      BY <1>0, <3>1, ShortestFinite
    <3>3. Along(adj, source, t, LookedAt) = {}
      BY <3>2 DEF Along
    <3>4. sigma[t] = Cardinality(Along(adj, source, t, LookedAt))
      BY DEF Followed
    <3> QED
      BY <3>2, <3>3, <3>4
  <2> QED
    BY <2>1, <2>2
<1>5. ShortestFound
  <2>1. \A t \in Nodes :
           /\ distances[t] >= 0 \/ ~Searching =>
                 distances[t] = Distance(adj, source, t)
           /\ t \in Elements(stack) \/ ~Searching =>
                 sigma[t] = Cardinality(ShortestPaths(adj, source, t))
    BY <1>2, <1>3, <1>4
  <2> QED
    BY <2>1 DEF ShortestFound
<1>6. \A p \in 1 .. Len(stack) : distances[stack[p]] # -1
  BY <1>1, VisitedCounted
<1> QED
  BY <1>5, <1>6

(***************************************************************************)
(* Steps of the search                                                     *)
(***************************************************************************)
LEMMA Moved ==
  ASSUME NEW T, NEW s \in Seq(T), NEW q \in Seq(T), q # << >>
  PROVE  Append(s, Head(q)) \o Tail(q) = s \o q
<1> DEFINE a == Append(s, Head(q)) \o Tail(q)
           b == s \o q
<1>1. Head(q) \in T /\ Tail(q) \in Seq(T) /\ Len(q) \in Nat \ {0} /\ Len(s) \in Nat
  OBVIOUS
<1>2. Append(s, Head(q)) \in Seq(T) /\ Len(Append(s, Head(q))) = Len(s) + 1
  BY <1>1
<1>3. Len(a) = Len(s) + Len(q) /\ Len(b) = Len(s) + Len(q)
  BY <1>1, <1>2
<1>4. \A j \in 1 .. Len(s) + Len(q) : a[j] = b[j]
  <2> SUFFICES ASSUME NEW j \in 1 .. Len(s) + Len(q) PROVE a[j] = b[j]
    OBVIOUS
  <2>1. CASE j <= Len(s)
    BY <1>1, <1>2, <2>1
  <2>2. CASE j = Len(s) + 1
    BY <1>1, <1>2, <2>2
  <2>3. CASE j > Len(s) + 1
    <3>1. a[j] = Tail(q)[j - (Len(s) + 1)]
      BY <1>1, <1>2, <2>3
    <3>2. b[j] = q[j - Len(s)]
      BY <1>1, <2>3
    <3>3. Tail(q)[j - (Len(s) + 1)] = q[j - Len(s)]
      BY <1>1, <2>3
    <3> QED
      BY <3>1, <3>2, <3>3
  <2> QED
    BY <1>1, <2>1, <2>2, <2>3
<1>5. a \in Seq(T) /\ b \in Seq(T)
  BY <1>1, <1>2
<1> HIDE DEF a, b
<1>6. a = [j \in 1 .. Len(a) |-> a[j]] /\ b = [j \in 1 .. Len(b) |-> b[j]]
  BY <1>5
<1>7. a = b
  BY <1>3, <1>4, <1>6
<1> QED
  BY <1>7 DEF a, b

LEMMA Appended ==
  ASSUME NEW T, NEW s \in Seq(T), NEW q \in Seq(T), NEW x \in T
  PROVE  s \o Append(q, x) = Append(s \o q, x)
<1> DEFINE a == s \o Append(q, x)
           b == Append(s \o q, x)
<1>1. /\ Len(q) \in Nat /\ Len(s) \in Nat
      /\ Append(q, x) \in Seq(T) /\ s \o q \in Seq(T)
  OBVIOUS
<1>2. Len(Append(q, x)) = Len(q) + 1 /\ Len(s \o q) = Len(s) + Len(q)
  BY <1>1
<1>3. Len(a) = Len(s) + Len(q) + 1 /\ Len(b) = Len(s) + Len(q) + 1
  BY <1>1, <1>2
<1>4. \A j \in 1 .. Len(s) + Len(q) + 1 : a[j] = b[j]
  <2> SUFFICES ASSUME NEW j \in 1 .. Len(s) + Len(q) + 1 PROVE a[j] = b[j]
    OBVIOUS
  <2>1. CASE j <= Len(s)
    BY <1>1, <1>2, <2>1
  <2>2. CASE j > Len(s)
    BY <1>1, <1>2, <2>2
  <2> QED
    BY <1>1, <2>1, <2>2
<1>5. a \in Seq(T) /\ b \in Seq(T)
  BY <1>1, <1>2
<1> HIDE DEF a, b
<1>6. a = [j \in 1 .. Len(a) |-> a[j]] /\ b = [j \in 1 .. Len(b) |-> b[j]]
  BY <1>5
<1>7. a = b
  BY <1>3, <1>4, <1>6
<1> QED
  BY <1>7 DEF a, b

(* What follows from the same channels looked at.                          *)
LEMMA SameLooked ==
  ASSUME Breadthfirst, SearchTyped', Breadth', Remaining',
         UNCHANGED <<adj, source, distances, sigma>>,
         \A v \in Nodes, i \in Nat : Looked(v, i)' <=> Looked(v, i)
  PROVE  Breadthfirst'
<1>0. adj \in Graphs
  BY DEF Breadthfirst, SearchTyped
<1>1. LookedAt' = LookedAt
  BY DEF LookedAt
<1>2. ASSUME NEW v \in Nodes, NEW i \in DOMAIN adj[v], Looked(v, i)'
      PROVE  distances[adj[v][i]] # -1
  <2>1. adj[v] \in Seq(Nodes)
    BY <1>0 DEF Graphs
  <2>2. i \in Nat
    BY <2>1
  <2> QED
    BY <1>2, <2>2 DEF Breadthfirst, Followed
<1>3. Followed'
  <2>1. \A t \in Nodes : sigma'[t] = Cardinality(Along(adj', source', t, LookedAt'))
    BY <1>1 DEF Breadthfirst, Followed
  <2> QED
    BY <1>2, <2>1 DEF Breadthfirst, Followed
<1> QED
  BY <1>3 DEF Breadthfirst

LEMMA VisitBreadth ==
  ASSUME Breadthfirst, Visit
  PROVE  /\ Breadthfirst'
         /\ \A v \in Nodes, i \in Nat : Looked(v, i)' <=> Looked(v, i)
<1> DEFINE n == Len(stack)
<1>1. /\ edges = << >> /\ queue # << >>
      /\ stack' = Append(stack, Head(queue)) /\ queue' = Tail(queue)
      /\ edges' = adj[Head(queue)]
      /\ UNCHANGED <<adj, source, distances, sigma, pred, delta, bc>>
  BY DEF Visit, graph, found
<1>2. /\ SearchTyped /\ adj \in Graphs /\ source \in Nodes
      /\ stack \in Seq(Nodes) /\ queue \in Seq(Nodes)
      /\ distances \in [Nodes -> Int]
  BY DEF Breadthfirst, SearchTyped
<1>3. Head(queue) \in Nodes /\ Len(queue) \in Nat \ {0} /\ n \in Nat /\ Len(edges) = 0
  BY <1>1, <1>2
<1>4. Order' = Order
  BY <1>1, <1>2, Moved DEF Order
<1>5. Len(stack') = n + 1 /\ stack' # << >>
  BY <1>1, <1>2, SMTT(30)
<1>6. /\ n + 1 \in 1 .. Len(Order) /\ Order[n + 1] = Head(queue)
      /\ Len(Order) \in Nat
      /\ \A p \in 1 .. Len(Order) : Order[p] \in Nodes
  <2>1. /\ Len(Order) = n + Len(queue) /\ Len(Order) \in Nat
        /\ \A p \in 1 .. Len(queue) : Order[n + p] = queue[p]
        /\ \A p \in 1 .. Len(Order) : Order[p] \in Nodes
    BY <1>2, OrderFacts
  <2>2. 1 \in 1 .. Len(queue)
    BY <1>3
  <2> QED
    BY <1>1, <1>3, <2>1, <2>2
<1>7. edges' \in Seq(Nodes)
  <2>1. adj[Head(queue)] \in Seq(Nodes)
    BY <1>2, <1>3 DEF Graphs
  <2> QED
    BY <1>1, <2>1, Zenon
<1>8. SearchTyped'
  <2>1. stack' \in Seq(Nodes) /\ queue' \in Seq(Nodes)
    BY <1>1, <1>2, <1>3
  <2> QED
    BY <1>1, <1>2, <1>7, <2>1, Zenon DEF SearchTyped
<1>9. Remaining'
  <2>1. edges' = adj[Order[n + 1]]
    BY <1>1, <1>6
  <2> HIDE DEF n
  <2>2. \A j \in 1 .. Len(edges') :
           edges'[j] = adj[Order[n + 1]][(Len(adj[Order[n + 1]]) - Len(edges')) + j]
    <3>1. \A j \in 1 .. Len(edges') : (Len(edges') - Len(edges')) + j = j
      BY <1>7
    <3> QED
      BY <2>1, <3>1
  <2>3. Len(edges') <= Len(adj[Order[n + 1]])
    BY <1>7, <2>1
  <2> QED
    BY <1>1, <1>4, <1>5, <2>2, <2>3 DEF Remaining
<1>10. Breadth'
  <2>1. ASSUME NEW i \in 1 .. Len(Order)
        PROVE  distances[Order[i]] <= distances[Order[n + 1]] + 1
    <3>1. distances[Order[i]] \in Int /\ distances[Order[n + 1]] \in Int
      BY <1>2, <1>6
    <3>2. CASE n = 0
      <4>1. Len(Order) = 1
        BY <1>2, <3>2 DEF Breadthfirst, Breadth
      <4> QED
        BY <3>1, <3>2, <4>1
    <3>3. CASE n # 0
      <4>1. n \in 1 .. Len(Order) /\ stack # << >> /\ n <= n + 1
        BY <1>2, <1>3, <1>6, <3>3
      <4>2. distances[Order[i]] <= distances[Order[n]] + 1
        BY <4>1 DEF Breadthfirst, Breadth
      <4>3. distances[Order[n]] <= distances[Order[n + 1]]
        BY <1>6, <4>1 DEF Breadthfirst, Breadth
      <4>4. distances[Order[n]] \in Int
        BY <1>2, <1>6, <4>1
      <4> QED
        BY <3>1, <4>2, <4>3, <4>4
    <3> QED
      BY <3>2, <3>3
  <2> HIDE DEF n
  <2> QED
    BY <1>1, <1>4, <1>5, <2>1 DEF Breadthfirst, Breadth
<1>11. ASSUME NEW v \in Nodes, NEW i \in Nat PROVE Looked(v, i)' <=> Looked(v, i)
  <2>0. Len(adj[v]) \in Nat
    BY <1>2 DEF Graphs
  <2>1. Looked(v, i) <=> \E p \in 1 .. n : Order[p] = v /\ i \in 1 .. Len(adj[v])
    BY <1>3, <2>0 DEF Looked
  <2>2. Looked(v, i)' <=>
           \E p \in 1 .. n + 1 : /\ Order[p] = v
                                 /\ i \in 1 .. (IF p = n + 1
                                                THEN Len(adj[v]) - Len(edges')
                                                ELSE Len(adj[v]))
    BY <1>1, <1>4, <1>5 DEF Looked
  <2>3. Order[n + 1] = v => Len(adj[v]) - Len(edges') = 0
    BY <1>1, <1>6, <2>0
  <2> HIDE DEF n
  <2> QED
    BY <1>3, <2>1, <2>2, <2>3 DEF n
<1>12. Breadthfirst'
  BY <1>1, <1>8, <1>9, <1>10, <1>11, SameLooked
<1> QED
  BY <1>11, <1>12


(* The node being visited, its next channel, and the node at its end.      *)
Visited == Order[Len(stack)]
NextChannel == Len(adj[Visited]) - Len(edges) + 1
Neighbour == adj[Visited][NextChannel]

(* The channel at the front of what is left is the next one of the node    *)
(* being visited, and nobody has looked at it.                             *)
LEMMA NextEdge ==
  ASSUME Breadthfirst, edges # << >>
  PROVE  /\ stack # << >> /\ Len(stack) \in 1 .. Len(Order)
         /\ Visited \in Nodes /\ Top = Visited
         /\ NextChannel \in DOMAIN adj[Visited] /\ NextChannel \in Nat \ {0}
         /\ Neighbour \in Nodes /\ Head(edges) = Neighbour
         /\ ~Looked(Visited, NextChannel)
<1> DEFINE n == Len(stack)
           v == Visited
           m == Len(adj[v])
           l == Len(edges)
           k == NextChannel
<1>0. v = Order[n] /\ k = m - l + 1
  BY DEF Visited, NextChannel
<1>1. /\ SearchTyped /\ adj \in Graphs
      /\ stack \in Seq(Nodes) /\ queue \in Seq(Nodes) /\ edges \in Seq(Nodes)
  BY DEF Breadthfirst, SearchTyped
<1>2. stack # << >>
  BY DEF Breadthfirst, Remaining
<1>3. /\ n \in 1 .. Len(Order) /\ n \in Nat \ {0} /\ Len(Order) \in Nat
      /\ v \in Nodes /\ stack[n] = v
  <2>1. /\ Len(Order) = n + Len(queue) /\ Len(Order) \in Nat /\ n \in Nat
        /\ \A p \in 1 .. n : Order[p] = stack[p]
        /\ \A p \in 1 .. Len(Order) : Order[p] \in Nodes
        /\ stack = << >> <=> n = 0
    BY <1>1, OrderFacts
  <2>2. Len(queue) \in Nat
    BY <1>1
  <2> HIDE DEF n
  <2> QED
    BY <1>0, <1>2, <2>1, <2>2
<1>4. adj[v] \in Seq(Nodes)
  BY <1>1, <1>3 DEF Graphs
<1>5. /\ m \in Nat /\ l \in Nat \ {0} /\ DOMAIN adj[v] = 1 .. m
      /\ Head(edges) = edges[1]
  BY <1>1, <1>4
<1>6. l <= m /\ \A j \in 1 .. l : edges[j] = adj[v][(m - l) + j]
  BY <1>0, <1>2 DEF Breadthfirst, Remaining
<1>7. k \in 1 .. m /\ k \in Nat \ {0} /\ Head(edges) = adj[v][k]
  <2>1. 1 \in 1 .. l
    BY <1>5
  <2>2. edges[1] = adj[v][(m - l) + 1]
    BY <1>6, <2>1
  <2> HIDE DEF m, l
  <2> QED
    BY <1>0, <1>5, <1>6, <2>2
<1>8. ~Looked(v, k)
  <2> SUFFICES ASSUME NEW p \in 1 .. n, Order[p] = v,
                      k \in 1 .. (IF p = n THEN m - l ELSE m)
               PROVE  FALSE
    BY DEF Looked
  <2>1. p \in 1 .. Len(Order)
    BY <1>3
  <2>2. p = n
    BY <1>0, <1>3, <2>1 DEF Breadthfirst, Breadth
  <2> HIDE DEF m, l
  <2> QED
    BY <1>0, <1>5, <2>2
<1>9. Top = v
  BY <1>3 DEF Top
<1>10. Neighbour \in Nodes
  BY <1>4, <1>5, <1>7 DEF Neighbour
<1> QED
  BY <1>2, <1>3, <1>5, <1>7, <1>8, <1>9, <1>10 DEF Neighbour

(* What a step to a neighbour does: its distance is right, and its number  *)
(* of paths grows by those through the node being visited.                 *)
LEMMA EdgeFacts ==
  ASSUME Breadthfirst, Edge
  PROVE  /\ edges # << >> /\ edges' = Tail(edges)
         /\ UNCHANGED <<adj, source, stack, delta, bc>>
         /\ distances[Visited] \in Nat
         /\ distances[Visited] = Distance(adj, source, Visited)
         /\ Distance(adj, source, Neighbour) \in Nat
         /\ distances' = [distances EXCEPT ![Neighbour] =
                             Distance(adj, source, Neighbour)]
         /\ \/ /\ distances[Neighbour] = -1
               /\ queue' = Append(queue, Neighbour)
               /\ Distance(adj, source, Neighbour) = distances[Visited] + 1
            \/ /\ distances[Neighbour] = Distance(adj, source, Neighbour)
               /\ queue' = queue
         /\ sigma' = IF Distance(adj, source, Neighbour) = distances[Visited] + 1
                     THEN [sigma EXCEPT ![Neighbour] =
                             @ + Cardinality(ShortestPaths(adj, source, Visited))]
                     ELSE sigma
         /\ pred' = IF Distance(adj, source, Neighbour) = distances[Visited] + 1
                    THEN [pred EXCEPT ![Neighbour] = Append(@, Visited)]
                    ELSE pred
         /\ pred' \in [Nodes -> Seq(Nodes)]
<1> DEFINE v == Visited
           w == Neighbour
           dv == distances[v]
           dw == Distance(adj, source, w)
           new == distances[w] < 0
           d == IF new THEN dv + 1 ELSE distances[w]
<1>1. /\ edges # << >> /\ edges' = Tail(edges)
      /\ UNCHANGED <<adj, source, stack, delta, bc>>
  BY DEF Edge, graph
<1>2. /\ stack # << >> /\ Len(stack) \in 1 .. Len(Order)
      /\ v \in Nodes /\ Top = v
      /\ NextChannel \in DOMAIN adj[v]
      /\ w \in Nodes /\ Head(edges) = w
  BY <1>1, NextEdge
<1>3. /\ distances' = [distances EXCEPT ![w] = d]
      /\ queue' = IF new THEN Append(queue, w) ELSE queue
      /\ IF d = dv + 1
         THEN /\ sigma' = [sigma EXCEPT ![w] = @ + sigma[v]]
              /\ pred' = [pred EXCEPT ![w] = Append(@, v)]
         ELSE UNCHANGED <<sigma, pred>>
  BY <1>2 DEF Edge
<1>4. /\ SearchTyped /\ adj \in Graphs /\ source \in Nodes
      /\ distances \in [Nodes -> Int] /\ sigma \in [Nodes -> Nat]
      /\ pred \in [Nodes -> Seq(Nodes)] /\ Len(stack) \in Nat \ {0}
  <2>1. SearchTyped
    BY DEF Breadthfirst
  <2>2. Len(Order) \in Nat
    BY <2>1, OrderFacts
  <2>3. Len(stack) \in Nat \ {0}
    BY <1>2, <2>2
  <2> QED
    BY <2>1, <2>3 DEF SearchTyped
<1>5. /\ dv # -1
      /\ sigma[v] = Cardinality(ShortestPaths(adj, source, v))
  <2>1. Len(stack) \in 1 .. Len(stack)
    BY <1>4
  <2> QED
    BY <2>1, VisitedCounted DEF Visited
<1>6. dv = Distance(adj, source, v)
  BY <1>2, <1>5 DEF Breadthfirst, Followed
<1>7. dv \in Nat
  BY <1>4, <1>5, <1>6, DistanceReached
<1>8. dw \in Nat /\ dw <= dv + 1
  BY <1>2, <1>4, <1>5, <1>6, DistanceOver DEF Neighbour
<1>9. distances[w] # -1 => distances[w] = dw
  BY <1>2 DEF Breadthfirst, Followed
<1>10. new <=> distances[w] = -1
  BY <1>2, <1>4, <1>8, <1>9
<1>11. new => dw = dv + 1
  <2> SUFFICES ASSUME new, dw <= dv PROVE FALSE
    BY <1>7, <1>8
  <2>1. dw # -1
    BY <1>8
  <2>2. distances[w] # -1
    BY <1>2, <2>1, NearFound DEF Visited
  <2> QED
    BY <1>10, <2>2
<1>12. d = dw
  BY <1>9, <1>10, <1>11
<1>13. pred' \in [Nodes -> Seq(Nodes)]
  <2>1. pred[w] \in Seq(Nodes)
    BY <1>2, <1>4
  <2>2. Append(pred[w], v) \in Seq(Nodes)
    BY <1>2, <2>1
  <2>3. [pred EXCEPT ![w] = Append(@, v)] \in [Nodes -> Seq(Nodes)]
    BY <1>4, <2>2
  <2> QED
    BY <1>3, <1>4, <2>3
<1>14. distances' = [distances EXCEPT ![w] = dw]
  BY <1>3, <1>12
<1>15. sigma' = IF dw = dv + 1
                THEN [sigma EXCEPT ![w] =
                        @ + Cardinality(ShortestPaths(adj, source, v))]
                ELSE sigma
  BY <1>3, <1>5, <1>12
<1>16. \/ distances[w] = -1 /\ queue' = Append(queue, w) /\ dw = dv + 1
       \/ distances[w] = dw /\ queue' = queue
  BY <1>3, <1>9, <1>10, <1>11
<1>17. pred' = IF dw = dv + 1 THEN [pred EXCEPT ![w] = Append(@, v)] ELSE pred
  BY <1>3, <1>12
<1> QED
  BY <1>1, <1>6, <1>7, <1>8, <1>13, <1>14, <1>15, <1>16, <1>17

(* One more channel has been looked at.                                    *)
LEMMA EdgeLooked ==
  ASSUME Breadthfirst, Edge, Order' = Order \/ Order' = Append(Order, Neighbour),
         NEW u \in Nodes, NEW i \in Nat
  PROVE  Looked(u, i)' <=> Looked(u, i) \/ (u = Visited /\ i = NextChannel)
<1> DEFINE n == Len(stack)
           m == Len(adj[u])
           l == Len(edges)
<1>1. /\ edges # << >> /\ edges' = Tail(edges)
      /\ UNCHANGED <<adj, source, stack, delta, bc>>
  BY EdgeFacts
<1>2. /\ n \in 1 .. Len(Order) /\ Visited \in Nodes /\ NextChannel \in Nat \ {0}
      /\ NextChannel \in DOMAIN adj[Visited]
  BY <1>1, NextEdge
<1>3. /\ SearchTyped /\ adj \in Graphs
      /\ edges \in Seq(Nodes) /\ n \in Nat \ {0}
  <2>1. SearchTyped
    BY DEF Breadthfirst
  <2>2. Len(Order) \in Nat
    BY <2>1, OrderFacts
  <2>3. n \in Nat \ {0}
    BY <1>2, <2>2
  <2> QED
    BY <2>1, <2>3 DEF SearchTyped
<1>4. /\ Order \in Seq(Nodes) /\ Len(Order) \in Nat
  BY <1>3, OrderFacts
<1>5. \A p \in 1 .. n : Order'[p] = Order[p]
  <2>1. CASE Order' = Order
    BY <2>1
  <2>2. CASE Order' = Append(Order, Neighbour)
    BY <1>2, <1>4, <2>2
  <2> QED
    BY <2>1, <2>2
<1>6. m \in Nat /\ l \in Nat \ {0} /\ Len(edges') = l - 1
  <2>1. adj[u] \in Seq(Nodes)
    BY <1>3 DEF Graphs
  <2> QED
    BY <1>1, <1>3, <2>1
<1>7. Looked(u, i)' <=>
         \E p \in 1 .. n : /\ Order[p] = u
                           /\ i \in 1 .. (IF p = n THEN m - (l - 1) ELSE m)
  BY <1>1, <1>5, <1>6 DEF Looked
<1>8. Looked(u, i) <=>
         \E p \in 1 .. n : /\ Order[p] = u
                           /\ i \in 1 .. (IF p = n THEN m - l ELSE m)
  BY DEF Looked
<1>9. u = Visited => NextChannel = m - l + 1
  BY DEF NextChannel
<1>10. Order[n] = Visited /\ n \in 1 .. n
  BY <1>3 DEF Visited
<1> HIDE DEF n, m, l
<1>11. ASSUME NEW p \in 1 .. n, Order[p] = u,
              i \in 1 .. (IF p = n THEN m - (l - 1) ELSE m),
              ~(i \in 1 .. (IF p = n THEN m - l ELSE m))
       PROVE  u = Visited /\ i = NextChannel
  BY <1>3, <1>6, <1>9, <1>10, <1>11
<1>12. \A p \in 1 .. n : i \in 1 .. (IF p = n THEN m - l ELSE m) =>
                          i \in 1 .. (IF p = n THEN m - (l - 1) ELSE m)
  BY <1>6
<1>13. u = Visited /\ i = NextChannel => i \in 1 .. (m - (l - 1))
  BY <1>2, <1>6, <1>9
<1> QED
  BY <1>7, <1>8, <1>10, <1>11, <1>12, <1>13


LEMMA EdgeOrder ==
  ASSUME Breadthfirst, Edge
  PROVE  \/ /\ distances[Neighbour] = -1 /\ Order' = Append(Order, Neighbour)
            /\ Distance(adj, source, Neighbour) = distances[Visited] + 1
         \/ /\ distances[Neighbour] = Distance(adj, source, Neighbour)
            /\ Order' = Order
<1>1. stack \in Seq(Nodes) /\ queue \in Seq(Nodes)
  BY DEF Breadthfirst, SearchTyped
<1>2. Neighbour \in Nodes /\ stack' = stack
  BY EdgeFacts, NextEdge
<1>3. queue' = Append(queue, Neighbour) => Order' = Append(Order, Neighbour)
  BY <1>1, <1>2, Appended DEF Order
<1>4. queue' = queue => Order' = Order
  BY <1>2 DEF Order
<1> QED
  BY <1>3, <1>4, EdgeFacts

LEMMA EdgeTyped == ASSUME Breadthfirst, Edge PROVE SearchTyped'
<1>1. /\ adj \in Graphs /\ source \in Nodes
      /\ distances \in [Nodes -> Int] /\ sigma \in [Nodes -> Nat]
      /\ stack \in Seq(Nodes) /\ queue \in Seq(Nodes) /\ edges \in Seq(Nodes)
      /\ delta \in [Nodes -> Nat] /\ bc \in [Nodes -> Nat]
  BY DEF Breadthfirst, SearchTyped
<1>2. /\ edges # << >> /\ edges' = Tail(edges)
      /\ UNCHANGED <<adj, source, stack, delta, bc>>
      /\ Distance(adj, source, Neighbour) \in Nat
      /\ pred' \in [Nodes -> Seq(Nodes)]
  BY EdgeFacts
<1>3. Neighbour \in Nodes
  BY <1>2, NextEdge
<1>4. edges' \in Seq(Nodes)
  BY <1>1, <1>2
<1>5. queue' \in Seq(Nodes)
  <2>1. queue' = queue \/ queue' = Append(queue, Neighbour)
    BY EdgeFacts
  <2>2. Append(queue, Neighbour) \in Seq(Nodes)
    BY <1>1, <1>3
  <2> QED
    BY <1>1, <2>1, <2>2
<1>6. distances' \in [Nodes -> Int]
  <2>1. distances' = [distances EXCEPT ![Neighbour] = Distance(adj, source, Neighbour)]
    BY EdgeFacts
  <2> QED
    BY <1>1, <1>2, <1>3, <2>1
<1>7. sigma' \in [Nodes -> Nat]
  <2> DEFINE c == Cardinality(ShortestPaths(adj, source, Visited))
  <2>1. sigma' = sigma \/ sigma' = [sigma EXCEPT ![Neighbour] = @ + c]
    BY EdgeFacts
  <2>2. c \in Nat
    BY <1>1, ShortestFinite
  <2> HIDE DEF c
  <2>3. sigma \in [Nodes -> Nat] /\ sigma[Neighbour] + c \in Nat
    BY <1>1, <1>3, <2>2
  <2>4. [sigma EXCEPT ![Neighbour] = @ + c] \in [Nodes -> Nat]
    BY <2>3
  <2> QED
    BY <2>1, <2>3, <2>4
<1> QED
  BY <1>1, <1>2, <1>4, <1>5, <1>6, <1>7, Zenon DEF SearchTyped

LEMMA EdgeKeepsBreadth == ASSUME Breadthfirst, Edge PROVE Breadth'
<1> DEFINE n == Len(stack)
           L == Len(Order)
           w == Neighbour
           dv == distances[Visited]
           dw == Distance(adj, source, w)
<1>1. /\ stack' = stack /\ dv \in Nat /\ dw \in Nat /\ edges # << >>
      /\ distances' = [distances EXCEPT ![w] = dw]
  BY EdgeFacts
<1>2. stack # << >> /\ n \in 1 .. L /\ w \in Nodes
  BY <1>1, NextEdge
<1>3. /\ SearchTyped /\ distances \in [Nodes -> Int]
      /\ stack # << >> \/ Len(Order) = 1
      /\ \A t \in Nodes : distances[t] # -1 <=> \E i \in 1 .. L : Order[i] = t
      /\ \A i, j \in 1 .. L : Order[i] = Order[j] => i = j
      /\ \A i, j \in 1 .. L : i <= j => distances[Order[i]] <= distances[Order[j]]
      /\ \A i \in 1 .. L : distances[Order[i]] <= distances[Order[n]] + 1
  BY <1>2 DEF Breadthfirst, SearchTyped, Breadth
<1>4. /\ Order \in Seq(Nodes) /\ L \in Nat
      /\ \A p \in 1 .. L : Order[p] \in Nodes
  BY <1>3, OrderFacts
<1>5. Order[n] = Visited
  BY DEF Visited
<1>6. CASE distances[w] = dw /\ Order' = Order
  <2>1. distances' = distances
    BY <1>1, <1>2, <1>3, <1>6
  <2> QED
    BY <1>1, <1>6, <2>1 DEF Breadthfirst, Breadth
<1>7. CASE distances[w] = -1 /\ Order' = Append(Order, w) /\ dw = dv + 1
  <2>1. /\ Len(Order') = L + 1 /\ Order'[L + 1] = w
        /\ \A p \in 1 .. L : Order'[p] = Order[p]
    BY <1>2, <1>4, <1>7
  <2>2. \A p \in 1 .. L : Order[p] # w
    BY <1>2, <1>3, <1>7
  <2>3. /\ distances'[w] = dv + 1
        /\ \A t \in Nodes : t # w => distances'[t] = distances[t]
    BY <1>1, <1>2, <1>3, <1>7
  <2>4. \A p \in 1 .. L : distances'[Order'[p]] = distances[Order[p]]
    BY <1>4, <2>1, <2>2, <2>3
  <2>5. \A p \in 1 .. (L + 1) : p \in 1 .. L \/ p = L + 1
    BY <1>4
  <2>6. \A t \in Nodes : distances'[t] # -1 <=> \E i \in 1 .. (L + 1) : Order'[i] = t
    <3> SUFFICES ASSUME NEW t \in Nodes
                 PROVE  distances'[t] # -1 <=> \E i \in 1 .. (L + 1) : Order'[i] = t
      OBVIOUS
    <3>1. CASE t = w
      BY <1>1, <1>4, <2>1, <2>3, <3>1
    <3>2. CASE t # w
      <4>1. distances'[t] # -1 <=> \E i \in 1 .. L : Order[i] = t
        BY <1>3, <2>3, <3>2
      <4>2. 1 .. L \subseteq 1 .. (L + 1)
        BY <1>4
      <4> HIDE DEF L
      <4> QED
        BY <2>1, <2>5, <3>2, <4>1, <4>2
    <3> QED
      BY <3>1, <3>2
  <2>7. \A i, j \in 1 .. (L + 1) : Order'[i] = Order'[j] => i = j
    <3> HIDE DEF L
    <3> QED
      BY <1>3, <2>1, <2>2, <2>5
  <2>8. \A i \in 1 .. (L + 1) : distances'[Order'[i]] <= dv + 1
    <3> SUFFICES ASSUME NEW i \in 1 .. (L + 1)
                 PROVE  distances'[Order'[i]] <= dv + 1
      OBVIOUS
    <3>1. CASE i = L + 1
      BY <1>1, <2>1, <2>3, <3>1
    <3>2. CASE i \in 1 .. L
      BY <1>3, <1>5, <2>4, <3>2
    <3> QED
      BY <2>5, <3>1, <3>2
  <2>9. \A i, j \in 1 .. (L + 1) :
           i <= j => distances'[Order'[i]] <= distances'[Order'[j]]
    <3> SUFFICES ASSUME NEW i \in 1 .. (L + 1), NEW j \in 1 .. (L + 1), i <= j
                 PROVE  distances'[Order'[i]] <= distances'[Order'[j]]
      OBVIOUS
    <3>1. CASE j = L + 1
      <4>1. distances'[Order'[j]] = dv + 1
        BY <2>1, <2>3, <3>1
      <4> QED
        BY <2>8, <4>1
    <3>2. CASE j \in 1 .. L
      <4>1. i \in 1 .. L
        BY <1>4, <3>2
      <4> QED
        BY <1>3, <2>4, <3>2, <4>1
    <3> QED
      BY <2>5, <3>1, <3>2
  <2>10. distances'[Order'[n]] = dv
    BY <1>2, <1>5, <2>4
  <2> HIDE DEF n, L
  <2>11. Len(Order') = L + 1 /\ n = Len(stack) /\ stack' # << >>
    BY <1>1, <1>2, <2>1 DEF n
  <2> QED
    BY <1>1, <2>6, <2>7, <2>8, <2>9, <2>10, <2>11 DEF Breadth
<1> QED
  BY <1>6, <1>7, EdgeOrder

LEMMA EdgeRemaining == ASSUME Breadthfirst, Edge PROVE Remaining'
<1> DEFINE n == Len(stack)
           row == adj[Visited]
           m == Len(row)
           l == Len(edges)
<1>1. edges # << >> /\ edges' = Tail(edges) /\ stack' = stack /\ adj' = adj
  BY EdgeFacts
<1>2. stack # << >> /\ n \in 1 .. Len(Order) /\ Visited \in Nodes /\ Neighbour \in Nodes
  BY <1>1, NextEdge
<1>3. SearchTyped /\ adj \in Graphs /\ edges \in Seq(Nodes)
  BY DEF Breadthfirst, SearchTyped
<1>4. Order \in Seq(Nodes)
  BY <1>3, OrderFacts
<1>5. Order'[n] = Visited
  <2>1. Append(Order, Neighbour)[n] = Order[n]
    BY <1>2, <1>4
  <2> QED
    BY <2>1, EdgeOrder DEF Visited
<1>6. l <= m /\ \A j \in 1 .. l : edges[j] = row[(m - l) + j]
  BY <1>2 DEF Breadthfirst, Remaining, Visited
<1>7. /\ l \in Nat \ {0} /\ m \in Nat /\ Len(edges') = l - 1
      /\ \A j \in 1 .. (l - 1) : edges'[j] = edges[j + 1]
  <2>1. row \in Seq(Nodes)
    BY <1>2, <1>3 DEF Graphs
  <2> QED
    BY <1>1, <1>3, <2>1
<1> HIDE DEF m, l
<1>8. \A j \in 1 .. (l - 1) : edges'[j] = row[(m - (l - 1)) + j]
  <2> SUFFICES ASSUME NEW j \in 1 .. (l - 1)
               PROVE  edges'[j] = row[(m - (l - 1)) + j]
    OBVIOUS
  <2>1. j + 1 \in 1 .. l /\ (m - l) + (j + 1) = (m - (l - 1)) + j
    BY <1>7
  <2> QED
    BY <1>6, <1>7, <2>1
<1>9. l - 1 <= m
  BY <1>6, <1>7
<1> HIDE DEF n
<1>10. n = Len(stack) /\ m = Len(row)
  BY DEF n, m
<1> QED
  BY <1>1, <1>2, <1>5, <1>7, <1>8, <1>9, <1>10 DEF Remaining

LEMMA EdgeFollowed == ASSUME Breadthfirst, Edge PROVE Followed'
<1> DEFINE v == Visited
           k == NextChannel
           w == Neighbour
           dw == Distance(adj, source, w)
<1>1. /\ edges # << >> /\ UNCHANGED <<adj, source, stack>>
      /\ distances[v] \in Nat /\ distances[v] = Distance(adj, source, v)
      /\ dw \in Nat
      /\ distances' = [distances EXCEPT ![w] = dw]
  BY EdgeFacts
<1>2. /\ v \in Nodes /\ k \in DOMAIN adj[v] /\ k \in Nat /\ w \in Nodes
      /\ ~Looked(v, k)
  BY <1>1, NextEdge
<1>3. /\ adj \in Graphs /\ source \in Nodes
      /\ distances \in [Nodes -> Int] /\ sigma \in [Nodes -> Nat]
  BY DEF Breadthfirst, SearchTyped
<1>4. ASSUME NEW u \in Nodes, NEW i \in Nat
      PROVE  Looked(u, i)' <=> Looked(u, i) \/ (u = v /\ i = k)
  BY EdgeOrder, EdgeLooked
<1>5. /\ distances'[w] = dw /\ distances'[w] # -1
      /\ \A t \in Nodes : t # w => distances'[t] = distances[t]
  BY <1>1, <1>2, <1>3
<1>6. distances'[source] = 0
  <2>1. distances[source] = 0 /\ Distance(adj, source, source) = 0
    BY <1>3, DistanceStart DEF Breadthfirst, Followed
  <2> QED
    BY <1>3, <1>5, <2>1
<1>7. \A t \in Nodes : distances'[t] # -1 => distances'[t] = Distance(adj, source, t)
  BY <1>5 DEF Breadthfirst, Followed
<1>8. ASSUME NEW u \in Nodes, NEW i \in DOMAIN adj[u], Looked(u, i)'
      PROVE  distances'[adj[u][i]] # -1
  <2>1. i \in Nat /\ adj[u][i] \in Nodes
    <3>1. adj[u] \in Seq(Nodes)
      BY <1>3 DEF Graphs
    <3> QED
      BY <3>1
  <2>2. CASE Looked(u, i)
    <3>1. distances[adj[u][i]] # -1
      BY <2>2 DEF Breadthfirst, Followed
    <3> QED
      BY <1>5, <2>1, <3>1
  <2>3. CASE u = v /\ i = k
    BY <1>5, <2>3 DEF Neighbour
  <2> QED
    BY <1>4, <1>8, <2>1, <2>2, <2>3
<1>9. LookedAt' = LookedAt \union {<<v, k>>} /\ <<v, k>> \notin LookedAt
  <2>1. \A x \in Nodes \X Nat : Looked(x[1], x[2])' <=>
                                   Looked(x[1], x[2]) \/ x = <<v, k>>
    <3> SUFFICES ASSUME NEW x \in Nodes \X Nat
                 PROVE  Looked(x[1], x[2])' <=> Looked(x[1], x[2]) \/ x = <<v, k>>
      OBVIOUS
    <3>1. PICK a \in Nodes, b \in Nat : x = <<a, b>>
      OBVIOUS
    <3>2. Looked(a, b)' <=> Looked(a, b) \/ (a = v /\ b = k)
      BY <1>4
    <3> QED
      BY <3>1, <3>2
  <2>2. <<v, k>> \in Nodes \X Nat
    BY <1>2
  <2>3. <<v, k>> \notin LookedAt
    BY <1>2 DEF LookedAt
  <2> QED
    BY <2>1, <2>2, <2>3 DEF LookedAt
<1>10. ASSUME NEW t \in Nodes
       PROVE  sigma'[t] = Cardinality(Along(adj, source, t, LookedAt'))
  <2> DEFINE old == Along(adj, source, t, LookedAt)
             new == Along(adj, source, t, LookedAt \union {<<v, k>>})
             c == Cardinality(ShortestPaths(adj, source, v))
  <2>1. sigma[t] = Cardinality(old)
    BY DEF Breadthfirst, Followed
  <2>2. Distance(adj, source, v) # -1 /\ w = adj[v][k]
    BY <1>1 DEF Neighbour
  <2>3. IF t = w /\ Distance(adj, source, t) = Distance(adj, source, v) + 1
        THEN Cardinality(new) = Cardinality(old) + c
        ELSE new = old
    BY <1>2, <1>3, <1>9, <2>2, AlongMore
  <2>4. sigma' = IF dw = distances[v] + 1
                 THEN [sigma EXCEPT ![w] = @ + c]
                 ELSE sigma
    BY EdgeFacts
  <2>5. sigma'[t] = IF t = w /\ dw = distances[v] + 1 THEN sigma[t] + c ELSE sigma[t]
    <3> HIDE DEF c, dw, v, w
    <3> QED
      BY <1>3, <2>4
  <2>6. sigma'[t] = Cardinality(new)
    <3> HIDE DEF old, new, c, v, w
    <3> QED
      BY <1>1, <2>1, <2>3, <2>5
  <2> QED
    BY <1>9, <2>6
<1> QED
  BY <1>1, <1>6, <1>7, <1>8, <1>10 DEF Followed

LEMMA EdgeBreadth == ASSUME Breadthfirst, Edge PROVE Breadthfirst'
  BY EdgeTyped, EdgeKeepsBreadth, EdgeRemaining, EdgeFollowed DEF Breadthfirst


LEMMA InitBreadth == ASSUME Init PROVE Breadthfirst
<1>1. /\ adj \in Graphs /\ source \in Nodes
      /\ distances = [t \in Nodes |-> IF t = source THEN 0 ELSE -1]
      /\ sigma = [t \in Nodes |-> IF t = source THEN 1 ELSE 0]
      /\ pred = [t \in Nodes |-> << >>]
      /\ queue = <<source>> /\ stack = << >> /\ edges = << >>
      /\ delta = [t \in Nodes |-> 0] /\ bc = [t \in Nodes |-> 0]
  BY SearchAssumption DEF Init, Graphs
<1>2. SearchTyped
  <2>1. /\ stack \in Seq(Nodes) /\ queue \in Seq(Nodes) /\ edges \in Seq(Nodes)
        /\ << >> \in Seq(Nodes)
    BY <1>1
  <2>2. pred \in [Nodes -> Seq(Nodes)]
    BY <1>1, <2>1
  <2>3. /\ distances \in [Nodes -> Int] /\ sigma \in [Nodes -> Nat]
        /\ delta \in [Nodes -> Nat] /\ bc \in [Nodes -> Nat]
    BY <1>1
  <2> QED
    BY <1>1, <2>1, <2>2, <2>3 DEF SearchTyped
<1>3. Len(Order) = 1 /\ Order[1] = source /\ Len(stack) = 0
  <2>1. Len(queue) = 1 /\ queue[1] = source /\ Len(stack) = 0
    BY <1>1
  <2>2. /\ Len(Order) = Len(stack) + Len(queue)
        /\ \A p \in 1 .. Len(queue) : Order[Len(stack) + p] = queue[p]
    BY <1>2, OrderFacts
  <2> QED
    BY <2>1, <2>2
<1>4. Breadth
  <2>1. \A i \in 1 .. Len(Order) : i = 1
    BY <1>3
  <2>2. \A t \in Nodes : distances[t] # -1 <=> t = source
    BY <1>1
  <2>3. distances[source] <= distances[source]
    BY <1>1
  <2> QED
    BY <1>1, <1>3, <2>1, <2>2, <2>3 DEF Breadth
<1>5. Remaining
  BY <1>1 DEF Remaining
<1>6. \A v, i : ~Looked(v, i)
  BY <1>3 DEF Looked
<1>7. \A t \in Nodes : sigma[t] = Cardinality(Along(adj, source, t, LookedAt))
  <2>1. LookedAt = {}
    BY <1>6 DEF LookedAt
  <2> QED
    BY <1>1, <2>1, AlongNone
<1>8. \A t \in Nodes : distances[t] # -1 => distances[t] = Distance(adj, source, t)
  BY <1>1, DistanceStart
<1>9. distances[source] = 0
  BY <1>1
<1>10. Followed
  BY <1>6, <1>7, <1>8, <1>9 DEF Followed
<1> QED
  BY <1>2, <1>4, <1>5, <1>10 DEF Breadthfirst

(* What holds throughout: during the search it proceeds breadth-first, and *)
(* afterwards what has been found stays as it is.                          *)
Searched ==
    /\ SearchTyped
    /\ Searching => Breadthfirst
    /\ \A i, j \in 1 .. Len(Order) : Order[i] = Order[j] => i = j
    /\ \A t \in Nodes : distances[t] # -1 => distances[t] = Distance(adj, source, t)
    /\ \A p \in 1 .. Len(stack) : distances[stack[p]] # -1
    /\ ShortestFound

LEMMA BreadthSearched == Breadthfirst => Searched
  BY SearchedRight DEF Breadthfirst, Breadth, Followed, Searched

(* The share that a node hands on is a number: it lies on a shortest path. *)
LEMMA HandedType ==
  ASSUME Searched, ~Searching, stack # << >>, NEW v \in Nodes
  PROVE  Top \in Nodes /\ Handed(v, Top) \in Nat
<1> DEFINE w == Top
           C == {i \in DOMAIN pred[w] : pred[w][i] = v}
           a == sigma[v] * (Scale + delta[w])
<1>1. /\ adj \in Graphs /\ source \in Nodes /\ stack \in Seq(Nodes)
      /\ sigma \in [Nodes -> Nat] /\ delta \in [Nodes -> Nat]
      /\ pred \in [Nodes -> Seq(Nodes)]
  BY DEF Searched, SearchTyped
<1>2. Len(stack) \in 1 .. Len(stack) /\ w = stack[Len(stack)] /\ w \in Nodes
  BY <1>1 DEF Top
<1> HIDE DEF w
<1>3. sigma[w] \in Nat \ {0}
  <2>1. distances[w] # -1 /\ distances[w] = Distance(adj, source, w)
    BY <1>2 DEF Searched
  <2>2. sigma[w] = Cardinality(ShortestPaths(adj, source, w))
    BY <1>2 DEF Searched, ShortestFound
  <2> QED
    BY <1>1, <1>2, <2>1, <2>2, ShortestFinite
<1>4. Cardinality(C) \in Nat
  <2>1. pred[w] \in Seq(Nodes)
    BY <1>1, <1>2
  <2>2. DOMAIN pred[w] = 1 .. Len(pred[w]) /\ Len(pred[w]) \in Nat
    BY <2>1
  <2>3. IsFiniteSet(1 .. Len(pred[w])) /\ C \subseteq 1 .. Len(pred[w])
    BY <2>2, IntervalFinite
  <2> QED
    BY <2>3, FS_Subset, FS_CardinalityType
<1>5. a \in Nat
  <2>1. sigma[v] \in Nat /\ Scale + delta[w] \in Nat
    BY <1>1, <1>2, PathsAssumption, SMTT(30)
  <2> HIDE DEF w
  <2> QED
    BY <2>1
<1>6. a \div sigma[w] \in Nat
  <2> HIDE DEF a
  <2> QED
    BY <1>3, <1>5, DivFacts
<1>7. Handed(v, w) = Cardinality(C) * (a \div sigma[w])
  BY DEF Handed
<1> HIDE DEF C, a
<1>8. Handed(v, w) \in Nat
  BY <1>4, <1>6, <1>7
<1> QED
  BY <1>2, <1>8 DEF w

LEMMA BackSearched == ASSUME Searched, Back PROVE Searched'
<1> DEFINE w == Top
           n == Len(stack)
<1>1. /\ ~Searching /\ stack # << >>
      /\ delta' = [v \in Nodes |-> delta[v] + Handed(v, w)]
      /\ bc' = IF w = source THEN bc
                     ELSE [bc EXCEPT ![w] = @ + delta[w]]
      /\ stack' = SubSeq(stack, 1, n - 1)
      /\ UNCHANGED <<adj, source, distances, sigma, pred, queue, edges>>
  BY DEF Back, Pop, graph, found
<1>2. /\ SearchTyped /\ adj \in Graphs /\ source \in Nodes
      /\ stack \in Seq(Nodes) /\ delta \in [Nodes -> Nat]
      /\ bc \in [Nodes -> Nat]
  BY DEF Searched, SearchTyped
<1>3. w \in Nodes /\ \A v \in Nodes : Handed(v, w) \in Nat
  <2>1. ASSUME NEW v \in Nodes PROVE w \in Nodes /\ Handed(v, w) \in Nat
    BY <1>1, HandedType
  <2>2. source \in Nodes
    BY <1>2
  <2> QED
    BY <2>1, <2>2
<1> HIDE DEF w
<1>4. stack' \in Seq(Nodes) /\ Len(stack') = n - 1 /\ n \in Nat \ {0}
      /\ \A p \in 1 .. (n - 1) : stack'[p] = stack[p]
  <2> PICK s \in Seq(Nodes) : s = stack
    BY <1>2
  <2>1. n = Len(s) /\ n \in Nat \ {0}
    BY <1>1
  <2> HIDE DEF n
  <2>2. /\ SubSeq(s, 1, n - 1) \in Seq(Nodes) /\ Len(SubSeq(s, 1, n - 1)) = n - 1
        /\ \A p \in 1 .. (n - 1) : SubSeq(s, 1, n - 1)[p] = s[p]
    BY <2>1
  <2>3. stack' = SubSeq(s, 1, n - 1)
    BY <1>1 DEF n
  <2> QED
    BY <2>1, <2>2, <2>3
<1>5. delta' \in [Nodes -> Nat]
  <2>1. \A v \in Nodes : delta[v] + Handed(v, w) \in Nat
    BY <1>2, <1>3
  <2> QED
    BY <1>1, <2>1
<1>6. bc' \in [Nodes -> Nat]
  <2>1. bc[w] + delta[w] \in Nat
    BY <1>2, <1>3
  <2>2. [bc EXCEPT ![w] = @ + delta[w]] \in [Nodes -> Nat]
    BY <1>2, <2>1
  <2> QED
    BY <1>1, <1>2, <2>2
<1>7. SearchTyped'
  BY <1>1, <1>2, <1>4, <1>5, <1>6, Zenon DEF SearchTyped
<1>8. ~Searching' /\ queue = << >>
  BY <1>1 DEF Searching
<1>9. \A i, j \in 1 .. Len(Order') : Order'[i] = Order'[j] => i = j
  <2>1. /\ Len(Order) = n /\ \A p \in 1 .. n : Order[p] = stack[p]
    BY <1>2, <1>4, <1>8, OrderFacts
  <2>2. Len(Order') = n - 1 /\ \A p \in 1 .. (n - 1) : Order'[p] = stack'[p]
    <3>1. Order' = stack' \o << >> /\ Len(<< >>) = 0
      BY <1>1, <1>8 DEF Order
    <3> QED
      BY <1>4, <3>1
  <2>3. \A p \in 1 .. (n - 1) : p \in 1 .. n
    BY <1>4
  <2>4. \A i, j \in 1 .. n : Order[i] = Order[j] => i = j
    BY <2>1 DEF Searched
  <2> HIDE DEF n
  <2> QED
    BY <1>4, <2>1, <2>2, <2>3, <2>4
<1>10. \A p \in 1 .. Len(stack') : distances'[stack'[p]] # -1
  <2>1. \A p \in 1 .. (n - 1) : p \in 1 .. n
    BY <1>4
  <2> QED
    BY <1>1, <1>4, <2>1 DEF Searched
<1>11. ShortestFound'
  <2>1. \A t \in Nodes :
           /\ distances[t] = Distance(adj, source, t)
           /\ sigma[t] = Cardinality(ShortestPaths(adj, source, t))
    BY <1>1 DEF Searched, ShortestFound
  <2> QED
    BY <1>1, <2>1 DEF ShortestFound
<1> QED
  BY <1>1, <1>7, <1>8, <1>9, <1>10, <1>11 DEF Searched

LEMMA NextSearched == ASSUME Searched, [Next]_vars PROVE Searched'
<1>1. CASE Visit
  <2>1. Breadthfirst
    BY <1>1 DEF Searched, Visit, Searching
  <2>2. Breadthfirst'
    BY <1>1, <2>1, VisitBreadth
  <2> QED
    BY <2>2, BreadthSearched, PTL
<1>2. CASE Edge
  <2>1. Breadthfirst
    BY <1>2 DEF Searched, Edge, Searching
  <2>2. Breadthfirst'
    BY <1>2, <2>1, EdgeBreadth
  <2> QED
    BY <2>2, BreadthSearched, PTL
<1>3. CASE Back
  BY <1>3, BackSearched
<1>4. CASE UNCHANGED vars
  <2>1. UNCHANGED <<adj, source, distances, sigma, pred, queue, stack, edges,
                    delta, bc>>
    BY <1>4 DEF vars, graph, found
  <2>2. Order' = Order /\ Searching' = Searching
    BY <2>1 DEF Order, Searching
  <2>3. SearchTyped' = SearchTyped
    BY <2>1 DEF SearchTyped
  <2>4. Breadthfirst' = Breadthfirst
    BY <2>1, <2>2 DEF Breadthfirst, SearchTyped, Breadth, Remaining, Followed,
                      LookedAt, Looked
  <2>5. ShortestFound' = ShortestFound
    BY <2>1, <2>2 DEF ShortestFound, Elements
  <2> QED
    BY <2>1, <2>2, <2>3, <2>4, <2>5 DEF Searched
<1> QED
  BY <1>1, <1>2, <1>3, <1>4 DEF Next

LEMMA AlwaysSearched == Spec => []Searched
<1>1. Init => Searched
  BY InitBreadth, BreadthSearched
<1>2. Searched /\ [Next]_vars => Searched'
  BY NextSearched
<1> QED
  BY <1>1, <1>2, PTL DEF Spec

(***************************************************************************)
(* Dependencies                                                            *)
(***************************************************************************)
(* The entries of v among the predecessors of w, and the channels that     *)
(* they have been entered for.                                             *)
Entries(seq, v) == {j \in DOMAIN seq : seq[j] = v}
Tried(v, w) == {i \in Between(adj, source, v, w) : Looked(v, i)}

(* While the search goes on each channel on a shortest path is entered     *)
(* when it is looked at, and nothing is handed back.                       *)
Entered ==
    /\ \A v, w \in Nodes : Cardinality(Entries(pred[w], v)) = Cardinality(Tried(v, w))
    /\ \A v \in Nodes : delta[v] = 0 /\ bc[v] = 0

(* What the nodes are worth that have been taken back.                     *)
Given ==
    [w \in Nodes |-> IF w \in Elements(stack) THEN 0 ELSE Worth(adj, source)[w]]

(* Afterwards each node has been handed the worth of its successors that   *)
(* have been taken back, once per channel and per shortest path to it.     *)
Returned ==
    /\ \A v, w \in Nodes : Cardinality(Entries(pred[w], v)) = Links(adj, source)[v][w]
    /\ \A i, j \in 1 .. Len(stack) :
          i <= j => distances[stack[i]] <= distances[stack[j]]
    /\ \A v \in Nodes :
          delta[v] = Count(adj, source, v)
                        * Dot(Nodes, Links(adj, source)[v], Given)
    /\ \A v \in Nodes :
          bc[v] = IF v \in Elements(stack) \/ v = source THEN 0
                  ELSE Onto(adj, source, v)

LEMMA EntriesAppended ==
  ASSUME NEW seq \in Seq(Nodes), NEW x \in Nodes, NEW v \in Nodes
  PROVE  /\ Cardinality(Entries(seq, v)) \in Nat
         /\ Cardinality(Entries(Append(seq, x), v)) =
               Cardinality(Entries(seq, v)) + (IF x = v THEN 1 ELSE 0)
<1> DEFINE n == Len(seq)
           more == Append(seq, x)
<1>1. /\ n \in Nat /\ DOMAIN seq = 1 .. n
      /\ DOMAIN more = 1 .. (n + 1) /\ more[n + 1] = x
      /\ \A j \in 1 .. n : more[j] = seq[j]
  OBVIOUS
<1>2. IsFiniteSet(Entries(seq, v)) /\ n + 1 \notin Entries(seq, v)
  <2>1. IsFiniteSet(1 .. n) /\ Entries(seq, v) \subseteq 1 .. n /\ n + 1 \notin 1 .. n
    BY <1>1, IntervalFinite DEF Entries
  <2> QED
    BY <2>1, FS_Subset
<1> HIDE DEF n, more
<1>3. Entries(more, v) = IF x = v THEN Entries(seq, v) \union {n + 1}
                         ELSE Entries(seq, v)
  <2>1. \A j : j \in 1 .. (n + 1) <=> j \in 1 .. n \/ j = n + 1
    BY <1>1
  <2>2. \A j : j \in Entries(seq, v) <=> j \in 1 .. n /\ seq[j] = v
    BY <1>1 DEF Entries
  <2>3. \A j : j \in Entries(more, v) <=> j \in 1 .. (n + 1) /\ more[j] = v
    BY <1>1 DEF Entries
  <2>4. \A j : j \in Entries(more, v) <=> j \in Entries(seq, v) \/ (j = n + 1 /\ x = v)
    BY <1>1, <2>1, <2>2, <2>3
  <2> QED
    BY <2>4
<1>4. Cardinality(Entries(seq, v)) \in Nat
      /\ Cardinality(Entries(seq, v) \union {n + 1}) = Cardinality(Entries(seq, v)) + 1
  BY <1>2, FS_AddElement, FS_CardinalityType
<1> QED
  BY <1>3, <1>4 DEF more

LEMMA InitEntered == ASSUME Init PROVE Entered
<1>1. /\ pred = [t \in Nodes |-> << >>] /\ stack = << >>
      /\ delta = [t \in Nodes |-> 0] /\ bc = [t \in Nodes |-> 0]
  BY DEF Init
<1>2. ASSUME NEW v \in Nodes, NEW w \in Nodes
      PROVE  Entries(pred[w], v) = {} /\ Tried(v, w) = {}
  <2>1. pred[w] = << >> /\ DOMAIN << >> = {} /\ 1 .. Len(stack) = {}
    BY <1>1
  <2> QED
    BY <2>1 DEF Entries, Tried, Looked
<1> QED
  BY <1>1, <1>2 DEF Entered

LEMMA VisitEntered == ASSUME Breadthfirst, Entered, Visit PROVE Entered'
<1>1. UNCHANGED <<adj, source, distances, pred, delta, bc>>
  BY DEF Visit, graph, found
<1>2. \A v \in Nodes, i \in Nat : Looked(v, i)' <=> Looked(v, i)
  BY VisitBreadth
<1>3. ASSUME NEW v \in Nodes, NEW w \in Nodes PROVE Tried(v, w)' = Tried(v, w)
  <2>1. \A i \in Between(adj, source, v, w) : i \in Nat
    <3>1. adj[v] \in Seq(Nodes)
      BY DEF Breadthfirst, SearchTyped, Graphs
    <3>2. \A i \in DOMAIN adj[v] : i \in Nat
      BY <3>1
    <3> QED
      BY <3>2 DEF Between
  <2> QED
    BY <1>1, <1>2, <2>1 DEF Tried
<1> QED
  BY <1>1, <1>3 DEF Entered

LEMMA EdgeEntered == ASSUME Breadthfirst, Entered, Edge PROVE Entered'
<1> DEFINE v == Visited
           k == NextChannel
           x == Neighbour
           on == Distance(adj, source, x) = distances[v] + 1
<1>1. /\ edges # << >> /\ UNCHANGED <<adj, source, delta, bc>>
      /\ distances[v] \in Nat /\ distances[v] = Distance(adj, source, v)
      /\ pred' = IF on THEN [pred EXCEPT ![x] = Append(@, v)] ELSE pred
  BY EdgeFacts
<1>2. /\ v \in Nodes /\ k \in DOMAIN adj[v] /\ k \in Nat /\ x \in Nodes
      /\ ~Looked(v, k) /\ x = adj[v][k]
  BY <1>1, NextEdge DEF Neighbour
<1>3. adj \in Graphs /\ source \in Nodes /\ pred \in [Nodes -> Seq(Nodes)]
  BY DEF Breadthfirst, SearchTyped
<1>4. ASSUME NEW u \in Nodes, NEW i \in Nat
      PROVE  Looked(u, i)' <=> Looked(u, i) \/ (u = v /\ i = k)
  BY EdgeOrder, EdgeLooked
<1> HIDE DEF v, k, x
<1>5. ASSUME NEW u \in Nodes, NEW w \in Nodes
      PROVE  Cardinality(Entries(pred[w], u))' = Cardinality(Tried(u, w))'
  <2> DEFINE new == u = v /\ w = x /\ on
             B == Between(adj, source, u, w)
  <2>1. /\ Cardinality(Entries(pred[w], u)) \in Nat
        /\ Cardinality(Entries(pred'[w], u)) =
              Cardinality(Entries(pred[w], u)) + (IF new THEN 1 ELSE 0)
    <3>1. pred[w] \in Seq(Nodes)
      BY <1>3
    <3>2. CASE w = x /\ on
      <4>1. pred'[w] = Append(pred[w], v)
        BY <1>1, <1>2, <1>3, <3>2
      <4> QED
        BY <1>2, <3>1, <3>2, <4>1, EntriesAppended
    <3>3. CASE ~(w = x /\ on)
      <4>1. pred'[w] = pred[w]
        <5> HIDE DEF on
        <5> QED
          BY <1>1, <1>2, <1>3, <3>3
      <4>2. Cardinality(Entries(pred[w], u)) \in Nat
        BY <3>1, EntriesAppended
      <4> QED
        BY <3>3, <4>1, <4>2
    <3> QED
      BY <3>2, <3>3
  <2>2. \A i \in B : i \in Nat
    <3>1. adj[u] \in Seq(Nodes)
      BY <1>3 DEF Graphs
    <3>2. \A i \in DOMAIN adj[u] : i \in Nat
      BY <3>1
    <3> QED
      BY <3>2 DEF Between
  <2>3. u = v /\ k \in B <=> new
    <3>1. distances[v] # -1
      BY <1>1
    <3> QED
      BY <1>1, <1>2, <3>1 DEF Between
  <2>4. Tried(u, w)' = {i \in B : Looked(u, i) \/ (u = v /\ i = k)}
    BY <1>1, <1>4, <2>2 DEF Tried
  <2>5. Tried(u, w) = {i \in B : Looked(u, i)}
    BY DEF Tried
  <2>6. Tried(u, w)' = IF new THEN Tried(u, w) \union {k} ELSE Tried(u, w)
    <3> HIDE DEF B, new
    <3> QED
      BY <2>3, <2>4, <2>5
  <2>7. new => k \notin Tried(u, w)
    BY <1>2, <2>5
  <2>8. IsFiniteSet(Tried(u, w))
    BY <1>3, <2>5, BetweenFinite, FS_Subset
  <2>9. /\ Cardinality(Tried(u, w)) \in Nat
        /\ new => Cardinality(Tried(u, w) \union {k}) = Cardinality(Tried(u, w)) + 1
    BY <2>7, <2>8, FS_CardinalityType, FS_AddElement
  <2>10. Cardinality(Entries(pred[w], u)) = Cardinality(Tried(u, w))
    BY DEF Entered
  <2> HIDE DEF new, B
  <2> QED
    BY <2>1, <2>6, <2>9, <2>10
<1> QED
  BY <1>1, <1>5 DEF Entered

(* When the search ends all the channels have been entered, and the nodes  *)
(* within reach are in the stack.                                          *)
LEMMA EnteredReturned ==
  Breadthfirst /\ Entered /\ ~Searching /\ Exact(adj, source) => Returned
<1> SUFFICES ASSUME Breadthfirst, Entered, ~Searching, Exact(adj, source)
             PROVE  Returned
  OBVIOUS
<1>1. /\ SearchTyped /\ adj \in Graphs /\ source \in Nodes
      /\ stack \in Seq(Nodes) /\ edges = << >> /\ queue = << >>
      /\ distances \in [Nodes -> Int]
  BY DEF Breadthfirst, SearchTyped, Searching
<1>2. /\ Len(Order) = Len(stack) /\ Len(stack) \in Nat
      /\ \A p \in 1 .. Len(stack) : Order[p] = stack[p]
  <2>1. Len(queue) = 0
    BY <1>1
  <2> QED
    BY <1>1, <2>1, OrderFacts
<1>3. \A t \in Nodes : distances[t] = Distance(adj, source, t)
  BY SearchedRight DEF ShortestFound
<1>4. ASSUME NEW t \in Nodes, Distance(adj, source, t) # -1
      PROVE  \E p \in 1 .. Len(stack) : Order[p] = t
  BY <1>2, <1>3, <1>4 DEF Breadthfirst, Breadth
<1>5. ASSUME NEW v \in Nodes, NEW w \in Nodes
      PROVE  Cardinality(Entries(pred[w], v)) = Links(adj, source)[v][w]
  <2>1. ASSUME NEW i \in Between(adj, source, v, w) PROVE Looked(v, i)
    <3>1. i \in DOMAIN adj[v] /\ Distance(adj, source, v) # -1
      BY DEF Between
    <3>2. PICK p \in 1 .. Len(stack) : Order[p] = v
      BY <1>4, <3>1
    <3>3. i \in 1 .. Len(adj[v]) /\ Len(adj[v]) - Len(edges) = Len(adj[v])
      <4>1. adj[v] \in Seq(Nodes) /\ Len(edges) = 0
        BY <1>1 DEF Graphs
      <4> QED
        BY <3>1, <4>1
    <3> QED
      BY <3>2, <3>3 DEF Looked
  <2>2. Tried(v, w) = Between(adj, source, v, w)
    BY <2>1 DEF Tried
  <2>3. Links(adj, source)[v][w] = Cardinality(Between(adj, source, v, w))
    BY <1>1, PassedLinks
  <2> QED
    BY <2>2, <2>3 DEF Entered
<1>6. \A i, j \in 1 .. Len(stack) :
         i <= j => distances[stack[i]] <= distances[stack[j]]
  BY <1>2 DEF Breadthfirst, Breadth
<1>7. ASSUME NEW t \in Nodes, t \notin Elements(stack)
      PROVE  Distance(adj, source, t) = -1
  <2> SUFFICES ASSUME Distance(adj, source, t) # -1 PROVE FALSE
    OBVIOUS
  <2>1. PICK p \in 1 .. Len(stack) : stack[p] = t
    BY <1>2, <1>4
  <2>2. p \in DOMAIN stack
    BY <1>1
  <2> QED
    BY <1>7, <2>1, <2>2 DEF Elements
<1>8. ASSUME NEW v \in Nodes
      PROVE  delta[v] = Count(adj, source, v)
                           * Dot(Nodes, Links(adj, source)[v], Given)
  <2> DEFINE m == Links(adj, source)[v]
             f == [w \in Nodes |-> m[w] * Given[w]]
             c == Count(adj, source, v)
  <2>1. ASSUME NEW w \in Nodes PROVE f[w] = 0
    <3>1. f[w] = m[w] * Given[w] /\ m[w] \in Nat
      BY <1>1, PassedLinks DEF Matrix
    <3>2. \A a \in Nat : a * 0 = 0 /\ 0 * a = 0
      BY Z3
    <3>3. CASE w \in Elements(stack)
      <4>1. Given[w] = 0
        BY <3>3 DEF Given
      <4> HIDE DEF m, f
      <4> QED
        BY <3>1, <3>2, <4>1
    <3>4. CASE w \notin Elements(stack)
      <4>1. Distance(adj, source, w) = -1
        BY <1>7, <3>4
      <4>2. m[w] = Cardinality(Between(adj, source, v, w))
        BY <1>1, PassedLinks
      <4>3. m[w] = 0
        <5> SUFFICES ASSUME m[w] # 0 PROVE FALSE
          OBVIOUS
        <5>1. Distance(adj, source, v) \in Nat
              /\ Distance(adj, source, w) = Distance(adj, source, v) + 1
          BY <1>1, <4>2, BetweenFinite
        <5> QED
          BY <4>1, <5>1
      <4>4. Given[w] = Worth(adj, source)[w] /\ Worth(adj, source)[w] \in Nat
        BY <1>1, <3>4, WorthIs DEF Given
      <4> HIDE DEF m, f
      <4> QED
        BY <3>1, <3>2, <4>3, <4>4
    <3> QED
      BY <3>3, <3>4
  <2> HIDE DEF f
  <2>2. SumFunctionOnSet(f, Nodes) = 0
    BY <2>1, NodesFinite, SumZero
  <2>3. Dot(Nodes, m, Given) = 0
    BY <2>2 DEF Dot, f
  <2>4. c \in Nat
    BY <1>1, CountFacts
  <2>5. delta[v] = 0
    BY DEF Entered
  <2> HIDE DEF c, m
  <2>6. c * 0 = 0
    BY <2>4, Z3
  <2> QED
    BY <2>3, <2>5, <2>6 DEF c, m
<1>9. \A v \in Nodes :
         bc[v] = IF v \in Elements(stack) \/ v = source THEN 0
                 ELSE Onto(adj, source, v)
  <2> SUFFICES ASSUME NEW v \in Nodes, v \notin Elements(stack)
               PROVE  Onto(adj, source, v) = 0
    BY DEF Entered
  <2> QED
    BY <1>1, <1>7, WorthOnto
<1> QED
  BY <1>5, <1>6, <1>8, <1>9 DEF Returned

(* The node that is taken back has been handed all it is due, and hands on *)
(* its own worth.                                                          *)
LEMMA TopHanded ==
  ASSUME Searched, Returned, ~Searching, stack # << >>, Exact(adj, source)
  PROVE  /\ Top \in Nodes
         /\ delta[Top] = Onto(adj, source, Top)
         /\ \A v \in Nodes :
               Handed(v, Top) = Links(adj, source)[v][Top]
                  * (Count(adj, source, v) * Worth(adj, source)[Top])
<1> DEFINE w == Top
           n == Len(stack)
           m == Links(adj, source)
           g == Worth(adj, source)
<1>1. /\ SearchTyped /\ adj \in Graphs /\ source \in Nodes
      /\ stack \in Seq(Nodes) /\ sigma \in [Nodes -> Nat]
      /\ distances \in [Nodes -> Int]
  BY DEF Searched, SearchTyped
<1>2. n \in 1 .. n /\ w = stack[n] /\ w \in Nodes /\ DOMAIN stack = 1 .. n
  BY <1>1 DEF Top
<1> HIDE DEF w
<1>3. \A t \in Nodes : /\ distances[t] = Distance(adj, source, t)
                       /\ sigma[t] = Count(adj, source, t)
  BY DEF Searched, ShortestFound, Count
<1>4. distances[w] # -1
  BY <1>2 DEF Searched
<1>5. ASSUME NEW x \in Elements(stack) PROVE m[w][x] = 0
  <2>1. PICK i \in 1 .. n : stack[i] = x
    BY <1>2 DEF Elements
  <2>2. x \in Nodes
    BY <1>1, <2>1
  <2>3. distances[x] <= distances[w]
    BY <1>2, <2>1 DEF Returned
  <2>4. m[w][x] = Cardinality(Between(adj, source, w, x))
    BY <1>1, <1>2, <2>2, PassedLinks
  <2> SUFFICES ASSUME m[w][x] # 0 PROVE FALSE
    OBVIOUS
  <2>5. Distance(adj, source, w) \in Nat
        /\ Distance(adj, source, x) = Distance(adj, source, w) + 1
    BY <1>1, <1>2, <2>4, BetweenFinite
  <2> QED
    BY <1>2, <1>3, <2>2, <2>3, <2>5
<1>6. Dot(Nodes, m[w], Given) = Dot(Nodes, m[w], g)
  <2> DEFINE row == m[w]
  <2>1. \A x \in Nodes : row[x] \in Nat /\ g[x] \in Nat
    BY <1>1, <1>2, PassedLinks, WorthIs DEF Matrix
  <2>2. ASSUME NEW x \in Nodes PROVE row[x] * Given[x] = row[x] * g[x]
    <3>1. CASE x \in Elements(stack)
      <4>1. row[x] = 0 /\ Given[x] = 0
        BY <1>5, <3>1 DEF Given
      <4>2. g[x] \in Nat
        BY <2>1
      <4> HIDE DEF row, g
      <4>3. \A a \in Nat : 0 * a = 0
        BY Z3
      <4> QED
        BY <4>1, <4>2, <4>3
    <3>2. CASE x \notin Elements(stack)
      <4>1. Given[x] = g[x]
        BY <3>2 DEF Given
      <4> QED
        BY <4>1
    <3> QED
      BY <3>1, <3>2
  <2> HIDE DEF row, g
  <2>3. Dot(Nodes, row, Given) = Dot(Nodes, row, g)
    BY <2>2, NodesFinite, DotSame
  <2> QED
    BY <2>3 DEF row
<1>7. delta[w] = Onto(adj, source, w)
  <2>1. delta[w] = Count(adj, source, w) * Dot(Nodes, m[w], Given)
    BY <1>2 DEF Returned
  <2> QED
    BY <1>6, <2>1 DEF Onto
<1>8. ASSUME NEW v \in Nodes
      PROVE  Handed(v, w) = m[v][w] * (Count(adj, source, v) * g[w])
  <2> DEFINE a == Count(adj, source, v)
             b == Count(adj, source, w)
             e == g[w]
  <2>1. /\ a \in Nat /\ b \in Nat \ {0} /\ e \in Nat
        /\ sigma[v] = a /\ sigma[w] = b
    <3>1. Distance(adj, source, w) # -1
      BY <1>2, <1>3, <1>4
    <3> QED
      BY <1>1, <1>2, <1>3, <3>1, CountFacts, WorthIs
  <2>2. Scale + delta[w] = b * e
    <3>1. Distance(adj, source, w) # -1
      BY <1>2, <1>3, <1>4
    <3> QED
      BY <1>1, <1>2, <1>7, <3>1, WorthOnto
  <2>3. Cardinality({i \in DOMAIN pred[w] : pred[w][i] = v}) = m[v][w]
    BY <1>2 DEF Returned, Entries
  <2>4. Handed(v, w) = m[v][w] * ((a * (b * e)) \div b)
    <3> HIDE DEF a, b, e, m
    <3> QED
      BY <2>1, <2>2, <2>3 DEF Handed
  <2> HIDE DEF a, b, e, m
  <2>5. a * (b * e) = b * (a * e) /\ a * e \in Nat
    BY <2>1, Z3
  <2>6. (b * (a * e)) \div b = a * e
    BY <2>1, <2>5, DivExact
  <2> QED
    BY <2>4, <2>5, <2>6 DEF a, e, m
<1> QED
  BY <1>2, <1>7, <1>8 DEF w

LEMMA BackReturned ==
  ASSUME Searched, Returned, Back, Exact(adj, source)
  PROVE  Returned'
<1> DEFINE w == Top
           n == Len(stack)
           m == Links(adj, source)
           g == Worth(adj, source)
<1>1. /\ ~Searching /\ stack # << >>
      /\ delta' = [v \in Nodes |-> delta[v] + Handed(v, w)]
      /\ bc' = IF w = source THEN bc ELSE [bc EXCEPT ![w] = @ + delta[w]]
      /\ stack' = SubSeq(stack, 1, n - 1)
      /\ UNCHANGED <<adj, source, distances, sigma, pred, queue, edges>>
  BY DEF Back, Pop, graph, found
<1>2. /\ SearchTyped /\ adj \in Graphs /\ source \in Nodes
      /\ stack \in Seq(Nodes) /\ bc \in [Nodes -> Nat] /\ queue \in Seq(Nodes)
  BY DEF Searched, SearchTyped
<1>3. /\ w \in Nodes /\ delta[w] = Onto(adj, source, w)
      /\ \A v \in Nodes :
            Handed(v, w) = m[v][w] * (Count(adj, source, v) * g[w])
  BY <1>1, TopHanded
<1>4. /\ n \in 1 .. n /\ n \in Nat \ {0} /\ w = stack[n] /\ DOMAIN stack = 1 .. n
  BY <1>1, <1>2 DEF Top
<1>5. /\ Len(stack') = n - 1 /\ DOMAIN stack' = 1 .. (n - 1)
      /\ \A p \in 1 .. (n - 1) : stack'[p] = stack[p]
  <2> PICK s \in Seq(Nodes) : s = stack
    BY <1>2
  <2>1. n = Len(s) /\ n \in Nat \ {0}
    BY <1>4
  <2> HIDE DEF n
  <2>2. /\ Len(SubSeq(s, 1, n - 1)) = n - 1
        /\ DOMAIN SubSeq(s, 1, n - 1) = 1 .. (n - 1)
        /\ \A p \in 1 .. (n - 1) : SubSeq(s, 1, n - 1)[p] = s[p]
    BY <2>1
  <2>3. stack' = SubSeq(s, 1, n - 1)
    BY <1>1 DEF n
  <2> QED
    BY <2>1, <2>2, <2>3
<1>6. \A i, j \in 1 .. n : stack[i] = stack[j] => i = j
  <2>1. queue = << >>
    BY <1>1 DEF Searching
  <2>2. Len(queue) = 0
    BY <2>1
  <2>3. Len(Order) = n /\ \A p \in 1 .. n : Order[p] = stack[p]
    BY <1>2, <1>4, <2>2, OrderFacts
  <2> HIDE DEF n
  <2> QED
    BY <2>3 DEF Searched
<1> HIDE DEF w, n
<1>7. ASSUME NEW x PROVE x \in Elements(stack') <=> x \in Elements(stack) /\ x # w
  <2>1. \A p : p \in 1 .. n <=> p \in 1 .. (n - 1) \/ p = n
    BY <1>4
  <2>2. x \in Elements(stack') <=> \E p \in 1 .. (n - 1) : stack[p] = x
    BY <1>5 DEF Elements
  <2>3. x \in Elements(stack) <=> \E p \in 1 .. n : stack[p] = x
    BY <1>4 DEF Elements
  <2>4. \A p \in 1 .. (n - 1) : p # n /\ p \in 1 .. n
    BY <1>4
  <2> QED
    BY <1>4, <1>6, <2>1, <2>2, <2>3, <2>4
<1>8. w \in Elements(stack)
  BY <1>4 DEF Elements
<1>9. /\ \A v, x \in Nodes : m[v][x] \in Nat
      /\ \A x \in Nodes : g[x] \in Nat /\ Count(adj, source, x) \in Nat
  <2>1. \A v, x \in Nodes : m[v][x] \in Nat
    BY <1>2, PassedLinks DEF Matrix
  <2>2. \A x \in Nodes : g[x] \in Nat
    BY <1>2, WorthIs
  <2>3. \A x \in Nodes : Count(adj, source, x) \in Nat
    BY <1>2, CountFacts
  <2> QED
    BY <2>1, <2>2, <2>3
<1>10. ASSUME NEW x \in Nodes
       PROVE  /\ Given[x] \in Nat /\ Given'[x] \in Nat
              /\ Given'[x] = Given[x] + (IF x = w THEN g[w] ELSE 0)
  <2>1. Given[x] = IF x \in Elements(stack) THEN 0 ELSE g[x]
    BY DEF Given
  <2>2. Given'[x] = IF x \in Elements(stack') THEN 0 ELSE g[x]
    BY <1>1 DEF Given, Elements
  <2>3. g[x] \in Nat
    BY <1>9
  <2> HIDE DEF g
  <2> QED
    BY <1>7, <1>8, <2>1, <2>2, <2>3
<1>11. ASSUME NEW v \in Nodes
       PROVE  Dot(Nodes, m[v], Given') = Dot(Nodes, m[v], Given) + g[w] * m[v][w]
              /\ Dot(Nodes, m[v], Given) \in Nat
  <2> DEFINE row == m[v]
             more == [x \in Nodes |-> IF x = w THEN g[w] ELSE 0]
             one == Unit(Nodes, w)
  <2>1. \A x \in Nodes : row[x] \in Nat
    BY <1>9
  <2>2. \A x \in Nodes : /\ more[x] \in Nat /\ one[x] \in Nat
                         /\ Given'[x] = Given[x] + more[x]
    <3>1. g[w] \in Nat
      BY <1>3, <1>9
    <3> HIDE DEF g
    <3> QED
      BY <1>10, <3>1 DEF Unit
  <2>3. \A a, b, c \in Nat : a * (b + c) = a * b + a * c
    BY Z3
  <2>4. Dot(Nodes, row, Given') = Dot(Nodes, row, Given) + Dot(Nodes, row, more)
    <3> HIDE DEF row, more
    <3>1. \A x \in Nodes : row[x] * Given'[x] = row[x] * Given[x] + row[x] * more[x]
      BY <1>10, <2>1, <2>2, <2>3
    <3> QED
      BY <1>10, <2>1, <2>2, <3>1, NodesFinite, DotPlus
  <2>5. Dot(Nodes, row, more) = g[w] * Dot(Nodes, row, one)
    <3>1. g[w] \in Nat
      BY <1>3, <1>9
    <3>2. \A x \in Nodes : row[x] * more[x] = g[w] * (row[x] * one[x])
      <4> SUFFICES ASSUME NEW x \in Nodes
                   PROVE  row[x] * more[x] = g[w] * (row[x] * one[x])
        OBVIOUS
      <4>1. \A a, b \in Nat : a * b = b * (a * 1) /\ a * 0 = b * (a * 0)
        BY Z3
      <4>2. row[x] \in Nat
        BY <2>1
      <4>3. /\ x = w => more[x] = g[w] /\ one[x] = 1
            /\ x # w => more[x] = 0 /\ one[x] = 0
        BY DEF Unit
      <4> HIDE DEF row, more, one, g
      <4>4. CASE x = w
        BY <3>1, <4>1, <4>2, <4>3, <4>4
      <4>5. CASE x # w
        BY <3>1, <4>1, <4>2, <4>3, <4>5
      <4> QED
        BY <4>4, <4>5
    <3> HIDE DEF row, more, one, g
    <3> QED
      BY <2>1, <2>2, <3>1, <3>2, NodesFinite, DotTimes
  <2>6. Dot(Nodes, row, one) = row[w]
    <3> HIDE DEF row
    <3> QED
      BY <1>3, <2>1, NodesFinite, DotUnit
  <2>7. Dot(Nodes, row, Given) \in Nat
    <3> HIDE DEF row
    <3> QED
      BY <1>10, <2>1, NodesFinite, DotType
  <2> HIDE DEF more, one
  <2> QED
    BY <2>4, <2>5, <2>6, <2>7
<1>12. ASSUME NEW v \in Nodes
       PROVE  delta'[v] = Count(adj, source, v) * Dot(Nodes, m[v], Given')
  <2> DEFINE c == Count(adj, source, v)
             d == Dot(Nodes, m[v], Given)
             e == Dot(Nodes, m[v], Given')
             a == m[v][w]
             b == g[w]
  <2>1. c \in Nat /\ d \in Nat /\ a \in Nat /\ b \in Nat /\ e = d + b * a
    BY <1>3, <1>9, <1>11
  <2>2. delta[v] = c * d
    BY DEF Returned
  <2>3. delta'[v] = delta[v] + Handed(v, w) /\ Handed(v, w) = a * (c * b)
    BY <1>1, <1>3
  <2> HIDE DEF a, b, c, d, e
  <2>4. c * (d + b * a) = c * d + a * (c * b)
    BY <2>1, Z3
  <2>5. delta'[v] = c * e
    BY <2>1, <2>2, <2>3, <2>4
  <2> QED
    BY <2>5 DEF c, e
<1>13. ASSUME NEW v \in Nodes
       PROVE  bc'[v] = IF v \in Elements(stack') \/ v = source THEN 0
                       ELSE Onto(adj, source, v)
  <2>1. bc[v] = IF v \in Elements(stack) \/ v = source THEN 0
                ELSE Onto(adj, source, v)
    BY DEF Returned
  <2>2. CASE v = w /\ w # source
    <3>1. bc'[v] = bc[w] + delta[w]
      BY <1>1, <1>2, <1>3, <2>2
    <3>2. bc[w] = 0 /\ Onto(adj, source, w) \in Nat
      BY <1>2, <1>3, <1>8, <2>1, <2>2, WorthOnto
    <3> QED
      BY <1>3, <1>7, <2>2, <3>1, <3>2
  <2>3. CASE v # w \/ w = source
    <3>1. bc'[v] = bc[v]
      BY <1>1, <1>2, <1>3, <2>3
    <3> QED
      BY <1>7, <2>1, <2>3, <3>1
  <2> QED
    BY <2>2, <2>3
<1>14. \A i, j \in 1 .. Len(stack') :
          i <= j => distances[stack'[i]] <= distances[stack'[j]]
  <2>1. \A p \in 1 .. (n - 1) : p \in 1 .. n
    BY <1>4
  <2>2. \A i, j \in 1 .. n : i <= j => distances[stack[i]] <= distances[stack[j]]
    BY DEF Returned, n
  <2> QED
    BY <1>5, <2>1, <2>2
<1>15. \A v, x \in Nodes : Cardinality(Entries(pred[x], v)) = m[v][x]
  BY DEF Returned
<1> QED
  BY <1>1, <1>12, <1>13, <1>14, <1>15 DEF Returned, Elements

(* The inductive invariant behind DependenciesRight.                       *)
Dependent ==
    /\ Searched /\ Exact(adj, source)
    /\ IF Searching THEN Entered ELSE Returned

LEMMA InitDependent == ASSUME Init PROVE Dependent
<1>1. Searched
  BY InitBreadth, BreadthSearched
<1>2. Exact(adj, source)
  BY ExactAssumption DEF Init
<1>3. Searching
  <2>1. queue = <<source>>
    BY DEF Init
  <2>2. queue # << >>
    BY <2>1
  <2> QED
    BY <2>2 DEF Searching
<1> QED
  BY <1>1, <1>2, <1>3, InitEntered DEF Dependent

LEMMA ForwardDependent ==
  ASSUME Dependent, Visit \/ Edge PROVE Dependent'
<1>1. Searching
  BY DEF Visit, Edge, Searching
<1>2. Breadthfirst /\ Entered /\ Exact(adj, source)
  BY <1>1 DEF Dependent, Searched
<1>3. Breadthfirst' /\ Entered'
  BY <1>2, VisitBreadth, VisitEntered, EdgeBreadth, EdgeEntered
<1>4. Exact(adj, source)'
  <2>1. adj' = adj /\ source' = source
    BY DEF Visit, Edge, graph
  <2> QED
    BY <1>2, <2>1
<1>5. Searched'
  BY <1>3, BreadthSearched, PTL
<1>6. ~Searching' => Returned'
  BY <1>3, <1>4, EnteredReturned, PTL
<1> QED
  BY <1>3, <1>4, <1>5, <1>6 DEF Dependent

LEMMA NextDependent == ASSUME Dependent, [Next]_vars PROVE Dependent'
<1>1. Searched'
  BY NextSearched DEF Dependent
<1>2. CASE Visit \/ Edge
  BY <1>2, ForwardDependent
<1>3. CASE Back
  <2>1. ~Searching /\ UNCHANGED <<adj, source, queue, edges>>
    BY <1>3 DEF Back, graph
  <2>2. ~Searching' /\ Exact(adj, source)'
    BY <2>1 DEF Dependent, Searching
  <2>3. Returned'
    BY <1>3, <2>1, BackReturned DEF Dependent
  <2> QED
    BY <1>1, <2>2, <2>3 DEF Dependent
<1>4. CASE UNCHANGED vars
  <2>1. UNCHANGED <<adj, source, distances, sigma, pred, queue, stack, edges,
                    delta, bc>>
    BY <1>4 DEF vars, graph, found
  <2>2. Searching' = Searching /\ Exact(adj, source)' = Exact(adj, source)
    BY <2>1 DEF Searching
  <2>3. Entered' = Entered
    BY <2>1 DEF Entered, Tried, Looked, Order
  <2>4. Returned' = Returned
    BY <2>1 DEF Returned, Given, Elements
  <2> QED
    BY <1>1, <2>2, <2>3, <2>4 DEF Dependent
<1> QED
  BY <1>2, <1>3, <1>4 DEF Next

LEMMA DependentRight == Dependent => DependenciesRight
<1> SUFFICES ASSUME Dependent, ~Searching, stack = << >>, NEW v \in Nodes
             PROVE  bc[v] = IF v = source THEN 0 ELSE Dependency(adj, source, v)
  BY DEF DependenciesRight
<1>1. adj \in Graphs /\ source \in Nodes /\ Exact(adj, source) /\ Returned
  BY DEF Dependent, Searched, SearchTyped
<1>2. v \notin Elements(stack)
  BY DEF Elements
<1>3. bc[v] = IF v = source THEN 0 ELSE Onto(adj, source, v)
  BY <1>1, <1>2 DEF Returned
<1> QED
  BY <1>1, <1>3, DependencyIs

(* A sequence that has nothing twice has as many elements as places.       *)
LEMMA DistinctSize ==
  ASSUME NEW T, NEW seq \in Seq(T),
         \A i, j \in 1 .. Len(seq) : seq[i] = seq[j] => i = j
  PROVE  Cardinality({seq[i] : i \in DOMAIN seq}) = Len(seq)
<1> DEFINE n == Len(seq)
           E == {seq[i] : i \in DOMAIN seq}
           f == [i \in 1 .. n |-> seq[i]]
<1>1. n \in Nat /\ DOMAIN seq = 1 .. n
  OBVIOUS
<1>2. IsFiniteSet(1 .. n) /\ Cardinality(1 .. n) = n
  BY <1>1, FS_Interval
<1>3. f \in Bijection(1 .. n, E)
  <2>1. f \in [1 .. n -> E] /\ DOMAIN f = 1 .. n
    BY <1>1
  <2>2. \A i, j \in 1 .. n : f[i] = f[j] => i = j
    OBVIOUS
  <2>3. \A y \in E : \E i \in 1 .. n : f[i] = y
    BY <1>1
  <2> HIDE DEF f, E, n
  <2> QED
    BY <2>1, <2>2, <2>3 DEF Bijection, Injection, IsInjective, Surjection
<1>4. ExistsBijection(1 .. n, E)
  BY <1>3 DEF ExistsBijection
<1> HIDE DEF E, n
<1>5. Cardinality(E) = n
  BY <1>2, <1>4, FS_Bijection
<1> QED
  BY <1>5 DEF E, n

LEMMA SearchedTypeOK == Searched => TypeOK
<1> SUFFICES ASSUME Searched PROVE TypeOK
  OBVIOUS
<1>1. /\ SearchTyped /\ adj \in Graphs /\ source \in Nodes
      /\ distances \in [Nodes -> Int]
  BY DEF Searched, SearchTyped
<1>2. \A t \in Nodes : distances[t] \in -1 .. (N - 1)
  <2> SUFFICES ASSUME NEW t \in Nodes PROVE distances[t] \in -1 .. (N - 1)
    OBVIOUS
  <2>1. CASE distances[t] = -1
    BY <2>1, PathsAssumption
  <2>2. CASE distances[t] # -1
    <3>1. distances[t] = Distance(adj, source, t)
      BY <2>2 DEF Searched
    <3>2. distances[t] \in Nat /\ distances[t] < N
      BY <1>1, <2>2, <3>1, DistanceReached
    <3> QED
      BY <3>2, PathsAssumption
  <2> QED
    BY <2>1, <2>2
<1>3. distances \in [Nodes -> -1 .. (N - 1)]
  BY <1>1, <1>2
<1>4. Order \in Seq(Nodes)
  BY <1>1, OrderFacts
<1>5. Cardinality(Elements(Order)) = Len(Order)
  <2>1. \A i, j \in 1 .. Len(Order) : Order[i] = Order[j] => i = j
    BY DEF Searched
  <2> QED
    BY <1>4, <2>1, DistinctSize DEF Elements
<1> QED
  BY <1>1, <1>3, <1>4, <1>5, Zenon
  DEF TypeOK, SearchTyped, Graphs, Order

(* Distances stay below the number of nodes and no node is found twice, in *)
(* whichever graph (getNodeCentrality).                                    *)
THEOREM SearchTypeCorrect == Spec => []TypeOK
<1> QED
  BY SearchedTypeOK, AlwaysSearched, PTL

(* Every distance and every number of shortest paths that the search has   *)
(* settled is right, parallel channels and unreachable nodes included, so  *)
(* that what Search of Centrality takes from Paths is what is found        *)
(* (getNodeCentrality).                                                    *)
THEOREM ShortestAreFound == Spec => []ShortestFound
<1>1. Searched => ShortestFound
  BY DEF Searched
<1> QED
  BY <1>1, AlwaysSearched, PTL

(* When all nodes have been taken back each has what the definition of     *)
(* betweenness gives it for this source: the sum over the targets of the   *)
(* share of the shortest paths that lead through it (getNodeCentrality).   *)
THEOREM DependenciesAreRight == Spec => []DependenciesRight
<1>1. Spec => []Dependent
  <2>1. Init => Dependent
    BY InitDependent
  <2>2. Dependent /\ [Next]_vars => Dependent'
    BY NextDependent
  <2> QED
    BY <2>1, <2>2, PTL DEF Spec
<1> QED
  BY <1>1, DependentRight, PTL
=============================================================================
