---------------------------- MODULE MeasureProofs ----------------------------
(***************************************************************************)
(* Lemmas about what channels and nodes are measured by: walks, distances  *)
(* and shares of shortest paths on the one hand, heuristics, the ranges    *)
(* that Update makes of any values and the scores that GetScore gives them *)
(* on the other.                                                           *)
(***************************************************************************)
EXTENDS Paths, Heuristic, Arithmetic

(***************************************************************************)
(* The recursion that walks are defined by                                 *)
(***************************************************************************)
Start(s) == <<[channel |-> 0, node |-> s]>>

(* g has the walks from s of each length up to n.                          *)
WalksUpTo(g, n, adj, s) ==
    g = [k \in 0 .. n |-> IF k = 0 THEN {Start(s)} ELSE Longer(adj, g[k - 1])]

AllWalks(g, adj, s) ==
    g = [k \in Nat |-> IF k = 0 THEN {Start(s)} ELSE Longer(adj, g[k - 1])]

LEMMA WalksAgree ==
  ASSUME NEW adj, NEW s, NEW n \in Nat, NEW g, WalksUpTo(g, n, adj, s),
         NEW m \in Nat, NEW h, WalksUpTo(h, m, adj, s),
         NEW k \in 0 .. n, k <= m
  PROVE  g[k] = h[k]
<1> DEFINE A == {j \in Nat : j <= n /\ j <= m => g[j] = h[j]}
<1>1. \A j \in 0 .. n :
         g[j] = IF j = 0 THEN {Start(s)} ELSE Longer(adj, g[j - 1])
  BY DEF WalksUpTo
<1>2. \A j \in 0 .. m :
         h[j] = IF j = 0 THEN {Start(s)} ELSE Longer(adj, h[j - 1])
  BY DEF WalksUpTo
<1>3. 0 \in A
  BY <1>1, <1>2
<1>4. ASSUME NEW j \in A PROVE j + 1 \in A
  <2>0. j \in Nat
    OBVIOUS
  <2> SUFFICES ASSUME j + 1 <= n, j + 1 <= m PROVE g[j + 1] = h[j + 1]
    OBVIOUS
  <2>1. g[j] = h[j]
    OBVIOUS
  <2>2. g[j + 1] = Longer(adj, g[j])
    BY <1>1
  <2>3. h[j + 1] = Longer(adj, h[j])
    BY <1>2
  <2> QED
    BY <2>1, <2>2, <2>3
<1>5. A = Nat
  <2> HIDE DEF A
  <2>1. A \subseteq Nat
    BY DEF A
  <2> QED
    BY <1>3, <1>4, <2>1, NaturalInduction
<1> QED
  BY <1>5

LEMMA WalksExist == ASSUME NEW adj, NEW s PROVE \E g : AllWalks(g, adj, s)
<1> DEFINE E(g, n) == WalksUpTo(g, n, adj, s)
           A == {n \in Nat : \E g : E(g, n)}
<1>1. 0 \in A
  <2>1. E([k \in 0 .. 0 |-> {Start(s)}], 0)
    BY DEF WalksUpTo
  <2> QED
    BY <2>1
<1>2. ASSUME NEW n \in A PROVE n + 1 \in A
  <2>0. n \in Nat
    OBVIOUS
  <2>1. PICK g : E(g, n)
    OBVIOUS
  <2> DEFINE h == [k \in 0 .. (n + 1) |->
                     IF k = 0 THEN {Start(s)} ELSE Longer(adj, g[k - 1])]
  <2>2. \A k \in 0 .. n : g[k] = IF k = 0 THEN {Start(s)} ELSE Longer(adj, g[k - 1])
    BY <2>1 DEF WalksUpTo
  <2>3. ASSUME NEW k \in 0 .. n PROVE h[k] = g[k]
    <3>1. k \in 0 .. (n + 1)
      BY <2>0
    <3>2. h[k] = IF k = 0 THEN {Start(s)} ELSE Longer(adj, g[k - 1])
      BY <3>1
    <3> QED
      BY <2>2, <3>2
  <2>4. \A k \in 0 .. (n + 1) : k # 0 => k - 1 \in 0 .. n
    BY <2>0
  <2>5. E(h, n + 1)
    BY <2>3, <2>4 DEF WalksUpTo
  <2> QED
    BY <2>0, <2>5
<1>3. A = Nat
  <2> HIDE DEF A
  <2>1. A \subseteq Nat
    BY DEF A
  <2> QED
    BY <1>1, <1>2, <2>1, NaturalInduction
<1> DEFINE part(n) == CHOOSE g : E(g, n)
           f == [k \in Nat |-> part(k)[k]]
<1>4. \A n \in Nat : E(part(n), n)
  BY <1>3
<1>5. ASSUME NEW k \in Nat
      PROVE  f[k] = IF k = 0 THEN {Start(s)} ELSE Longer(adj, f[k - 1])
  <2>1. part(k)[k] = IF k = 0 THEN {Start(s)} ELSE Longer(adj, part(k)[k - 1])
    <3> DEFINE p == part(k)
    <3>1. WalksUpTo(p, k, adj, s)
      BY <1>4
    <3>2. k \in 0 .. k
      OBVIOUS
    <3> HIDE DEF p
    <3>3. p[k] = IF k = 0 THEN {Start(s)} ELSE Longer(adj, p[k - 1])
      BY <3>1, <3>2 DEF WalksUpTo
    <3> QED
      BY <3>3 DEF p
  <2>2. CASE k = 0
    BY <2>1, <2>2
  <2>3. CASE k # 0
    <3>1. k - 1 \in Nat /\ k - 1 \in 0 .. k /\ k - 1 <= k - 1
      BY <2>3
    <3>2. part(k)[k - 1] = part(k - 1)[k - 1]
      <4> HIDE DEF part
      <4>1. E(part(k), k) /\ E(part(k - 1), k - 1)
        BY <1>4, <3>1
      <4> QED
        BY <3>1, <4>1, WalksAgree
    <3> HIDE DEF part
    <3> QED
      BY <2>1, <2>3, <3>1, <3>2
  <2> QED
    BY <2>2, <2>3
<1>6. AllWalks(f, adj, s)
  <2> HIDE DEF part
  <2>1. f = [k \in Nat |-> f[k]]
    OBVIOUS
  <2> HIDE DEF f
  <2> QED
    BY <1>5, <2>1 DEF AllWalks
<1> QED
  BY <1>6

(* The walks of a length are those that are one shorter and one channel.   *)
LEMMA WalksUnfold ==
  ASSUME NEW adj, NEW s
  PROVE  /\ Walks(adj, s)[0] = {Start(s)}
         /\ \A k \in Nat : Walks(adj, s)[k + 1] = Longer(adj, Walks(adj, s)[k])
<1> DEFINE G == CHOOSE g : AllWalks(g, adj, s)
<1>1. AllWalks(G, adj, s)
  BY WalksExist
<1>2. Walks(adj, s) = G
  BY DEF Walks, AllWalks, Start
<1> HIDE DEF G
<1>3. \A k \in Nat : G[k] = IF k = 0 THEN {Start(s)} ELSE Longer(adj, G[k - 1])
  BY <1>1 DEF AllWalks
<1>4. \A k \in Nat : k + 1 \in Nat /\ k + 1 # 0 /\ (k + 1) - 1 = k
  OBVIOUS
<1> QED
  BY <1>2, <1>3, <1>4

(***************************************************************************)
(* What walks are                                                          *)
(***************************************************************************)
Graphs == [Nodes -> Seq(Nodes)]

Steps == [channel : Nat, node : Nodes]

(* The step after a goes through a channel of the node of a.               *)
Follows(adj, a, b) ==
    b.channel \in DOMAIN adj[a.node] /\ b.node = adj[a.node][b.channel]

IsWalk(adj, s, k, w) ==
    /\ w \in Seq(Steps) /\ Len(w) = k + 1
    /\ w[1] = [channel |-> 0, node |-> s]
    /\ \A i \in 1 .. k : Follows(adj, w[i], w[i + 1])

(* Something longer is a walk and a step that follows its end.             *)
LEMMA LongerWalk ==
  ASSUME NEW adj \in Graphs, NEW s \in Nodes, NEW k \in Nat,
         NEW v, IsWalk(adj, s, k, v), NEW i \in DOMAIN adj[End(v)]
  PROVE  IsWalk(adj, s, k + 1, Extended(adj, v, i))
<1> DEFINE step == [channel |-> i, node |-> adj[End(v)][i]]
           w == Append(v, step)
<1>1. v \in Seq(Steps) /\ Len(v) = k + 1 /\ v[k + 1] \in Steps /\ End(v) \in Nodes
  <2>1. v \in Seq(Steps) /\ Len(v) = k + 1
    BY DEF IsWalk
  <2>2. v[k + 1] \in Steps
    BY <2>1
  <2> QED
    BY <2>1, <2>2 DEF End, Steps
<1>2. step \in Steps
  <2>1. adj[End(v)] \in Seq(Nodes)
    BY <1>1 DEF Graphs
  <2>2. i \in Nat /\ adj[End(v)][i] \in Nodes
    BY <2>1
  <2> QED
    BY <2>2 DEF Steps
<1>3. w \in Seq(Steps) /\ Len(w) = k + 2 /\ w[k + 2] = step
      /\ \A j \in 1 .. (k + 1) : w[j] = v[j]
  <2> HIDE DEF step
  <2> QED
    BY <1>1, <1>2
<1>4. Follows(adj, v[k + 1], step)
  BY <1>1 DEF Follows, End
<1>5. ASSUME NEW j \in 1 .. (k + 1) PROVE Follows(adj, w[j], w[j + 1])
  <2>1. CASE j = k + 1
    <3>1. w[j] = v[k + 1] /\ w[j + 1] = step
      BY <1>3, <2>1
    <3> HIDE DEF w, step
    <3> QED
      BY <1>4, <3>1
  <2>2. CASE j # k + 1
    <3>1. j \in 1 .. k /\ j + 1 \in 1 .. (k + 1)
      BY <2>2
    <3>2. w[j] = v[j] /\ w[j + 1] = v[j + 1]
      BY <1>3, <3>1
    <3>3. Follows(adj, v[j], v[j + 1])
      BY <3>1 DEF IsWalk
    <3> HIDE DEF w
    <3> QED
      BY <3>2, <3>3
  <2> QED
    BY <2>1, <2>2
<1>6. w[1] = [channel |-> 0, node |-> s]
  BY <1>3 DEF IsWalk
<1> HIDE DEF w
<1>7. IsWalk(adj, s, k + 1, w)
  BY <1>3, <1>5, <1>6 DEF IsWalk
<1> QED
  BY <1>7 DEF w, Extended

(* A walk of some length is a shorter one and its last step.               *)
LEMMA ShorterWalk ==
  ASSUME NEW adj \in Graphs, NEW s \in Nodes, NEW k \in Nat,
         NEW w, IsWalk(adj, s, k + 1, w)
  PROVE  \E v : /\ IsWalk(adj, s, k, v)
                /\ \E i \in DOMAIN adj[End(v)]  : w = Extended(adj, v, i)
<1> DEFINE v == SubSeq(w, 1, k + 1)
           last == w[k + 2]
<1>1. w \in Seq(Steps) /\ Len(w) = k + 2 /\ last \in Steps
  BY DEF IsWalk
<1>2. v \in Seq(Steps) /\ Len(v) = k + 1 /\ \A j \in 1 .. (k + 1) : v[j] = w[j]
  BY <1>1
<1>3. IsWalk(adj, s, k, v)
  <2>1. v[1] = [channel |-> 0, node |-> s]
    BY <1>2 DEF IsWalk
  <2>2. ASSUME NEW j \in 1 .. k PROVE Follows(adj, v[j], v[j + 1])
    <3>1. v[j] = w[j] /\ v[j + 1] = w[j + 1]
      BY <1>2
    <3>2. Follows(adj, w[j], w[j + 1])
      BY DEF IsWalk
    <3> HIDE DEF v
    <3> QED
      BY <3>1, <3>2
  <2> HIDE DEF v
  <2> QED
    BY <1>2, <2>1, <2>2 DEF IsWalk
<1>4. Follows(adj, v[k + 1], last)
  <2>1. v[k + 1] = w[k + 1] /\ k + 1 \in 1 .. (k + 1) /\ (k + 1) + 1 = k + 2
    BY <1>2
  <2>2. Follows(adj, w[k + 1], w[(k + 1) + 1])
    BY DEF IsWalk
  <2> HIDE DEF v
  <2> QED
    BY <2>1, <2>2
<1>5. w = Append(v, last)
  <2>1. Append(v, last) \in Seq(Steps) /\ Len(Append(v, last)) = k + 2
        /\ Append(v, last)[k + 2] = last
        /\ \A j \in 1 .. (k + 1) : Append(v, last)[j] = v[j]
    <3> HIDE DEF v, last
    <3> QED
      BY <1>1, <1>2
  <2>2. \A j \in 1 .. (k + 2) : Append(v, last)[j] = w[j]
    BY <1>2, <2>1
  <2> QED
    BY <1>1, <2>1, <2>2
<1>6. last = [channel |-> last.channel, node |-> adj[End(v)][last.channel]]
      /\ last.channel \in DOMAIN adj[End(v)]
  <2>1. End(v) = v[k + 1].node
    BY <1>2 DEF End
  <2> HIDE DEF v, last
  <2> QED
    BY <1>1, <1>4, <2>1 DEF Follows, Steps
<1>7. w = Extended(adj, v, last.channel)
  <2> HIDE DEF v, last
  <2> QED
    BY <1>5, <1>6 DEF Extended
<1> HIDE DEF v, last
<1> QED
  BY <1>3, <1>6, <1>7

LEMMA LongerIs ==
  ASSUME NEW adj, NEW walks, NEW w
  PROVE  w \in Longer(adj, walks) <=>
           \E v \in walks : \E i \in DOMAIN adj[End(v)] :
              w = Extended(adj, v, i)
<1> DEFINE more(v) == {Extended(adj, v, i) : i \in DOMAIN adj[End(v)]}
<1>1. w \in Longer(adj, walks) <=> \E v \in walks : w \in more(v)
  BY Zenon DEF Longer
<1>2. ASSUME NEW v \in walks
      PROVE  w \in more(v) <=>
               \E i \in DOMAIN adj[End(v)] : w = Extended(adj, v, i)
  OBVIOUS
<1> QED
  BY <1>1, <1>2, Zenon

(* The enumeration of walks has each of them and nothing else.             *)
LEMMA WalksAre ==
  ASSUME NEW adj \in Graphs, NEW s \in Nodes, NEW k \in Nat
  PROVE  \A w : w \in Walks(adj, s)[k] <=> IsWalk(adj, s, k, w)
<1> DEFINE E(j) == \A w : w \in Walks(adj, s)[j] <=> IsWalk(adj, s, j, w)
           A == {j \in Nat : E(j)}
<1>1. 0 \in A
  <2> SUFFICES ASSUME NEW w
               PROVE  w \in Walks(adj, s)[0] <=> IsWalk(adj, s, 0, w)
    OBVIOUS
  <2>1. w \in Walks(adj, s)[0] <=> w = Start(s)
    BY WalksUnfold
  <2>2. [channel |-> 0, node |-> s] \in Steps
    BY DEF Steps
  <2>3. IsWalk(adj, s, 0, Start(s))
    BY <2>2 DEF IsWalk, Start
  <2>4. ASSUME IsWalk(adj, s, 0, w) PROVE w = Start(s)
    BY <2>4 DEF IsWalk, Start
  <2> QED
    BY <2>1, <2>3, <2>4
<1>2. ASSUME NEW j \in A PROVE j + 1 \in A
  <2>0. j \in Nat /\ E(j)
    OBVIOUS
  <2> SUFFICES ASSUME NEW w
               PROVE  w \in Walks(adj, s)[j + 1] <=> IsWalk(adj, s, j + 1, w)
    BY <2>0
  <2>1. w \in Walks(adj, s)[j + 1] <=>
          \E v \in Walks(adj, s)[j] : \E i \in DOMAIN adj[End(v)] :
             w = Extended(adj, v, i)
    <3>1. Walks(adj, s)[j + 1] = Longer(adj, Walks(adj, s)[j])
      BY <2>0, WalksUnfold
    <3>2. w \in Longer(adj, Walks(adj, s)[j]) <=>
            \E v \in Walks(adj, s)[j] : \E i \in DOMAIN adj[End(v)] :
               w = Extended(adj, v, i)
      BY LongerIs
    <3> QED
      BY <3>1, <3>2, Zenon
  <2> HIDE DEF A
  <2>2. ASSUME w \in Walks(adj, s)[j + 1] PROVE IsWalk(adj, s, j + 1, w)
    <3> PICK v \in Walks(adj, s)[j] : \E i \in DOMAIN adj[End(v)] :
           w = Extended(adj, v, i)
      BY <2>1, <2>2
    <3>1. IsWalk(adj, s, j, v)
      BY <2>0
    <3> QED
      BY <2>0, <3>1, LongerWalk
  <2>3. ASSUME IsWalk(adj, s, j + 1, w) PROVE w \in Walks(adj, s)[j + 1]
    <3>0. j \in Nat
      BY <2>0
    <3>1. PICK v : /\ IsWalk(adj, s, j, v)
                   /\ \E i \in DOMAIN adj[End(v)] : w = Extended(adj, v, i)
      BY <3>0, <2>3, ShorterWalk
    <3>2. v \in Walks(adj, s)[j]
      BY <2>0, <3>1
    <3> QED
      BY <2>1, <3>1, <3>2
  <2> QED
    BY <2>2, <2>3
<1>3. A = Nat
  <2> HIDE DEF A
  <2>1. A \subseteq Nat
    BY DEF A
  <2> QED
    BY <1>1, <1>2, <2>1, NaturalInduction
<1> QED
  BY <1>3

(* There are finitely many walks of a length.                              *)
LEMMA WalksFinite ==
  ASSUME NEW adj \in Graphs, NEW s \in Nodes, NEW k \in Nat
  PROVE  IsFiniteSet(Walks(adj, s)[k]) /\ Cardinality(Walks(adj, s)[k]) \in Nat
<1> DEFINE A == {j \in Nat : IsFiniteSet(Walks(adj, s)[j])}
<1>1. 0 \in A
  <2>1. Walks(adj, s)[0] = {Start(s)}
    BY WalksUnfold
  <2> QED
    BY <2>1, FS_Singleton
<1>2. ASSUME NEW j \in A PROVE j + 1 \in A
  <2>0. j \in Nat /\ IsFiniteSet(Walks(adj, s)[j])
    OBVIOUS
  <2> DEFINE walks == Walks(adj, s)[j]
             steps(v) == [i \in DOMAIN adj[End(v)] |-> Extended(adj, v, i)]
             more == [v \in walks |-> {steps(v)[i] : i \in DOMAIN adj[End(v)]}]
  <2>1. ASSUME NEW v \in walks PROVE IsFiniteSet(more[v])
    <3>1. IsWalk(adj, s, j, v)
      BY <2>0, WalksAre
    <3>2. End(v) \in Nodes
      <4>1. v \in Seq(Steps) /\ Len(v) = j + 1
        BY <3>1 DEF IsWalk
      <4>2. v[j + 1] \in Steps
        BY <2>0, <4>1
      <4> QED
        BY <4>1, <4>2 DEF End, Steps
    <3>3. adj[End(v)] \in Seq(Nodes)
      BY <3>2 DEF Graphs
    <3>4. DOMAIN adj[End(v)] = 1 .. Len(adj[End(v)]) /\ Len(adj[End(v)]) \in Nat
      BY <3>3
    <3>5. IsFiniteSet(DOMAIN adj[End(v)])
      BY <3>4, FS_Interval
    <3>6. more[v] = {steps(v)[i] : i \in DOMAIN adj[End(v)]}
      OBVIOUS
    <3> DEFINE f == steps(v)
    <3> HIDE DEF f, more
    <3>7. IsFiniteSet({f[i] : i \in DOMAIN adj[End(v)]})
      BY <3>5, ImageFinite
    <3> QED
      BY <3>6, <3>7 DEF f
  <2>2. Walks(adj, s)[j + 1] = UNION {more[v] : v \in walks}
    <3>1. Walks(adj, s)[j + 1] = Longer(adj, walks)
      BY <2>0, WalksUnfold
    <3>2. ASSUME NEW w, NEW v \in walks
          PROVE  w \in more[v] <=>
                   \E i \in DOMAIN adj[End(v)] : w = Extended(adj, v, i)
      OBVIOUS
    <3> HIDE DEF more, walks
    <3>3. ASSUME NEW w
          PROVE  w \in Longer(adj, walks) <=> \E v \in walks : w \in more[v]
      BY <3>2, LongerIs
    <3>4. Longer(adj, walks) = UNION {more[v] : v \in walks}
      BY <3>3
    <3> QED
      BY <3>1, <3>4
  <2> HIDE DEF more, walks
  <2>3. IsFiniteSet(walks)
    BY <2>0 DEF walks
  <2>4. IsFiniteSet({more[v] : v \in walks})
    BY <2>3, ImageFinite
  <2>5. IsFiniteSet(UNION {more[v] : v \in walks})
    BY <2>1, <2>4, FS_UNION
  <2>6. IsFiniteSet(Walks(adj, s)[j + 1]) /\ j + 1 \in Nat
    BY <2>0, <2>2, <2>5
  <2> QED
    BY <2>6
<1>3. A = Nat
  <2> HIDE DEF A
  <2>1. A \subseteq Nat
    BY DEF A
  <2> QED
    BY <1>1, <1>2, <2>1, NaturalInduction
<1> QED
  BY <1>3, FS_CardinalityType

(***************************************************************************)
(* Distances and shares                                                    *)
(***************************************************************************)
LEMMA NodesFinite == IsFiniteSet(Nodes) /\ Cardinality(Nodes) = N /\ 0 \in Nodes
  BY PathsAssumption, FS_Interval DEF Nodes

(* A distance is that of the shortest walk, if there is one short enough.  *)
LEMMA DistanceIs ==
  ASSUME NEW adj, NEW s, NEW t
  PROVE  \/ /\ Distance(adj, s, t) = -1
            /\ \A k \in 0 .. (N - 1) : ~\E w \in Walks(adj, s)[k] : End(w) = t
         \/ /\ Distance(adj, s, t) \in 0 .. (N - 1)
            /\ \E w \in Walks(adj, s)[Distance(adj, s, t)] : End(w) = t
            /\ \A k \in 0 .. (N - 1) : k < Distance(adj, s, t) =>
                  ~\E w \in Walks(adj, s)[k] : End(w) = t
<1> DEFINE lengths == {k \in 0 .. (N - 1) : \E w \in Walks(adj, s)[k] : End(w) = t}
<1>1. CASE lengths = {}
  <2>1. Distance(adj, s, t) = -1
    BY <1>1 DEF Distance
  <2> QED
    BY <1>1, <2>1
<1>2. CASE lengths # {}
  <2>1. lengths \in SUBSET Nat
    OBVIOUS
  <2>2. \E k \in lengths : \A l \in lengths : k <= l
    <3> HIDE DEF lengths
    <3> QED
      BY <1>2, <2>1, LeastNatural
  <2>3. Distance(adj, s, t) = CHOOSE k \in lengths : \A l \in lengths : k <= l
    BY <1>2 DEF Distance
  <2>4. /\ Distance(adj, s, t) \in lengths
        /\ \A l \in lengths : Distance(adj, s, t) <= l
    <3> HIDE DEF lengths
    <3> QED
      BY <2>2, <2>3
  <2>5. \A k \in 0 .. (N - 1) : k < Distance(adj, s, t) => k \notin lengths
    <3>1. \A k \in 0 .. (N - 1) : k \in lengths => ~(k < Distance(adj, s, t))
      <4>1. Distance(adj, s, t) \in 0 .. (N - 1)
        BY <2>4
      <4> HIDE DEF lengths
      <4> QED
        BY <2>4, <4>1
    <3> HIDE DEF lengths
    <3> QED
      BY <3>1
  <2> QED
    BY <2>4, <2>5
<1> QED
  BY <1>1, <1>2

LEMMA DistanceType ==
  ASSUME NEW adj, NEW s, NEW t PROVE Distance(adj, s, t) \in -1 .. (N - 1)
<1>1. N \in Nat \ {0}
  BY PathsAssumption
<1>2. Distance(adj, s, t) = -1 \/ Distance(adj, s, t) \in 0 .. (N - 1)
  BY DistanceIs
<1> QED
  BY <1>1, <1>2

LEMMA ShareType ==
  ASSUME NEW adj \in Graphs, NEW s \in Nodes, NEW v, NEW t
  PROVE  Share(adj, s, v, t) \in Nat
<1> DEFINE paths == ShortestPaths(adj, s, t)
           passing == {w \in paths : \E i \in DOMAIN w : w[i].node = v}
           d == Distance(adj, s, t)
<1>1. IsFiniteSet(paths)
  <2>1. d \in Int
    BY DistanceType, PathsAssumption
  <2>2. CASE d < 0
    BY <2>2, FS_EmptySet DEF ShortestPaths
  <2>3. CASE ~(d < 0)
    <3>1. d \in Nat
      BY <2>1, <2>3
    <3>2. IsFiniteSet(Walks(adj, s)[d])
      BY <3>1, WalksFinite
    <3>3. paths \in SUBSET Walks(adj, s)[d]
      BY <2>3 DEF ShortestPaths
    <3> QED
      BY <3>2, <3>3, FS_Subset
  <2> QED
    BY <2>2, <2>3
<1>2. Cardinality(paths) \in Nat /\ (paths # {} => Cardinality(paths) # 0)
  BY <1>1, FS_CardinalityType, FS_EmptySet
<1>3. Cardinality(passing) \in Nat
  BY <1>1, FS_Subset, FS_CardinalityType
<1>4. Scale * Cardinality(passing) \in Nat
  <2>1. Scale \in Nat
    BY PathsAssumption
  <2> HIDE DEF passing
  <2> QED
    BY <1>3, <2>1, Z3
<1>5. CASE paths = {}
  BY <1>5 DEF Share
<1>6. CASE paths # {}
  <2>1. Share(adj, s, v, t) = (Scale * Cardinality(passing)) \div Cardinality(paths)
    BY <1>6 DEF Share
  <2> HIDE DEF paths, passing
  <2> QED
    BY <1>2, <1>4, <1>6, <2>1, DivFacts
<1> QED
  BY <1>5, <1>6

LEMMA DependencyType ==
  ASSUME NEW adj \in Graphs, NEW s \in Nodes, NEW v
  PROVE  Dependency(adj, s, v) \in Nat
<1> DEFINE S == Nodes \ {s, v}
           f == [t \in S |-> Share(adj, s, v, t)]
<1>1. IsFiniteSet(S)
  BY NodesFinite, FS_Subset
<1>2. \A t \in S : f[t] \in Nat
  BY ShareType
<1>3. DOMAIN f = S
  OBVIOUS
<1> HIDE DEF S, f
<1>4. SumFunctionOnSet(f, S) \in Nat
  BY <1>1, <1>2, SumType
<1> QED
  BY <1>3, <1>4 DEF S, f, Dependency, SumFunction

LEMMA BetweennessType ==
  ASSUME NEW adj \in Graphs, NEW v PROVE Betweenness(adj, v) \in Nat
<1> DEFINE S == Nodes \ {v}
           f == [s \in S |-> Dependency(adj, s, v)]
<1>1. IsFiniteSet(S)
  BY NodesFinite, FS_Subset
<1>2. \A s \in S : f[s] \in Nat
  BY DependencyType
<1>3. DOMAIN f = S
  OBVIOUS
<1> HIDE DEF S, f
<1>4. SumFunctionOnSet(f, S) \in Nat
  BY <1>1, <1>2, SumType
<1> QED
  BY <1>3, <1>4 DEF S, f, Betweenness, SumFunction

(***************************************************************************)
(* Walks counted from their first step                                     *)
(***************************************************************************)
(* A walk that begins with channel e of v goes on like one from its peer.  *)
LEMMA WalksThrough ==
  ASSUME NEW adj \in Graphs, NEW v \in Nodes, NEW k \in Nat,
         NEW e \in DOMAIN adj[v]
  PROVE  LET part == {w \in Walks(adj, v)[k + 1] : w[2].channel = e}
         IN  /\ IsFiniteSet(part)
             /\ Cardinality(part) = Cardinality(Walks(adj, adj[v][e])[k])
<1> DEFINE part == {w \in Walks(adj, v)[k + 1] : w[2].channel = e}
           peer == adj[v][e]
           rest == Walks(adj, peer)[k]
           first == [channel |-> 0, node |-> v]
           second == [channel |-> e, node |-> peer]
           start == [channel |-> 0, node |-> peer]
           cut == [w \in part |-> [i \in 1 .. (k + 1) |->
                                     IF i = 1 THEN start ELSE w[i + 1]]]
           longer(x) == [i \in 1 .. (k + 2) |->
                           IF i = 1 THEN first
                           ELSE IF i = 2 THEN second ELSE x[i - 1]]
<1>1. peer \in Nodes /\ e \in Nat
  <2>1. adj[v] \in Seq(Nodes)
    BY DEF Graphs
  <2> QED
    BY <2>1
<1>2. first \in Steps /\ second \in Steps /\ start \in Steps
  BY <1>1 DEF Steps
<1>3. ASSUME NEW w \in part
      PROVE  /\ w \in Seq(Steps) /\ Len(w) = k + 2
             /\ w[1] = first /\ w[2] = second
             /\ \A i \in 1 .. (k + 1) : Follows(adj, w[i], w[i + 1])
  <2>1. IsWalk(adj, v, k + 1, w) /\ w[2].channel = e
    BY WalksAre
  <2>2. w \in Seq(Steps) /\ Len(w) = k + 2 /\ w[1] = first
        /\ \A i \in 1 .. (k + 1) : Follows(adj, w[i], w[i + 1])
    BY <2>1 DEF IsWalk
  <2>3. Follows(adj, w[1], w[2]) /\ w[2] \in Steps
    <3>1. Follows(adj, w[1], w[1 + 1])
      <4>1. 1 \in 1 .. (k + 1)
        OBVIOUS
      <4> HIDE DEF part
      <4> QED
        BY <2>2, <4>1
    <3>2. 2 \in 1 .. Len(w)
      BY <2>2
    <3>3. w[2] \in Steps
      BY <2>2, <3>2
    <3> QED
      BY <3>1, <3>3
  <2>4. w[2].node = peer
    BY <2>1, <2>2, <2>3 DEF Follows
  <2>5. w[2] = second
    BY <2>1, <2>3, <2>4 DEF Steps
  <2> QED
    BY <2>2, <2>5
<1>4. ASSUME NEW w \in part PROVE cut[w] \in rest
  <2> DEFINE x == [i \in 1 .. (k + 1) |-> IF i = 1 THEN start ELSE w[i + 1]]
  <2>1. /\ w \in Seq(Steps) /\ Len(w) = k + 2 /\ w[2] = second
        /\ \A i \in 1 .. (k + 1) : Follows(adj, w[i], w[i + 1])
    BY <1>3
  <2>2. \A i \in 1 .. (k + 1) : x[i] \in Steps
    BY <1>2, <2>1
  <2>3. x \in Seq(Steps) /\ Len(x) = k + 1 /\ x[1] = start
    BY <2>2
  <2>4. ASSUME NEW i \in 1 .. k PROVE Follows(adj, x[i], x[i + 1])
    <3>1. Follows(adj, w[i + 1], w[(i + 1) + 1]) /\ i + 1 \in 1 .. (k + 1)
      BY <2>1
    <3>2. x[i].node = w[i + 1].node
      BY <2>1
    <3>3. x[i + 1] = w[(i + 1) + 1]
      OBVIOUS
    <3> HIDE DEF x, part
    <3> QED
      BY <3>1, <3>2, <3>3 DEF Follows
  <2>5. cut[w] = x
    OBVIOUS
  <2> HIDE DEF x
  <2>6. IsWalk(adj, peer, k, x)
    BY <2>3, <2>4 DEF IsWalk
  <2> QED
    BY <1>1, <2>5, <2>6, WalksAre
<1>5. ASSUME NEW w \in part, NEW u \in part, cut[w] = cut[u] PROVE w = u
  <2>1. /\ w \in Seq(Steps) /\ Len(w) = k + 2 /\ w[1] = first /\ w[2] = second
        /\ u \in Seq(Steps) /\ Len(u) = k + 2 /\ u[1] = first /\ u[2] = second
    BY <1>3
  <2>2. ASSUME NEW i \in 1 .. (k + 2) PROVE w[i] = u[i]
    <3>1. CASE i \in {1, 2}
      BY <2>1, <3>1
    <3>2. CASE i \notin {1, 2}
      <4>1. i - 1 \in 1 .. (k + 1) /\ i - 1 # 1 /\ (i - 1) + 1 = i
        BY <3>2
      <4>2. cut[w][i - 1] = w[i] /\ cut[u][i - 1] = u[i]
        BY <4>1
      <4> QED
        BY <1>5, <4>2
    <3> QED
      BY <3>1, <3>2
  <2> HIDE DEF part, cut
  <2> QED
    BY <2>1, <2>2
<1>6. ASSUME NEW x \in rest PROVE \E w \in part : cut[w] = x
  <2>1. IsWalk(adj, peer, k, x)
    BY <1>1, WalksAre
  <2>2. /\ x \in Seq(Steps) /\ Len(x) = k + 1 /\ x[1] = start
        /\ \A i \in 1 .. k : Follows(adj, x[i], x[i + 1])
    BY <2>1 DEF IsWalk
  <2> DEFINE w == longer(x)
  <2>3. \A i \in 1 .. (k + 2) : w[i] \in Steps
    <3> SUFFICES ASSUME NEW i \in 1 .. (k + 2), i \notin {1, 2}
                 PROVE  w[i] \in Steps
      BY <1>2
    <3>1. i - 1 \in 1 .. Len(x) /\ w[i] = x[i - 1]
      BY <2>2
    <3> QED
      BY <2>2, <3>1
  <2>4. w \in Seq(Steps) /\ Len(w) = (k + 1) + 1 /\ w[1] = first /\ w[2] = second
    BY <2>3
  <2>5. ASSUME NEW i \in 1 .. (k + 1) PROVE Follows(adj, w[i], w[i + 1])
    <3>1. CASE i = 1
      <4>1. w[i] = first /\ w[i + 1] = second
        BY <3>1
      <4> HIDE DEF w
      <4> QED
        BY <4>1 DEF Follows
    <3>2. CASE i # 1
      <4>1. i - 1 \in 1 .. k /\ (i - 1) + 1 = i
        BY <3>2
      <4>2. Follows(adj, x[i - 1], x[(i - 1) + 1])
        BY <2>2, <4>1
      <4>3. w[i + 1] = x[i]
        BY <3>2
      <4>4. w[i].node = x[i - 1].node
        BY <2>2, <3>2
      <4> HIDE DEF w, rest
      <4> QED
        BY <4>1, <4>2, <4>3, <4>4 DEF Follows
    <3> QED
      BY <3>1, <3>2
  <2>6. IsWalk(adj, v, k + 1, w)
    <3> HIDE DEF w
    <3> QED
      BY <2>4, <2>5 DEF IsWalk
  <2>7. w \in part
    <3> HIDE DEF w
    <3> QED
      BY <2>4, <2>6, WalksAre
  <2>8. cut[w] = x
    <3> DEFINE y == [i \in 1 .. (k + 1) |-> IF i = 1 THEN start ELSE w[i + 1]]
    <3>1. \A i \in 1 .. (k + 1) : y[i] = x[i]
      BY <2>2
    <3>2. y \in [1 .. (k + 1) -> Steps]
      <4>1. \A i \in 1 .. (k + 1) : x[i] \in Steps
        BY <2>2
      <4> QED
        BY <3>1, <4>1
    <3>3. y = x
      <4> HIDE DEF y
      <4> QED
        BY <2>2, <3>1, <3>2
    <3>4. cut[w] = y
      <4> HIDE DEF part, w
      <4> QED
        BY <2>7
    <3> QED
      BY <3>3, <3>4
  <2> QED
    BY <2>7, <2>8
<1> HIDE DEF part, rest, cut
<1>7. IsFiniteSet(part) /\ IsFiniteSet(rest)
  <2>1. IsFiniteSet(Walks(adj, v)[k + 1])
    BY WalksFinite
  <2>2. part \in SUBSET Walks(adj, v)[k + 1]
    BY DEF part
  <2> QED
    BY <1>1, <2>1, <2>2, WalksFinite, FS_Subset DEF rest
<1>8. cut \in Bijection(part, rest)
  <2>1. cut \in [part -> rest]
    <3>1. cut = [w \in part |-> cut[w]]
      BY DEF cut
    <3> QED
      BY <1>4, <3>1
  <2>2. cut \in Injection(part, rest)
    BY <1>5, <2>1 DEF Injection, IsInjective
  <2>3. cut \in Surjection(part, rest)
    BY <1>6, <2>1, Zenon DEF Surjection
  <2> QED
    BY <2>2, <2>3 DEF Bijection
<1>9. Cardinality(rest) = Cardinality(part)
  <2>1. ExistsBijection(part, rest)
    BY <1>8 DEF ExistsBijection
  <2> QED
    BY <1>7, <2>1, FS_Bijection
<1> QED
  BY <1>7, <1>9 DEF part, rest

(* The walks from v are those from its peers, once per channel.            *)
LEMMA WalksCounted ==
  ASSUME NEW adj \in Graphs, NEW v \in Nodes, NEW k \in Nat
  PROVE  Cardinality(Walks(adj, v)[k + 1])
           = SumFunctionOnSet([e \in DOMAIN adj[v] |->
                                 Cardinality(Walks(adj, adj[v][e])[k])],
                              DOMAIN adj[v])
<1> DEFINE S == DOMAIN adj[v]
           parts == [e \in S |-> {w \in Walks(adj, v)[k + 1] : w[2].channel = e}]
           sizes == [e \in S |-> Cardinality(parts[e])]
           counts == [e \in S |-> Cardinality(Walks(adj, adj[v][e])[k])]
<1>1. IsFiniteSet(S)
  <2>1. adj[v] \in Seq(Nodes)
    BY DEF Graphs
  <2>2. S = 1 .. Len(adj[v]) /\ Len(adj[v]) \in Nat
    BY <2>1
  <2> QED
    BY <2>2, FS_Interval
<1>2. ASSUME NEW e \in S PROVE IsFiniteSet(parts[e]) /\ sizes[e] = counts[e]
  <2> DEFINE part == {w \in Walks(adj, v)[k + 1] : w[2].channel = e}
  <2>1. parts[e] = part
    OBVIOUS
  <2>2. /\ IsFiniteSet(part)
        /\ Cardinality(part) = Cardinality(Walks(adj, adj[v][e])[k])
    BY WalksThrough
  <2>3. sizes[e] = Cardinality(parts[e])
    OBVIOUS
  <2>4. counts[e] = Cardinality(Walks(adj, adj[v][e])[k])
    OBVIOUS
  <2> HIDE DEF part, parts, sizes, counts
  <2> QED
    BY <2>1, <2>2, <2>3, <2>4
<1>3. \A d, e \in S : d # e => parts[d] \intersect parts[e] = {}
  OBVIOUS
<1>4. UNION {parts[e] : e \in S} = Walks(adj, v)[k + 1]
  <2>1. ASSUME NEW w \in Walks(adj, v)[k + 1] PROVE \E e \in S : w \in parts[e]
    <3>1. IsWalk(adj, v, k + 1, w)
      BY WalksAre
    <3>2. 1 \in 1 .. (k + 1) /\ w[1].node = v
      BY <3>1 DEF IsWalk
    <3>3. Follows(adj, w[1], w[1 + 1])
      BY <3>1, <3>2 DEF IsWalk
    <3>4. w[2].channel \in S
      BY <3>2, <3>3 DEF Follows
    <3>5. w \in parts[w[2].channel]
      BY <3>4
    <3> QED
      BY <3>4, <3>5
  <2>2. \A e \in S : parts[e] \subseteq Walks(adj, v)[k + 1]
    OBVIOUS
  <2> HIDE DEF parts, S
  <2> QED
    BY <2>1, <2>2
<1> HIDE DEF S, parts
<1>5. Cardinality(UNION {parts[e] : e \in S}) = SumFunctionOnSet(sizes, S)
  BY <1>1, <1>2, <1>3, UnionSize
<1>6. SumFunctionOnSet(sizes, S) = SumFunctionOnSet(counts, S)
  BY <1>1, <1>2, SumSame
<1> QED
  BY <1>4, <1>5, <1>6 DEF S

(* One channel is one way to begin with.                                   *)
LEMMA WalksOfOne ==
  ASSUME NEW adj \in Graphs, NEW v \in Nodes
  PROVE  Cardinality(Walks(adj, v)[1]) = Len(adj[v])
<1> DEFINE S == DOMAIN adj[v]
           counts == [e \in S |-> Cardinality(Walks(adj, adj[v][e])[0])]
           single == [e \in S |-> {e}]
           sizes == [e \in S |-> Cardinality(single[e])]
<1>1. S = 1 .. Len(adj[v]) /\ Len(adj[v]) \in Nat
  <2>1. adj[v] \in Seq(Nodes)
    BY DEF Graphs
  <2> QED
    BY <2>1
<1>2. IsFiniteSet(S) /\ Cardinality(S) = Len(adj[v])
  BY <1>1, FS_Interval
<1>3. Cardinality(Walks(adj, v)[1]) = SumFunctionOnSet(counts, S)
  <2>1. Cardinality(Walks(adj, v)[0 + 1]) = SumFunctionOnSet(counts, S)
    BY WalksCounted
  <2>2. 0 + 1 = 1
    OBVIOUS
  <2> QED
    BY <2>1, <2>2
<1>4. \A e \in S : counts[e] = 1 /\ sizes[e] = 1
  <2>1. \A e \in S : Walks(adj, adj[v][e])[0] = {Start(adj[v][e])}
    BY WalksUnfold
  <2> QED
    BY <2>1, FS_Singleton
<1>5. UNION {single[e] : e \in S} = S
  OBVIOUS
<1>6. \A d, e \in S : d # e => single[d] \intersect single[e] = {}
  OBVIOUS
<1>7. \A e \in S : IsFiniteSet(single[e])
  BY FS_Singleton
<1> HIDE DEF S, single
<1>8. Cardinality(UNION {single[e] : e \in S}) = SumFunctionOnSet(sizes, S)
  BY <1>2, <1>6, <1>7, UnionSize
<1>9. SumFunctionOnSet(sizes, S) = SumFunctionOnSet(counts, S)
  BY <1>2, <1>4, SumSame
<1> HIDE DEF sizes, counts
<1> QED
  BY <1>2, <1>3, <1>5, <1>8, <1>9

(* Distances up to the first node that is out of reach add up.             *)
LEMMA DistancesSum ==
  ASSUME NEW adj, NEW s
  PROVE  LET d == [t \in Nodes |-> Distance(adj, s, t)]
         IN  SumFunction([t \in {t \in Nodes : \A u \in 0 .. t : d[u] # -1} |-> d[t]])
               \in Nat
<1> DEFINE d == [t \in Nodes |-> Distance(adj, s, t)]
           S == {t \in Nodes : \A u \in 0 .. t : d[u] # -1}
           f == [t \in S |-> d[t]]
<1>1. IsFiniteSet(S)
  BY NodesFinite, FS_Subset
<1>2. ASSUME NEW t \in S PROVE f[t] \in Nat
  <2>1. t \in Nodes /\ t \in 0 .. t /\ \A u \in 0 .. t : d[u] # -1
    BY DEF Nodes
  <2>2. d[t] # -1 /\ d[t] \in -1 .. (N - 1)
    BY <2>1, DistanceType
  <2> HIDE DEF d
  <2> QED
    BY <2>2, PathsAssumption
<1>3. DOMAIN f = S
  OBVIOUS
<1>4. SumFunctionOnSet(f, S) \in Nat
  <2> HIDE DEF f, S
  <2> QED
    BY <1>1, <1>2, SumType
<1>5. SumFunction(f) \in Nat
  <2> HIDE DEF f, S
  <2> QED
    BY <1>3, <1>4 DEF SumFunction
<1> QED
  BY <1>5

(***************************************************************************)
(* Distances                                                               *)
(***************************************************************************)
Reaches(adj, s, t, k) == \E w \in Walks(adj, s)[k] : End(w) = t

LEMMA EndType ==
  ASSUME NEW adj \in Graphs, NEW s \in Nodes, NEW k \in Nat,
         NEW w \in Walks(adj, s)[k]
  PROVE  End(w) \in Nodes /\ Len(w) = k + 1 /\ w \in Seq(Steps)
<1>0. IsWalk(adj, s, k, w)
  BY WalksAre
<1>1. w \in Seq(Steps) /\ Len(w) = k + 1
  BY <1>0 DEF IsWalk
<1>2. w[k + 1] \in Steps
  BY <1>1
<1> QED
  BY <1>1, <1>2 DEF End, Steps

LEMMA EndOfExtended ==
  ASSUME NEW adj, NEW w \in Seq(Steps), NEW i
  PROVE  /\ End(Extended(adj, w, i)) = adj[End(w)][i]
         /\ Len(Extended(adj, w, i)) = Len(w) + 1
         /\ Extended(adj, w, i)[Len(w) + 1].channel = i
<1> DEFINE step == [channel |-> i, node |-> adj[End(w)][i]]
<1>1. Len(Append(w, step)) = Len(w) + 1 /\ Append(w, step)[Len(w) + 1] = step
  OBVIOUS
<1>2. step.channel = i /\ step.node = adj[End(w)][i]
  OBVIOUS
<1> HIDE DEF step
<1>3. Extended(adj, w, i) = Append(w, step)
  BY DEF Extended, step
<1>4. End(Append(w, step)) = step.node
  BY <1>1 DEF End
<1> QED
  BY <1>1, <1>2, <1>3, <1>4

LEMMA ReachesStart ==
  ASSUME NEW adj, NEW s, NEW t
  PROVE  Reaches(adj, s, t, 0) <=> t = s
<1>1. Walks(adj, s)[0] = {Start(s)}
  BY WalksUnfold
<1>2. End(Start(s)) = s
  BY DEF End, Start
<1> QED
  BY <1>1, <1>2 DEF Reaches

LEMMA ReachesStep ==
  ASSUME NEW adj \in Graphs, NEW s \in Nodes, NEW k \in Nat, NEW t
  PROVE  Reaches(adj, s, t, k + 1) <=>
           \E v \in Nodes : /\ Reaches(adj, s, v, k)
                            /\ \E i \in DOMAIN adj[v] : adj[v][i] = t
<1>1. Walks(adj, s)[k + 1] = Longer(adj, Walks(adj, s)[k])
  BY WalksUnfold
<1>2. ASSUME Reaches(adj, s, t, k + 1)
      PROVE  \E v \in Nodes : /\ Reaches(adj, s, v, k)
                              /\ \E i \in DOMAIN adj[v] : adj[v][i] = t
  <2>1. PICK w \in Walks(adj, s)[k + 1] : End(w) = t
    BY <1>2 DEF Reaches
  <2>2. PICK u \in Walks(adj, s)[k] : \E i \in DOMAIN adj[End(u)] :
           w = Extended(adj, u, i)
    BY <1>1, <2>1, LongerIs
  <2>3. PICK i \in DOMAIN adj[End(u)] : w = Extended(adj, u, i)
    BY <2>2
  <2>4. End(u) \in Nodes /\ u \in Seq(Steps)
    BY EndType
  <2>5. adj[End(u)][i] = t
    BY <2>1, <2>3, <2>4, EndOfExtended
  <2>6. Reaches(adj, s, End(u), k)
    BY DEF Reaches
  <2> QED
    BY <2>4, <2>5, <2>6
<1>3. ASSUME NEW v \in Nodes, Reaches(adj, s, v, k),
             NEW i \in DOMAIN adj[v], adj[v][i] = t
      PROVE  Reaches(adj, s, t, k + 1)
  <2>1. PICK u \in Walks(adj, s)[k] : End(u) = v
    BY <1>3 DEF Reaches
  <2>2. Extended(adj, u, i) \in Walks(adj, s)[k + 1]
    BY <1>1, <2>1, LongerIs
  <2>3. End(Extended(adj, u, i)) = t
    BY <1>3, <2>1, EndType, EndOfExtended
  <2> QED
    BY <2>2, <2>3 DEF Reaches
<1> QED
  BY <1>2, <1>3

(* A shortest walk passes a node at every distance up to its own, so it is *)
(* no longer than there are nodes.                                         *)
LEMMA ReachesLeast ==
  ASSUME NEW adj \in Graphs, NEW s \in Nodes, NEW t, NEW k \in Nat,
         Reaches(adj, s, t, k)
  PROVE  \E m \in 0 .. (N - 1) :
            /\ m <= k /\ Reaches(adj, s, t, m)
            /\ \A j \in Nat : Reaches(adj, s, t, j) => m <= j
<1> DEFINE Least(v, m) == /\ Reaches(adj, s, v, m)
                          /\ \A j \in Nat : Reaches(adj, s, v, j) => m <= j
<1>1. PICK m \in Nat : Least(t, m)
  <2> DEFINE T == {j \in Nat : Reaches(adj, s, t, j)}
  <2>1. T # {} /\ T \in SUBSET Nat
    OBVIOUS
  <2> HIDE DEF T
  <2>2. PICK m \in T : \A j \in T : m <= j
    BY <2>1, LeastNatural
  <2> QED
    BY <2>1, <2>2 DEF T
<1>2. m <= k
  BY <1>1
<1>3. ASSUME NEW j \in Nat, NEW v, Least(v, j + 1)
      PROVE  \E u \in Nodes : Least(u, j)
  <2>1. PICK u \in Nodes : /\ Reaches(adj, s, u, j)
                           /\ \E i \in DOMAIN adj[u] : adj[u][i] = v
    BY <1>3, ReachesStep
  <2>2. ASSUME NEW l \in Nat, Reaches(adj, s, u, l) PROVE j <= l
    <3>1. Reaches(adj, s, v, l + 1)
      BY <2>1, <2>2, ReachesStep
    <3>2. l + 1 \in Nat
      OBVIOUS
    <3>3. j + 1 <= l + 1
      BY <1>3, <3>1, <3>2
    <3> QED
      BY <3>3
  <2> QED
    BY <2>1, <2>2
<1>4. t \in Nodes
  <2>1. PICK w \in Walks(adj, s)[k] : End(w) = t
    BY DEF Reaches
  <2> QED
    BY <2>1, EndType
<1> DEFINE A == {j \in Nat : j <= m => \E v \in Nodes : Least(v, m - j)}
<1>5. 0 \in A
  BY <1>1, <1>4
<1>6. ASSUME NEW j \in A PROVE j + 1 \in A
  <2>0. j \in Nat
    OBVIOUS
  <2> SUFFICES ASSUME j + 1 <= m PROVE \E v \in Nodes : Least(v, m - (j + 1))
    BY <2>0
  <2>1. PICK v \in Nodes : Least(v, m - j)
    BY <2>0
  <2>2. m - (j + 1) \in Nat /\ m - j = (m - (j + 1)) + 1
    BY <2>0
  <2> HIDE DEF Least, A
  <2>3. Least(v, (m - (j + 1)) + 1)
    BY <2>1, <2>2
  <2> QED
    BY <1>3, <2>2, <2>3
<1>7. A = Nat
  <2> HIDE DEF A
  <2>1. A \subseteq Nat
    BY DEF A
  <2> QED
    BY <1>5, <1>6, <2>1, NaturalInduction
<1>8. \A l \in 0 .. m : \E v \in Nodes : Least(v, l)
  <2> SUFFICES ASSUME NEW l \in 0 .. m PROVE \E v \in Nodes : Least(v, l)
    OBVIOUS
  <2>1. m - l \in Nat /\ m - l <= m /\ m - (m - l) = l
    OBVIOUS
  <2> HIDE DEF Least
  <2>2. \E v \in Nodes : Least(v, m - (m - l))
    BY <1>7, <2>1
  <2> QED
    BY <2>1, <2>2
<1> DEFINE f == [l \in 0 .. m |-> CHOOSE v \in Nodes : Least(v, l)]
<1>9. \A l \in 0 .. m : f[l] \in Nodes /\ Least(f[l], l)
  <2> HIDE DEF Least
  <2> QED
    BY <1>8
<1>10. f \in Injection(0 .. m, Nodes)
  <2>1. f \in [0 .. m -> Nodes]
    BY <1>9
  <2>2. ASSUME NEW i \in 0 .. m, NEW j \in 0 .. m, f[i] = f[j] PROVE i = j
    <3>1. Least(f[i], i) /\ Least(f[i], j)
      BY <1>9, <2>2
    <3> HIDE DEF f
    <3>2. i <= j /\ j <= i
      BY <3>1
    <3> QED
      BY <3>2
  <2> HIDE DEF f
  <2>3. DOMAIN f = 0 .. m
    BY <2>1
  <2> QED
    BY <2>1, <2>2, <2>3 DEF Injection, IsInjective
<1> HIDE DEF f
<1>11. Cardinality(0 .. m) <= N
  BY <1>10, NodesFinite, FS_Injection
<1>12. Cardinality(0 .. m) = m + 1
  BY FS_Interval
<1>13. m \in 0 .. (N - 1)
  BY <1>11, <1>12, PathsAssumption
<1> QED
  BY <1>1, <1>2, <1>13

(* A distance is the least number of channels that lead to the node.       *)
LEMMA DistanceLeast ==
  ASSUME NEW adj \in Graphs, NEW s \in Nodes, NEW t, NEW k \in Nat,
         Reaches(adj, s, t, k)
  PROVE  /\ Distance(adj, s, t) \in Nat /\ Distance(adj, s, t) <= k
         /\ Reaches(adj, s, t, Distance(adj, s, t))
<1>1. PICK m \in 0 .. (N - 1) : m <= k /\ Reaches(adj, s, t, m)
                                /\ \A j \in Nat : Reaches(adj, s, t, j) => m <= j
  BY ReachesLeast
<1>2. Distance(adj, s, t) \in 0 .. (N - 1) /\ Reaches(adj, s, t, Distance(adj, s, t))
  BY <1>1, DistanceIs DEF Reaches
<1>3. ~(m < Distance(adj, s, t))
  BY <1>1, DistanceIs DEF Reaches
<1> QED
  BY <1>1, <1>2, <1>3, PathsAssumption

LEMMA DistanceReached ==
  ASSUME NEW adj \in Graphs, NEW s \in Nodes, NEW t, Distance(adj, s, t) # -1
  PROVE  /\ Distance(adj, s, t) \in Nat /\ Distance(adj, s, t) < N
         /\ Reaches(adj, s, t, Distance(adj, s, t))
  BY DistanceIs, PathsAssumption DEF Reaches

LEMMA DistanceStart ==
  ASSUME NEW adj \in Graphs, NEW s \in Nodes, NEW t \in Nodes
  PROVE  /\ Distance(adj, s, s) = 0
         /\ Distance(adj, s, t) = 0 => t = s
<1>1. Reaches(adj, s, s, 0)
  BY ReachesStart
<1>2. Distance(adj, s, s) \in Nat /\ Distance(adj, s, s) <= 0
  BY <1>1, DistanceLeast
<1>3. Distance(adj, s, t) = 0 => Reaches(adj, s, t, 0)
  <2> SUFFICES ASSUME Distance(adj, s, t) = 0 PROVE Reaches(adj, s, t, 0)
    OBVIOUS
  <2>1. Reaches(adj, s, t, Distance(adj, s, t))
    BY DistanceReached
  <2> QED
    BY <2>1
<1> QED
  BY <1>2, <1>3, ReachesStart

(* A channel leads at most one step further.                               *)
LEMMA DistanceOver ==
  ASSUME NEW adj \in Graphs, NEW s \in Nodes, NEW v \in Nodes,
         Distance(adj, s, v) # -1, NEW i \in DOMAIN adj[v]
  PROVE  /\ Distance(adj, s, adj[v][i]) \in Nat
         /\ Distance(adj, s, adj[v][i]) <= Distance(adj, s, v) + 1
<1> DEFINE d == Distance(adj, s, v)
<1>1. d \in Nat /\ Reaches(adj, s, v, d)
  BY DistanceReached
<1> HIDE DEF d
<1>2. Reaches(adj, s, adj[v][i], d + 1) /\ d + 1 \in Nat
  BY <1>1, ReachesStep
<1>3. /\ Distance(adj, s, adj[v][i]) \in Nat
      /\ Distance(adj, s, adj[v][i]) <= d + 1
  BY <1>2, DistanceLeast
<1> QED
  BY <1>3 DEF d

(* The node before the end of a shortest walk is one step nearer.          *)
LEMMA DistanceBefore ==
  ASSUME NEW adj \in Graphs, NEW s \in Nodes, NEW t, NEW k \in Nat,
         Distance(adj, s, t) = k + 1, NEW v \in Nodes, Reaches(adj, s, v, k),
         NEW i \in DOMAIN adj[v], adj[v][i] = t
  PROVE  Distance(adj, s, v) = k
<1>1. Distance(adj, s, v) \in Nat /\ Distance(adj, s, v) <= k
  BY DistanceLeast
<1>2. Distance(adj, s, v) # -1
  BY <1>1
<1>3. Distance(adj, s, t) <= Distance(adj, s, v) + 1
  BY <1>2, DistanceOver
<1> QED
  BY <1>1, <1>3

LEMMA Predecessor ==
  ASSUME NEW adj \in Graphs, NEW s \in Nodes, NEW t, NEW k \in Nat,
         Distance(adj, s, t) = k + 1
  PROVE  \E v \in Nodes : /\ Distance(adj, s, v) = k
                          /\ \E i \in DOMAIN adj[v] : adj[v][i] = t
<1>1. Distance(adj, s, t) # -1
  OBVIOUS
<1>2. Reaches(adj, s, t, k + 1)
  BY <1>1, DistanceReached
<1>3. PICK v \in Nodes : /\ Reaches(adj, s, v, k)
                         /\ \E i \in DOMAIN adj[v] : adj[v][i] = t
  BY <1>2, ReachesStep
<1> QED
  BY <1>3, DistanceBefore

(***************************************************************************)
(* Counting shortest paths by their last steps                             *)
(***************************************************************************)
(* The node before the end of a walk, and the channel to the end.          *)
Via(w) == <<w[Len(w) - 1].node, w[Len(w)].channel>>

(* The shortest paths to t that take one of the given last steps.          *)
Along(adj, s, t, taken) ==
    {w \in ShortestPaths(adj, s, t) : t = s \/ Via(w) \in taken}

LEMMA ShortestAre ==
  ASSUME NEW adj \in Graphs, NEW s \in Nodes, NEW t, NEW w
  PROVE  w \in ShortestPaths(adj, s, t) <=>
           /\ Distance(adj, s, t) \in Nat
           /\ w \in Walks(adj, s)[Distance(adj, s, t)] /\ End(w) = t
<1> DEFINE d == Distance(adj, s, t)
<1>1. d = -1 \/ d \in Nat
  BY DistanceReached
<1>2. CASE d = -1
  BY <1>2 DEF ShortestPaths
<1>3. CASE d \in Nat
  <2>1. ~(d < 0)
    BY <1>3
  <2>2. ShortestPaths(adj, s, t) = {x \in Walks(adj, s)[d] : End(x) = t}
    BY <2>1 DEF ShortestPaths
  <2> QED
    BY <1>3, <2>2
<1> QED
  BY <1>1, <1>2, <1>3

LEMMA ShortestFinite ==
  ASSUME NEW adj \in Graphs, NEW s \in Nodes, NEW t
  PROVE  /\ IsFiniteSet(ShortestPaths(adj, s, t))
         /\ Cardinality(ShortestPaths(adj, s, t)) \in Nat
         /\ Distance(adj, s, t) # -1 => Cardinality(ShortestPaths(adj, s, t)) # 0
         /\ Distance(adj, s, t) = -1 => ShortestPaths(adj, s, t) = {}
<1> DEFINE d == Distance(adj, s, t)
           P == ShortestPaths(adj, s, t)
<1>1. CASE d = -1
  <2>1. P = {}
    BY <1>1 DEF ShortestPaths
  <2> QED
    BY <1>1, <2>1, FS_EmptySet
<1>2. CASE d # -1
  <2>1. d \in Nat /\ Reaches(adj, s, t, d)
    BY <1>2, DistanceReached
  <2>2. IsFiniteSet(Walks(adj, s)[d])
    BY <2>1, WalksFinite
  <2>3. \A w \in P : w \in Walks(adj, s)[d]
    BY ShortestAre
  <2>4. P # {}
    BY <2>1, ShortestAre DEF Reaches
  <2> HIDE DEF P
  <2>5. IsFiniteSet(P) /\ P # {}
    BY <2>2, <2>3, <2>4, FS_Subset
  <2>6. Cardinality(P) \in Nat /\ Cardinality(P) # 0
    BY <2>5, FS_CardinalityType, FS_EmptySet
  <2> QED
    BY <1>2, <2>5, <2>6 DEF P
<1> QED
  BY <1>1, <1>2

LEMMA ViaExtended ==
  ASSUME NEW adj \in Graphs, NEW s \in Nodes, NEW k \in Nat,
         NEW u \in Walks(adj, s)[k], NEW i
  PROVE  Via(Extended(adj, u, i)) = <<End(u), i>>
<1> DEFINE w == Extended(adj, u, i)
           step == [channel |-> i, node |-> adj[End(u)][i]]
<1>1. u \in Seq(Steps) /\ Len(u) = k + 1
  BY EndType
<1>2. w = Append(u, step)
  BY DEF Extended
<1> HIDE DEF w
<1>3. Len(w) = k + 2 /\ w[k + 1] = u[k + 1] /\ w[k + 2] = step
  BY <1>1, <1>2
<1>4. step.channel = i /\ u[k + 1].node = End(u)
  BY <1>1 DEF End
<1> HIDE DEF step
<1>5. Len(w) - 1 = k + 1
  BY <1>3
<1>6. Via(w) = <<u[k + 1].node, step.channel>>
  BY <1>3, <1>5 DEF Via
<1> QED
  BY <1>4, <1>6 DEF w

(* A shortest path but its last step is one.                               *)
LEMMA ShortestBefore ==
  ASSUME NEW adj \in Graphs, NEW s \in Nodes, NEW t, t # s,
         NEW w \in ShortestPaths(adj, s, t)
  PROVE  \E v \in Nodes : \E i \in DOMAIN adj[v] : \E u \in ShortestPaths(adj, s, v) :
            /\ Distance(adj, s, v) # -1
            /\ Distance(adj, s, t) = Distance(adj, s, v) + 1
            /\ adj[v][i] = t /\ w = Extended(adj, u, i) /\ Via(w) = <<v, i>>
<1>1. /\ Distance(adj, s, t) \in Nat
      /\ w \in Walks(adj, s)[Distance(adj, s, t)] /\ End(w) = t
  BY ShortestAre
<1>2. Distance(adj, s, t) # 0
  <2> SUFFICES ASSUME Distance(adj, s, t) = 0 PROVE FALSE
    OBVIOUS
  <2>1. w \in Walks(adj, s)[0]
    BY <1>1
  <2>2. Reaches(adj, s, t, 0)
    BY <1>1, <2>1 DEF Reaches
  <2> QED
    BY <2>2, ReachesStart
<1>3. PICK k \in Nat : Distance(adj, s, t) = k + 1
  <2>1. Distance(adj, s, t) - 1 \in Nat
    BY <1>1, <1>2
  <2>2. Distance(adj, s, t) = (Distance(adj, s, t) - 1) + 1
    BY <1>1
  <2> QED
    BY <2>1, <2>2
<1>4. w \in Longer(adj, Walks(adj, s)[k])
  <2>1. Walks(adj, s)[k + 1] = Longer(adj, Walks(adj, s)[k])
    BY WalksUnfold
  <2> QED
    BY <1>1, <1>3, <2>1
<1>5. PICK u \in Walks(adj, s)[k] : \E i \in DOMAIN adj[End(u)] : w = Extended(adj, u, i)
  BY <1>4, LongerIs
<1>6. PICK i \in DOMAIN adj[End(u)] : w = Extended(adj, u, i)
  BY <1>5
<1>7. End(u) \in Nodes /\ u \in Seq(Steps)
  BY EndType
<1>8. adj[End(u)][i] = t
  BY <1>1, <1>6, <1>7, EndOfExtended
<1>9. Reaches(adj, s, End(u), k)
  BY DEF Reaches
<1>10. Distance(adj, s, End(u)) = k
  BY <1>3, <1>7, <1>8, <1>9, DistanceBefore
<1>11. u \in ShortestPaths(adj, s, End(u))
  BY <1>10, ShortestAre
<1>12. Via(w) = <<End(u), i>>
  BY <1>6, ViaExtended
<1>13. k # -1
  OBVIOUS
<1> QED
  BY <1>3, <1>6, <1>7, <1>8, <1>10, <1>11, <1>12, <1>13

(* And one to a node one step further makes a shortest path.               *)
LEMMA ShortestAfter ==
  ASSUME NEW adj \in Graphs, NEW s \in Nodes, NEW v \in Nodes,
         NEW i \in DOMAIN adj[v], NEW u \in ShortestPaths(adj, s, v),
         Distance(adj, s, adj[v][i]) = Distance(adj, s, v) + 1
  PROVE  /\ Extended(adj, u, i) \in ShortestPaths(adj, s, adj[v][i])
         /\ Via(Extended(adj, u, i)) = <<v, i>>
<1> DEFINE k == Distance(adj, s, v)
<1>1. k \in Nat /\ u \in Walks(adj, s)[k] /\ End(u) = v
  BY ShortestAre
<1>2. Distance(adj, s, adj[v][i]) = k + 1
  OBVIOUS
<1> HIDE DEF k
<1>3. Extended(adj, u, i) \in Walks(adj, s)[k + 1]
  <2>1. Walks(adj, s)[k + 1] = Longer(adj, Walks(adj, s)[k])
    BY <1>1, WalksUnfold
  <2> QED
    BY <1>1, <2>1, LongerIs
<1>4. End(Extended(adj, u, i)) = adj[v][i]
  BY <1>1, EndType, EndOfExtended
<1>5. k + 1 \in Nat
  BY <1>1
<1>6. Extended(adj, u, i) \in ShortestPaths(adj, s, adj[v][i])
  BY <1>2, <1>3, <1>4, <1>5, ShortestAre
<1> QED
  BY <1>1, <1>6, ViaExtended

(* A step prolongs different walks differently.                            *)
LEMMA ProlongedSize ==
  ASSUME NEW adj, NEW i, NEW P, P \subseteq Seq(Steps), IsFiniteSet(P)
  PROVE  /\ IsFiniteSet({Extended(adj, u, i) : u \in P})
         /\ Cardinality({Extended(adj, u, i) : u \in P}) = Cardinality(P)
<1> DEFINE step(u) == [channel |-> i, node |-> adj[End(u)][i]]
           T == {Extended(adj, u, i) : u \in P}
           f == [u \in P |-> Extended(adj, u, i)]
<1>1. ASSUME NEW u \in P, NEW x \in P, Extended(adj, u, i) = Extended(adj, x, i)
      PROVE  u = x
  <2>1. u \in Seq(Steps) /\ x \in Seq(Steps)
    OBVIOUS
  <2>2. PICK a : a = step(u)
    OBVIOUS
  <2>3. PICK b : b = step(x)
    OBVIOUS
  <2>4. Append(u, a) = Append(x, b)
    BY <1>1, <2>2, <2>3 DEF Extended
  <2>5. Len(Append(u, a)) = Len(u) + 1 /\ Len(Append(x, b)) = Len(x) + 1
    BY <2>1
  <2>6. Len(u) = Len(x) /\ Len(u) \in Nat
    BY <2>1, <2>4, <2>5
  <2>7. \A j \in 1 .. Len(u) : u[j] = x[j]
    <3>1. \A j \in 1 .. Len(u) : Append(u, a)[j] = u[j]
      BY <2>1
    <3>2. \A j \in 1 .. Len(x) : Append(x, b)[j] = x[j]
      BY <2>1
    <3> QED
      BY <2>4, <2>6, <3>1, <3>2
  <2>8. u = [j \in 1 .. Len(u) |-> u[j]] /\ x = [j \in 1 .. Len(x) |-> x[j]]
    BY <2>1
  <2> QED
    BY <2>6, <2>7, <2>8
<1>2. f \in Bijection(P, T)
  <2>1. f \in [P -> T] /\ DOMAIN f = P
    OBVIOUS
  <2>2. \A u \in P, x \in P : f[u] = f[x] => u = x
    BY <1>1
  <2>3. \A y \in T : \E u \in P : f[u] = y
    OBVIOUS
  <2> HIDE DEF f, T
  <2> QED
    BY <2>1, <2>2, <2>3 DEF Bijection, Injection, IsInjective, Surjection
<1>3. ExistsBijection(P, T)
  BY <1>2 DEF ExistsBijection
<1> HIDE DEF T
<1>4. IsFiniteSet(T) /\ Cardinality(T) = Cardinality(P)
  BY <1>3, FS_Bijection
<1> QED
  BY <1>4 DEF T

(* Every shortest path takes one of the last steps, if none is missing.    *)
LEMMA AlongAll ==
  ASSUME NEW adj \in Graphs, NEW s \in Nodes, NEW t, NEW taken,
         \A v \in Nodes : \A i \in DOMAIN adj[v] :
            /\ Distance(adj, s, v) # -1
            /\ Distance(adj, s, t) = Distance(adj, s, v) + 1
            /\ adj[v][i] = t
            => <<v, i>> \in taken
  PROVE  Along(adj, s, t, taken) = ShortestPaths(adj, s, t)
<1>1. CASE t = s
  BY <1>1 DEF Along
<1>2. CASE t # s
  <2>1. ASSUME NEW w \in ShortestPaths(adj, s, t) PROVE Via(w) \in taken
    BY <1>2, ShortestBefore
  <2> QED
    BY <2>1 DEF Along
<1> QED
  BY <1>1, <1>2

LEMMA AlongNone ==
  ASSUME NEW adj \in Graphs, NEW s \in Nodes, NEW t
  PROVE  Cardinality(Along(adj, s, t, {})) = IF t = s THEN 1 ELSE 0
<1>1. CASE t # s
  <2>1. Along(adj, s, t, {}) = {}
    BY <1>1 DEF Along
  <2> QED
    BY <1>1, <2>1, FS_EmptySet
<1>2. CASE t = s
  <2>1. Along(adj, s, t, {}) = ShortestPaths(adj, s, s)
    BY <1>2 DEF Along
  <2>2. Distance(adj, s, s) = 0
    BY DistanceStart
  <2>3. \A w : w \in ShortestPaths(adj, s, s) <=> w = Start(s)
    <3>1. Walks(adj, s)[0] = {Start(s)} /\ End(Start(s)) = s
      BY WalksUnfold DEF End, Start
    <3> QED
      BY <2>2, <3>1, ShortestAre
  <2>4. ShortestPaths(adj, s, s) = {Start(s)}
    BY <2>3
  <2>5. Cardinality({Start(s)}) = 1
    BY FS_Singleton
  <2> QED
    BY <1>2, <2>1, <2>4, <2>5
<1> QED
  BY <1>1, <1>2

(* One more last step adds the shortest paths to the node it is from, or   *)
(* none when it leads to another node or is not on a shortest path.        *)
LEMMA AlongMore ==
  ASSUME NEW adj \in Graphs, NEW s \in Nodes, NEW taken, NEW v \in Nodes,
         NEW i \in DOMAIN adj[v], <<v, i>> \notin taken,
         Distance(adj, s, v) # -1, NEW t
  PROVE  LET old == Along(adj, s, t, taken)
             new == Along(adj, s, t, taken \union {<<v, i>>})
         IN  IF t = adj[v][i] /\ Distance(adj, s, t) = Distance(adj, s, v) + 1
             THEN Cardinality(new) = Cardinality(old) + Cardinality(ShortestPaths(adj, s, v))
             ELSE new = old
<1> DEFINE old == Along(adj, s, t, taken)
           new == Along(adj, s, t, taken \union {<<v, i>>})
           P == ShortestPaths(adj, s, v)
           more == {Extended(adj, u, i) : u \in P}
<1>1. ASSUME NEW w \in new, w \notin old
      PROVE  /\ t = adj[v][i] /\ Distance(adj, s, t) = Distance(adj, s, v) + 1
             /\ w \in more
  <2>1. w \in ShortestPaths(adj, s, t) /\ t # s /\ Via(w) = <<v, i>>
    BY <1>1 DEF Along
  <2>2. PICK x \in Nodes : \E j \in DOMAIN adj[x] : \E u \in ShortestPaths(adj, s, x) :
            /\ Distance(adj, s, x) # -1
            /\ Distance(adj, s, t) = Distance(adj, s, x) + 1
            /\ adj[x][j] = t /\ w = Extended(adj, u, j) /\ Via(w) = <<x, j>>
    BY <2>1, ShortestBefore
  <2>3. PICK j \in DOMAIN adj[x] : \E u \in ShortestPaths(adj, s, x) :
            /\ Distance(adj, s, x) # -1
            /\ Distance(adj, s, t) = Distance(adj, s, x) + 1
            /\ adj[x][j] = t /\ w = Extended(adj, u, j) /\ Via(w) = <<x, j>>
    BY <2>2
  <2>4. x = v /\ j = i
    BY <2>1, <2>3
  <2> QED
    BY <2>3, <2>4
<1>2. old \subseteq new
  BY DEF Along
<1>3. CASE ~(t = adj[v][i] /\ Distance(adj, s, t) = Distance(adj, s, v) + 1)
  <2>1. new = old
    BY <1>1, <1>2, <1>3
  <2> QED
    BY <1>3, <2>1
<1>4. CASE t = adj[v][i] /\ Distance(adj, s, t) = Distance(adj, s, v) + 1
  <2>1. t # s
    <3>1. Distance(adj, s, v) \in Nat
      BY DistanceReached
    <3>2. Distance(adj, s, s) = 0
      BY DistanceStart
    <3> QED
      BY <1>4, <3>1, <3>2
  <2>2. ASSUME NEW u \in P
        PROVE  Extended(adj, u, i) \in new /\ Extended(adj, u, i) \notin old
    <3>1. /\ Extended(adj, u, i) \in ShortestPaths(adj, s, t)
          /\ Via(Extended(adj, u, i)) = <<v, i>>
      BY <1>4, ShortestAfter
    <3> QED
      BY <2>1, <3>1 DEF Along
  <2>3. new = old \union more /\ old \intersect more = {}
    BY <1>1, <1>2, <2>2
  <2>4. P \subseteq Seq(Steps) /\ IsFiniteSet(P)
    <3>1. ASSUME NEW u \in P PROVE u \in Seq(Steps)
      <4>1. /\ Distance(adj, s, v) \in Nat
            /\ u \in Walks(adj, s)[Distance(adj, s, v)]
        BY ShortestAre
      <4> QED
        BY <4>1, EndType
    <3> QED
      BY <3>1, ShortestFinite
  <2>5. IsFiniteSet(old)
    BY ShortestFinite, FS_Subset DEF Along
  <2> HIDE DEF old, new, P
  <2>6. IsFiniteSet(more) /\ Cardinality(more) = Cardinality(P)
    BY <2>4, ProlongedSize
  <2> HIDE DEF more
  <2>7. Cardinality(old \union more) =
           Cardinality(old) + Cardinality(more) - Cardinality(old \intersect more)
    BY <2>5, <2>6, FS_Union
  <2>8. Cardinality(old \intersect more) = 0
    BY <2>3, FS_EmptySet
  <2>9. Cardinality(old) \in Nat /\ Cardinality(more) \in Nat
    BY <2>5, <2>6, FS_CardinalityType
  <2>10. Cardinality(new) = Cardinality(old) + Cardinality(P)
    BY <2>3, <2>6, <2>7, <2>8, <2>9
  <2> QED
    BY <1>4, <2>10 DEF old, new, P
<1> QED
  BY <1>3, <1>4

(***************************************************************************)
(* Shortest paths through a node                                           *)
(***************************************************************************)
(* The channels from v to t on shortest paths, and the shortest paths to t *)
(* that pass v.                                                            *)
Between(adj, s, v, t) ==
    {i \in DOMAIN adj[v] :
        /\ adj[v][i] = t /\ Distance(adj, s, v) # -1
        /\ Distance(adj, s, t) = Distance(adj, s, v) + 1}

Passes(w, v) == \E i \in DOMAIN w : w[i].node = v

Passing(adj, s, v, t) == {w \in ShortestPaths(adj, s, t) : Passes(w, v)}

LEMMA BetweenFinite ==
  ASSUME NEW adj \in Graphs, NEW s \in Nodes, NEW v \in Nodes, NEW t
  PROVE  /\ IsFiniteSet(Between(adj, s, v, t))
         /\ Cardinality(Between(adj, s, v, t)) \in Nat
         /\ Cardinality(Between(adj, s, v, t)) # 0 =>
               /\ Distance(adj, s, v) \in Nat
               /\ Distance(adj, s, t) = Distance(adj, s, v) + 1
<1> DEFINE B == Between(adj, s, v, t)
<1>1. adj[v] \in Seq(Nodes)
  BY DEF Graphs
<1>2. Len(adj[v]) \in Nat /\ DOMAIN adj[v] = 1 .. Len(adj[v])
  BY <1>1
<1>3. IsFiniteSet(DOMAIN adj[v])
  BY <1>2, IntervalFinite
<1>4. B \subseteq DOMAIN adj[v]
  BY DEF Between
<1>5. B # {} => /\ Distance(adj, s, v) \in Nat
                /\ Distance(adj, s, t) = Distance(adj, s, v) + 1
  BY DistanceReached DEF Between
<1> HIDE DEF B
<1>6. IsFiniteSet(B)
  BY <1>3, <1>4, FS_Subset
<1>7. Cardinality(B) \in Nat /\ (Cardinality(B) # 0 => B # {})
  BY <1>6, FS_CardinalityType, FS_EmptySet
<1> QED
  BY <1>5, <1>6, <1>7 DEF B

LEMMA PassingFinite ==
  ASSUME NEW adj \in Graphs, NEW s \in Nodes, NEW v, NEW t
  PROVE  /\ IsFiniteSet(Passing(adj, s, v, t))
         /\ Cardinality(Passing(adj, s, v, t)) \in Nat
         /\ Passing(adj, s, v, t) \subseteq Seq(Steps)
<1>1. IsFiniteSet(Passing(adj, s, v, t))
  BY ShortestFinite, FS_Subset DEF Passing
<1>2. ASSUME NEW w \in Passing(adj, s, v, t) PROVE w \in Seq(Steps)
  <2>1. Distance(adj, s, t) \in Nat /\ w \in Walks(adj, s)[Distance(adj, s, t)]
    BY ShortestAre DEF Passing
  <2> QED
    BY <2>1, EndType
<1> QED
  BY <1>1, <1>2, FS_CardinalityType

(* A walk passes where it passed before its last step, and its end.        *)
LEMMA PassesExtended ==
  ASSUME NEW adj, NEW w \in Seq(Steps), NEW i, NEW v
  PROVE  Passes(Extended(adj, w, i), v) <=> Passes(w, v) \/ adj[End(w)][i] = v
<1> DEFINE step == [channel |-> i, node |-> adj[End(w)][i]]
           x == Append(w, step)
<1>1. step.node = adj[End(w)][i]
  OBVIOUS
<1> HIDE DEF step
<1>2. /\ Len(w) \in Nat /\ Len(x) = Len(w) + 1
      /\ DOMAIN w = 1 .. Len(w) /\ DOMAIN x = 1 .. (Len(w) + 1)
  OBVIOUS
<1>3. x[Len(w) + 1] = step /\ \A j \in 1 .. Len(w) : x[j] = w[j]
  OBVIOUS
<1>4. x = Extended(adj, w, i)
  BY DEF Extended, step
<1> HIDE DEF x
<1>5. ASSUME Passes(x, v) PROVE Passes(w, v) \/ adj[End(w)][i] = v
  <2>1. PICK j \in 1 .. (Len(w) + 1) : x[j].node = v
    BY <1>2, <1>5 DEF Passes
  <2>2. CASE j = Len(w) + 1
    BY <1>1, <1>3, <2>1, <2>2
  <2>3. CASE j # Len(w) + 1
    <3>1. j \in 1 .. Len(w)
      BY <1>2, <2>3
    <3>2. w[j].node = v
      BY <1>3, <2>1, <3>1
    <3> QED
      BY <1>2, <3>1, <3>2 DEF Passes
  <2> QED
    BY <2>2, <2>3
<1>6. ASSUME Passes(w, v) PROVE Passes(x, v)
  <2>1. PICK j \in 1 .. Len(w) : w[j].node = v
    BY <1>2, <1>6 DEF Passes
  <2>2. j \in DOMAIN x /\ x[j].node = v
    BY <1>2, <1>3, <2>1
  <2> QED
    BY <2>2 DEF Passes
<1>7. ASSUME adj[End(w)][i] = v PROVE Passes(x, v)
  <2>1. Len(w) + 1 \in DOMAIN x /\ x[Len(w) + 1].node = v
    BY <1>1, <1>2, <1>3, <1>7
  <2> QED
    BY <2>1 DEF Passes
<1> QED
  BY <1>4, <1>5, <1>6, <1>7

(* Every shortest path passes its end, and no node that is not nearer.     *)
LEMMA PassingEnd ==
  ASSUME NEW adj \in Graphs, NEW s \in Nodes, NEW v
  PROVE  Passing(adj, s, v, v) = ShortestPaths(adj, s, v)
<1>1. ASSUME NEW w \in ShortestPaths(adj, s, v) PROVE Passes(w, v)
  <2>1. /\ Distance(adj, s, v) \in Nat
        /\ w \in Walks(adj, s)[Distance(adj, s, v)] /\ End(w) = v
    BY ShortestAre
  <2>2. w \in Seq(Steps) /\ Len(w) = Distance(adj, s, v) + 1
    BY <2>1, EndType
  <2>3. Len(w) \in DOMAIN w
    BY <2>1, <2>2
  <2> QED
    BY <2>1, <2>3 DEF Passes, End
<1> QED
  BY <1>1 DEF Passing

LEMMA PassingNearer ==
  ASSUME NEW adj \in Graphs, NEW s \in Nodes, NEW v \in Nodes, NEW t \in Nodes, v # t,
         Passing(adj, s, v, t) # {}
  PROVE  Distance(adj, s, v) # -1 /\ Distance(adj, s, v) < Distance(adj, s, t)
<1> DEFINE C(x) == v # x /\ Passing(adj, s, v, x) # {} =>
                     /\ Distance(adj, s, v) # -1
                     /\ Distance(adj, s, v) < Distance(adj, s, x)
           A == {k \in Nat : \A x \in Nodes : Distance(adj, s, x) = k => C(x)}
<1>1. ASSUME NEW x \in Nodes, v # x, NEW w \in Passing(adj, s, v, x)
      PROVE  /\ x # s
             /\ \E u \in Nodes : /\ Distance(adj, s, u) # -1
                                 /\ Distance(adj, s, x) = Distance(adj, s, u) + 1
                                 /\ Passing(adj, s, v, u) # {}
  <2>1. w \in ShortestPaths(adj, s, x) /\ Passes(w, v)
    BY DEF Passing
  <2>2. x # s
    <3> SUFFICES ASSUME x = s PROVE FALSE
      OBVIOUS
    <3>1. Distance(adj, s, s) = 0 /\ w \in Walks(adj, s)[0]
      BY <2>1, DistanceStart, ShortestAre
    <3>2. w = Start(s)
      BY <3>1, WalksUnfold
    <3>3. Passes(w, v) => v = s
      BY <3>2 DEF Passes, Start
    <3> QED
      BY <1>1, <2>1, <3>3
  <2>3. PICK u \in Nodes : \E i \in DOMAIN adj[u] : \E y \in ShortestPaths(adj, s, u) :
            /\ Distance(adj, s, u) # -1
            /\ Distance(adj, s, x) = Distance(adj, s, u) + 1
            /\ adj[u][i] = x /\ w = Extended(adj, y, i)
    BY <2>1, <2>2, ShortestBefore
  <2>pick. PICK i \in DOMAIN adj[u] : \E y \in ShortestPaths(adj, s, u) :
            /\ Distance(adj, s, u) # -1
            /\ Distance(adj, s, x) = Distance(adj, s, u) + 1
            /\ adj[u][i] = x /\ w = Extended(adj, y, i)
    BY <2>3
  <2>path. PICK y \in ShortestPaths(adj, s, u) : w = Extended(adj, y, i)
    BY <2>pick
  <2>4. y \in Seq(Steps) /\ End(y) = u
    <3>1. Distance(adj, s, u) \in Nat /\ y \in Walks(adj, s)[Distance(adj, s, u)]
          /\ End(y) = u
      BY ShortestAre
    <3> QED
      BY <3>1, EndType
  <2>5. Passes(y, v)
    BY <1>1, <2>1, <2>pick, <2>path, <2>4, PassesExtended
  <2>6. Passing(adj, s, v, u) # {}
    BY <2>5 DEF Passing
  <2> QED
    BY <2>2, <2>pick, <2>6
<1>2. ASSUME NEW x \in Nodes, v # x, NEW w \in Passing(adj, s, v, x)
      PROVE  \E u \in Nodes : /\ Distance(adj, s, u) \in Nat
                              /\ Distance(adj, s, x) = Distance(adj, s, u) + 1
                              /\ C(u) => C(x)
  <2>1. PICK u \in Nodes : /\ Distance(adj, s, u) # -1
                           /\ Distance(adj, s, x) = Distance(adj, s, u) + 1
                           /\ Passing(adj, s, v, u) # {}
    BY <1>1, <1>2
  <2>2. Distance(adj, s, u) \in Nat
    BY <2>1, DistanceReached
  <2>3. ASSUME C(u) PROVE C(x)
    <3>1. CASE u = v
      BY <2>1, <2>2, <3>1
    <3>2. CASE u # v
      <4>1. Distance(adj, s, v) # -1 /\ Distance(adj, s, v) < Distance(adj, s, u)
        BY <2>1, <2>3, <3>2
      <4>2. Distance(adj, s, v) \in Nat
        BY <4>1, DistanceReached
      <4> QED
        BY <2>1, <2>2, <4>1, <4>2
    <3> QED
      BY <3>1, <3>2
  <2> QED
    BY <2>1, <2>2, <2>3
<1> HIDE DEF C
<1>3. 0 \in A
  <2> SUFFICES ASSUME NEW x \in Nodes, Distance(adj, s, x) = 0 PROVE C(x)
    OBVIOUS
  <2>1. ~(v # x /\ Passing(adj, s, v, x) # {}) \/ C(x)
    <3> SUFFICES ASSUME v # x, NEW w \in Passing(adj, s, v, x) PROVE FALSE
      OBVIOUS
    <3> QED
      BY <1>2
  <2> QED
    BY <2>1 DEF C
<1>4. ASSUME NEW k \in A PROVE k + 1 \in A
  <2> SUFFICES ASSUME NEW x \in Nodes, Distance(adj, s, x) = k + 1 PROVE C(x)
    OBVIOUS
  <2>1. CASE v # x /\ Passing(adj, s, v, x) # {}
    <3>1. PICK u \in Nodes : /\ Distance(adj, s, u) \in Nat
                             /\ Distance(adj, s, x) = Distance(adj, s, u) + 1
                             /\ C(u) => C(x)
      BY <1>2, <2>1
    <3>2. Distance(adj, s, u) = k
      BY <3>1
    <3> QED
      BY <3>1, <3>2
  <2>2. CASE ~(v # x /\ Passing(adj, s, v, x) # {})
    BY <2>2 DEF C
  <2> QED
    BY <2>1, <2>2
<1>5. A = Nat
  <2> HIDE DEF A
  <2>1. A \subseteq Nat
    BY DEF A
  <2> QED
    BY <1>3, <1>4, <2>1, NaturalInduction
<1>6. Distance(adj, s, t) \in Nat
  BY ShortestAre DEF Passing
<1>7. C(t)
  BY <1>5, <1>6
<1> QED
  BY <1>7 DEF C

(* The shortest paths through v and then, in their last step, from u to t. *)
PassingAlong(adj, s, v, u, t) ==
    UNION {{Extended(adj, w, i) : w \in Passing(adj, s, v, u)} :
              i \in Between(adj, s, u, t)}

LEMMA PassingOver ==
  ASSUME NEW adj \in Graphs, NEW s \in Nodes, NEW v \in Nodes, NEW u \in Nodes, NEW t
  PROVE  /\ IsFiniteSet(PassingAlong(adj, s, v, u, t))
         /\ Cardinality(PassingAlong(adj, s, v, u, t))
               = Cardinality(Passing(adj, s, v, u)) * Cardinality(Between(adj, s, u, t))
<1> DEFINE P == Passing(adj, s, v, u)
           B == Between(adj, s, u, t)
           more(i) == {Extended(adj, w, i) : w \in P}
           f == [i \in B |-> more(i)]
           sizes == [i \in B |-> Cardinality(f[i])]
<1>1. /\ IsFiniteSet(P) /\ Cardinality(P) \in Nat /\ P \subseteq Seq(Steps)
  BY PassingFinite
<1>2. IsFiniteSet(B)
  BY BetweenFinite
<1>3. ASSUME NEW i \in B
      PROVE  IsFiniteSet(more(i)) /\ Cardinality(more(i)) = Cardinality(P)
  <2> HIDE DEF P, B
  <2>1. /\ IsFiniteSet({Extended(adj, w, i) : w \in P})
        /\ Cardinality({Extended(adj, w, i) : w \in P}) = Cardinality(P)
    BY <1>1, ProlongedSize
  <2> QED
    BY <2>1
<1>4. ASSUME NEW i \in B, NEW j \in B, i # j PROVE more(i) \intersect more(j) = {}
  <2>1. ASSUME NEW w \in P, NEW x \in P, Extended(adj, w, i) = Extended(adj, x, j)
        PROVE  FALSE
    <3>1. \A y \in P : /\ Distance(adj, s, u) \in Nat
                       /\ y \in Walks(adj, s)[Distance(adj, s, u)]
      BY ShortestAre DEF Passing
    <3>2. \A y \in P : \A k : Via(Extended(adj, y, k)) = <<End(y), k>>
      BY <3>1, ViaExtended
    <3>3. <<End(w), i>> = <<End(x), j>>
      BY <2>1, <3>2
    <3> QED
      BY <1>4, <3>3
  <2> QED
    BY <2>1
<1>5. \A i \in B : f[i] = more(i)
  OBVIOUS
<1>6. UNION {f[i] : i \in B} = UNION {more(i) : i \in B}
  OBVIOUS
<1> HIDE DEF f, more, B, P
<1>7. /\ IsFiniteSet(UNION {f[i] : i \in B})
      /\ Cardinality(UNION {f[i] : i \in B}) = SumFunctionOnSet(sizes, B)
  <2>1. \A i \in B : IsFiniteSet(f[i])
    BY <1>3, <1>5
  <2>2. \A i, j \in B : i # j => f[i] \intersect f[j] = {}
    BY <1>4, <1>5
  <2> QED
    BY <1>2, <2>1, <2>2, UnionSize
<1>8. \A i \in B : sizes[i] = Cardinality(P)
  BY <1>3, <1>5
<1> HIDE DEF sizes
<1>9. SumFunctionOnSet(sizes, B) = Cardinality(P) * Cardinality(B)
  BY <1>1, <1>2, <1>8, SumConstant
<1>10. PassingAlong(adj, s, v, u, t) = UNION {more(i) : i \in B}
  BY DEF PassingAlong, more, P, B
<1> QED
  BY <1>6, <1>7, <1>9, <1>10 DEF P, B

(* The numbers of shortest paths that pass, and of channels between, as    *)
(* matrices.                                                               *)
Through(adj, s) ==
    [v \in Nodes |-> [t \in Nodes |-> Cardinality(Passing(adj, s, v, t))]]

Links(adj, s) ==
    [v \in Nodes |-> [t \in Nodes |-> Cardinality(Between(adj, s, v, t))]]

LEMMA PassedLinks ==
  ASSUME NEW adj \in Graphs, NEW s \in Nodes
  PROVE  /\ Matrix(Nodes, Through(adj, s)) /\ Matrix(Nodes, Links(adj, s))
         /\ \A v, t \in Nodes :
               /\ Through(adj, s)[v][t] = Cardinality(Passing(adj, s, v, t))
               /\ Links(adj, s)[v][t] = Cardinality(Between(adj, s, v, t))
<1>1. \A v, t \in Nodes :
               /\ Through(adj, s)[v][t] = Cardinality(Passing(adj, s, v, t))
               /\ Links(adj, s)[v][t] = Cardinality(Between(adj, s, v, t))
  BY DEF Through, Links
<1>2. \A v, t \in Nodes : Through(adj, s)[v][t] \in Nat
  BY <1>1, PassingFinite
<1>3. \A v, t \in Nodes : Links(adj, s)[v][t] \in Nat
  BY <1>1, BetweenFinite
<1> QED
  BY <1>1, <1>2, <1>3 DEF Matrix

LEMMA PassingBefore ==
  ASSUME NEW adj \in Graphs, NEW s \in Nodes, NEW v \in Nodes, NEW t \in Nodes, v # t
  PROVE  Through(adj, s)[v][t]
           = Dot(Nodes, Through(adj, s)[v], Column(Nodes, Links(adj, s), t))
<1> DEFINE over(u) == PassingAlong(adj, s, v, u, t)
           f == [u \in Nodes |-> over(u)]
           sizes == [u \in Nodes |-> Cardinality(f[u])]
           row == Through(adj, s)[v]
           col == Column(Nodes, Links(adj, s), t)
<1>1. ASSUME NEW u \in Nodes
      PROVE  /\ IsFiniteSet(over(u))
             /\ Cardinality(over(u)) = row[u] * col[u]
  <2>1. row[u] = Cardinality(Passing(adj, s, v, u))
    BY PassedLinks
  <2>2. col[u] = Cardinality(Between(adj, s, u, t))
    BY PassedLinks DEF Column
  <2> QED
    BY <2>1, <2>2, PassingOver
<1>2. ASSUME NEW u \in Nodes, NEW x \in over(u)
      PROVE  \E i \in Between(adj, s, u, t) : \E w \in Passing(adj, s, v, u) :
                x = Extended(adj, w, i)
  BY DEF PassingAlong
<1>3. ASSUME NEW u \in Nodes, NEW i \in Between(adj, s, u, t),
             NEW w \in Passing(adj, s, v, u)
      PROVE  Extended(adj, w, i) \in over(u)
  BY DEF PassingAlong
<1>4. ASSUME NEW u \in Nodes, NEW y \in Nodes, u # y
      PROVE  over(u) \intersect over(y) = {}
  <2> SUFFICES ASSUME NEW x \in over(u), x \in over(y) PROVE FALSE
    OBVIOUS
  <2>1. ASSUME NEW z \in Nodes, x \in over(z) PROVE Via(x)[1] = z
    <3>1. PICK i \in Between(adj, s, z, t) : \E w \in Passing(adj, s, v, z) :
                x = Extended(adj, w, i)
      BY <1>2, <2>1
    <3>2. PICK w \in Passing(adj, s, v, z) : x = Extended(adj, w, i)
      BY <3>1
    <3>3. /\ Distance(adj, s, z) \in Nat
          /\ w \in Walks(adj, s)[Distance(adj, s, z)] /\ End(w) = z
      BY ShortestAre DEF Passing
    <3>4. Via(x) = <<z, i>>
      BY <3>2, <3>3, ViaExtended
    <3> QED
      BY <3>4
  <2>2. Via(x)[1] = u /\ Via(x)[1] = y
    <3>1. x \in over(u) /\ x \in over(y)
      OBVIOUS
    <3> HIDE DEF over
    <3> QED
      BY <2>1, <3>1
  <2> QED
    BY <1>4, <2>2
<1>5. Passing(adj, s, v, t) = UNION {over(u) : u \in Nodes}
  <2>1. ASSUME NEW x \in Passing(adj, s, v, t)
        PROVE  \E u \in Nodes : x \in over(u)
    <3>0. x \in ShortestPaths(adj, s, t) /\ Passes(x, v)
      BY DEF Passing
    <3>1. t # s
      <4> SUFFICES ASSUME t = s PROVE FALSE
        OBVIOUS
      <4>1. Distance(adj, s, v) # -1 /\ Distance(adj, s, v) < Distance(adj, s, s)
        BY PassingNearer
      <4>2. Distance(adj, s, v) \in Nat /\ Distance(adj, s, s) = 0
        BY <4>1, DistanceReached, DistanceStart
      <4> QED
        BY <4>1, <4>2
    <3>2. PICK u \in Nodes : \E i \in DOMAIN adj[u] : \E y \in ShortestPaths(adj, s, u) :
            /\ Distance(adj, s, u) # -1
            /\ Distance(adj, s, t) = Distance(adj, s, u) + 1
            /\ adj[u][i] = t /\ x = Extended(adj, y, i)
      BY <3>0, <3>1, ShortestBefore
    <3>3. PICK i \in DOMAIN adj[u] : \E y \in ShortestPaths(adj, s, u) :
            /\ Distance(adj, s, u) # -1
            /\ Distance(adj, s, t) = Distance(adj, s, u) + 1
            /\ adj[u][i] = t /\ x = Extended(adj, y, i)
      BY <3>2
    <3>4. PICK y \in ShortestPaths(adj, s, u) : x = Extended(adj, y, i)
      BY <3>3
    <3>5. y \in Seq(Steps) /\ End(y) = u
      <4>1. Distance(adj, s, u) \in Nat /\ y \in Walks(adj, s)[Distance(adj, s, u)]
            /\ End(y) = u
        BY ShortestAre
      <4> QED
        BY <4>1, EndType
    <3>6. Passes(y, v)
      BY <3>0, <3>3, <3>4, <3>5, PassesExtended
    <3>7. y \in Passing(adj, s, v, u) /\ i \in Between(adj, s, u, t)
      BY <3>3, <3>6 DEF Passing, Between
    <3> HIDE DEF over
    <3> QED
      BY <1>3, <3>4, <3>7
  <2>2. ASSUME NEW u \in Nodes, NEW x \in over(u) PROVE x \in Passing(adj, s, v, t)
    <3>1. PICK i \in Between(adj, s, u, t) : \E w \in Passing(adj, s, v, u) :
                x = Extended(adj, w, i)
      BY <1>2
    <3>2. PICK w \in Passing(adj, s, v, u) : x = Extended(adj, w, i)
      BY <3>1
    <3>3. /\ w \in ShortestPaths(adj, s, u) /\ Passes(w, v)
          /\ i \in DOMAIN adj[u] /\ adj[u][i] = t
          /\ Distance(adj, s, t) = Distance(adj, s, u) + 1
      BY DEF Passing, Between
    <3>4. x \in ShortestPaths(adj, s, t)
      BY <3>2, <3>3, ShortestAfter
    <3>5. w \in Seq(Steps)
      BY PassingFinite
    <3>6. Passes(x, v)
      BY <3>2, <3>3, <3>5, PassesExtended
    <3> QED
      BY <3>4, <3>6 DEF Passing
  <2> HIDE DEF over
  <2> QED
    BY <2>1, <2>2
<1>6. \A u \in Nodes : f[u] = over(u)
  OBVIOUS
<1>7. UNION {f[u] : u \in Nodes} = UNION {over(u) : u \in Nodes}
  OBVIOUS
<1> HIDE DEF f, over
<1>8. Cardinality(UNION {f[u] : u \in Nodes}) = SumFunctionOnSet(sizes, Nodes)
  <2>1. \A u \in Nodes : IsFiniteSet(f[u])
    BY <1>1, <1>6
  <2>2. \A u, y \in Nodes : u # y => f[u] \intersect f[y] = {}
    BY <1>4, <1>6
  <2> QED
    BY <2>1, <2>2, NodesFinite, UnionSize
<1>9. sizes = [u \in Nodes |-> row[u] * col[u]]
  <2> HIDE DEF row, col
  <2> QED
    BY <1>1, <1>6
<1>10. SumFunctionOnSet(sizes, Nodes) = Dot(Nodes, row, col)
  BY <1>9 DEF Dot
<1>11. Through(adj, s)[v][t] = Cardinality(Passing(adj, s, v, t))
  BY PassedLinks
<1> QED
  BY <1>5, <1>7, <1>8, <1>10, <1>11

Count(adj, s, t) == Cardinality(ShortestPaths(adj, s, t))

LEMMA CountFacts ==
  ASSUME NEW adj \in Graphs, NEW s \in Nodes, NEW v \in Nodes
  PROVE  /\ Count(adj, s, v) \in Nat
         /\ Count(adj, s, v) = 0 <=> Distance(adj, s, v) = -1
         /\ Through(adj, s)[v][v] = Count(adj, s, v)
<1>1. /\ Count(adj, s, v) \in Nat
      /\ Distance(adj, s, v) # -1 => Count(adj, s, v) # 0
  BY ShortestFinite DEF Count
<1>2. Distance(adj, s, v) = -1 => Count(adj, s, v) = 0
  BY ShortestFinite, FS_EmptySet DEF Count
<1>3. Through(adj, s)[v][v] = Count(adj, s, v)
  BY PassedLinks, PassingEnd DEF Count
<1> QED
  BY <1>1, <1>2, <1>3

(* No shortest path passes a node that is not nearer than its end.         *)
LEMMA PassedFarther ==
  ASSUME NEW adj \in Graphs, NEW s \in Nodes, NEW v \in Nodes, NEW t \in Nodes, v # t,
         \/ Distance(adj, s, v) = -1
         \/ ~(Distance(adj, s, v) < Distance(adj, s, t))
  PROVE  Through(adj, s)[v][t] = 0
<1>1. Passing(adj, s, v, t) = {}
  <2> SUFFICES ASSUME Passing(adj, s, v, t) # {} PROVE FALSE
    OBVIOUS
  <2>1. Distance(adj, s, v) # -1 /\ Distance(adj, s, v) < Distance(adj, s, t)
    BY PassingNearer
  <2> QED
    BY <2>1
<1>2. Through(adj, s)[v][t] = Cardinality(Passing(adj, s, v, t))
  BY PassedLinks
<1> QED
  BY <1>1, <1>2, FS_EmptySet

LEMMA PassedBack ==
  ASSUME NEW adj \in Graphs, NEW s \in Nodes, NEW v \in Nodes
  PROVE  Dot(Nodes, Through(adj, s)[v], Column(Nodes, Links(adj, s), v)) = 0
<1> DEFINE row == Through(adj, s)[v]
           col == Column(Nodes, Links(adj, s), v)
           f == [u \in Nodes |-> row[u] * col[u]]
<1>1. ASSUME NEW u \in Nodes PROVE f[u] = 0
  <2>1. /\ row[u] \in Nat /\ col[u] \in Nat
        /\ col[u] = Cardinality(Between(adj, s, u, v))
    BY PassedLinks DEF Column, Matrix
  <2>2. col[u] # 0 => row[u] = 0
    <3> SUFFICES ASSUME col[u] # 0 PROVE row[u] = 0
      OBVIOUS
    <3>1. Distance(adj, s, u) \in Nat
          /\ Distance(adj, s, v) = Distance(adj, s, u) + 1
      BY <2>1, BetweenFinite
    <3>2. u # v
      BY <3>1
    <3>3. ~(Distance(adj, s, v) < Distance(adj, s, u))
      BY <3>1
    <3> QED
      BY <3>2, <3>3, PassedFarther
  <2>3. \A a \in Nat : a * 0 = 0 /\ 0 * a = 0
    BY Z3
  <2>4. f[u] = row[u] * col[u]
    OBVIOUS
  <2> HIDE DEF row, col, f
  <2> QED
    BY <2>1, <2>2, <2>3, <2>4
<1> HIDE DEF f
<1>2. SumFunctionOnSet(f, Nodes) = 0
  BY <1>1, NodesFinite, SumZero
<1> QED
  BY <1>2 DEF f, Dot

(* Every shortest path to v goes on in the same ways.                      *)
LEMMA PassedDivides ==
  ASSUME NEW adj \in Graphs, NEW s \in Nodes, NEW v \in Nodes, NEW t \in Nodes
  PROVE  \E q \in Nat : Through(adj, s)[v][t] = Count(adj, s, v) * q
<1> DEFINE c == Count(adj, s, v)
           row == Through(adj, s)[v]
           C(x) == \E q \in Nat : row[x] = c * q
           d(x) == Distance(adj, s, x)
           A == {k \in Nat : \A x \in Nodes : d(x) <= k => C(x)}
<1>0. c \in Nat /\ row[v] = c /\ \A x \in Nodes : row[x] \in Nat
  BY CountFacts, PassedLinks DEF Matrix
<1>1. C(v)
  <2>1. c = c * 1
    BY <1>0, Z3
  <2> HIDE DEF c, row
  <2> QED
    BY <1>0, <2>1
<1>2. ASSUME NEW x \in Nodes, v # x,
             \A u \in Nodes : d(u) # -1 /\ d(x) = d(u) + 1 => C(u)
      PROVE  C(x)
  <2> DEFINE col == Column(Nodes, Links(adj, s), x)
             good(u) == col[u] # 0
             q == [u \in Nodes |-> IF good(u) THEN CHOOSE n \in Nat : row[u] = c * n
                                   ELSE 0]
  <2>1. \A u \in Nodes : /\ col[u] \in Nat
                         /\ col[u] = Cardinality(Between(adj, s, u, x))
    BY PassedLinks DEF Column, Matrix
  <2>2. ASSUME NEW u \in Nodes, col[u] # 0 PROVE C(u)
    <3>1. d(u) \in Nat /\ d(x) = d(u) + 1
      BY <2>1, <2>2, BetweenFinite
    <3> QED
      BY <1>2, <3>1
  <2> HIDE DEF col
  <2>3. ASSUME NEW u \in Nodes
        PROVE  q[u] \in Nat /\ (col[u] # 0 => row[u] = c * q[u])
    <3> HIDE DEF row, c
    <3>1. CASE col[u] = 0
      BY <3>1
    <3>2. CASE col[u] # 0
      BY <2>2, <3>2
    <3> QED
      BY <3>1, <3>2
  <2> HIDE DEF q, C
  <2>4. \A u \in Nodes : row[u] * col[u] = c * (q[u] * col[u])
    <3> SUFFICES ASSUME NEW u \in Nodes PROVE row[u] * col[u] = c * (q[u] * col[u])
      OBVIOUS
    <3>1. \A a, b, e \in Nat : (a * b) * e = a * (b * e)
      BY Z3
    <3>2. \A a \in Nat : a * 0 = 0 /\ 0 * a = 0
      BY Z3
    <3> HIDE DEF row, c
    <3>3. CASE col[u] = 0
      BY <1>0, <2>3, <3>2, <3>3
    <3>4. CASE col[u] # 0
      BY <1>0, <2>1, <2>3, <3>1, <3>4
    <3> QED
      BY <3>3, <3>4
  <2>5. Dot(Nodes, row, col) = c * Dot(Nodes, q, col)
    <3> HIDE DEF row, c
    <3> QED
      BY <1>0, <2>1, <2>3, <2>4, NodesFinite, DotTimes
  <2>6. row[x] = Dot(Nodes, row, col)
    BY <1>2, PassingBefore DEF col
  <2>7. Dot(Nodes, q, col) \in Nat
    BY <2>1, <2>3, NodesFinite, DotType
  <2> HIDE DEF row, c
  <2> QED
    BY <2>5, <2>6, <2>7 DEF C
<1>3. \A x \in Nodes : d(x) = -1 \/ d(x) \in Nat
  BY DistanceReached
<1> HIDE DEF C, d
<1>4. 0 \in A
  <2> SUFFICES ASSUME NEW x \in Nodes, d(x) <= 0 PROVE C(x)
    OBVIOUS
  <2>1. ASSUME NEW u \in Nodes, d(u) # -1 PROVE d(x) # d(u) + 1
    BY <1>3, <2>1
  <2> QED
    BY <1>1, <1>2, <2>1
<1>5. ASSUME NEW k \in A PROVE k + 1 \in A
  <2> SUFFICES ASSUME NEW x \in Nodes, d(x) <= k + 1 PROVE C(x)
    OBVIOUS
  <2>1. ASSUME NEW u \in Nodes, d(u) # -1, d(x) = d(u) + 1 PROVE C(u)
    <3>1. d(u) \in Nat /\ d(u) <= k
      BY <1>3, <2>1
    <3> QED
      BY <3>1
  <2> QED
    BY <1>1, <1>2, <2>1
<1>6. A = Nat
  <2> HIDE DEF A
  <2>1. A \subseteq Nat
    BY DEF A
  <2> QED
    BY <1>4, <1>5, <2>1, NaturalInduction
<1>7. PICK k \in Nat : d(t) <= k
  BY <1>3
<1>8. C(t)
  BY <1>6, <1>7
<1> QED
  BY <1>8 DEF C

(* In how many ways a shortest path that has come to v goes on to t.       *)
Onward(adj, s) ==
    [v \in Nodes |-> [t \in Nodes |->
        IF Distance(adj, s, v) = -1 THEN Unit(Nodes, v)[t]
        ELSE CHOOSE q \in Nat : Through(adj, s)[v][t] = Count(adj, s, v) * q]]

LEMMA OnwardIs ==
  ASSUME NEW adj \in Graphs, NEW s \in Nodes, NEW v \in Nodes, NEW t \in Nodes
  PROVE  /\ Onward(adj, s)[v][t] \in Nat
         /\ Through(adj, s)[v][t] = Count(adj, s, v) * Onward(adj, s)[v][t]
         /\ Distance(adj, s, v) = -1 => Onward(adj, s)[v][t] = Unit(Nodes, v)[t]
<1> DEFINE q == Onward(adj, s)[v][t]
           p == Through(adj, s)[v][t]
           c == Count(adj, s, v)
<1>1. q = IF Distance(adj, s, v) = -1 THEN Unit(Nodes, v)[t]
          ELSE CHOOSE n \in Nat : p = c * n
  BY DEF Onward
<1>2. \E n \in Nat : p = c * n
  BY PassedDivides
<1>3. Unit(Nodes, v)[t] \in Nat
  BY DEF Unit
<1>4. CASE Distance(adj, s, v) = -1
  <2>1. c = 0
    BY <1>4, CountFacts
  <2>2. p = 0
    BY <1>4, <2>1, CountFacts, PassedFarther
  <2>3. \A n \in Nat : 0 * n = 0
    BY Z3
  <2> HIDE DEF q, p, c
  <2>4. q \in Nat /\ p = c * q
    BY <1>1, <1>3, <1>4, <2>1, <2>2, <2>3
  <2> QED
    BY <1>1, <1>4, <2>4 DEF q, p, c
<1>5. CASE Distance(adj, s, v) # -1
  <2> HIDE DEF q, p, c
  <2>1. q \in Nat /\ p = c * q
    BY <1>1, <1>2, <1>5
  <2> QED
    BY <1>5, <2>1 DEF q, p, c
<1> QED
  BY <1>4, <1>5

LEMMA OnwardByLast ==
  ASSUME NEW adj \in Graphs, NEW s \in Nodes, NEW v \in Nodes, NEW t \in Nodes
  PROVE  ByLast(Nodes, Links(adj, s), Onward(adj, s), v, t)
<1> DEFINE col == Column(Nodes, Links(adj, s), t)
           row == Onward(adj, s)[v]
           one == Unit(Nodes, v)
           p == Through(adj, s)[v]
           c == Count(adj, s, v)
<1>1. \A u \in Nodes : /\ col[u] \in Nat /\ row[u] \in Nat /\ one[u] \in Nat
                       /\ p[u] = c * row[u]
  BY PassedLinks, OnwardIs DEF Column, Matrix, Unit
<1>2. c \in Nat /\ p[v] = c
  BY CountFacts
<1>3. p[t] = c * one[t] + Dot(Nodes, p, col)
  <2>1. CASE t = v
    <3>1. one[t] = 1 /\ Dot(Nodes, p, col) = 0
      BY <2>1, PassedBack DEF Unit
    <3>2. c * 1 + 0 = c
      BY <1>2, Z3
    <3> HIDE DEF p, c, one, col
    <3> QED
      BY <1>2, <2>1, <3>1, <3>2
  <2>2. CASE t # v
    <3>1. one[t] = 0 /\ p[t] = Dot(Nodes, p, col)
      BY <2>2, PassingBefore DEF Unit
    <3>2. c * 0 = 0
      BY <1>2, Z3
    <3>3. p[t] \in Nat
      BY PassedLinks DEF Matrix
    <3> HIDE DEF p, c, one, col
    <3> QED
      BY <3>1, <3>2, <3>3
  <2> QED
    BY <2>1, <2>2
<1>4. Dot(Nodes, p, col) = c * Dot(Nodes, row, col)
  <2>1. \A a, b, e \in Nat : (a * b) * e = a * (b * e)
    BY Z3
  <2> HIDE DEF p, c, row, col
  <2>2. \A u \in Nodes : p[u] * col[u] = c * (row[u] * col[u])
    BY <1>1, <1>2, <2>1
  <2> QED
    BY <1>1, <1>2, <2>2, NodesFinite, DotTimes
<1>5. Dot(Nodes, row, col) \in Nat
  <2> HIDE DEF row, col
  <2> QED
    BY <1>1, NodesFinite, DotType
<1>6. row[t] = one[t] + Dot(Nodes, row, col)
  <2>1. CASE c = 0
    <3>1. Distance(adj, s, v) = -1
      BY <2>1, CountFacts
    <3>2. \A u \in Nodes : row[u] = one[u]
      BY <3>1, OnwardIs
    <3>3. Dot(Nodes, row, col) = Dot(Nodes, one, col)
      <4> HIDE DEF row, one, col
      <4> QED
        BY <3>2, NodesFinite, DotSame
    <3>4. Dot(Nodes, one, col) = col[v]
      <4> HIDE DEF col
      <4> QED
        BY <1>1, NodesFinite, DotUnit
    <3>5. col[v] = 0
      <4>1. col[v] = Cardinality(Between(adj, s, v, t))
        BY PassedLinks DEF Column
      <4> QED
        BY <3>1, <4>1, BetweenFinite
    <3> HIDE DEF row, one, col
    <3> QED
      BY <1>1, <3>2, <3>3, <3>4, <3>5
  <2>2. CASE c # 0
    <3> DEFINE x == Dot(Nodes, row, col)
    <3>1. c * row[t] = c * one[t] + c * x
      <4> HIDE DEF p, c, row, col, one
      <4> QED
        BY <1>1, <1>3, <1>4
    <3>2. c * one[t] + c * x = c * (one[t] + x)
      <4>1. \A a, b, e \in Nat : a * b + a * e = a * (b + e)
        BY Z3
      <4> HIDE DEF p, c, row, col, one
      <4> QED
        BY <1>1, <1>2, <1>5, <4>1
    <3>3. ASSUME NEW a \in Nat, NEW b \in Nat, NEW e \in Nat, a # 0, a * b = a * e
          PROVE  b = e
      BY <3>3, Z3
    <3> HIDE DEF p, c, row, col, one
    <3>4. row[t] \in Nat /\ one[t] + x \in Nat
      BY <1>1, <1>5
    <3>5. c * row[t] = c * (one[t] + x)
      BY <3>1, <3>2
    <3> HIDE DEF x
    <3>6. row[t] = one[t] + x
      BY <1>2, <2>2, <3>3, <3>4, <3>5
    <3> QED
      BY <3>6 DEF x
  <2> QED
    BY <2>1, <2>2
<1> QED
  BY <1>6 DEF ByLast

(* So the ways onward can be counted by their first steps as well.         *)
LEMMA OnwardByFirst ==
  ASSUME NEW adj \in Graphs, NEW s \in Nodes
  PROVE  \A v, t \in Nodes : ByFirst(Nodes, Links(adj, s), Onward(adj, s), v, t)
<1> DEFINE m == Links(adj, s)
           q == Onward(adj, s)
           r == [t \in Nodes |-> Distance(adj, s, t)]
<1>1. Matrix(Nodes, m) /\ Matrix(Nodes, q)
  BY PassedLinks, OnwardIs DEF Matrix
<1>2. \A v, t \in Nodes : ByLast(Nodes, m, q, v, t)
  BY OnwardByLast
<1>3. \A t \in Nodes : r[t] \in Int
  BY DistanceType, PathsAssumption
<1>4. ASSUME NEW u \in Nodes, NEW t \in Nodes, m[u][t] # 0
      PROVE  r[u] >= 0 /\ r[t] = r[u] + 1
  <2>1. Cardinality(Between(adj, s, u, t)) # 0
    BY <1>4, PassedLinks
  <2>2. Distance(adj, s, u) \in Nat /\ Distance(adj, s, t) = Distance(adj, s, u) + 1
    BY <2>1, BetweenFinite
  <2> QED
    BY <2>2
<1> HIDE DEF m, q, r
<1>5. \A v, t \in Nodes : ByFirst(Nodes, m, q, v, t)
  BY <1>1, <1>2, <1>3, <1>4, NodesFinite, FirstStep
<1> QED
  BY <1>5 DEF m, q

(***************************************************************************)
(* Brandes' equation                                                       *)
(***************************************************************************)
(* The weight of one shortest path to t; the sum of the weights of all the *)
(* paths that go on from v, for each way to come to v; and what v hands on *)
(* to its successors.                                                      *)
Weight(adj, s) ==
    [t \in Nodes |-> IF Distance(adj, s, t) = -1 THEN 0
                     ELSE Scale \div Count(adj, s, t)]

Worth(adj, s) == [v \in Nodes |-> Dot(Nodes, Onward(adj, s)[v], Weight(adj, s))]

Onto(adj, s, v) ==
    Count(adj, s, v) * Dot(Nodes, Links(adj, s)[v], Worth(adj, s))

LEMMA WeightIs ==
  ASSUME NEW adj \in Graphs, NEW s \in Nodes, Exact(adj, s), NEW t \in Nodes
  PROVE  /\ Weight(adj, s)[t] \in Nat
         /\ Distance(adj, s, t) # -1 =>
               /\ Count(adj, s, t) \in Nat \ {0}
               /\ Scale = Count(adj, s, t) * Weight(adj, s)[t]
         /\ Distance(adj, s, t) = -1 => Weight(adj, s)[t] = 0
<1>1. Scale \in Nat
  BY PathsAssumption
<1>2. Weight(adj, s)[t] = IF Distance(adj, s, t) = -1 THEN 0
                          ELSE Scale \div Count(adj, s, t)
  BY DEF Weight
<1>3. CASE Distance(adj, s, t) = -1
  BY <1>2, <1>3
<1>4. CASE Distance(adj, s, t) # -1
  <2>1. Count(adj, s, t) \in Nat \ {0}
    BY <1>4, CountFacts
  <2>2. ShortestPaths(adj, s, t) # {}
    BY <2>1, FS_EmptySet DEF Count
  <2>3. Scale % Count(adj, s, t) = 0
    BY <2>2 DEF Exact, Count
  <2>4. Scale \div Count(adj, s, t) \in Nat
        /\ Scale = Count(adj, s, t) * (Scale \div Count(adj, s, t))
    BY <1>1, <2>1, <2>3, DivFacts, DivExact
  <2> QED
    BY <1>2, <1>4, <2>1, <2>4
<1> QED
  BY <1>3, <1>4

LEMMA WorthIs ==
  ASSUME NEW adj \in Graphs, NEW s \in Nodes, Exact(adj, s), NEW v \in Nodes
  PROVE  /\ Worth(adj, s)[v] \in Nat
         /\ Worth(adj, s)[v] = Weight(adj, s)[v]
                                 + Dot(Nodes, Links(adj, s)[v], Worth(adj, s))
         /\ Dot(Nodes, Links(adj, s)[v], Worth(adj, s)) \in Nat
<1> DEFINE m == Links(adj, s)
           q == Onward(adj, s)
           k == Weight(adj, s)
           g == Worth(adj, s)
<1>1. Matrix(Nodes, m) /\ Matrix(Nodes, q)
  BY PassedLinks, OnwardIs DEF Matrix
<1>2. Vector(Nodes, k)
  BY WeightIs DEF Vector
<1>3. TimesColumn(Nodes, q, k, g)
  BY DEF TimesColumn, Worth
<1>4. \A x, y \in Nodes : ByFirst(Nodes, m, q, x, y)
  BY OnwardByFirst
<1> HIDE DEF m, q, k, g
<1>5. g[v] = k[v] + Dot(Nodes, m[v], g)
  BY <1>1, <1>2, <1>3, <1>4, NodesFinite, Collected
<1>6. \A x \in Nodes : g[x] \in Nat
  <2> SUFFICES ASSUME NEW x \in Nodes PROVE g[x] \in Nat
    OBVIOUS
  <2>1. g[x] = Dot(Nodes, q[x], k)
    BY <1>3 DEF TimesColumn
  <2> DEFINE row == q[x]
  <2>2. \A y \in Nodes : row[y] \in Nat /\ k[y] \in Nat
    BY <1>1, <1>2 DEF Matrix, Vector
  <2> HIDE DEF row
  <2>3. Dot(Nodes, row, k) \in Nat
    BY <2>2, NodesFinite, DotType
  <2> QED
    BY <2>1, <2>3 DEF row
<1>7. Dot(Nodes, m[v], g) \in Nat
  <2> DEFINE row == m[v]
  <2>1. \A y \in Nodes : row[y] \in Nat /\ g[y] \in Nat
    BY <1>1, <1>6 DEF Matrix
  <2> HIDE DEF row
  <2>2. Dot(Nodes, row, g) \in Nat
    BY <2>1, NodesFinite, DotType
  <2> QED
    BY <2>2 DEF row
<1> QED
  BY <1>5, <1>6, <1>7 DEF m, k, g

(* Each node within reach hands on to its predecessors what it has itself  *)
(* been handed, and one more for the paths that end in it.                 *)
LEMMA WorthOnto ==
  ASSUME NEW adj \in Graphs, NEW s \in Nodes, Exact(adj, s), NEW v \in Nodes
  PROVE  /\ Onto(adj, s, v) \in Nat
         /\ Distance(adj, s, v) # -1 =>
               Count(adj, s, v) * Worth(adj, s)[v] = Scale + Onto(adj, s, v)
         /\ Distance(adj, s, v) = -1 => Onto(adj, s, v) = 0
<1> DEFINE c == Count(adj, s, v)
           x == Dot(Nodes, Links(adj, s)[v], Worth(adj, s))
           k == Weight(adj, s)[v]
           g == Worth(adj, s)[v]
           o == Onto(adj, s, v)
<1>1. x \in Nat /\ k \in Nat /\ g = k + x /\ c \in Nat
  BY WorthIs, WeightIs, CountFacts
<1>2. o = c * x
  BY DEF Onto
<1>3. Distance(adj, s, v) # -1 => Scale = c * k
  BY WeightIs
<1>4. Distance(adj, s, v) = -1 => c = 0
  BY CountFacts
<1> HIDE DEF c, x, k, g, o
<1>5. c * (k + x) = c * k + c * x /\ c * x \in Nat /\ 0 * x = 0
  BY <1>1, Z3
<1>6. Distance(adj, s, v) # -1 => c * g = Scale + o
  BY <1>1, <1>2, <1>3, <1>5
<1>7. o \in Nat /\ (Distance(adj, s, v) = -1 => o = 0)
  BY <1>2, <1>4, <1>5
<1> QED
  BY <1>6, <1>7 DEF c, g, o

(* What is handed on is the sum of the shares, which do not depend on the  *)
(* node that they are counted at.                                          *)
LEMMA ShareIs ==
  ASSUME NEW adj \in Graphs, NEW s \in Nodes, Exact(adj, s), NEW v \in Nodes, NEW t \in Nodes
  PROVE  Share(adj, s, v, t) = Through(adj, s)[v][t] * Weight(adj, s)[t]
<1> DEFINE p == Through(adj, s)[v][t]
           c == Count(adj, s, t)
           k == Weight(adj, s)[t]
<1>1. p = Cardinality({w \in ShortestPaths(adj, s, t) : \E i \in DOMAIN w : w[i].node = v})
  <2>1. p = Cardinality(Passing(adj, s, v, t))
    BY PassedLinks
  <2> HIDE DEF p
  <2> QED
    BY <2>1 DEF Passing, Passes
<1>2. Share(adj, s, v, t) = IF ShortestPaths(adj, s, t) = {} THEN 0
                            ELSE (Scale * p) \div c
  BY <1>1 DEF Share, Count
<1>3. p \in Nat /\ k \in Nat
  BY PassedLinks, WeightIs DEF Matrix
<1>4. CASE Distance(adj, s, t) = -1
  <2>1. ShortestPaths(adj, s, t) = {} /\ k = 0
    BY <1>4, ShortestFinite, WeightIs
  <2>2. p * 0 = 0
    BY <1>3, Z3
  <2> HIDE DEF p, c, k
  <2> QED
    BY <1>2, <2>1, <2>2 DEF p, k
<1>5. CASE Distance(adj, s, t) # -1
  <2>1. c \in Nat \ {0} /\ Scale = c * k
    BY <1>5, WeightIs
  <2>2. ShortestPaths(adj, s, t) # {}
    BY <2>1, FS_EmptySet DEF Count
  <2> HIDE DEF p, c, k
  <2>3. Scale * p = c * (p * k) /\ p * k \in Nat
    BY <1>3, <2>1, Z3
  <2>4. (c * (p * k)) \div c = p * k
    BY <2>1, <2>3, DivExact
  <2> QED
    BY <1>2, <2>2, <2>3, <2>4 DEF p, k
<1> QED
  BY <1>4, <1>5

LEMMA DependencyIs ==
  ASSUME NEW adj \in Graphs, NEW s \in Nodes, Exact(adj, s), NEW v \in Nodes, v # s
  PROVE  Dependency(adj, s, v) = Onto(adj, s, v)
<1> DEFINE f == [t \in Nodes |-> Through(adj, s)[v][t] * Weight(adj, s)[t]]
           h == [t \in Nodes \ {s, v} |-> Share(adj, s, v, t)]
           sum(S) == SumFunctionOnSet(f, S)
           c == Count(adj, s, v)
           k == Weight(adj, s)[v]
           x == Dot(Nodes, Links(adj, s)[v], Worth(adj, s))
<1>1. \A t \in Nodes : f[t] = Share(adj, s, v, t) /\ f[t] \in Nat
  BY ShareIs, ShareType
<1>2. Dependency(adj, s, v) = sum(Nodes \ {s, v})
  <2>1. IsFiniteSet(Nodes \ {s, v})
    BY NodesFinite, FS_Subset
  <2>2. h = [t \in Nodes \ {s, v} |-> h[t]]
        /\ \A t \in Nodes \ {s, v} : h[t] = f[t]
    BY <1>1
  <2>3. Dependency(adj, s, v) = SumFunction(h)
    BY DEF Dependency
  <2> HIDE DEF f, h
  <2> QED
    BY <2>1, <2>2, <2>3, SumOfFunction
<1>3. /\ sum(Nodes) = f[v] + sum(Nodes \ {v})
      /\ sum(Nodes \ {v}) = f[s] + sum((Nodes \ {v}) \ {s})
      /\ sum((Nodes \ {v}) \ {s}) \in Int
  <2>1. IsFiniteSet(Nodes) /\ IsFiniteSet(Nodes \ {v})
    BY NodesFinite, FS_Subset
  <2>2. /\ v \in Nodes /\ s \in Nodes \ {v}
        /\ \A t \in Nodes : f[t] \in Int
        /\ \A t \in Nodes \ {v} : f[t] \in Int
    BY <1>1
  <2> HIDE DEF f
  <2> QED
    BY <2>1, <2>2, SumStep
<1>4. (Nodes \ {v}) \ {s} = Nodes \ {s, v}
  OBVIOUS
<1>5. f[s] = 0 /\ f[v] = c * k /\ k \in Nat /\ c \in Nat
  <2>1. Distance(adj, s, s) = 0 /\ Distance(adj, s, v) \in Int
    BY DistanceStart, DistanceType, PathsAssumption
  <2>2. Through(adj, s)[v][s] = 0
    <3>1. ~(Distance(adj, s, v) < Distance(adj, s, s)) \/ Distance(adj, s, v) = -1
      <4>1. Distance(adj, s, v) = -1 \/ Distance(adj, s, v) \in Nat
        BY DistanceReached
      <4> QED
        BY <2>1, <4>1
    <3> QED
      BY <3>1, PassedFarther
  <2>3. Through(adj, s)[v][v] = c /\ c \in Nat
    BY CountFacts
  <2>4. \A t \in Nodes : Weight(adj, s)[t] \in Nat
    BY WeightIs
  <2>5. \A a \in Nat : 0 * a = 0
    BY Z3
  <2> QED
    BY <2>2, <2>3, <2>4, <2>5
<1>6. sum(Nodes) = c * Dot(Nodes, Onward(adj, s)[v], Weight(adj, s))
  <2> DEFINE p == Through(adj, s)[v]
             row == Onward(adj, s)[v]
             w == Weight(adj, s)
  <2>1. \A t \in Nodes : /\ row[t] \in Nat /\ w[t] \in Nat /\ p[t] = c * row[t]
    BY OnwardIs, WeightIs
  <2>2. \A a, b, e \in Nat : (a * b) * e = a * (b * e)
    BY Z3
  <2>3. sum(Nodes) = Dot(Nodes, p, w)
    BY DEF Dot
  <2> HIDE DEF p, row, w, f, c
  <2>4. \A t \in Nodes : p[t] * w[t] = c * (row[t] * w[t])
    BY <1>5, <2>1, <2>2
  <2>5. Dot(Nodes, p, w) = c * Dot(Nodes, row, w)
    BY <1>5, <2>1, <2>4, NodesFinite, DotTimes
  <2> QED
    BY <2>3, <2>5 DEF row, w
<1>7. Dot(Nodes, Onward(adj, s)[v], Weight(adj, s)) = k + x /\ x \in Nat
  <2>1. Worth(adj, s)[v] = Dot(Nodes, Onward(adj, s)[v], Weight(adj, s))
    BY DEF Worth
  <2> QED
    BY <2>1, WorthIs
<1>8. Onto(adj, s, v) = c * x
  BY DEF Onto
<1> HIDE DEF f, c, k, x
<1>9. c * (k + x) = c * k + c * x /\ c * k \in Nat /\ c * x \in Nat
  BY <1>5, <1>7, Z3
<1>10. sum(Nodes) = c * k + c * x
  BY <1>6, <1>7, <1>9
<1>11. sum(Nodes) = c * k + sum(Nodes \ {s, v}) /\ sum(Nodes \ {s, v}) \in Int
  <2> HIDE DEF sum
  <2>1. sum(Nodes) = f[v] + (f[s] + sum(Nodes \ {s, v}))
        /\ sum(Nodes \ {s, v}) \in Int
    BY <1>3, <1>4
  <2> QED
    BY <1>5, <2>1
<1> HIDE DEF sum
<1>12. sum(Nodes \ {s, v}) = c * x
  <2>1. \A a, b, e \in Int : a + b = a + e => b = e
    OBVIOUS
  <2> QED
    BY <1>9, <1>10, <1>11, <2>1
<1> QED
  BY <1>2, <1>8, <1>12

(***************************************************************************)
(* heuristic.Heuristic                                                     *)
(***************************************************************************)
(* Update makes the range cover the value, and no smaller.                 *)
LEMMA UpdateCovers ==
  ASSUME NEW h \in Heuristics, NEW w \in Int
  PROVE  /\ Update(h, w) \in Heuristics
         /\ h.weight # 0 => Seen(Update(h, w), w)
         /\ \A v \in Int : Seen(h, v) => Seen(Update(h, w), v)
<1> DEFINE high == IF w > h.highest THEN w ELSE h.highest
           low == IF w < h.lowest THEN w ELSE h.lowest
<1>1. /\ h.highest \in Int /\ h.lowest \in Int /\ high \in Int /\ low \in Int
      /\ low <= w /\ w <= high
      /\ low <= h.lowest /\ h.highest <= high
  BY DEF Heuristics
<1>2. CASE h.weight = 0
  BY <1>2 DEF Update
<1>3. CASE h.weight # 0
  <2>1. Update(h, w) = [h EXCEPT !.highest = high, !.lowest = low]
    BY <1>3, Zenon DEF Update
  <2> HIDE DEF high, low
  <2>2. ASSUME NEW u, u = [h EXCEPT !.highest = high, !.lowest = low]
        PROVE  u \in Heuristics /\ u.highest = high /\ u.lowest = low
    BY <1>1, <2>2 DEF Heuristics
  <2>3. /\ Update(h, w) \in Heuristics
        /\ Update(h, w).highest = high /\ Update(h, w).lowest = low
    BY <2>1, <2>2, Zenon
  <2> QED
    BY <1>1, <2>3 DEF Seen
<1> QED
  BY <1>2, <1>3

(* The portion of a value in the range is a part of the weight.            *)
LEMMA PortionBounds ==
  ASSUME NEW h \in Heuristics, NEW v \in Int, Seen(h, v), h.highest # h.lowest
  PROVE  Portion(h, v) \in 0 .. h.weight
<1> DEFINE a == (v - h.lowest) * h.weight
           b == h.highest - h.lowest
           q == a \div b
<1>1. /\ v - h.lowest \in Nat /\ b \in Nat \ {0} /\ v - h.lowest <= b
      /\ h.weight \in Nat
  BY HeuristicAssumption DEF Seen, Heuristics
<1>2. a \in Nat /\ a <= b * h.weight /\ b * h.weight = h.weight * b
  BY <1>1, TimesMonotonic, Z3
<1>3. q \in Nat /\ b * q <= a
  BY <1>1, <1>2, DivFacts
<1>4. q <= h.weight
  <2> SUFFICES ASSUME q > h.weight PROVE FALSE
    BY <1>1, <1>3
  <2> HIDE DEF q, a, b
  <2>1. h.weight + 1 <= q /\ h.weight + 1 \in Nat
    BY <1>1, <1>3
  <2>2. b * (h.weight + 1) <= b * q
    BY <2>1, <1>1, <1>3, TimesMonotonic
  <2>3. b * (h.weight + 1) = b * h.weight + b
    BY <1>1, Z3
  <2>4. b * q \in Nat /\ b * h.weight \in Nat
    BY <1>1, <1>3, Z3
  <2> QED
    BY <2>2, <2>3, <2>4, <1>1, <1>2, <1>3
<1> QED
  BY <1>1, <1>3, <1>4 DEF Portion

(* A higher value has at least the portion of a lower one.                 *)
LEMMA PortionMonotonic ==
  ASSUME NEW h \in Heuristics, NEW v \in Int, NEW w \in Int,
         Seen(h, v), Seen(h, w), h.highest # h.lowest, v <= w
  PROVE  Portion(h, v) <= Portion(h, w)
<1> DEFINE a == (v - h.lowest) * h.weight
           c == (w - h.lowest) * h.weight
           b == h.highest - h.lowest
<1>1. /\ v - h.lowest \in Nat /\ w - h.lowest \in Nat
      /\ v - h.lowest <= w - h.lowest
      /\ b \in Nat \ {0} /\ h.weight \in Nat
  BY HeuristicAssumption DEF Seen, Heuristics
<1>2. a \in Nat /\ c \in Nat /\ a <= c
  BY <1>1, TimesMonotonic
<1>3. a \div b <= c \div b
  <2> HIDE DEF a, b, c
  <2> QED
    BY <1>1, <1>2, DivMonotonic
<1> QED
  BY <1>3 DEF Portion

(* The score of a value that has been seen is between zero and the weight, *)
(* whatever the range (Heuristic.GetScore).                                *)
THEOREM ScoreBounds ==
  ASSUME NEW h \in Heuristics, NEW v \in Int, Seen(h, v)
  PROVE  GetScore(h, v) \in 0 .. h.weight
<1>1. h.weight \in Nat
  BY HeuristicAssumption DEF Heuristics
<1>2. CASE h.weight = 0 \/ v = 0 \/ h.highest = h.lowest
  BY <1>1, <1>2 DEF GetScore
<1>3. CASE ~(h.weight = 0 \/ v = 0 \/ h.highest = h.lowest)
  <2>1. Portion(h, v) \in 0 .. h.weight
    BY <1>3, PortionBounds
  <2>2. h.weight - Portion(h, v) \in 0 .. h.weight
    BY <2>1, <1>1
  <2> QED
    BY <1>3, <2>1, <2>2 DEF GetScore
<1> QED
  BY <1>2, <1>3

(* A value that is at least as good never scores lower, as long as no      *)
(* value is negative: the special case of zero, which is tested before the *)
(* range, is the end of the range then (Heuristic.GetScore).               *)
THEOREM ScoreOrder ==
  ASSUME NEW h \in Heuristics, NEW a \in Nat, NEW b \in Nat,
         Seen(h, a), Seen(h, b), AsGood(h, a, b)
  PROVE  GetScore(h, a) >= GetScore(h, b)
<1>1. /\ h.weight \in Nat
      /\ GetScore(h, a) \in 0 .. h.weight /\ GetScore(h, b) \in 0 .. h.weight
  BY ScoreBounds, HeuristicAssumption DEF Heuristics
<1>2. CASE h.weight = 0 \/ h.highest = h.lowest
  BY <1>1, <1>2 DEF GetScore, AsGood, Seen, Heuristics
<1>3. CASE a = 0
  BY <1>1, <1>3 DEF GetScore, AsGood
<1>4. CASE b = 0
  BY <1>1, <1>4 DEF GetScore, AsGood
<1>5. CASE ~(h.weight = 0 \/ h.highest = h.lowest) /\ a # 0 /\ b # 0
  <2>1. Portion(h, a) \in Int /\ Portion(h, b) \in Int
    BY <1>5, PortionBounds
  <2>2. CASE h.lowerIsBetter
    <3>1. Portion(h, a) <= Portion(h, b)
      BY <1>5, <2>2, PortionMonotonic DEF AsGood
    <3>2. /\ GetScore(h, a) = h.weight - Portion(h, a)
          /\ GetScore(h, b) = h.weight - Portion(h, b)
      BY <1>5, <2>2 DEF GetScore
    <3> QED
      BY <1>1, <2>1, <3>1, <3>2
  <2>3. CASE ~h.lowerIsBetter
    <3>1. Portion(h, b) <= Portion(h, a)
      BY <1>5, <2>3, PortionMonotonic DEF AsGood
    <3>2. GetScore(h, a) = Portion(h, a) /\ GetScore(h, b) = Portion(h, b)
      BY <1>5, <2>3 DEF GetScore
    <3> QED
      BY <2>1, <3>1, <3>2
  <2> QED
    BY <2>2, <2>3
<1> QED
  BY <1>2, <1>3, <1>4, <1>5

(***************************************************************************)
(* getChannels                                                             *)
(***************************************************************************)
(* Update leaves the weight alone and its range grows.                     *)
LEMMA UpdateGrows ==
  ASSUME NEW h \in Heuristics, NEW w \in Int
  PROVE  /\ Update(h, w).weight = h.weight
         /\ \A v \in Int : h.weight = 0 \/ Seen(h, v)
                            => Update(h, w).weight = 0 \/ Seen(Update(h, w), v)
<1>1. Update(h, w).weight = h.weight
  BY DEF Update, Heuristics
<1> QED
  BY <1>1, UpdateCovers

(* Rounding to thousandths keeps the order.                                *)
LEMMA RoundedMonotonic ==
  ASSUME NEW a \in Nat, NEW b \in Nat, a <= b
  PROVE  Rounded(a) \in Nat /\ Rounded(b) \in Nat /\ Rounded(a) <= Rounded(b)
<1> DEFINE p == (2 * a + Grain) \div (2 * Grain)
           q == (2 * b + Grain) \div (2 * Grain)
<1>1. /\ Grain \in Nat \ {0} /\ 2 * Grain \in Nat \ {0}
      /\ 2 * a + Grain \in Nat /\ 2 * b + Grain \in Nat
      /\ 2 * a + Grain <= 2 * b + Grain
  BY HeuristicAssumption
<1>2. p \in Nat /\ q \in Nat /\ p <= q
  BY <1>1, DivFacts, DivMonotonic
<1>3. Grain * p \in Nat /\ Grain * q \in Nat /\ Grain * p <= Grain * q
  <2> HIDE DEF p, q
  <2> QED
    BY <1>1, <1>2, TimesMonotonic, Z3
<1> QED
  BY <1>3 DEF Rounded

(***************************************************************************)
(* Updating with several values                                            *)
(***************************************************************************)
(* g is h updated with one field of the records of each subset of S.       *)
Updates(g, h, records, name, S) ==
    g = [s \in SUBSET S |->
           IF s = {} THEN h
           ELSE Update(g[s \ {Taken(s)}], records[Taken(s)][name])]

(* The recursion that a fold of updates is defined by has a solution.      *)
LEMMA UpdatesExist ==
  ASSUME NEW S, IsFiniteSet(S), NEW h, NEW records, NEW name
  PROVE  \E g : Updates(g, h, records, name, S)
<1> DEFINE D(n) == {s \in SUBSET S : Cardinality(s) <= n}
           Next(g, s) == IF s = {} THEN h
                         ELSE Update(g[s \ {Taken(s)}], records[Taken(s)][name])
           E(g, n) == g = [s \in D(n) |-> Next(g, s)]
           B == {n \in Nat : \E g : E(g, n)}
<1>0. \A s \in SUBSET S : Cardinality(s) \in Nat
  BY TakenFacts
<1>empty. \A s \in SUBSET S : Cardinality(s) = 0 <=> s = {}
  BY TakenFacts
<1>rest. \A s \in SUBSET S :
            s # {} => Cardinality(s \ {Taken(s)}) = Cardinality(s) - 1
  BY TakenFacts
<1>1. 0 \in B
  <2> DEFINE g == [s \in D(0) |-> h]
  <2>1. \A s \in D(0) : s = {}
    BY <1>0, <1>empty
  <2>2. E(g, 0)
    BY <2>1
  <2> QED
    BY <2>2
<1>2. ASSUME NEW n \in B PROVE n + 1 \in B
  <2>0. n \in Nat
    OBVIOUS
  <2>1. PICK g : E(g, n)
    OBVIOUS
  <2> HIDE DEF B
  <2> DEFINE f == [s \in D(n + 1) |-> Next(g, s)]
  <2>2. ASSUME NEW s \in D(n + 1), s # {} PROVE s \ {Taken(s)} \in D(n)
    <3>1. Cardinality(s \ {Taken(s)}) = Cardinality(s) - 1 /\ Cardinality(s) \in Nat
      BY <1>0, <1>rest, <2>2
    <3> QED
      BY <2>0, <2>2, <3>1
  <2>3. ASSUME NEW s \in D(n) PROVE f[s] = g[s]
    <3>1. s \in D(n + 1)
      BY <1>0, <2>0
    <3>2. f[s] = Next(g, s)
      <4> HIDE DEF Next, D
      <4> QED
        BY <3>1
    <3>3. g[s] = Next(g, s)
      <4> HIDE DEF Next, D
      <4> QED
        BY <2>1
    <3> QED
      BY <3>2, <3>3
  <2>4. E(f, n + 1)
    <3>1. ASSUME NEW s \in D(n + 1) PROVE Next(g, s) = Next(f, s)
      BY <2>2, <2>3
    <3> HIDE DEF D, Next
    <3>2. f = [s \in D(n + 1) |-> Next(f, s)]
      BY <3>1
    <3> QED
      BY <3>2
  <2> HIDE DEF E
  <2> QED
    BY <2>0, <2>4 DEF B
<1>3. B = Nat
  <2> HIDE DEF B
  <2>1. B \subseteq Nat
    BY DEF B
  <2> QED
    BY <1>1, <1>2, <2>1, NaturalInduction
<1>4. Cardinality(S) \in Nat
  BY FS_CardinalityType
<1>5. PICK g : E(g, Cardinality(S))
  BY <1>3, <1>4
<1>6. D(Cardinality(S)) = SUBSET S
  BY FS_Subset
<1> QED
  BY <1>5, <1>6 DEF Updates

(* The range covers all of the values, and those it did before.            *)
LEMMA UpdatesCover ==
  ASSUME NEW S, IsFiniteSet(S), NEW h \in Heuristics, NEW records, NEW name,
         \A x \in S : records[x][name] \in Int,
         NEW g, Updates(g, h, records, name, S)
  PROVE  /\ g[S] \in Heuristics /\ g[S].weight = h.weight
         /\ \A v \in Int : h.weight = 0 \/ Seen(h, v)
                              => g[S].weight = 0 \/ Seen(g[S], v)
         /\ \A x \in S : g[S].weight = 0 \/ Seen(g[S], records[x][name])
<1> DEFINE of(x) == records[x][name]
           Good(u, s) == /\ u \in Heuristics /\ u.weight = h.weight
                         /\ \A v \in Int : h.weight = 0 \/ Seen(h, v)
                                             => u.weight = 0 \/ Seen(u, v)
                         /\ \A x \in s : u.weight = 0 \/ Seen(u, of(x))
           B == {n \in Nat : \A s \in SUBSET S : Cardinality(s) = n => Good(g[s], s)}
<1>0. \A s \in SUBSET S :
         /\ Cardinality(s) \in Nat
         /\ Cardinality(s) = 0 <=> s = {}
         /\ s # {} => /\ Taken(s) \in s
                      /\ Cardinality(s \ {Taken(s)}) = Cardinality(s) - 1
  BY TakenFacts
<1>1. \A s \in SUBSET S :
         g[s] = IF s = {} THEN h ELSE Update(g[s \ {Taken(s)}], of(Taken(s)))
  BY DEF Updates
<1>2. 0 \in B
  <2>1. Good(h, {})
    OBVIOUS
  <2> HIDE DEF Good
  <2> QED
    BY <1>0, <1>1, <2>1
<1>3. ASSUME NEW n \in B PROVE n + 1 \in B
  <2>0. n \in Nat
    OBVIOUS
  <2> SUFFICES ASSUME NEW s \in SUBSET S, Cardinality(s) = n + 1
               PROVE  Good(g[s], s)
    <3> HIDE DEF Good
    <3> QED
      BY <2>0
  <2> DEFINE c == Taken(s)
             t == s \ {c}
             u == g[t]
  <2>1. s # {} /\ c \in s /\ t \in SUBSET S /\ Cardinality(t) = n
    BY <1>0, <2>0
  <2>2. Good(u, t)
    <3> HIDE DEF Good
    <3> QED
      BY <2>1
  <2>3. g[s] = Update(u, of(c))
    BY <1>1, <2>1
  <2>4. of(c) \in Int /\ \A x \in t : of(x) \in Int
    BY <2>1
  <2> HIDE DEF u, of
  <2>5. /\ Update(u, of(c)) \in Heuristics
        /\ Update(u, of(c)).weight = u.weight
        /\ u.weight # 0 => Seen(Update(u, of(c)), of(c))
        /\ \A v \in Int : u.weight = 0 \/ Seen(u, v)
              => Update(u, of(c)).weight = 0 \/ Seen(Update(u, of(c)), v)
    BY <2>2, <2>4, UpdateCovers, UpdateGrows
  <2>6. ASSUME NEW x \in s
        PROVE  Update(u, of(c)).weight = 0 \/ Seen(Update(u, of(c)), of(x))
    <3>1. CASE x = c
      BY <2>5, <3>1
    <3>2. CASE x # c
      <4>1. x \in t /\ of(x) \in Int
        BY <2>4, <3>2
      <4>2. u.weight = 0 \/ Seen(u, of(x))
        BY <2>2, <4>1
      <4> QED
        BY <2>5, <4>1, <4>2
    <3> QED
      BY <3>1, <3>2
  <2>7. Good(Update(u, of(c)), s)
    BY <2>2, <2>5, <2>6
  <2> QED
    BY <2>3, <2>7
<1>4. B = Nat
  <2> HIDE DEF B
  <2>1. B \subseteq Nat
    BY DEF B
  <2> QED
    BY <1>2, <1>3, <2>1, NaturalInduction
<1>5. Cardinality(S) \in Nat
  BY FS_CardinalityType
<1>6. Good(g[S], S)
  <2> HIDE DEF Good
  <2> QED
    BY <1>4, <1>5
<1> QED
  BY <1>6
=============================================================================
