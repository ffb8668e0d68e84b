----------------------------- MODULE Arithmetic -----------------------------
(***************************************************************************)
(* Facts about numbers, finite sets and sums that the provers need spelled *)
(* out.  Induction is stated for sets, which the provers can instantiate:  *)
(* a set of numbers, or of subsets, that is closed under a step.           *)
(***************************************************************************)
EXTENDS Integers, FiniteSets, Functions,
        FiniteSetTheorems, WellFoundedInduction, TLAPS

(* A quotient is the greatest number of divisors that fit.                 *)
LEMMA DivFacts ==
  ASSUME NEW a \in Nat, NEW b \in Nat \ {0}
  PROVE  /\ a \div b \in Nat
         /\ b * (a \div b) <= a
         /\ a < b * ((a \div b) + 1)
  BY Z3

(* Multiplication by a natural number is monotonic.                        *)
LEMMA TimesMonotonic ==
  ASSUME NEW a \in Nat, NEW b \in Nat, NEW k \in Nat, a <= b
  PROVE  /\ a * k \in Nat /\ b * k \in Nat
         /\ a * k <= b * k
         /\ k * a <= k * b
  <1>1. PICK d \in Nat : b = a + d
    <2>1. b - a \in Nat /\ b = a + (b - a)
      OBVIOUS
    <2> QED
      BY <2>1
  <1>2. b * k = a * k + d * k /\ a * k \in Nat /\ d * k \in Nat
    BY <1>1, Z3
  <1>3. k * a = a * k /\ k * b = b * k
    BY Z3
  <1> QED
    BY <1>2, <1>3

(* A quotient grows with its dividend.                                     *)
LEMMA DivMonotonic ==
  ASSUME NEW a \in Nat, NEW c \in Nat, NEW b \in Nat \ {0}, a <= c
  PROVE  a \div b <= c \div b
  <1> DEFINE p == a \div b
             q == c \div b
  <1>1. p \in Nat /\ b * p <= a /\ q \in Nat /\ c < b * (q + 1)
    BY DivFacts
  <1> SUFFICES ASSUME p > q PROVE FALSE
    BY <1>1
  <1> HIDE DEF p, q
  <1>2. q + 1 <= p /\ q + 1 \in Nat
    BY <1>1
  <1>3. b * (q + 1) <= b * p
    BY <1>1, <1>2, TimesMonotonic
  <1>4. b * p \in Nat /\ b * (q + 1) \in Nat
    BY <1>1, <1>2, Z3
  <1> QED
    BY <1>1, <1>3, <1>4

(* A remainder is smaller than the divisor and at most the dividend.       *)
LEMMA RemainderFacts ==
  ASSUME NEW a \in Nat, NEW b \in Nat \ {0}
  PROVE  /\ a % b \in 0 .. (b - 1)
         /\ a % b <= a
  BY Z3

(* A division without remainder, and the division of a product.            *)
LEMMA DivExact ==
  ASSUME NEW a \in Nat, NEW b \in Nat \ {0}
  PROVE  /\ a % b = 0 => a = b * (a \div b)
         /\ (b * a) \div b = a
  <1>1. a % b = 0 => a = b * (a \div b)
    BY Z3
  <1> DEFINE q == (b * a) \div b
  <1>2. b * a \in Nat
    BY Z3
  <1>3. q \in Nat /\ b * q <= b * a /\ b * a < b * (q + 1)
    BY <1>2, DivFacts
  <1> HIDE DEF q
  <1>4. ~(a < q)
    <2> SUFFICES ASSUME a + 1 <= q PROVE FALSE
      BY <1>3
    <2>1. b * (a + 1) <= b * q
      BY <1>3, TimesMonotonic
    <2>2. b * (a + 1) = b * a + b
      BY Z3
    <2>3. b * q \in Nat
      BY <1>3, Z3
    <2> QED
      BY <1>2, <1>3, <2>1, <2>2, <2>3
  <1>5. ~(q < a)
    <2> SUFFICES ASSUME q + 1 <= a PROVE FALSE
      BY <1>3
    <2>1. b * (q + 1) <= b * a /\ b * (q + 1) \in Nat
      BY <1>3, TimesMonotonic
    <2> QED
      BY <1>2, <1>3, <2>1
  <1>6. q = a
    BY <1>3, <1>4, <1>5
  <1> QED
    BY <1>1, <1>6 DEF q

(* The quotient of a part of a product by twice the whole is at most half  *)
(* of the other factor.                                                    *)
LEMMA HalfShare ==
  ASSUME NEW x \in Nat, NEW part \in Nat, NEW whole \in Nat \ {0},
         NEW q \in Nat, part <= whole, q * (2 * whole) <= x * part
  PROVE  2 * q <= x
  <1> SUFFICES ASSUME 2 * q > x PROVE FALSE
    OBVIOUS
  <1>1. x + 1 <= 2 * q /\ x + 1 \in Nat /\ 2 * q \in Nat
    OBVIOUS
  <1>2. (x + 1) * whole <= (2 * q) * whole
    BY <1>1, TimesMonotonic
  <1>3. x * part <= x * whole
    BY TimesMonotonic
  <1>4. (x + 1) * whole = x * whole + whole
    BY Z3
  <1>5. (2 * q) * whole = q * (2 * whole)
    BY Z3
  <1>6. /\ x * whole \in Nat /\ x * part \in Nat
        /\ q * (2 * whole) \in Nat /\ (x + 1) * whole \in Nat
    BY Z3
  <1> QED
    BY <1>2, <1>3, <1>4, <1>5, <1>6

(***************************************************************************)
(* Induction                                                               *)
(***************************************************************************)
(* Natural numbers have a least one among them.                            *)
LEMMA LeastNatural ==
  ASSUME NEW T \in SUBSET Nat, T # {}
  PROVE  \E n \in T : \A m \in T : n <= m
  <1> DEFINE R == OpToRel(<, Nat)
  <1>1. IsWellFoundedOn(R, Nat)
    BY NatLessThanWellFounded
  <1> HIDE DEF R
  <1>2. PICK n \in T : \A m \in T : ~(<<m, n>> \in R)
    BY <1>1, WFMin
  <1>3. ASSUME NEW m \in T, m < n PROVE <<m, n>> \in R
    BY <1>3 DEF R, OpToRel
  <1>4. ASSUME NEW m \in T PROVE n <= m
    <2>1. m \in Nat /\ n \in Nat
      OBVIOUS
    <2>2. ~(m < n)
      BY <1>2, <1>3
    <2> QED
      BY <2>1, <2>2
  <1> QED
    BY <1>4

(* A set that has zero and every successor is that of all natural numbers. *)
LEMMA NaturalInduction ==
  ASSUME NEW A \in SUBSET Nat, 0 \in A, \A n \in A : n + 1 \in A
  PROVE  A = Nat
  <1> SUFFICES ASSUME Nat \ A # {} PROVE FALSE
    OBVIOUS
  <1>1. PICK n \in Nat \ A : \A m \in Nat \ A : n <= m
    BY LeastNatural
  <1>2. n # 0 /\ n - 1 \in Nat
    BY <1>1
  <1>3. n - 1 \in A
    BY <1>1, <1>2
  <1> QED
    BY <1>1, <1>3

(* A family of subsets that has the empty one and with each member also    *)
(* those with one more element has the whole finite set.                   *)
LEMMA FiniteInduction ==
  ASSUME NEW S, IsFiniteSet(S), NEW A \in SUBSET SUBSET S,
         {} \in A, \A U \in A, x \in S : U \union {x} \in A
  PROVE  S \in A
  <1> DEFINE B == {n \in Nat : \A U \in SUBSET S : Cardinality(U) = n => U \in A}
  <1>1. \A U \in SUBSET S : IsFiniteSet(U) /\ Cardinality(U) \in Nat
    BY FS_Subset, FS_CardinalityType
  <1>2. 0 \in B
    BY <1>1, FS_EmptySet
  <1>3. ASSUME NEW n \in B PROVE n + 1 \in B
    <2> SUFFICES ASSUME NEW U \in SUBSET S, Cardinality(U) = n + 1
                 PROVE  U \in A
      OBVIOUS
    <2>1. U # {}
      BY FS_EmptySet, <1>1
    <2>2. PICK x \in U : TRUE
      BY <2>1
    <2>3. Cardinality(U \ {x}) = n
      BY <1>1, FS_RemoveElement
    <2>4. U \ {x} \in A
      BY <2>3
    <2>5. U = (U \ {x}) \union {x}
      OBVIOUS
    <2>6. x \in S /\ (U \ {x}) \union {x} \in A
      BY <2>4
    <2> QED
      BY <2>5, <2>6
  <1>4. B = Nat
    <2> HIDE DEF B
    <2>1. B \subseteq Nat
      BY DEF B
    <2> QED
      BY <1>2, <1>3, <2>1, NaturalInduction
  <1> QED
    BY <1>1, <1>4

(***************************************************************************)
(* Sums                                                                    *)
(***************************************************************************)
(* The element that a fold takes next.                                     *)
Taken(s) == CHOOSE x \in s : TRUE

(* g is the sum of f over each subset of S.                                *)
Sums(g, f, S) ==
    g = [s \in SUBSET S |->
           IF s = {} THEN 0 ELSE f[Taken(s)] + g[s \ {Taken(s)}]]

LEMMA TakenFacts ==
  ASSUME NEW S, IsFiniteSet(S), NEW s \in SUBSET S
  PROVE  /\ IsFiniteSet(s) /\ Cardinality(s) \in Nat
         /\ Cardinality(s) = 0 <=> s = {}
         /\ s # {} => /\ Taken(s) \in s
                      /\ Cardinality(s \ {Taken(s)}) = Cardinality(s) - 1
  <1>1. IsFiniteSet(s) /\ Cardinality(s) \in Nat
    BY FS_Subset, FS_CardinalityType
  <1>2. Cardinality(s) = 0 <=> s = {}
    BY <1>1, FS_EmptySet
  <1>3. s # {} => Taken(s) \in s
    BY DEF Taken
  <1>4. s # {} => Cardinality(s \ {Taken(s)}) = Cardinality(s) - 1
    BY <1>1, <1>3, FS_RemoveElement
  <1> QED
    BY <1>1, <1>2, <1>3, <1>4

(* The recursion that a sum is defined by has a solution.                  *)
LEMMA SumsExist ==
  ASSUME NEW S, IsFiniteSet(S), NEW f
  PROVE  \E g : Sums(g, f, S)
  <1> DEFINE D(n) == {s \in SUBSET S : Cardinality(s) <= n}
             E(g, n) == g = [s \in D(n) |->
                IF s = {} THEN 0 ELSE f[Taken(s)] + g[s \ {Taken(s)}]]
             B == {n \in Nat : \E g : E(g, n)}
  <1>0. \A s \in SUBSET S : Cardinality(s) \in Nat
    BY TakenFacts
  <1>empty. \A s \in SUBSET S : Cardinality(s) = 0 <=> s = {}
    BY TakenFacts
  <1>rest. \A s \in SUBSET S :
            s # {} => Cardinality(s \ {Taken(s)}) = Cardinality(s) - 1
    BY TakenFacts
  <1>1. 0 \in B
    <2> DEFINE g == [s \in D(0) |-> 0]
    <2>1. \A s \in D(0) : s = {}
      BY <1>0, <1>empty
    <2>2. E(g, 0)
      BY <2>1
    <2> QED
      BY <2>2
  <1>2. ASSUME NEW n \in B PROVE n + 1 \in B
    <2>0. n \in Nat
      OBVIOUS
    <2>1. PICK g : E(g, n)
      OBVIOUS
    <2> HIDE DEF B
    <2> DEFINE h == [s \in D(n + 1) |->
                  IF s = {} THEN 0 ELSE f[Taken(s)] + g[s \ {Taken(s)}]]
    <2>2. ASSUME NEW s \in D(n + 1), s # {} PROVE s \ {Taken(s)} \in D(n)
      <3>1. Cardinality(s \ {Taken(s)}) = Cardinality(s) - 1 /\ Cardinality(s) \in Nat
        BY <1>0, <1>rest, <2>2
      <3> QED
        BY <2>0, <2>2, <3>1
    <2>3. ASSUME NEW s \in D(n) PROVE h[s] = g[s]
      <3>1. s \in D(n + 1)
        BY <1>0, <2>0
      <3>2. h[s] = IF s = {} THEN 0 ELSE f[Taken(s)] + g[s \ {Taken(s)}]
        BY <3>1
      <3>3. g[s] = IF s = {} THEN 0 ELSE f[Taken(s)] + g[s \ {Taken(s)}]
        <4> HIDE DEF D
        <4> QED
          BY <2>1
      <3> QED
        BY <3>2, <3>3
    <2>4. E(h, n + 1)
      <3> HIDE DEF D
      <3> QED
        BY <2>2, <2>3
    <2> HIDE DEF E
    <2> QED
      BY <2>0, <2>4 DEF B
  <1>3. B = Nat
    <2> HIDE DEF B
    <2>1. B \subseteq Nat
      BY DEF B
    <2> QED
      BY <1>1, <1>2, <2>1, NaturalInduction
  <1>4. Cardinality(S) \in Nat
    BY FS_CardinalityType
  <1>5. PICK g : E(g, Cardinality(S))
    BY <1>3, <1>4
  <1>6. D(Cardinality(S)) = SUBSET S
    BY FS_Subset
  <1> QED
    BY <1>5, <1>6 DEF Sums

(* It has one solution only, whichever set it begins with.                 *)
LEMMA SumsUnique ==
  ASSUME NEW S, IsFiniteSet(S), NEW T \in SUBSET S, NEW f, NEW g, NEW h,
         Sums(g, f, S), Sums(h, f, T)
  PROVE  g[T] = h[T]
  <1> DEFINE B == {n \in Nat : \A s \in SUBSET T : Cardinality(s) = n => g[s] = h[s]}
  <1>1. \A s \in SUBSET T :
            /\ g[s] = IF s = {} THEN 0 ELSE f[Taken(s)] + g[s \ {Taken(s)}]
            /\ h[s] = IF s = {} THEN 0 ELSE f[Taken(s)] + h[s \ {Taken(s)}]
    BY DEF Sums
  <1>0. \A s \in SUBSET T : Cardinality(s) \in Nat
    BY TakenFacts
  <1>empty. \A s \in SUBSET T : Cardinality(s) = 0 <=> s = {}
    BY TakenFacts
  <1>rest. \A s \in SUBSET T :
            s # {} => Cardinality(s \ {Taken(s)}) = Cardinality(s) - 1
    BY TakenFacts
  <1>2. 0 \in B
    BY <1>0, <1>empty, <1>1
  <1>3. ASSUME NEW n \in B PROVE n + 1 \in B
    <2>0. n \in Nat
      OBVIOUS
    <2> SUFFICES ASSUME NEW s \in SUBSET T, Cardinality(s) = n + 1
                 PROVE  g[s] = h[s]
      OBVIOUS
    <2>1. s # {} /\ s \ {Taken(s)} \in SUBSET T
      BY <1>empty, <2>0
    <2>2. Cardinality(s \ {Taken(s)}) = n
      BY <1>rest, <2>0, <2>1
    <2>3. g[s \ {Taken(s)}] = h[s \ {Taken(s)}]
      BY <2>1, <2>2
    <2> QED
      BY <1>1, <2>1, <2>3
  <1>4. B = Nat
    <2> HIDE DEF B
    <2>1. B \subseteq Nat
      BY DEF B
    <2> QED
      BY <1>2, <1>3, <2>1, NaturalInduction
  <1> QED
    BY <1>0, <1>4

LEMMA SumOnSetSolves ==
  ASSUME NEW S, IsFiniteSet(S), NEW f
  PROVE  \E g : Sums(g, f, S) /\ SumFunctionOnSet(f, S) = g[S]
  <1> DEFINE G == CHOOSE g : Sums(g, f, S)
  <1>1. Sums(G, f, S)
    BY SumsExist
  <1>2. SumFunctionOnSet(f, S) = G[S]
    BY DEF Sums, Taken, SumFunctionOnSet, FoldFunctionOnSet, MapThenFoldSet
  <1> QED
    BY <1>1, <1>2

(* The sum over a set is that over its part without the next element, and  *)
(* that element's value.                                                   *)
LEMMA SumUnfolds ==
  ASSUME NEW S, IsFiniteSet(S), NEW f
  PROVE  SumFunctionOnSet(f, S) =
            IF S = {} THEN 0
            ELSE f[Taken(S)] + SumFunctionOnSet(f, S \ {Taken(S)})
  <1>1. PICK g : Sums(g, f, S) /\ SumFunctionOnSet(f, S) = g[S]
    BY SumOnSetSolves
  <1> DEFINE T == S \ {Taken(S)}
  <1>2. T \in SUBSET S /\ IsFiniteSet(T)
    BY FS_Subset
  <1>3. PICK h : Sums(h, f, T) /\ SumFunctionOnSet(f, T) = h[T]
    BY <1>2, SumOnSetSolves
  <1>4. g[T] = h[T]
    BY <1>1, <1>2, <1>3, SumsUnique
  <1>5. g[S] = IF S = {} THEN 0 ELSE f[Taken(S)] + g[T]
    BY <1>1 DEF Sums
  <1> QED
    BY <1>1, <1>3, <1>4, <1>5

(* Sums of the same values are the same.                                   *)
LEMMA SumSame ==
  ASSUME NEW S, IsFiniteSet(S), NEW f, NEW g, \A x \in S : f[x] = g[x]
  PROVE  SumFunctionOnSet(f, S) = SumFunctionOnSet(g, S)
  <1> DEFINE E(U) == SumFunctionOnSet(f, U) = SumFunctionOnSet(g, U)
             B == {n \in Nat : \A U \in SUBSET S : Cardinality(U) = n => E(U)}
  <1>0. \A U \in SUBSET S :
            /\ IsFiniteSet(U) /\ Cardinality(U) \in Nat
            /\ Cardinality(U) = 0 <=> U = {}
            /\ U # {} => /\ Taken(U) \in U
                         /\ Cardinality(U \ {Taken(U)}) = Cardinality(U) - 1
    BY TakenFacts
  <1>1. 0 \in B
    BY <1>0, SumUnfolds
  <1>2. ASSUME NEW n \in B PROVE n + 1 \in B
    <2> SUFFICES ASSUME NEW U \in SUBSET S, Cardinality(U) = n + 1
                 PROVE  E(U)
      OBVIOUS
    <2>1. U # {} /\ U \ {Taken(U)} \in SUBSET S /\ Taken(U) \in S
      BY <1>0
    <2>2. Cardinality(U \ {Taken(U)}) = n
      BY <1>0, <2>1
    <2>3. E(U \ {Taken(U)})
      BY <2>1, <2>2
    <2>4. /\ SumFunctionOnSet(f, U) = f[Taken(U)] + SumFunctionOnSet(f, U \ {Taken(U)})
          /\ SumFunctionOnSet(g, U) = g[Taken(U)] + SumFunctionOnSet(g, U \ {Taken(U)})
      BY <1>0, <2>1, SumUnfolds
    <2> QED
      BY <2>1, <2>3, <2>4
  <1>3. B = Nat
    <2> HIDE DEF B
    <2>1. B \subseteq Nat
      BY DEF B
    <2> QED
      BY <1>1, <1>2, <2>1, NaturalInduction
  <1> QED
    BY <1>0, <1>3

(* The order of the terms does not matter.                                 *)
LEMMA SumStep ==
  ASSUME NEW S, IsFiniteSet(S), NEW f, \A y \in S : f[y] \in Int, NEW x \in S
  PROVE  /\ SumFunctionOnSet(f, S) \in Int
         /\ SumFunctionOnSet(f, S \ {x}) \in Int
         /\ SumFunctionOnSet(f, S) = f[x] + SumFunctionOnSet(f, S \ {x})
  <1> DEFINE sum(U) == SumFunctionOnSet(f, U)
             E(U) == /\ sum(U) \in Int
                     /\ \A y \in U : sum(U) = f[y] + sum(U \ {y})
             B == {n \in Nat : \A U \in SUBSET S : Cardinality(U) <= n => E(U)}
  <1>0. \A U \in SUBSET S :
            /\ IsFiniteSet(U) /\ Cardinality(U) \in Nat
            /\ Cardinality(U) = 0 <=> U = {}
            /\ U # {} => Taken(U) \in U
            /\ \A y \in U : Cardinality(U \ {y}) = Cardinality(U) - 1
    BY TakenFacts, FS_RemoveElement
  <1>1. \A U \in SUBSET S :
            sum(U) = IF U = {} THEN 0 ELSE f[Taken(U)] + sum(U \ {Taken(U)})
    BY <1>0, SumUnfolds
  <1>2. 0 \in B
    BY <1>0, <1>1
  <1>3. ASSUME NEW n \in B PROVE n + 1 \in B
    <2>0. n \in Nat
      OBVIOUS
    <2> SUFFICES ASSUME NEW U \in SUBSET S, Cardinality(U) = n + 1
                 PROVE  E(U)
      <3> HIDE DEF E
      <3> QED
        BY <1>0, <2>0
    <2> DEFINE c == Taken(U)
    <2>1. U # {} /\ c \in U
      BY <1>0
    <2>2. \A y \in U : U \ {y} \in SUBSET S /\ Cardinality(U \ {y}) = n
      BY <1>0
    <2>3. \A y \in U : E(U \ {y})
      BY <2>2
    <2>4. sum(U) = f[c] + sum(U \ {c})
      BY <1>1, <2>1
    <2>5. \A y \in U : f[y] \in Int /\ sum(U \ {y}) \in Int
      BY <2>3
    <2>6. ASSUME NEW y \in U, y # c PROVE sum(U) = f[y] + sum(U \ {y})
      <3>1. y \in U \ {c} /\ c \in U \ {y}
        BY <2>1, <2>6
      <3>2. (U \ {c}) \ {y} = (U \ {y}) \ {c}
        OBVIOUS
      <3>3. sum(U \ {c}) = f[y] + sum((U \ {c}) \ {y})
        BY <2>1, <2>3, <3>1
      <3>4. sum(U \ {y}) = f[c] + sum((U \ {y}) \ {c})
        BY <2>3, <3>1
      <3>5. sum((U \ {y}) \ {c}) \in Int
        <4>1. (U \ {y}) \ {c} \in SUBSET S
              /\ Cardinality((U \ {y}) \ {c}) = Cardinality(U \ {y}) - 1
          BY <1>0, <2>2, <3>1
        <4>2. Cardinality((U \ {y}) \ {c}) <= n
          BY <2>0, <2>2, <4>1
        <4> HIDE DEF c
        <4> QED
          BY <4>1, <4>2
      <3> HIDE DEF sum, c
      <3> QED
        BY <2>1, <2>4, <2>5, <3>2, <3>3, <3>4, <3>5
    <2>7. sum(U) \in Int
      BY <2>1, <2>4, <2>5
    <2> QED
      BY <2>4, <2>6, <2>7
  <1>4. B = Nat
    <2> HIDE DEF B
    <2>1. B \subseteq Nat
      BY DEF B
    <2> QED
      BY <1>2, <1>3, <2>1, NaturalInduction
  <1>5. Cardinality(S) \in Nat /\ Cardinality(S \ {x}) \in Nat
    BY <1>0
  <1>6. E(S) /\ E(S \ {x})
    BY <1>4, <1>5, SMTT(30)
  <1> QED
    BY <1>6

LEMMA SumOfNone == ASSUME NEW f PROVE SumFunctionOnSet(f, {}) = 0
  BY SumUnfolds, FS_EmptySet

(* Values may come from different functions.                               *)
LEMMA SumOfFunction ==
  ASSUME NEW S, IsFiniteSet(S), NEW f, NEW g,
         f = [x \in S |-> f[x]], \A x \in S : f[x] = g[x]
  PROVE  SumFunction(f) = SumFunctionOnSet(g, S)
  <1>1. DOMAIN f = S
    OBVIOUS
  <1>2. SumFunctionOnSet(f, S) = SumFunctionOnSet(g, S)
    BY SumSame
  <1> QED
    BY <1>1, <1>2 DEF SumFunction

(* A sum of natural numbers is one.                                        *)
LEMMA SumType ==
  ASSUME NEW S, IsFiniteSet(S), NEW f, \A y \in S : f[y] \in Nat
  PROVE  SumFunctionOnSet(f, S) \in Nat
  <1> DEFINE A == {U \in SUBSET S : SumFunctionOnSet(f, U) \in Nat}
  <1>1. {} \in A
    BY SumOfNone
  <1>2. ASSUME NEW U \in A, NEW x \in S PROVE U \union {x} \in A
    <2>1. CASE x \in U
      <3>1. U \union {x} = U
        BY <2>1
      <3> QED
        BY <3>1
    <2>2. CASE x \notin U
      <3>1. IsFiniteSet(U \union {x}) /\ U \union {x} \in SUBSET S
        BY FS_Subset
      <3>2. (U \union {x}) \ {x} = U
        BY <2>2
      <3>3. SumFunctionOnSet(f, U \union {x})
              = f[x] + SumFunctionOnSet(f, (U \union {x}) \ {x})
        BY <3>1, SumStep
      <3> QED
        BY <3>1, <3>2, <3>3
    <2> QED
      BY <2>1, <2>2
  <1>3. S \in A
    <2> HIDE DEF A
    <2>1. A \in SUBSET SUBSET S
      BY DEF A
    <2> QED
      BY <1>1, <1>2, <2>1, FiniteInduction
  <1> QED
    BY <1>3

(* A sequence has finitely many places.                                    *)
LEMMA IntervalFinite == ASSUME NEW n \in Nat PROVE IsFiniteSet(1 .. n)
  BY FS_Interval

(***************************************************************************)
(* Images and unions of finite sets                                        *)
(***************************************************************************)
LEMMA ImageFinite ==
  ASSUME NEW S, IsFiniteSet(S), NEW f
  PROVE  IsFiniteSet({f[x] : x \in S})
  <1> DEFINE T == {f[x] : x \in S}
             g == [x \in S |-> f[x]]
  <1>1. g \in Surjection(S, T)
    BY DEF Surjection
  <1> HIDE DEF T, g
  <1>2. IsFiniteSet(T)
    BY <1>1, FS_Surjection
  <1> QED
    BY <1>2 DEF T

(* The sizes of sets that have nothing in common add up.                   *)
LEMMA UnionSize ==
  ASSUME NEW S, IsFiniteSet(S), NEW f, \A x \in S : IsFiniteSet(f[x]),
         \A x, y \in S : x # y => f[x] \intersect f[y] = {}
  PROVE  /\ IsFiniteSet(UNION {f[x] : x \in S})
         /\ Cardinality(UNION {f[x] : x \in S})
              = SumFunctionOnSet([x \in S |-> Cardinality(f[x])], S)
  <1> DEFINE sizes == [x \in S |-> Cardinality(f[x])]
             All(U) == UNION {f[x] : x \in U}
             A == {U \in SUBSET S :
                     /\ IsFiniteSet(All(U))
                     /\ Cardinality(All(U)) = SumFunctionOnSet(sizes, U)}
  <1>1. {} \in A
    <2>1. All({}) = {}
      OBVIOUS
    <2>2. SumFunctionOnSet(sizes, {}) = 0
      BY SumOfNone
    <2> HIDE DEF All, sizes
    <2> QED
      BY <2>1, <2>2, FS_EmptySet
  <1>2. ASSUME NEW U \in A, NEW x \in S PROVE U \union {x} \in A
    <2>1. CASE x \in U
      <3>1. U \union {x} = U
        BY <2>1
      <3> HIDE DEF A
      <3> QED
        BY <3>1
    <2>2. CASE x \notin U
      <3> DEFINE V == U \union {x}
      <3>1. V \in SUBSET S /\ IsFiniteSet(V) /\ x \in V
        BY FS_Subset
      <3>2. V \ {x} = U
        BY <2>2
      <3>3. \A y \in V : sizes[y] \in Int
        BY FS_CardinalityType
      <3>4. SumFunctionOnSet(sizes, V) = sizes[x] + SumFunctionOnSet(sizes, U)
        <4> HIDE DEF sizes, V
        <4> QED
          BY <3>1, <3>2, <3>3, SumStep
      <3>5. All(V) = All(U) \union f[x]
        OBVIOUS
      <3>6. All(U) \intersect f[x] = {}
        BY <2>2
      <3>7. IsFiniteSet(All(U)) /\ IsFiniteSet(f[x])
            /\ Cardinality(All(U)) = SumFunctionOnSet(sizes, U)
        OBVIOUS
      <3>8. sizes[x] = Cardinality(f[x])
        OBVIOUS
      <3>9. /\ IsFiniteSet(All(V))
            /\ Cardinality(All(V)) = Cardinality(All(U)) + Cardinality(f[x])
        <4> HIDE DEF All, V
        <4>1. /\ Cardinality(All(U)) \in Nat /\ Cardinality(f[x]) \in Nat
              /\ Cardinality(All(U) \intersect f[x]) = 0
          BY <3>6, <3>7, FS_CardinalityType, FS_EmptySet
        <4>2. /\ IsFiniteSet(All(U) \union f[x])
              /\ Cardinality(All(U) \union f[x])
                   = Cardinality(All(U)) + Cardinality(f[x])
                       - Cardinality(All(U) \intersect f[x])
          BY <3>7, FS_Union
        <4> QED
          BY <3>5, <4>1, <4>2
      <3>10. Cardinality(All(V)) = SumFunctionOnSet(sizes, V)
        <4> HIDE DEF All, V, sizes
        <4>1. Cardinality(All(U)) \in Nat /\ Cardinality(f[x]) \in Nat
          BY <3>7, FS_CardinalityType
        <4> QED
          BY <3>4, <3>7, <3>8, <3>9, <4>1
      <3> HIDE DEF All, sizes
      <3> QED
        BY <3>1, <3>9, <3>10
    <2> QED
      BY <2>1, <2>2
  <1>3. S \in A
    <2> HIDE DEF A
    <2>1. A \in SUBSET SUBSET S
      BY DEF A
    <2> QED
      BY <1>1, <1>2, <2>1, FiniteInduction
  <1> QED
    BY <1>3

(***************************************************************************)
(* Linear sums                                                             *)
(***************************************************************************)
(* One more term.                                                          *)
LEMMA SumMore ==
  ASSUME NEW S, IsFiniteSet(S), NEW f, \A y \in S : f[y] \in Int,
         NEW U \in SUBSET S, NEW x \in S \ U
  PROVE  /\ SumFunctionOnSet(f, U) \in Int
         /\ SumFunctionOnSet(f, U \union {x}) = f[x] + SumFunctionOnSet(f, U)
  <1>1. IsFiniteSet(U \union {x}) /\ \A y \in U \union {x} : f[y] \in Int
    BY FS_Subset
  <1>2. (U \union {x}) \ {x} = U /\ x \in U \union {x}
    OBVIOUS
  <1> QED
    BY <1>1, <1>2, SumStep

(* A set of subsets that has the empty one, and with each member those     *)
(* with one new element, has the whole finite set.                         *)
LEMMA SubsetInduction ==
  ASSUME NEW S, IsFiniteSet(S), NEW A \in SUBSET SUBSET S,
         {} \in A, \A U \in A : \A x \in S \ U : U \union {x} \in A
  PROVE  S \in A
  <1>1. ASSUME NEW U \in A, NEW x \in S PROVE U \union {x} \in A
    <2>1. x \in U => U \union {x} = U
      OBVIOUS
    <2> QED
      BY <2>1
  <1> QED
    BY <1>1, FiniteInduction

(* The sum of sums.                                                        *)
LEMMA SumPlus ==
  ASSUME NEW S, IsFiniteSet(S), NEW f, NEW g, NEW h,
         \A x \in S : f[x] \in Int /\ g[x] \in Int /\ h[x] = f[x] + g[x]
  PROVE  SumFunctionOnSet(h, S) = SumFunctionOnSet(f, S) + SumFunctionOnSet(g, S)
  <1> DEFINE A == {U \in SUBSET S : SumFunctionOnSet(h, U)
                     = SumFunctionOnSet(f, U) + SumFunctionOnSet(g, U)}
  <1>1. {} \in A
    BY SumOfNone
  <1>2. ASSUME NEW U \in A, NEW x \in S \ U PROVE U \union {x} \in A
    <2>1. /\ SumFunctionOnSet(f, U) \in Int
          /\ SumFunctionOnSet(f, U \union {x}) = f[x] + SumFunctionOnSet(f, U)
      BY SumMore
    <2>2. /\ SumFunctionOnSet(g, U) \in Int
          /\ SumFunctionOnSet(g, U \union {x}) = g[x] + SumFunctionOnSet(g, U)
      BY SumMore
    <2>3. SumFunctionOnSet(h, U \union {x}) = h[x] + SumFunctionOnSet(h, U)
      <3>1. \A y \in S : h[y] \in Int
        OBVIOUS
      <3> QED
        BY <3>1, SumMore
    <2> QED
      BY <2>1, <2>2, <2>3
  <1>3. S \in A
    <2> HIDE DEF A
    <2>1. A \in SUBSET SUBSET S
      BY DEF A
    <2> QED
      BY <1>1, <1>2, <2>1, SubsetInduction
  <1> QED
    BY <1>3

(* A common factor.                                                        *)
LEMMA SumTimes ==
  ASSUME NEW S, IsFiniteSet(S), NEW f, NEW h, NEW c \in Int,
         \A x \in S : f[x] \in Int /\ h[x] = c * f[x]
  PROVE  SumFunctionOnSet(h, S) = c * SumFunctionOnSet(f, S)
  <1> DEFINE A == {U \in SUBSET S :
                     SumFunctionOnSet(h, U) = c * SumFunctionOnSet(f, U)}
  <1>1. {} \in A
    BY SumOfNone
  <1>2. ASSUME NEW U \in A, NEW x \in S \ U PROVE U \union {x} \in A
    <2>1. /\ SumFunctionOnSet(f, U) \in Int
          /\ SumFunctionOnSet(f, U \union {x}) = f[x] + SumFunctionOnSet(f, U)
      BY SumMore
    <2>2. SumFunctionOnSet(h, U \union {x}) = h[x] + SumFunctionOnSet(h, U)
      <3>1. \A y \in S : h[y] \in Int
        OBVIOUS
      <3> QED
        BY <3>1, SumMore
    <2>3. f[x] \in Int /\ h[x] = c * f[x]
      OBVIOUS
    <2>4. SumFunctionOnSet(h, U) = c * SumFunctionOnSet(f, U)
      OBVIOUS
    <2>5. \A a, b \in Int : c * (a + b) = c * a + c * b
      BY Z3
    <2>6. SumFunctionOnSet(h, U \union {x}) = c * SumFunctionOnSet(f, U \union {x})
      <3> HIDE DEF A
      <3> QED
        BY <2>1, <2>2, <2>3, <2>4, <2>5
    <2> QED
      BY <2>6
  <1>3. S \in A
    <2> HIDE DEF A
    <2>1. A \in SUBSET SUBSET S
      BY DEF A
    <2> QED
      BY <1>1, <1>2, <2>1, SubsetInduction
  <1> QED
    BY <1>3

(* Terms that are zero.                                                    *)
LEMMA SumZero ==
  ASSUME NEW S, IsFiniteSet(S), NEW f, \A x \in S : f[x] = 0
  PROVE  SumFunctionOnSet(f, S) = 0
  <1>1. SumFunctionOnSet(f, S) = 0 * SumFunctionOnSet(f, S)
    <2>1. 0 \in Int /\ \A x \in S : f[x] \in Int /\ f[x] = 0 * f[x]
      OBVIOUS
    <2> QED
      BY <2>1, SumTimes
  <1>2. SumFunctionOnSet(f, S) \in Nat
    BY SumType
  <1> QED
    BY <1>1, <1>2

(* Terms that are all the same.                                            *)
LEMMA SumConstant ==
  ASSUME NEW S, IsFiniteSet(S), NEW f, NEW c \in Nat, \A x \in S : f[x] = c
  PROVE  SumFunctionOnSet(f, S) = c * Cardinality(S)
  <1> DEFINE A == {U \in SUBSET S : SumFunctionOnSet(f, U) = c * Cardinality(U)}
  <1>1. {} \in A
    <2>1. c * 0 = 0
      BY Z3
    <2> QED
      BY <2>1, SumOfNone, FS_EmptySet
  <1>2. ASSUME NEW U \in A, NEW x \in S \ U PROVE U \union {x} \in A
    <2>1. SumFunctionOnSet(f, U \union {x}) = f[x] + SumFunctionOnSet(f, U)
      <3>1. \A y \in S : f[y] \in Int
        OBVIOUS
      <3> QED
        BY <3>1, SumMore
    <2>2. /\ Cardinality(U) \in Nat
          /\ Cardinality(U \union {x}) = Cardinality(U) + 1
      BY FS_Subset, FS_CardinalityType, FS_AddElement
    <2>3. \A n \in Nat : c * (n + 1) = c + c * n
      BY Z3
    <2>4. f[x] = c /\ SumFunctionOnSet(f, U) = c * Cardinality(U)
      OBVIOUS
    <2>5. SumFunctionOnSet(f, U \union {x}) = c * Cardinality(U \union {x})
      <3> HIDE DEF A
      <3> QED
        BY <2>1, <2>2, <2>3, <2>4
    <2> QED
      BY <2>5
  <1>3. S \in A
    <2> HIDE DEF A
    <2>1. A \in SUBSET SUBSET S
      BY DEF A
    <2> QED
      BY <1>1, <1>2, <2>1, SubsetInduction
  <1> QED
    BY <1>3

(* Only one term is not zero.                                              *)
LEMMA SumSingle ==
  ASSUME NEW S, IsFiniteSet(S), NEW f, NEW x \in S, f[x] \in Int,
         \A y \in S \ {x} : f[y] = 0
  PROVE  SumFunctionOnSet(f, S) = f[x]
  <1>1. SumFunctionOnSet(f, S \ {x}) = 0
    <2>1. IsFiniteSet(S \ {x})
      BY FS_Subset
    <2> QED
      BY <2>1, SumZero
  <1>2. \A y \in S : f[y] \in Int
    OBVIOUS
  <1>3. SumFunctionOnSet(f, S) = f[x] + SumFunctionOnSet(f, S \ {x})
    BY <1>2, SumStep
  <1> QED
    BY <1>1, <1>3


(* The product of a row and a column.                                      *)
Dot(S, a, b) == SumFunctionOnSet([x \in S |-> a[x] * b[x]], S)

Unit(S, v) == [x \in S |-> IF x = v THEN 1 ELSE 0]

LEMMA DotType ==
  ASSUME NEW S, IsFiniteSet(S), NEW a, NEW b,
         \A x \in S : a[x] \in Nat /\ b[x] \in Nat
  PROVE  Dot(S, a, b) \in Nat
  <1> DEFINE f == [x \in S |-> a[x] * b[x]]
  <1>1. \A p, q \in Nat : p * q \in Nat
    BY Z3
  <1>2. \A x \in S : f[x] \in Nat
    BY <1>1
  <1> HIDE DEF f
  <1>3. SumFunctionOnSet(f, S) \in Nat
    BY <1>2, SumType
  <1> QED
    BY <1>3 DEF Dot, f

(* Only the products count.                                                *)
LEMMA DotSame ==
  ASSUME NEW S, IsFiniteSet(S), NEW a, NEW b, NEW c, NEW d,
         \A x \in S : a[x] * b[x] = c[x] * d[x]
  PROVE  Dot(S, a, b) = Dot(S, c, d)
  <1> DEFINE f == [x \in S |-> a[x] * b[x]]
             g == [x \in S |-> c[x] * d[x]]
  <1>1. \A x \in S : f[x] = g[x]
    OBVIOUS
  <1> HIDE DEF f, g
  <1>2. SumFunctionOnSet(f, S) = SumFunctionOnSet(g, S)
    BY <1>1, SumSame
  <1> QED
    BY <1>2 DEF Dot, f, g

LEMMA DotPlus ==
  ASSUME NEW S, IsFiniteSet(S), NEW a, NEW b, NEW c, NEW d, NEW e,
         \A x \in S : /\ a[x] \in Nat /\ b[x] \in Nat /\ c[x] \in Nat
                      /\ d[x] \in Nat /\ e[x] \in Nat
                      /\ d[x] * e[x] = a[x] * b[x] + a[x] * c[x]
  PROVE  Dot(S, d, e) = Dot(S, a, b) + Dot(S, a, c)
  <1> DEFINE f == [x \in S |-> a[x] * b[x]]
             g == [x \in S |-> a[x] * c[x]]
             h == [x \in S |-> d[x] * e[x]]
  <1>1. \A p, q \in Nat : p * q \in Int
    BY Z3
  <1>2. \A x \in S : f[x] \in Int /\ g[x] \in Int
    BY <1>1
  <1>3. \A x \in S : h[x] = f[x] + g[x]
    OBVIOUS
  <1> HIDE DEF f, g, h
  <1>4. SumFunctionOnSet(h, S) = SumFunctionOnSet(f, S) + SumFunctionOnSet(g, S)
    BY <1>2, <1>3, SumPlus
  <1> QED
    BY <1>4 DEF Dot, f, g, h

LEMMA DotTimes ==
  ASSUME NEW S, IsFiniteSet(S), NEW k \in Nat, NEW a, NEW b, NEW c, NEW d,
         \A x \in S : /\ a[x] \in Nat /\ b[x] \in Nat
                      /\ c[x] * d[x] = k * (a[x] * b[x])
  PROVE  Dot(S, c, d) = k * Dot(S, a, b)
  <1> DEFINE f == [x \in S |-> a[x] * b[x]]
             h == [x \in S |-> c[x] * d[x]]
  <1>1. \A p, q \in Nat : p * q \in Int
    BY Z3
  <1>2. \A x \in S : f[x] \in Int
    BY <1>1
  <1>3. \A x \in S : h[x] = k * f[x]
    OBVIOUS
  <1> HIDE DEF f, h
  <1>4. SumFunctionOnSet(h, S) = k * SumFunctionOnSet(f, S)
    BY <1>2, <1>3, SumTimes
  <1> QED
    BY <1>4 DEF Dot, f, h

LEMMA DotUnit ==
  ASSUME NEW S, IsFiniteSet(S), NEW a, NEW v \in S, \A x \in S : a[x] \in Nat
  PROVE  Dot(S, a, Unit(S, v)) = a[v] /\ Dot(S, Unit(S, v), a) = a[v]
  <1> DEFINE f == [x \in S |-> a[x] * Unit(S, v)[x]]
             g == [x \in S |-> Unit(S, v)[x] * a[x]]
  <1>1. \A p \in Nat : p * 1 = p /\ p * 0 = 0 /\ 1 * p = p /\ 0 * p = 0
    BY Z3
  <1>2. \A x \in S : f[x] = IF x = v THEN a[x] ELSE 0
    BY <1>1 DEF Unit
  <1>3. \A x \in S : g[x] = IF x = v THEN a[x] ELSE 0
    BY <1>1 DEF Unit
  <1> HIDE DEF f, g
  <1>4. SumFunctionOnSet(f, S) = f[v]
    BY <1>2, SumSingle
  <1>5. SumFunctionOnSet(g, S) = g[v]
    BY <1>3, SumSingle
  <1>6. f[v] = a[v] /\ g[v] = a[v]
    BY <1>2, <1>3
  <1> QED
    BY <1>4, <1>5, <1>6 DEF Dot, f, g

Column(S, m, x) == [y \in S |-> m[y][x]]

Vector(S, a) == \A x \in S : a[x] \in Nat
Matrix(S, q) == \A x, y \in S : q[x][y] \in Nat

(* p = q b, and p = a q.                                                   *)
TimesColumn(S, q, b, p) == \A x \in S : p[x] = Dot(S, q[x], b)
TimesRow(S, a, q, p) == \A y \in S : p[y] = Dot(S, a, Column(S, q, y))

(* A row, a matrix and a column can be multiplied in either order.         *)
LEMMA DotAssociates ==
  ASSUME NEW S, IsFiniteSet(S), NEW a, NEW b, NEW q,
         Vector(S, a), Vector(S, b), Matrix(S, q),
         NEW rows, TimesColumn(S, q, b, rows),
         NEW columns, TimesRow(S, a, q, columns)
  PROVE  Dot(S, a, rows) = Dot(S, columns, b)
  <1> USE DEF Vector, Matrix, TimesColumn, TimesRow
  <1> DEFINE f == [x \in S |-> a[x] * rows[x]]
             part(y) == [x \in S |-> a[x] * q[x][y]]
             cols(U) == [y \in S |-> SumFunctionOnSet(part(y), U)]
             A == {U \in SUBSET S : SumFunctionOnSet(f, U) = Dot(S, cols(U), b)}
  <1>0. \A p, r \in Nat : p * r \in Nat
    BY Z3
  <1>1. \A x \in S : rows[x] \in Nat
    <2> SUFFICES ASSUME NEW x \in S PROVE Dot(S, q[x], b) \in Nat
      OBVIOUS
    <2> QED
      BY DotType
  <1>2. \A x \in S : f[x] \in Nat
    BY <1>0, <1>1
  <1>3. \A x, y \in S : part(y)[x] \in Nat
    BY <1>0
  <1>4. ASSUME NEW U \in SUBSET S, NEW y \in S
        PROVE  cols(U)[y] \in Nat
    <2>1. IsFiniteSet(U) /\ \A x \in U : part(y)[x] \in Nat
      BY <1>3, FS_Subset
    <2> HIDE DEF part
    <2>2. SumFunctionOnSet(part(y), U) \in Nat
      BY <2>1, SumType
    <2> QED
      BY <2>2
  <1>5. {} \in A
    <2> DEFINE h == [y \in S |-> cols({})[y] * b[y]]
    <2>1. \A y \in S : cols({})[y] = 0
      BY SumOfNone
    <2>2. \A p \in Nat : 0 * p = 0
      BY Z3
    <2>3. \A y \in S : h[y] = 0
      <3> HIDE DEF cols
      <3> QED
        BY <2>1, <2>2
    <2>4. SumFunctionOnSet(h, S) = 0
      <3> HIDE DEF h
      <3> QED
        BY <2>3, SumZero
    <2>5. Dot(S, cols({}), b) = 0
      <3> HIDE DEF cols
      <3> QED
        BY <2>4 DEF Dot
    <2>6. SumFunctionOnSet(f, {}) = 0
      BY SumOfNone
    <2> HIDE DEF f, cols
    <2> QED
      BY <2>5, <2>6
  <1>6. ASSUME NEW U \in A, NEW x \in S \ U PROVE U \union {x} \in A
    <2> DEFINE V == U \union {x}
               r == [y \in S |-> a[x] * q[x][y]]
    <2>0. U \in SUBSET S /\ V \in SUBSET S /\ x \in S
          /\ SumFunctionOnSet(f, U) = Dot(S, cols(U), b)
      OBVIOUS
    <2> HIDE DEF A
    <2>1. SumFunctionOnSet(f, V) = f[x] + SumFunctionOnSet(f, U)
      <3> HIDE DEF f
      <3>1. \A y \in S : f[y] \in Int
        BY <1>2
      <3> QED
        BY <2>0, <3>1, SumMore
    <2>2. ASSUME NEW y \in S PROVE cols(V)[y] = r[y] + cols(U)[y]
      <3>1. \A z \in S : part(y)[z] \in Int
        BY <1>3
      <3>2. part(y)[x] = r[y]
        BY <2>0
      <3> HIDE DEF part
      <3>3. SumFunctionOnSet(part(y), V)
              = part(y)[x] + SumFunctionOnSet(part(y), U)
        BY <2>0, <3>1, SumMore
      <3> HIDE DEF r, V
      <3> QED
        BY <3>2, <3>3
    <2>3. \A y \in S : r[y] \in Nat
      BY <1>0, <2>0
    <2>4. Dot(S, cols(V), b) = Dot(S, b, r) + Dot(S, b, cols(U))
      <3>1. \A y \in S : cols(V)[y] \in Nat /\ cols(U)[y] \in Nat
        BY <1>4, <2>0
      <3>2. \A p, s, t \in Nat : (p + s) * t = t * p + t * s
        BY Z3
      <3>3. \A y \in S : cols(V)[y] * b[y] = b[y] * r[y] + b[y] * cols(U)[y]
        <4> HIDE DEF cols, r, V
        <4> QED
          BY <2>2, <2>3, <3>1, <3>2
      <3> HIDE DEF cols, r, V
      <3> QED
        BY <2>3, <3>1, <3>3, DotPlus
    <2>5. Dot(S, b, cols(U)) = Dot(S, cols(U), b)
      <3>1. \A y \in S : cols(U)[y] \in Nat
        BY <1>4, <2>0
      <3>2. \A p, s \in Nat : p * s = s * p
        BY Z3
      <3> HIDE DEF cols
      <3>3. \A y \in S : b[y] * cols(U)[y] = cols(U)[y] * b[y]
        BY <3>1, <3>2
      <3> QED
        BY <3>3, DotSame
    <2>6. Dot(S, b, r) = f[x]
      <3>1. \A p, s, t \in Nat : t * (p * s) = p * (s * t)
        BY Z3
      <3>2. \A y \in S : b[y] * r[y] = a[x] * (q[x][y] * b[y])
        BY <2>0, <3>1
      <3>3. Dot(S, b, r) = a[x] * Dot(S, q[x], b)
        <4>1. a[x] \in Nat
          BY <2>0
        <4>2. \A y \in S : q[x][y] \in Nat /\ b[y] \in Nat
                           /\ b[y] * r[y] = a[x] * (q[x][y] * b[y])
          BY <2>0, <3>2
        <4> HIDE DEF r
        <4> DEFINE row == q[x]
        <4>3. \A y \in S : row[y] \in Nat /\ b[y] \in Nat
                           /\ b[y] * r[y] = a[x] * (row[y] * b[y])
          BY <4>2
        <4> HIDE DEF row
        <4>4. Dot(S, b, r) = a[x] * Dot(S, row, b)
          BY <4>1, <4>3, DotTimes
        <4> QED
          BY <4>4 DEF row
      <3> HIDE DEF r
      <3> QED
        BY <2>0, <3>3
    <2>7. V \in A
      <3>1. SumFunctionOnSet(f, V) = Dot(S, cols(V), b)
        <4> HIDE DEF f, V, cols, r
        <4> QED
          BY <2>0, <2>1, <2>4, <2>5, <2>6
      <3> HIDE DEF f, V, cols, r
      <3> QED
        BY <2>0, <3>1 DEF A
    <2> QED
      BY <2>7
  <1>7. S \in A
    <2> HIDE DEF A
    <2>1. A \in SUBSET SUBSET S
      BY DEF A
    <2> QED
      BY <1>5, <1>6, <2>1, SubsetInduction
  <1>8. \A y \in S : cols(S)[y] = columns[y]
    <2>1. ASSUME NEW y \in S PROVE cols(S)[y] = Dot(S, a, Column(S, q, y))
      <3>1. part(y) = [x \in S |-> a[x] * Column(S, q, y)[x]]
        BY DEF Column
      <3> QED
        BY <3>1 DEF Dot
    <2> QED
      BY <2>1
  <1>9. SumFunctionOnSet(f, S) = Dot(S, a, rows)
    BY DEF Dot
  <1> HIDE DEF cols, f
  <1>10. Dot(S, cols(S), b) = Dot(S, columns, b)
    BY <1>8, DotSame
  <1> QED
    BY <1>7, <1>9, <1>10


(* q = 1 + q m and q = 1 + m q, at one place.                              *)
ByLast(S, m, q, v, t) ==
    q[v][t] = Unit(S, v)[t] + Dot(S, q[v], Column(S, m, t))
ByFirst(S, m, q, v, t) ==
    q[v][t] = Unit(S, v)[t] + Dot(S, m[v], Column(S, q, t))

(* A matrix q that counts the walks along m, of any length, by their last  *)
(* steps, counts them by their first steps: where each step leads one      *)
(* level up, q = 1 + q m implies q = 1 + m q.                              *)
LEMMA LastStep ==
  ASSUME NEW S, IsFiniteSet(S), NEW m, NEW q, Matrix(S, m), Matrix(S, q),
         \A x, y \in S : ByLast(S, m, q, x, y),
         NEW v \in S, NEW t \in S,
         \A u \in S : m[u][t] # 0 => ByFirst(S, m, q, v, u)
  PROVE  ByFirst(S, m, q, v, t)
  <1> USE DEF Vector, Matrix, TimesColumn, TimesRow, ByLast, ByFirst
  <1> DEFINE col == Column(S, m, t)
             one == Unit(S, v)
             later == [u \in S |-> Dot(S, m[v], Column(S, q, u))]
             rest == [w \in S |-> Dot(S, q[w], col)]
             qcol == Column(S, q, t)
             first == m[v]
             qrow == q[v]
  <1>1. \A u \in S : /\ col[u] \in Nat /\ col[u] = m[u][t]
                     /\ qcol[u] \in Nat /\ qcol[u] = q[u][t]
                     /\ first[u] \in Nat /\ qrow[u] \in Nat
    BY DEF Column
  <1>2. \A u \in S : later[u] \in Nat
    <2> SUFFICES ASSUME NEW u \in S PROVE Dot(S, m[v], Column(S, q, u)) \in Nat
      OBVIOUS
    <2> DEFINE c == Column(S, q, u)
    <2>1. \A x \in S : first[x] \in Nat /\ c[x] \in Nat
      BY <1>1 DEF Column
    <2> HIDE DEF c, first
    <2>2. Dot(S, first, c) \in Nat
      BY <2>1, DotType
    <2> QED
      BY <2>2 DEF c, first
  <1>3. \A w \in S : rest[w] \in Nat
    <2> SUFFICES ASSUME NEW w \in S PROVE Dot(S, q[w], col) \in Nat
      OBVIOUS
    <2> DEFINE c == q[w]
    <2>1. \A x \in S : c[x] \in Nat /\ col[x] \in Nat
      BY <1>1
    <2> HIDE DEF c, col
    <2>2. Dot(S, c, col) \in Nat
      BY <2>1, DotType
    <2> QED
      BY <2>2 DEF c
  <1>4. \A x, y \in S : Unit(S, x)[y] = Unit(S, y)[x] /\ Unit(S, x)[y] \in Nat
    BY DEF Unit
  <1>5. \A u \in S : qrow[u] * col[u] = col[u] * one[u] + col[u] * later[u]
    <2> SUFFICES ASSUME NEW u \in S
                 PROVE  qrow[u] * col[u] = col[u] * one[u] + col[u] * later[u]
      OBVIOUS
    <2>1. col[u] # 0 => qrow[u] = one[u] + later[u]
      BY <1>1
    <2>2. \A x, y, z \in Nat : (y + z) * x = x * y + x * z
      BY Z3
    <2>3. \A x, y \in Nat : x * 0 = 0 /\ 0 * x = 0 /\ 0 + 0 = 0
      BY Z3
    <2>4. /\ col[u] \in Nat /\ one[u] \in Nat /\ later[u] \in Nat
          /\ qrow[u] \in Nat
      BY <1>1, <1>2, <1>4
    <2> HIDE DEF col, one, later, qrow
    <2>5. CASE col[u] = 0
      BY <2>3, <2>4, <2>5
    <2>6. CASE col[u] # 0
      BY <2>1, <2>2, <2>4, <2>6
    <2> QED
      BY <2>5, <2>6
  <1>6. Dot(S, qrow, col) = Dot(S, col, one) + Dot(S, col, later)
    <2>1. \A u \in S : one[u] \in Nat
      BY <1>4
    <2> HIDE DEF col, one, later, qrow
    <2> QED
      BY <1>1, <1>2, <1>5, <2>1, DotPlus
  <1>7. Dot(S, col, one) = m[v][t]
    <2> HIDE DEF col
    <2> QED
      BY <1>1, DotUnit
  <1>8. Dot(S, col, later) = Dot(S, first, rest)
    <2>1. \A p, s \in Nat : p * s = s * p
      BY Z3
    <2>2. Dot(S, col, later) = Dot(S, later, col)
      <3> HIDE DEF col, later
      <3>1. \A u \in S : col[u] * later[u] = later[u] * col[u]
        BY <1>1, <1>2, <2>1
      <3> QED
        BY <3>1, DotSame
    <2>3. Dot(S, first, rest) = Dot(S, later, col)
      <3>1. \A x, y \in S : q[x][y] \in Nat
        OBVIOUS
      <3>2. \A x \in S : first[x] \in Nat /\ col[x] \in Nat
        BY <1>1
      <3>3. \A x \in S : rest[x] = Dot(S, q[x], col)
        OBVIOUS
      <3>4. \A x \in S : later[x] = Dot(S, first, Column(S, q, x))
        OBVIOUS
      <3> HIDE DEF col, first, rest, later
      <3>5. Vector(S, first) /\ Vector(S, col) /\ Matrix(S, q)
            /\ TimesColumn(S, q, col, rest) /\ TimesRow(S, first, q, later)
        BY <3>1, <3>2, <3>3, <3>4
      <3> HIDE DEF Vector, Matrix, TimesColumn, TimesRow
      <3> QED
        BY <3>5, DotAssociates
    <2> QED
      BY <2>2, <2>3
  <1>9. \A w \in S : first[w] * qcol[w]
                       = first[w] * Unit(S, t)[w] + first[w] * rest[w]
    <2> SUFFICES ASSUME NEW w \in S
                 PROVE  first[w] * qcol[w]
                          = first[w] * Unit(S, t)[w] + first[w] * rest[w]
      OBVIOUS
    <2>1. qcol[w] = Unit(S, t)[w] + rest[w]
      BY <1>1, <1>4
    <2>2. \A x, y, z \in Nat : x * (y + z) = x * y + x * z
      BY Z3
    <2>3. first[w] \in Nat /\ rest[w] \in Nat /\ Unit(S, t)[w] \in Nat
      BY <1>1, <1>3, <1>4
    <2> HIDE DEF first, rest, qcol
    <2> QED
      BY <2>1, <2>2, <2>3
  <1>10. Dot(S, first, qcol) = Dot(S, first, Unit(S, t)) + Dot(S, first, rest)
    <2>1. \A u \in S : Unit(S, t)[u] \in Nat
      BY <1>4
    <2> HIDE DEF first, rest, qcol
    <2> QED
      BY <1>1, <1>3, <1>9, <2>1, DotPlus
  <1>11. Dot(S, first, Unit(S, t)) = m[v][t]
    <2> HIDE DEF first
    <2>1. Dot(S, first, Unit(S, t)) = first[t]
      BY <1>1, DotUnit
    <2> QED
      BY <2>1 DEF first
  <1>12. q[v][t] = one[t] + Dot(S, qrow, col)
    OBVIOUS
  <1> HIDE DEF col, one, later, rest, qcol, first, qrow
  <1>13. q[v][t] = one[t] + Dot(S, first, qcol)
    BY <1>6, <1>7, <1>8, <1>10, <1>11, <1>12
  <1> QED
    BY <1>13 DEF one, first, qcol

LEMMA FirstStep ==
  ASSUME NEW S, IsFiniteSet(S), NEW m, NEW q, Matrix(S, m), Matrix(S, q),
         \A v, t \in S : ByLast(S, m, q, v, t),
         NEW r, \A x \in S : r[x] \in Int,
         \A u, t \in S : m[u][t] # 0 => r[u] >= 0 /\ r[t] = r[u] + 1
  PROVE  \A v, t \in S : ByFirst(S, m, q, v, t)
  <1> DEFINE C(t) == \A v \in S : ByFirst(S, m, q, v, t)
             A == {k \in Nat : \A t \in S : r[t] <= k => C(t)}
  <1>1. ASSUME NEW t \in S, \A u \in S : m[u][t] # 0 => C(u) PROVE C(t)
    <2>1. ASSUME NEW v \in S PROVE ByFirst(S, m, q, v, t)
      <3>1. \A u \in S : m[u][t] # 0 => ByFirst(S, m, q, v, u)
        BY <1>1
      <3> QED
        BY <3>1, LastStep
    <2> QED
      BY <2>1
  <1> HIDE DEF C
  <1>2. 0 \in A
    <2>1. ASSUME NEW t \in S, r[t] <= 0, NEW u \in S PROVE m[u][t] = 0
      <3>1. r[t] \in Int /\ r[u] \in Int
        OBVIOUS
      <3> QED
        BY <2>1, <3>1
    <2> QED
      BY <1>1, <2>1
  <1>3. ASSUME NEW k \in A PROVE k + 1 \in A
    <2>0. k \in Nat
      OBVIOUS
    <2> SUFFICES ASSUME NEW t \in S, r[t] <= k + 1 PROVE C(t)
      BY <2>0
    <2>1. ASSUME NEW u \in S, m[u][t] # 0 PROVE C(u)
      <3>1. r[t] = r[u] + 1 /\ r[u] \in Int /\ r[t] \in Int
        BY <2>1
      <3>2. r[u] <= k
        BY <2>0, <3>1
      <3> QED
        BY <3>2
    <2> QED
      BY <1>1, <2>1
  <1>4. A = Nat
    <2> HIDE DEF A
    <2>1. A \subseteq Nat
      BY DEF A
    <2> QED
      BY <1>2, <1>3, <2>1, NaturalInduction
  <1>5. ASSUME NEW t \in S PROVE C(t)
    <2>1. r[t] \in Int
      OBVIOUS
    <2>2. PICK k \in Nat : r[t] <= k
      BY <2>1
    <2> QED
      BY <1>4, <2>2
  <1> QED
    BY <1>5 DEF C

(* The sum of the values of the ends of all walks, value by value.         *)
LEMMA Collected ==
  ASSUME NEW S, IsFiniteSet(S), NEW m, NEW q, NEW k,
         Matrix(S, m), Matrix(S, q), Vector(S, k),
         \A v, t \in S : ByFirst(S, m, q, v, t),
         NEW g, TimesColumn(S, q, k, g), NEW v \in S
  PROVE  g[v] = k[v] + Dot(S, m[v], g)
  <1> USE DEF Vector, Matrix, TimesColumn, TimesRow, ByFirst
  <1> DEFINE one == Unit(S, v)
             first == m[v]
             row == q[v]
             cols == [t \in S |-> Dot(S, first, Column(S, q, t))]
  <1>1. \A t \in S : /\ one[t] \in Nat /\ first[t] \in Nat /\ row[t] \in Nat
                     /\ row[t] = one[t] + cols[t]
    BY DEF Unit
  <1>2. \A t \in S : cols[t] \in Nat
    <2> SUFFICES ASSUME NEW t \in S PROVE Dot(S, first, Column(S, q, t)) \in Nat
      OBVIOUS
    <2> DEFINE c == Column(S, q, t)
    <2>1. \A x \in S : c[x] \in Nat
      BY DEF Column
    <2> HIDE DEF c, first
    <2>2. Dot(S, first, c) \in Nat
      BY <1>1, <2>1, DotType
    <2> QED
      BY <2>2 DEF c
  <1>3. \A t \in S : row[t] * k[t] = k[t] * one[t] + k[t] * cols[t]
    <2>1. \A x, y, z \in Nat : (y + z) * x = x * y + x * z
      BY Z3
    <2> HIDE DEF one, first, row, cols
    <2> QED
      BY <1>1, <1>2, <2>1
  <1>4. Dot(S, row, k) = Dot(S, k, one) + Dot(S, k, cols)
    <2> HIDE DEF one, first, row, cols
    <2> QED
      BY <1>1, <1>2, <1>3, DotPlus
  <1>5. Dot(S, k, one) = k[v]
    BY DotUnit
  <1>6. Dot(S, k, cols) = Dot(S, cols, k)
    <2>1. \A p, s \in Nat : p * s = s * p
      BY Z3
    <2> HIDE DEF cols
    <2>2. \A t \in S : k[t] * cols[t] = cols[t] * k[t]
      BY <1>2, <2>1
    <2> QED
      BY <2>2, DotSame
  <1>7. Dot(S, first, g) = Dot(S, cols, k)
    <2>1. \A x, y \in S : q[x][y] \in Nat
      OBVIOUS
    <2>2. \A x \in S : first[x] \in Nat /\ k[x] \in Nat
      BY <1>1
    <2>3. \A x \in S : cols[x] = Dot(S, first, Column(S, q, x))
      OBVIOUS
    <2> HIDE DEF first, cols
    <2>4. Vector(S, first) /\ Vector(S, k) /\ Matrix(S, q)
          /\ TimesColumn(S, q, k, g) /\ TimesRow(S, first, q, cols)
      BY <2>1, <2>2, <2>3
    <2> HIDE DEF Vector, Matrix, TimesColumn, TimesRow
    <2> QED
      BY <2>4, DotAssociates
  <1> HIDE DEF one, cols
  <1> QED
    BY <1>4, <1>5, <1>6, <1>7

=============================================================================
