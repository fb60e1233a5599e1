----------------------------- MODULE SetLemmas -----------------------------
(***************************************************************************)
(* Facts about finite sets that the proofs about the components share:     *)
(* sums over them (SumFunctionOnSet of the community modules), on which    *)
(* the statements about money and credits rest, and their numbers in       *)
(* ascending order.                                                        *)
(*                                                                         *)
(* The induction is over the subsets of a finite set, by their minimal     *)
(* counterexample (WFMin), whose set of counterexamples is a value and not *)
(* a predicate.                                                            *)
(***************************************************************************)
EXTENDS Ordering, Functions, FiniteSetTheorems, SequenceTheorems, TLAPS

\* If some subsets of a finite set are bad, one of them has no bad proper subset.
LEMMA SmallestBad ==
    ASSUME NEW S, IsFiniteSet(S), NEW Bad, Bad \subseteq SUBSET S, Bad # {}
    PROVE  \E T \in Bad : \A U \in Bad : U \subseteq T => U = T
<1>1. IsWellFoundedOn(StrictSubsetOrdering(S), SUBSET S)
  BY FS_StrictSubsetOrderingWellFounded, FS_FiniteSubsetsOfFinite
<1>2. \E T \in Bad : \A U \in Bad : ~ (<<U, T>> \in StrictSubsetOrdering(S))
  BY <1>1, WFMin
<1>. QED
  BY <1>2 DEF StrictSubsetOrdering

\* The element a fold takes first.
First(s) == CHOOSE x \in s : TRUE

\* What a fold looks up for s in its table g of the sums of smaller sets.
Fold(g, f, s) == IF s = {} THEN 0 ELSE f[First(s)] + g[s \ {First(s)}]

\* g is the table of the sums of f over all subsets of S.
Sums(g, f, S) == g = [s \in SUBSET S |-> Fold(g, f, s)]

LEMMA FirstIsIn == ASSUME NEW s, s # {} PROVE First(s) \in s
BY DEF First

LEMMA SumsUnique ==
    ASSUME NEW S, IsFiniteSet(S), NEW f, NEW g, NEW h, Sums(g, f, S), Sums(h, f, S)
    PROVE  g = h
<1>. DEFINE Bad == {T \in SUBSET S : g[T] # h[T]}
<1>1. /\ DOMAIN g = SUBSET S /\ DOMAIN h = SUBSET S
      /\ \A T \in SUBSET S : g[T] = Fold(g, f, T) /\ h[T] = Fold(h, f, T)
      /\ g = [T \in SUBSET S |-> g[T]] /\ h = [T \in SUBSET S |-> h[T]]
  BY DEF Sums
<1>2. Bad = {}
  <2>. SUFFICES ASSUME Bad # {} PROVE FALSE
    OBVIOUS
  <2>1. PICK T \in Bad : \A U \in Bad : U \subseteq T => U = T
    <3>1. Bad \subseteq SUBSET S
      OBVIOUS
    <3>. HIDE DEF Bad
    <3>. QED
      BY <3>1, SmallestBad
  <2>2. CASE T = {}
    BY <1>1, <2>2 DEF Fold
  <2>3. CASE T # {}
    <3>1. First(T) \in T
      BY <2>3, FirstIsIn
    <3>2. T \ {First(T)} \in SUBSET S /\ T \ {First(T)} # T
      BY <3>1
    <3>3. g[T \ {First(T)}] = h[T \ {First(T)}]
      BY <2>1, <3>2
    <3>. QED
      BY <1>1, <2>3, <3>3 DEF Fold
  <2>. QED
    BY <2>2, <2>3
<1>3. \A T \in SUBSET S : g[T] = h[T]
  BY <1>2
<1>. QED
  BY <1>1, <1>3

\* A table of S is, on the subsets of T, the table of T.
LEMMA SumsRestrict ==
    ASSUME NEW S, NEW T \in SUBSET S, NEW f, NEW g, Sums(g, f, S)
    PROVE  Sums([s \in SUBSET T |-> g[s]], f, T)
<1>. DEFINE h == [s \in SUBSET T |-> g[s]]
<1>1. \A s \in SUBSET S : g[s] = Fold(g, f, s)
  BY DEF Sums
<1>2. ASSUME NEW s \in SUBSET T PROVE Fold(g, f, s) = Fold(h, f, s)
  <2>1. s \ {First(s)} \in SUBSET T
    OBVIOUS
  <2>. QED
    BY <2>1 DEF Fold
<1>3. \A s \in SUBSET T : g[s] = Fold(h, f, s)
  BY <1>1, <1>2
<1>4. h = [s \in SUBSET T |-> Fold(h, f, s)]
  BY <1>3
<1>. QED
  BY <1>4 DEF Sums

\* The table the tables of all smaller sets make up.
LEMMA SumsExist ==
    ASSUME NEW S, IsFiniteSet(S), NEW f
    PROVE  \E g : Sums(g, f, S)
<1>. DEFINE Bad == {T \in SUBSET S : ~ \E g : Sums(g, f, T)}
<1>1. Bad = {}
  <2>. SUFFICES ASSUME Bad # {} PROVE FALSE
    OBVIOUS
  <2>1. PICK T \in Bad : \A U \in Bad : U \subseteq T => U = T
    <3>1. Bad \subseteq SUBSET S
      OBVIOUS
    <3>. HIDE DEF Bad
    <3>. QED
      BY <3>1, SmallestBad
  <2>. DEFINE table(U) == CHOOSE g : Sums(g, f, U)
              small == [U \in SUBSET T |-> IF U = T THEN 0 ELSE table(U)[U]]
              h == [U \in SUBSET T |-> Fold(small, f, U)]
  <2>2. ASSUME NEW U \in SUBSET T, U # T
        PROVE  Sums(table(U), f, U)
    <3>1. \E g : Sums(g, f, U)
      BY <2>1, <2>2
    <3>. QED
      BY <3>1
  <2>. HIDE DEF table
  <2>3. ASSUME NEW U \in SUBSET T, NEW V \in SUBSET U, V # T
        PROVE  U # T => small[V] = table(U)[V]
    <3>. SUFFICES ASSUME U # T PROVE small[V] = table(U)[V]
      OBVIOUS
    <3>1. Sums(table(U), f, U) /\ Sums(table(V), f, V)
      BY <2>2, <2>3
    <3>2. Sums([s \in SUBSET V |-> table(U)[s]], f, V)
      <4>1. \A g : Sums(g, f, U) => Sums([s \in SUBSET V |-> g[s]], f, V)
        BY SumsRestrict
      <4>. QED
        BY <3>1, <4>1
    <3>3. IsFiniteSet(V)
      <4>1. T \in SUBSET S
        BY <2>1
      <4>2. V \in SUBSET S
        BY <4>1
      <4>. QED
        BY <4>2, FS_Subset
    <3>4. table(V) = [s \in SUBSET V |-> table(U)[s]]
      BY <3>1, <3>2, <3>3, SumsUnique
    <3>5. table(V)[V] = table(U)[V]
      BY <3>4
    <3>. QED
      BY <2>3, <3>5
  <2>4. ASSUME NEW U \in SUBSET T, U # T
        PROVE  h[U] = small[U]
    <3>1. Sums(table(U), f, U)
      BY <2>2, <2>4
    <3>2. table(U)[U] = Fold(table(U), f, U)
      BY <3>1 DEF Sums
    <3>3. Fold(small, f, U) = Fold(table(U), f, U)
      <4>1. CASE U = {}
        BY <4>1 DEF Fold
      <4>2. CASE U # {}
        <5>1. First(U) \in U
          BY <4>2, FirstIsIn
        <5>2. U \ {First(U)} \in SUBSET U /\ U \ {First(U)} # T
          BY <2>4, <5>1
        <5>3. small[U \ {First(U)}] = table(U)[U \ {First(U)}]
          BY <2>3, <2>4, <5>2
        <5>. QED
          BY <4>2, <5>3 DEF Fold
      <4>. QED
        BY <4>1, <4>2
    <3>. QED
      BY <2>4, <3>2, <3>3
  <2>5. ASSUME NEW U \in SUBSET T PROVE Fold(h, f, U) = Fold(small, f, U)
    <3>1. CASE U = {}
      BY <3>1 DEF Fold
    <3>2. CASE U # {}
      <4>1. First(U) \in U
        BY <3>2, FirstIsIn
      <4>2. U \ {First(U)} \in SUBSET T /\ U \ {First(U)} # T
        BY <4>1
      <4>3. h[U \ {First(U)}] = small[U \ {First(U)}]
        BY <2>4, <4>2
      <4>. QED
        BY <3>2, <4>3 DEF Fold
    <3>. QED
      BY <3>1, <3>2
  <2>6. h = [U \in SUBSET T |-> Fold(h, f, U)]
    <3>1. \A U \in SUBSET T : Fold(h, f, U) = Fold(small, f, U)
      BY <2>5
    <3>. HIDE DEF small
    <3>. QED
      BY <3>1
  <2>7. Sums(h, f, T)
    BY <2>6 DEF Sums
  <2>. QED
    BY <2>1, <2>7
<1>2. S \notin Bad
  BY <1>1
<1>. QED
  BY <1>2

LEMMA SumIsFold ==
    ASSUME NEW f, NEW S, NEW g, IsFiniteSet(S), Sums(g, f, S)
    PROVE  SumFunctionOnSet(f, S) = g[S]
<1>1. SumFunctionOnSet(f, S) = (CHOOSE h : Sums(h, f, S))[S]
  BY Zenon DEF SumFunctionOnSet, FoldFunctionOnSet, MapThenFoldSet, Sums, Fold, First
<1>2. Sums(CHOOSE h : Sums(h, f, S), f, S)
  OBVIOUS
<1>3. (CHOOSE h : Sums(h, f, S)) = g
  BY <1>2, SumsUnique
<1>. QED
  BY <1>1, <1>3

LEMMA SumFirst ==
    ASSUME NEW f, NEW S, IsFiniteSet(S)
    PROVE  SumFunctionOnSet(f, S) =
              IF S = {} THEN 0 ELSE f[First(S)] + SumFunctionOnSet(f, S \ {First(S)})
<1>1. PICK g : Sums(g, f, S)
  BY SumsExist
<1>2. SumFunctionOnSet(f, S) = Fold(g, f, S)
  <2>1. SumFunctionOnSet(f, S) = g[S]
    BY <1>1, SumIsFold
  <2>. QED
    BY <1>1, <2>1 DEF Sums
<1>3. CASE S = {}
  BY <1>2, <1>3 DEF Fold
<1>4. CASE S # {}
  <2>. DEFINE T == S \ {First(S)}
              h == [s \in SUBSET T |-> g[s]]
  <2>1. T \in SUBSET S /\ IsFiniteSet(T)
    BY FS_Subset
  <2>2. Sums(h, f, T)
    BY <1>1, <2>1, SumsRestrict
  <2>. HIDE DEF T
  <2>3. SumFunctionOnSet(f, T) = h[T]
    BY <2>1, <2>2, SumIsFold
  <2>4. SumFunctionOnSet(f, T) = g[T]
    BY <2>3
  <2>. QED
    BY <1>2, <1>4, <2>4 DEF Fold, T
<1>. QED
  BY <1>3, <1>4

-----------------------------------------------------------------------------
LEMMA SumEmpty == ASSUME NEW f PROVE SumFunctionOnSet(f, {}) = 0
BY SumFirst, FS_EmptySet

LEMMA SumInt ==
    ASSUME NEW S, IsFiniteSet(S), NEW f, \A x \in S : f[x] \in Int
    PROVE  SumFunctionOnSet(f, S) \in Int
<1>. DEFINE sum(T) == SumFunctionOnSet(f, T)
            Bad == {T \in SUBSET S : sum(T) \notin Int}
<1>1. \A T \in SUBSET S : sum(T) = IF T = {} THEN 0 ELSE f[First(T)] + sum(T \ {First(T)})
  BY FS_Subset, SumFirst
<1>. HIDE DEF sum
<1>2. Bad = {}
  <2>. SUFFICES ASSUME Bad # {} PROVE FALSE
    OBVIOUS
  <2>1. PICK T \in Bad : \A U \in Bad : U \subseteq T => U = T
    <3>1. Bad \subseteq SUBSET S
      OBVIOUS
    <3>. HIDE DEF Bad
    <3>. QED
      BY <3>1, SmallestBad
  <2>2. T # {} /\ T \in SUBSET S
    <3>1. T \in SUBSET S /\ sum(T) \notin Int
      BY <2>1
    <3>. QED
      BY <1>1, <3>1
  <2>3. First(T) \in T
    BY <2>2, FirstIsIn
  <2>4. sum(T \ {First(T)}) \in Int /\ f[First(T)] \in Int
    BY <2>1, <2>2, <2>3
  <2>. QED
    BY <1>1, <2>2, <2>4
<1>. QED
  BY <1>2 DEF sum

\* A sum of natural numbers is one.
LEMMA SumNat ==
    ASSUME NEW S, IsFiniteSet(S), NEW f, \A x \in S : f[x] \in Nat
    PROVE  SumFunctionOnSet(f, S) \in Nat
<1>. DEFINE sum(T) == SumFunctionOnSet(f, T)
            Bad == {T \in SUBSET S : sum(T) \notin Nat}
<1>1. \A T \in SUBSET S : sum(T) = IF T = {} THEN 0 ELSE f[First(T)] + sum(T \ {First(T)})
  BY FS_Subset, SumFirst
<1>. HIDE DEF sum
<1>2. Bad = {}
  <2>. SUFFICES ASSUME Bad # {} PROVE FALSE
    OBVIOUS
  <2>1. PICK T \in Bad : \A U \in Bad : U \subseteq T => U = T
    <3>1. Bad \subseteq SUBSET S
      OBVIOUS
    <3>. HIDE DEF Bad
    <3>. QED
      BY <3>1, SmallestBad
  <2>2. T # {} /\ T \in SUBSET S
    <3>1. T \in SUBSET S /\ sum(T) \notin Nat
      BY <2>1
    <3>2. 0 \in Nat
      OBVIOUS
    <3>. QED
      BY <1>1, <3>1, <3>2, Zenon
  <2>3. First(T) \in T
    BY <2>2, FirstIsIn
  <2>4. sum(T \ {First(T)}) \in Nat /\ f[First(T)] \in Nat
    BY <2>1, <2>2, <2>3
  <2>. QED
    BY <1>1, <2>2, <2>4
<1>. QED
  BY <1>2 DEF sum

\* A sum of zeros.
LEMMA SumZero ==
    ASSUME NEW S, IsFiniteSet(S), NEW f, \A x \in S : f[x] = 0
    PROVE  SumFunctionOnSet(f, S) = 0
<1>. DEFINE sum(T) == SumFunctionOnSet(f, T)
            Bad == {T \in SUBSET S : sum(T) # 0}
<1>1. \A T \in SUBSET S : sum(T) = IF T = {} THEN 0 ELSE f[First(T)] + sum(T \ {First(T)})
  BY FS_Subset, SumFirst
<1>. HIDE DEF sum
<1>2. Bad = {}
  <2>. SUFFICES ASSUME Bad # {} PROVE FALSE
    OBVIOUS
  <2>1. PICK T \in Bad : \A U \in Bad : U \subseteq T => U = T
    <3>1. Bad \subseteq SUBSET S
      OBVIOUS
    <3>. HIDE DEF Bad
    <3>. QED
      BY <3>1, SmallestBad
  <2>2. T # {} /\ T \in SUBSET S
    <3>1. T \in SUBSET S /\ sum(T) # 0
      BY <2>1
    <3>. QED
      BY <1>1, <3>1
  <2>3. First(T) \in T
    BY <2>2, FirstIsIn
  <2>4. sum(T \ {First(T)}) = 0 /\ f[First(T)] = 0
    BY <2>1, <2>2, <2>3
  <2>. QED
    BY <1>1, <2>2, <2>4
<1>. QED
  BY <1>2 DEF sum

\* The sum of a set is that of the rest and of any one of its elements.
LEMMA SumTake ==
    ASSUME NEW S, IsFiniteSet(S), NEW f, \A x \in S : f[x] \in Int, NEW x \in S
    PROVE  SumFunctionOnSet(f, S) = f[x] + SumFunctionOnSet(f, S \ {x})
<1>. DEFINE sum(T) == SumFunctionOnSet(f, T)
            Bad == {T \in SUBSET S : \E z \in T : sum(T) # f[z] + sum(T \ {z})}
<1>1. \A T \in SUBSET S : /\ sum(T) = IF T = {} THEN 0 ELSE f[First(T)] + sum(T \ {First(T)})
                          /\ sum(T) \in Int
  <2>. SUFFICES ASSUME NEW T \in SUBSET S
                PROVE  /\ sum(T) = IF T = {} THEN 0 ELSE f[First(T)] + sum(T \ {First(T)})
                       /\ sum(T) \in Int
    OBVIOUS
  <2>1. IsFiniteSet(T) /\ \A y \in T : f[y] \in Int
    BY FS_Subset
  <2>. QED
    BY <2>1, SumFirst, SumInt
<1>. HIDE DEF sum
<1>2. Bad = {}
  <2>. SUFFICES ASSUME Bad # {} PROVE FALSE
    OBVIOUS
  <2>1. PICK T \in Bad : \A U \in Bad : U \subseteq T => U = T
    <3>1. Bad \subseteq SUBSET S
      OBVIOUS
    <3>. HIDE DEF Bad
    <3>. QED
      BY <3>1, SmallestBad
  <2>2. PICK z \in T : sum(T) # f[z] + sum(T \ {z})
    OBVIOUS
  <2>3. T \in SUBSET S
    OBVIOUS
  <2>. DEFINE y == First(T)
  <2>4. y \in T
    BY <2>2, FirstIsIn
  <2>5. sum(T) = f[y] + sum(T \ {y})
    BY <1>1, <2>2, <2>3
  <2>. HIDE DEF y
  <2>6. y # z
    BY <2>2, <2>5
  <2>7. ASSUME NEW u \in T, NEW v \in T, u # v
        PROVE  sum(T \ {u}) = f[v] + sum((T \ {u}) \ {v})
    <3>1. T \ {u} \in SUBSET S /\ T \ {u} \subseteq T /\ T \ {u} # T /\ v \in T \ {u}
      BY <2>3, <2>7
    <3>2. T \ {u} \notin Bad
      BY <2>1, <3>1
    <3>. QED
      BY <3>1, <3>2
  <2>8. /\ sum(T \ {y}) = f[z] + sum((T \ {y}) \ {z})
        /\ sum(T \ {z}) = f[y] + sum((T \ {z}) \ {y})
    BY <2>4, <2>6, <2>7
  <2>9. (T \ {y}) \ {z} = (T \ {z}) \ {y}
    OBVIOUS
  <2>10. f[y] \in Int /\ f[z] \in Int /\ sum((T \ {z}) \ {y}) \in Int
    <3>1. (T \ {z}) \ {y} \in SUBSET S /\ y \in S /\ z \in S
      BY <2>2, <2>3, <2>4
    <3>. QED
      BY <1>1, <3>1
  <2>11. \A i, j, k \in Int : i + (j + k) = j + (i + k)
    OBVIOUS
  <2>12. sum(T) = f[y] + (f[z] + sum((T \ {z}) \ {y}))
    BY <2>5, <2>8, <2>9
  <2>13. f[z] + sum(T \ {z}) = f[z] + (f[y] + sum((T \ {z}) \ {y}))
    BY <2>8
  <2>. QED
    BY <2>2, <2>10, <2>11, <2>12, <2>13
<1>. QED
  BY <1>2 DEF sum

\* The sum of a set with one more element.
LEMMA SumAdd ==
    ASSUME NEW S, IsFiniteSet(S), NEW f, NEW x, x \notin S,
           \A y \in S \cup {x} : f[y] \in Int
    PROVE  SumFunctionOnSet(f, S \cup {x}) = SumFunctionOnSet(f, S) + f[x]
<1>1. IsFiniteSet(S \cup {x}) /\ (S \cup {x}) \ {x} = S
  BY FS_AddElement
<1>2. SumFunctionOnSet(f, S \cup {x}) = f[x] + SumFunctionOnSet(f, S)
  BY <1>1, SumTake
<1>3. SumFunctionOnSet(f, S) \in Int /\ f[x] \in Int
  BY SumInt
<1>. QED
  BY <1>2, <1>3

\* Functions that agree on a set have one sum over it.
LEMMA SumSame ==
    ASSUME NEW S, IsFiniteSet(S), NEW f, NEW g, \A x \in S : f[x] = g[x]
    PROVE  SumFunctionOnSet(f, S) = SumFunctionOnSet(g, S)
<1>1. PICK h : Sums(h, f, S)
  BY SumsExist
<1>2. \A s \in SUBSET S : Fold(h, f, s) = Fold(h, g, s)
  <2>. SUFFICES ASSUME NEW s \in SUBSET S PROVE Fold(h, f, s) = Fold(h, g, s)
    OBVIOUS
  <2>1. s # {} => f[First(s)] = g[First(s)]
    BY FirstIsIn
  <2>. QED
    BY <2>1 DEF Fold
<1>3. Sums(h, g, S)
  BY <1>1, <1>2 DEF Sums
<1>. QED
  BY <1>1, <1>3, SumIsFold

\* A function changed at one point of the set.
LEMMA SumChange ==
    ASSUME NEW S, IsFiniteSet(S), NEW f, NEW g, NEW x \in S,
           \A y \in S : f[y] \in Int, g[x] \in Int, \A y \in S \ {x} : g[y] = f[y]
    PROVE  SumFunctionOnSet(g, S) = SumFunctionOnSet(f, S) - f[x] + g[x]
<1>1. IsFiniteSet(S \ {x}) /\ \A y \in S : g[y] \in Int
  BY FS_RemoveElement
<1>2. /\ SumFunctionOnSet(f, S) = f[x] + SumFunctionOnSet(f, S \ {x})
      /\ SumFunctionOnSet(g, S) = g[x] + SumFunctionOnSet(g, S \ {x})
  BY <1>1, SumTake
<1>3. SumFunctionOnSet(g, S \ {x}) = SumFunctionOnSet(f, S \ {x})
  BY <1>1, SumSame
<1>4. SumFunctionOnSet(f, S \ {x}) \in Int
  BY <1>1, SumInt
<1>. QED
  BY <1>1, <1>2, <1>3, <1>4
-----------------------------------------------------------------------------
\* The number of elements below grows with the element.
LEMMA RankGrows ==
    ASSUME NEW S \in SUBSET Int, IsFiniteSet(S), NEW d \in S
    PROVE  /\ IsFiniteSet(Below(S, d)) /\ Cardinality(Below(S, d)) \in 0..(Cardinality(S) - 1)
           /\ \A e \in S : d < e => Cardinality(Below(S, d)) < Cardinality(Below(S, e))
<1>1. \A T \in SUBSET S : IsFiniteSet(T) /\ Cardinality(T) \in Nat
  BY FS_Subset, FS_CardinalityType
<1>2. ASSUME NEW T \in SUBSET S, d \in T, Below(S, d) \subseteq T
      PROVE  Cardinality(Below(S, d)) < Cardinality(T)
  <2>1. Below(S, d) \in SUBSET T /\ d \notin Below(S, d)
    BY <1>2 DEF Below
  <2>2. IsFiniteSet(T)
    BY <1>1
  <2>3. /\ Cardinality(Below(S, d)) <= Cardinality(T)
        /\ Cardinality(T) = Cardinality(Below(S, d)) => T = Below(S, d)
    BY <2>1, <2>2, FS_Subset
  <2>4. Cardinality(T) \in Nat /\ Cardinality(Below(S, d)) \in Nat
    BY <1>1 DEF Below
  <2>. QED
    BY <1>2, <2>1, <2>3, <2>4
<1>3. Cardinality(Below(S, d)) \in 0..(Cardinality(S) - 1)
  <2>1. Cardinality(Below(S, d)) < Cardinality(S)
    BY <1>2 DEF Below
  <2>2. Cardinality(S) \in Nat /\ Cardinality(Below(S, d)) \in Nat
    BY <1>1 DEF Below
  <2>. QED
    BY <2>1, <2>2
<1>4. ASSUME NEW e \in S, d < e PROVE Cardinality(Below(S, d)) < Cardinality(Below(S, e))
  <2>0. \A x, y, z \in Int : x < y /\ y < z => x < z
    OBVIOUS
  <2>1. Below(S, e) \in SUBSET S /\ d \in Below(S, e) /\ Below(S, d) \subseteq Below(S, e)
    <3>1. d \in Int /\ e \in Int /\ S \subseteq Int
      OBVIOUS
    <3>. QED
      BY <1>4, <2>0, <3>1 DEF Below
  <2>. QED
    BY <1>2, <2>1
<1>. QED
  BY <1>1, <1>3, <1>4 DEF Below

\* Each rank is that of one number.
LEMMA RanksTaken ==
    ASSUME NEW S \in SUBSET Int, IsFiniteSet(S), NEW k \in 0..(Cardinality(S) - 1)
    PROVE  \E d \in S : Cardinality(Below(S, d)) = k
<1>. DEFINE n == Cardinality(S)
            rank == [d \in S |-> Cardinality(Below(S, d))]
<1>1. n \in Nat
  BY FS_CardinalityType
<1>2. rank \in [S -> 0..(n - 1)]
  BY RankGrows
<1>3. \A d, e \in S : rank[d] = rank[e] => d = e
  <2>. SUFFICES ASSUME NEW d \in S, NEW e \in S, rank[d] = rank[e] PROVE d = e
    OBVIOUS
  <2>1. d < e \/ e < d \/ d = e
    OBVIOUS
  <2>2. ~(d < e) /\ ~(e < d)
    <3>1. rank[d] = Cardinality(Below(S, d)) /\ rank[e] = Cardinality(Below(S, e))
      OBVIOUS
    <3>2. rank[d] \in Int /\ rank[e] \in Int
      BY <1>2
    <3>. QED
      BY <3>1, <3>2, RankGrows
  <2>. QED
    BY <2>1, <2>2
<1>4. IsFiniteSet(0..(n - 1)) /\ Cardinality(0..(n - 1)) = n
  <2>1. 0 \in Int /\ n - 1 \in Int
    BY <1>1
  <2>2. /\ IsFiniteSet(0..(n - 1))
        /\ Cardinality(0..(n - 1)) = IF 0 > n - 1 THEN 0 ELSE (n - 1) - 0 + 1
    BY <2>1, FS_Interval
  <2>. QED
    BY <1>1, <2>2
<1>. HIDE DEF rank
<1>5. rank \in Injection(S, 0..(n - 1))
  BY <1>2, <1>3 DEF Injection, IsInjective
<1>6. rank \in Surjection(S, 0..(n - 1))
  <2>1. IsFiniteSet(S) /\ IsFiniteSet(0..(n - 1)) /\ Cardinality(0..(n - 1)) = Cardinality(S)
    BY <1>4
  <2>. HIDE DEF n
  <2>. QED
    BY <1>5, <2>1, FS_Injection
<1>7. \E d \in S : rank[d] = k
  BY <1>6 DEF Surjection
<1>. QED
  BY <1>7 DEF rank

\* What Ascending is: the numbers of S, each once, and growing.
LEMMA AscendingIs ==
    ASSUME NEW S \in SUBSET Int, IsFiniteSet(S)
    PROVE  /\ Cardinality(S) \in Nat
           /\ Ascending(S) \in [1..Cardinality(S) -> S]
           /\ \A i \in 1..Cardinality(S) : Cardinality(Below(S, Ascending(S)[i])) = i - 1
           /\ \A i, j \in 1..Cardinality(S) : i < j => Ascending(S)[i] < Ascending(S)[j]
           /\ \A d \in S : \E i \in 1..Cardinality(S) : Ascending(S)[i] = d
<1>. DEFINE n == Cardinality(S)
            q == Ascending(S)
<1>1. n \in Nat
  BY FS_CardinalityType
<1>2. ASSUME NEW i \in 1..n
      PROVE  q[i] \in S /\ Cardinality(Below(S, q[i])) = i - 1
  <2>1. i - 1 \in 0..(n - 1)
    BY <1>1
  <2>2. \E d \in S : Cardinality(Below(S, d)) = i - 1
    BY <2>1, RanksTaken
  <2>3. q[i] = CHOOSE d \in S : Cardinality(Below(S, d)) = i - 1
    BY DEF Ascending
  <2>. QED
    BY <2>2, <2>3
<1>3. q = [i \in 1..n |-> q[i]]
  BY DEF Ascending
<1>. HIDE DEF q
<1>4. ASSUME NEW d \in S, NEW e \in S, d # e
      PROVE  Cardinality(Below(S, d)) # Cardinality(Below(S, e))
  <2>1. d < e \/ e < d
    BY <1>4
  <2>2. /\ Cardinality(Below(S, d)) \in Int /\ Cardinality(Below(S, e)) \in Int
        /\ d < e => Cardinality(Below(S, d)) < Cardinality(Below(S, e))
        /\ e < d => Cardinality(Below(S, e)) < Cardinality(Below(S, d))
    BY RankGrows
  <2>. QED
    BY <2>1, <2>2
<1>5. ASSUME NEW i \in 1..n, NEW j \in 1..n, i < j PROVE q[i] < q[j]
  <2>1. /\ q[i] \in S /\ Cardinality(Below(S, q[i])) = i - 1
        /\ q[j] \in S /\ Cardinality(Below(S, q[j])) = j - 1
    BY <1>2
  <2>2. q[i] < q[j] \/ q[j] < q[i] \/ q[i] = q[j]
    <3>1. q[i] \in Int /\ q[j] \in Int
      BY <2>1
    <3>. QED
      BY <3>1
  <2>3. ~(j - 1 < i - 1) /\ i - 1 # j - 1
    BY <1>5
  <2>4. q[j] < q[i] => Cardinality(Below(S, q[j])) < Cardinality(Below(S, q[i]))
    BY <2>1, RankGrows
  <2>. QED
    BY <2>1, <2>2, <2>3, <2>4
<1>6. ASSUME NEW d \in S PROVE \E i \in 1..n : q[i] = d
  <2>. DEFINE k == Cardinality(Below(S, d))
  <2>1. k \in 0..(n - 1)
    BY RankGrows
  <2>. HIDE DEF k
  <2>2. k + 1 \in 1..n /\ (k + 1) - 1 = k
    BY <1>1, <2>1
  <2>3. q[k + 1] \in S /\ Cardinality(Below(S, q[k + 1])) = k
    BY <1>2, <2>2
  <2>4. q[k + 1] = d
    BY <1>4, <2>3 DEF k
  <2>. QED
    BY <2>2, <2>4
<1>. QED
  BY <1>1, <1>2, <1>3, <1>5, <1>6 DEF q

\* And there is no other such sequence.
LEMMA AscendingOnly ==
    ASSUME NEW S \in SUBSET Int, NEW n \in Nat, NEW q \in [1..n -> S],
           \A i, j \in 1..n : i < j => q[i] < q[j],
           \A d \in S : \E i \in 1..n : q[i] = d
    PROVE  /\ IsFiniteSet(S) /\ Cardinality(S) = n
           /\ q = Ascending(S)
<1>1. \A i, j \in 1..n : q[i] = q[j] => i = j
  <2>. SUFFICES ASSUME NEW i \in 1..n, NEW j \in 1..n, q[i] = q[j] PROVE i = j
    OBVIOUS
  <2>1. i < j \/ j < i \/ i = j
    OBVIOUS
  <2>2. q[i] \in Int /\ q[j] \in Int
    OBVIOUS
  <2>. QED
    BY <2>1, <2>2
<1>2. IsFiniteSet(S) /\ Cardinality(S) = n
  <2>1. IsFiniteSet(1..n) /\ Cardinality(1..n) = n
    BY FS_Interval
  <2>2. q \in Injection(1..n, S) /\ q \in Surjection(1..n, S)
    BY <1>1 DEF Injection, Surjection, IsInjective
  <2>. QED
    BY <2>1, <2>2, FS_Surjection
<1>3. ASSUME NEW i \in 1..n PROVE Cardinality(Below(S, q[i])) = i - 1
  <2>1. Below(S, q[i]) = {q[j] : j \in 1..(i - 1)}
    <3>1. ASSUME NEW d \in S, d < q[i] PROVE \E j \in 1..(i - 1) : d = q[j]
      <4>1. PICK j \in 1..n : q[j] = d
        OBVIOUS
      <4>2. ~(i < j) /\ i # j
        <5>1. q[i] \in Int /\ q[j] \in Int
          OBVIOUS
        <5>. QED
          BY <3>1, <4>1, <5>1
      <4>3. j \in 1..(i - 1)
        BY <4>2
      <4>. QED
        BY <4>1, <4>3
    <3>2. ASSUME NEW j \in 1..(i - 1) PROVE q[j] \in S /\ q[j] < q[i]
      <4>1. j \in 1..n /\ j < i
        OBVIOUS
      <4>. QED
        BY <4>1
    <3>. QED
      BY <3>1, <3>2 DEF Below
  <2>. DEFINE m == i - 1
              T == {q[j] : j \in 1..m}
              r == [j \in 1..m |-> q[j]]
  <2>2. m \in Nat /\ 1..m \subseteq 1..n
    OBVIOUS
  <2>3. r \in Injection(1..m, T) /\ r \in Surjection(1..m, T)
    <3>1. r \in [1..m -> T] /\ \A j \in 1..m : r[j] = q[j]
      OBVIOUS
    <3>2. \A j, k \in 1..m : r[j] = r[k] => j = k
      BY <1>1, <2>2
    <3>3. \A t \in T : \E j \in 1..m : r[j] = t
      OBVIOUS
    <3>. HIDE DEF r, T, m
    <3>. QED
      BY <3>1, <3>2, <3>3 DEF Injection, Surjection, IsInjective
  <2>. HIDE DEF m
  <2>4. IsFiniteSet(1..m) /\ Cardinality(1..m) = m
    BY <2>2, FS_Interval
  <2>. HIDE DEF r, T
  <2>5. Cardinality(T) = m
    BY <2>3, <2>4, FS_Surjection
  <2>. QED
    BY <2>1, <2>5 DEF T, m
<1>4. ASSUME NEW i \in 1..n PROVE q[i] = Ascending(S)[i]
  <2>. DEFINE d == q[i]
              e == Ascending(S)[i]
  <2>1. d \in S /\ e \in S /\ Cardinality(Below(S, d)) = i - 1 /\ Cardinality(Below(S, e)) = i - 1
    BY <1>2, <1>3, AscendingIs
  <2>. HIDE DEF d, e
  <2>2. d < e \/ e < d \/ d = e
    BY <2>1
  <2>3. /\ d < e => Cardinality(Below(S, d)) < Cardinality(Below(S, e))
        /\ e < d => Cardinality(Below(S, e)) < Cardinality(Below(S, d))
    BY <1>2, <2>1, RankGrows
  <2>4. ~(i - 1 < i - 1)
    OBVIOUS
  <2>5. d = e
    BY <2>1, <2>2, <2>3, <2>4
  <2>. QED
    BY <2>5 DEF d, e
<1>5. Ascending(S) = [i \in 1..n |-> Ascending(S)[i]]
  BY <1>2 DEF Ascending
<1>. QED
  BY <1>2, <1>4, <1>5

\* A finite set of numbers has a largest one.
LEMMA LargestIs ==
    ASSUME NEW S \in SUBSET Int, IsFiniteSet(S), S # {}
    PROVE  \E x \in S : \A y \in S : x >= y
<1>. DEFINE n == Cardinality(S)
            q == Ascending(S)
<1>1. /\ n \in Nat /\ q \in [1..n -> S]
      /\ \A i, j \in 1..n : i < j => q[i] < q[j]
      /\ \A d \in S : \E i \in 1..n : q[i] = d
  BY AscendingIs
<1>. HIDE DEF n, q
<1>2. n \in 1..n
  <2>1. \E i \in 1..n : TRUE
    BY <1>1
  <2>. QED
    BY <1>1, <2>1
<1>3. ASSUME NEW i \in 1..n PROVE q[n] >= q[i]
  <2>1. i < n \/ i = n
    BY <1>1
  <2>2. q[i] \in Int /\ q[n] \in Int /\ (i < n => q[i] < q[n])
    BY <1>1, <1>2
  <2>. QED
    BY <2>1, <2>2
<1>4. \A y \in S : q[n] >= y
  BY <1>1, <1>3
<1>. QED
  BY <1>1, <1>2, <1>4

\* A filter leaves a sequence that is not longer, of the elements it takes.
LEMMA TakenIs ==
    ASSUME NEW T, NEW s \in Seq(T), NEW S \in SUBSET DOMAIN s
    PROVE  /\ Taken(s, S) \in Seq(T) /\ Len(Taken(s, S)) = Cardinality(S)
           /\ Len(Taken(s, S)) <= Len(s)
           /\ \A i \in DOMAIN Taken(s, S) : \E j \in S : Taken(s, S)[i] = s[j]
           /\ \A j \in S : \E i \in DOMAIN Taken(s, S) : Taken(s, S)[i] = s[j]
<1>. DEFINE n == Cardinality(S)
            q == Ascending(S)
<1>1. DOMAIN s = 1..Len(s) /\ Len(s) \in Nat /\ \A j \in DOMAIN s : s[j] \in T
  BY ElementOfSeq, LenProperties
<1>2. IsFiniteSet(1..Len(s)) /\ Cardinality(1..Len(s)) = Len(s)
  <2>1. ASSUME NEW k \in Nat PROVE IsFiniteSet(1..k) /\ Cardinality(1..k) = k
    <3>1. /\ IsFiniteSet(1..k)
          /\ Cardinality(1..k) = IF 1 > k THEN 0 ELSE k - 1 + 1
      BY FS_Interval
    <3>. QED
      BY <3>1
  <2>. QED
    BY <1>1, <2>1
<1>3. IsFiniteSet(S) /\ n <= Len(s) /\ S \in SUBSET Int
  BY <1>1, <1>2, FS_Subset
<1>4. n \in Nat /\ q \in [1..n -> S] /\ \A j \in S : \E i \in 1..n : q[i] = j
  BY <1>3, AscendingIs
<1>5. Taken(s, S) = [i \in 1..n |-> s[q[i]]]
  BY DEF Taken
<1>. HIDE DEF n, q
<1>6. \A i \in 1..n : q[i] \in S /\ s[q[i]] \in T
  BY <1>1, <1>4
<1>7. Taken(s, S) \in [1..n -> T]
  BY <1>5, <1>6
<1>8. Taken(s, S) \in Seq(T) /\ Len(Taken(s, S)) = n /\ DOMAIN Taken(s, S) = 1..n
  BY <1>4, <1>7, SeqDef, LenProperties
<1>9. \A i \in 1..n : Taken(s, S)[i] = s[q[i]]
  BY <1>5
<1>10. \A j \in S : \E i \in 1..n : Taken(s, S)[i] = s[j]
  BY <1>4, <1>9, ZenonT(60)
<1>11. \A i \in 1..n : \E j \in S : Taken(s, S)[i] = s[j]
  BY <1>6, <1>9, Zenon
<1>. QED
  BY <1>3, <1>8, <1>10, <1>11, Zenon DEF n

=============================================================================
