------------------------- MODULE OutputFilesProofs -------------------------
(***************************************************************************)
(* Proofs about OutputFiles, for every tree of outputs, every sequence of  *)
(* changes a surviving process makes to it, and every pair of limits.      *)
(*                                                                         *)
(* CollectInv says how much has been counted and where the collection is;  *)
(* it holds whatever the other process does, and gives the limits, the     *)
(* memory and the refusal of links.  QuietInv says what has been seen of a *)
(* tree nobody has touched, and gives the exact result.  Both speak of     *)
(* sums of sizes and of ancestors, which are defined by recursion: what    *)
(* they need of these is proved first, by looking at a least               *)
(* counterexample.                                                         *)
(***************************************************************************)
EXTENDS OutputFiles, FiniteSetTheorems, WellFoundedInduction, TLAPS

-----------------------------------------------------------------------------
(* Least elements: how facts about recursive definitions are proved here,  *)
(* by looking at a least counterexample.                                   *)

\* Every set of naturals that is not empty has a least element.
LEMMA Least ==
    ASSUME NEW S \in SUBSET Nat, S # {}
    PROVE  \E x \in S : \A y \in S : x <= y
<1> DEFINE R == OpToRel(<, Nat)
<1>1. IsWellFoundedOn(R, Nat)
  BY NatLessThanWellFounded
<1>2. \A x, y \in Nat : <<y, x>> \in R <=> y < x
  BY DEF OpToRel
<1> HIDE DEF R
<1>3. PICK x \in S : \A y \in S : ~ (<<y, x>> \in R)
  BY <1>1, WFMin
<1>4. \A y \in S : ~ (y < x)
  BY <1>2, <1>3, Zenon
<1>5. \A y \in S : x <= y
  BY <1>4
<1> QED
  BY <1>5

\* So Min is what it should be.
LEMMA MinIsLeast ==
    ASSUME NEW S \in SUBSET Nat, S # {}
    PROVE  Min(S) \in S /\ \A y \in S : Min(S) <= y
  BY Least DEF Min

-----------------------------------------------------------------------------
(* Ancestors.                                                              *)

\* The sets of directories that hold the parent of n and, with a directory, its
\* parent.
UpFrom(n) == {S \in SUBSET AllNodes :
                 /\ n # Outputs => Parent[n] \in S
                 /\ \A k \in S : k # Outputs => Parent[k] \in S}

\* The nodes are numbers.
LEMMA NodesAreNumbers == AllNodes \subseteq Nat
  BY OutputAssumption DEF AllNodes, Outputs

\* Ancestors satisfies its equation: the least of these sets are a solution.
LEMMA AncestorsEquation ==
    /\ Ancestors \in [AllNodes -> SUBSET AllNodes]
    /\ Ancestors[Outputs] = {}
    /\ \A n \in Nodes : Ancestors[n] = Ancestors[Parent[n]] \cup {Parent[n]}
<1> DEFINE g == [n \in AllNodes |-> {m \in AllNodes : \A S \in UpFrom(n) : m \in S}]
           Body(f) == [n \in AllNodes |-> IF n = Outputs THEN {}
                                          ELSE f[Parent[n]] \cup {Parent[n]}]
<1>1. /\ Outputs \in AllNodes /\ Outputs \notin Nodes
      /\ \A n \in AllNodes : n # Outputs => n \in Nodes /\ Parent[n] \in AllNodes
  BY OutputAssumption DEF AllNodes, Outputs
<1>2. g[Outputs] = {}
  <2>1. {} \in UpFrom(Outputs)
    BY DEF UpFrom
  <2> QED
    BY <1>1, <2>1
<1>3. ASSUME NEW n \in Nodes
      PROVE  g[n] = g[Parent[n]] \cup {Parent[n]}
  <2> DEFINE p == Parent[n]
  <2>1. n \in AllNodes /\ n # Outputs /\ p \in AllNodes
    BY <1>1, <1>3 DEF AllNodes
  <2>2. p \in g[n]
    BY <2>1 DEF UpFrom
  <2>3. UpFrom(n) \subseteq UpFrom(p)
    BY <2>1 DEF UpFrom
  <2>4. g[p] \subseteq g[n]
    BY <2>1, <2>3
  <2>5. g[p] \cup {p} \in UpFrom(n)
    <3>1. ASSUME NEW k \in g[p], k # Outputs
          PROVE  Parent[k] \in g[p]
      BY <1>1, <2>1, <3>1 DEF UpFrom
    <3>2. p # Outputs => Parent[p] \in g[p]
      BY <1>1, <2>1 DEF UpFrom
    <3>3. g[p] \cup {p} \in SUBSET AllNodes
      BY <2>1
    <3> QED
      BY <3>1, <3>2, <3>3 DEF UpFrom
  <2>6. g[n] \subseteq g[p] \cup {p}
    BY <2>1, <2>5
  <2> QED
    BY <2>2, <2>4, <2>6
<1>4. g = Body(g)
  BY <1>1, <1>2, <1>3
<1>5. Ancestors = CHOOSE f : f = Body(f)
  BY DEF Ancestors
<1> HIDE DEF g, Body
<1>6. Ancestors = Body(Ancestors)
  BY <1>4, <1>5
<1>7. /\ Ancestors = [n \in AllNodes |-> Ancestors[n]]
      /\ Ancestors[Outputs] = {}
      /\ \A n \in Nodes : Ancestors[n] = Ancestors[Parent[n]] \cup {Parent[n]}
  <2>1. ASSUME NEW f, f = Body(f)
        PROVE  /\ f = [n \in AllNodes |-> f[n]]
               /\ f[Outputs] = {}
               /\ \A n \in Nodes : f[n] = f[Parent[n]] \cup {Parent[n]}
    <3>1. \A n \in AllNodes : f[n] = IF n = Outputs THEN {} ELSE f[Parent[n]] \cup {Parent[n]}
      BY <2>1 DEF Body
    <3>2. f = [n \in AllNodes |-> f[n]]
      BY <2>1 DEF Body
    <3> QED
      BY <1>1, <3>1, <3>2 DEF AllNodes
  <2> QED
    BY <1>6, <2>1
<1>8. \A n \in AllNodes : Ancestors[n] \in SUBSET AllNodes
  <2> DEFINE T == {n \in AllNodes : Ancestors[n] \notin SUBSET AllNodes}
  <2>1. T \in SUBSET Nat
    BY NodesAreNumbers
  <2>2. ASSUME T # {}
        PROVE  FALSE
    <3>1. PICK n \in T : \A y \in T : n <= y
      BY <2>1, <2>2, Least
    <3>2. n \in Nodes
      BY <1>1, <1>7, <3>1
    <3>3. Parent[n] \in AllNodes /\ Parent[n] \notin T
      BY <1>1, <2>1, <3>1, <3>2, OutputAssumption DEF AllNodes, Outputs
    <3> QED
      BY <1>7, <3>1, <3>2, <3>3
  <2> QED
    BY <2>2
<1> QED
  BY <1>7, <1>8

\* Every path begins at outputs; an ancestor has a smaller number, is the parent of a
\* node on the path, and its own ancestors are on the path too.
LEMMA AncestorFacts ==
    ASSUME NEW n \in AllNodes
    PROVE  /\ n \in Nodes => Outputs \in Ancestors[n]
           /\ \A a \in Ancestors[n] : a \in AllNodes /\ a < n
           /\ \A a \in Ancestors[n] : \E k \in PathOf(n) \ {Outputs} : Parent[k] = a
           /\ \A a \in Ancestors[n] : Ancestors[a] \subseteq Ancestors[n]
<1> DEFINE P(m) == /\ m \in Nodes => Outputs \in Ancestors[m]
                   /\ \A a \in Ancestors[m] : a \in AllNodes /\ a < m
                   /\ \A a \in Ancestors[m] : \E k \in PathOf(m) \ {Outputs} : Parent[k] = a
                   /\ \A a \in Ancestors[m] : Ancestors[a] \subseteq Ancestors[m]
           T == {m \in AllNodes : ~ P(m)}
<1>1. T \in SUBSET Nat
  BY NodesAreNumbers
<1>2. ASSUME T # {}
      PROVE  FALSE
  <2>1. PICK m \in T : \A y \in T : m <= y
    BY <1>1, <1>2, Least
  <2>2. P(Outputs)
    BY AncestorsEquation, OutputAssumption DEF Outputs
  <2>3. m \in Nodes
    BY <2>1, <2>2 DEF AllNodes
  <2> DEFINE p == Parent[m]
  <2>4. p \in AllNodes /\ p < m /\ m # Outputs
    BY <2>3, OutputAssumption DEF Outputs
  <2>5. p \in Nat /\ m \in Nat
    BY <2>3, <2>4, NodesAreNumbers DEF AllNodes
  <2>6. P(p)
    BY <1>1, <2>1, <2>4, <2>5
  <2>7. Ancestors[m] = Ancestors[p] \cup {p}
    BY <2>3, AncestorsEquation
  <2>8. Outputs \in Ancestors[m]
    BY <2>4, <2>6, <2>7 DEF AllNodes
  <2>9. \A a \in Ancestors[m] : a \in AllNodes /\ a < m
    <3>1. \A a \in Ancestors[p] : a \in AllNodes /\ a < p /\ a \in Nat
      BY <2>6, NodesAreNumbers
    <3> QED
      BY <2>4, <2>5, <2>7, <3>1
  <2>10. \A a \in Ancestors[m] : \E k \in PathOf(m) \ {Outputs} : Parent[k] = a
    BY <2>4, <2>6, <2>7 DEF PathOf
  <2>11. \A a \in Ancestors[m] : Ancestors[a] \subseteq Ancestors[m]
    BY <2>6, <2>7
  <2> QED
    BY <2>1, <2>8, <2>9, <2>10, <2>11
<1> QED
  BY <1>2

-----------------------------------------------------------------------------
(* Sums over finite sets.  MapThenSumSet adds the values up in the order   *)
(* in which CHOOSE picks the elements; the order is of no consequence.     *)

One(T) == CHOOSE x \in T : TRUE

\* What MapThenSumSet computes for a subset, from what it computes without One of it.
Sums(g, h, T) == h[T] = IF T = {} THEN 0 ELSE g[One(T)] + h[T \ {One(T)}]

IsSum(g, S, h) == /\ h = [T \in SUBSET S |-> h[T]]
                  /\ \A T \in SUBSET S : Sums(g, h, T)

\* Taking one element out of a finite set.
LEMMA OneLess ==
    ASSUME NEW S, IsFiniteSet(S), NEW T \in SUBSET S, NEW x \in T
    PROVE  /\ T \ {x} \in SUBSET S
           /\ Cardinality(T) \in Nat /\ Cardinality(T \ {x}) \in Nat
           /\ Cardinality(T \ {x}) = Cardinality(T) - 1
<1>1. IsFiniteSet(T)
  BY FS_Subset
<1> QED
  BY <1>1, FS_CardinalityType, FS_RemoveElement

\* The recursion has a solution.
LEMMA SumExists ==
    ASSUME NEW S, IsFiniteSet(S), NEW g \in [S -> Nat]
    PROVE  \E h \in [SUBSET S -> Nat] : IsSum(g, S, h)
<1> DEFINE Part(n) == {T \in SUBSET S : Cardinality(T) <= n}
           Good(n) == \E h \in [Part(n) -> Nat] : \A T \in Part(n) : Sums(g, h, T)
           B == {n \in Nat : ~ Good(n)}
<1>1. \A T \in SUBSET S : Cardinality(T) \in Nat /\ (Cardinality(T) = 0 <=> T = {})
  BY FS_Subset, FS_CardinalityType, FS_EmptySet
<1>2. \A T \in SUBSET S : T # {} => One(T) \in T
  BY DEF One
<1>3. Good(0)
  <2> DEFINE h == [T \in Part(0) |-> 0]
  <2>1. \A T \in Part(0) : T = {}
    BY <1>1
  <2>2. \A T \in Part(0) : Sums(g, h, T)
    BY <2>1 DEF Sums
  <2>3. h \in [Part(0) -> Nat]
    OBVIOUS
  <2> QED
    BY <2>2, <2>3
<1>4. ASSUME NEW n \in Nat, Good(n)
      PROVE  Good(n + 1)
  <2>1. PICK h \in [Part(n) -> Nat] : \A T \in Part(n) : Sums(g, h, T)
    BY <1>4
  <2> DEFINE k == [T \in Part(n + 1) |-> IF T = {} THEN 0 ELSE g[One(T)] + h[T \ {One(T)}]]
  <2>2. ASSUME NEW T \in Part(n + 1), T # {}
        PROVE  One(T) \in S /\ T \ {One(T)} \in Part(n)
    BY <1>2, <2>2, OneLess
  <2>3. k \in [Part(n + 1) -> Nat]
    BY <2>2
  <2>4. Part(n) \subseteq Part(n + 1)
    BY <1>1
  <2>5. \A T \in Part(n) : k[T] = h[T]
    BY <2>1, <2>4 DEF Sums
  <2>6. \A T \in Part(n + 1) : Sums(g, k, T)
    BY <2>2, <2>5 DEF Sums
  <2> QED
    BY <2>3, <2>6
<1> HIDE DEF Good
<1>5. \A n \in Nat : Good(n)
  <2> SUFFICES ASSUME B # {} PROVE FALSE
    OBVIOUS
  <2>1. PICK n \in B : \A y \in B : n <= y
    BY Least
  <2>2. n # 0 /\ n \in Nat
    BY <1>3, <2>1
  <2>3. n - 1 \in Nat /\ n - 1 \notin B
    BY <2>1, <2>2
  <2>4. Good((n - 1) + 1)
    BY <1>4, <2>3
  <2> QED
    BY <2>1, <2>2, <2>4
<1>6. Part(Cardinality(S)) = SUBSET S
  BY FS_Subset
<1>7. Good(Cardinality(S))
  BY <1>1, <1>5
<1>8. PICK h \in [Part(Cardinality(S)) -> Nat] :
        \A T \in Part(Cardinality(S)) : Sums(g, h, T)
  BY <1>7 DEF Good
<1> HIDE DEF Part
<1>9. h \in [SUBSET S -> Nat] /\ \A T \in SUBSET S : Sums(g, h, T)
  BY <1>6, <1>8
<1> QED
  BY <1>9 DEF IsSum

\* Any element may be the one that is added last.
Splits(g, S, h) == /\ h[{}] = 0
                   /\ \A T \in SUBSET S : h[T] \in Nat
                   /\ \A T \in SUBSET S : \A x \in T : h[T] = g[x] + h[T \ {x}]

\* So it is in every sum: the order does not matter.
LEMMA SumSplits ==
    ASSUME NEW S, IsFiniteSet(S), NEW g \in [S -> Nat], NEW h, IsSum(g, S, h)
    PROVE  Splits(g, S, h)
<1> DEFINE P(T) == h[T] \in Nat /\ \A x \in T : h[T] = g[x] + h[T \ {x}]
           B == {n \in Nat : \E T \in SUBSET S : Cardinality(T) = n /\ ~ P(T)}
<1>1. \A T \in SUBSET S : Sums(g, h, T)
  BY DEF IsSum
<1>2. h[{}] = 0
  BY <1>1 DEF Sums
<1>3. ASSUME B # {}
      PROVE  FALSE
  <2>1. PICK n \in B : \A y \in B : n <= y
    BY <1>3, Least
  <2>2. PICK T \in SUBSET S : Cardinality(T) = n /\ ~ P(T)
    BY <2>1
  <2>3. ASSUME NEW x \in T
        PROVE  T \ {x} \in SUBSET S /\ P(T \ {x})
    <3>1. Cardinality(T) = n
      BY <2>2
    <3>2. T \ {x} \in SUBSET S /\ Cardinality(T \ {x}) = n - 1 /\ n - 1 \in Nat
      <4> HIDE DEF P, B
      <4> QED
        BY <3>1, OneLess
    <3>3. n - 1 \notin B
      BY <2>1, <3>2
    <3> QED
      BY <3>2, <3>3
  <2>4. T # {}
    BY <1>2, <2>2
  <2> DEFINE y == One(T)
  <2>5. y \in T /\ h[T] = g[y] + h[T \ {y}]
    BY <1>1, <2>4 DEF Sums, One
  <2> HIDE DEF y
  <2>6. h[T \ {y}] \in Nat /\ g[y] \in Nat
    BY <2>3, <2>5
  <2>7. ASSUME NEW x \in T
        PROVE  h[T] = g[x] + h[T \ {x}]
    <3>1. CASE x = y
      BY <2>5, <3>1
    <3>2. CASE x # y
      <4> DEFINE U == (T \ {y}) \ {x}
      <4>1. h[T \ {y}] = g[x] + h[U]
        BY <2>3, <2>5, <3>2
      <4>2. h[T \ {x}] = g[y] + h[(T \ {x}) \ {y}]
        BY <2>3, <2>5, <2>7, <3>2
      <4>3. (T \ {x}) \ {y} = U
        OBVIOUS
      <4>4. h[U] \in Nat /\ g[x] \in Nat
        <5>1. P(T \ {y}) /\ x \in T \ {y}
          BY <2>3, <2>5, <3>2
        <5>2. Cardinality(T \ {y}) = n - 1 /\ Cardinality(U) = n - 2 /\ n - 2 \in Nat
              /\ U \in SUBSET S
          BY <2>2, <2>3, <2>5, <5>1, OneLess
        <5>3. n - 2 \notin B
          BY <2>1, <5>2
        <5> QED
          BY <5>2, <5>3
      <4> HIDE DEF U
      <4> QED
        BY <2>5, <2>6, <4>1, <4>2, <4>3, <4>4
    <3> QED
      BY <3>1, <3>2
  <2> QED
    BY <2>2, <2>5, <2>6, <2>7
<1>4. ASSUME NEW T \in SUBSET S
      PROVE  P(T)
  <2>1. Cardinality(T) \in Nat
    BY FS_Subset, FS_CardinalityType
  <2> QED
    BY <1>3, <2>1
<1> QED
  BY <1>2, <1>4 DEF Splits

\* Two sums over the same values are equal.
LEMMA SumsAgree ==
    ASSUME NEW S, IsFiniteSet(S), NEW g \in [S -> Nat], NEW h, IsSum(g, S, h),
           NEW S2, IsFiniteSet(S2), NEW g2 \in [S2 -> Nat], NEW h2, IsSum(g2, S2, h2),
           S \subseteq S2, \A x \in S : g[x] = g2[x]
    PROVE  h[S] = h2[S]
<1>1. Splits(g, S, h) /\ Splits(g2, S2, h2)
  BY SumSplits
<1>2. /\ h[{}] = 0 /\ \A U \in SUBSET S : \A y \in U : h[U] = g[y] + h[U \ {y}]
      /\ h2[{}] = 0 /\ \A U \in SUBSET S2 : \A y \in U : h2[U] = g2[y] + h2[U \ {y}]
  BY <1>1 DEF Splits
<1> DEFINE B == {n \in Nat : \E T \in SUBSET S : Cardinality(T) = n /\ h[T] # h2[T]}
<1>3. ASSUME B # {}
      PROVE  FALSE
  <2>1. PICK n \in B : \A y \in B : n <= y
    BY <1>3, Least
  <2>2. PICK T \in SUBSET S : Cardinality(T) = n /\ h[T] # h2[T]
    BY <2>1
  <2> HIDE DEF B
  <2>3. T # {}
    BY <1>2, <2>2
  <2>4. PICK x \in T : TRUE
    BY <2>3
  <2>5. T \ {x} \in SUBSET S /\ Cardinality(T \ {x}) = n - 1 /\ n - 1 \in Nat
    BY <2>2, OneLess
  <2>6. h[T \ {x}] = h2[T \ {x}]
    BY <2>1, <2>5 DEF B
  <2>7. h[T] = g[x] + h[T \ {x}]
    BY <1>2
  <2>8. h2[T] = g2[x] + h2[T \ {x}]
    <3>1. T \in SUBSET S2
      OBVIOUS
    <3> QED
      BY <1>2, <3>1
  <2> QED
    BY <2>2, <2>6, <2>7, <2>8
<1>4. Cardinality(S) \in Nat
  BY FS_CardinalityType
<1> QED
  BY <1>3, <1>4

\* A solution of the recursion as MapThenFoldSet writes it is a sum, and the other
\* way round.
LEMMA SumEquation ==
    ASSUME NEW S, NEW g, NEW h
    PROVE  IsSum(g, S, h) <=>
             h = [s \in SUBSET S |-> IF s = {} THEN 0
                                     ELSE g[CHOOSE x \in s : TRUE]
                                            + h[s \ {CHOOSE x \in s : TRUE}]]
  BY DEF IsSum, Sums, One

\* FileBytes is a sum.
LEMMA FileBytesSum ==
    ASSUME NEW F, IsFiniteSet(F), \A f \in F : f.size \in Nat
    PROVE  \E h : IsSum([f \in F |-> f.size], F, h) /\ FileBytes(F) = h[F]
<1> DEFINE g == [f \in F |-> f.size]
           Eq(h) == h = [s \in SUBSET F |-> IF s = {} THEN 0
                                            ELSE (CHOOSE x \in s : TRUE).size
                                                   + h[s \ {CHOOSE x \in s : TRUE}]]
<1>1. ASSUME NEW h
      PROVE  IsSum(g, F, h) <=> Eq(h)
  <2>1. \A s \in SUBSET F : s # {} => g[CHOOSE x \in s : TRUE] = (CHOOSE x \in s : TRUE).size
    OBVIOUS
  <2> QED
    BY <2>1, SumEquation
<1>2. \E h : IsSum(g, F, h)
  BY SumExists
<1>3. FileBytes(F) = (CHOOSE h : Eq(h))[F]
  BY DEF FileBytes, MapThenSumSet, MapThenFoldSet
<1> HIDE DEF g, Eq
<1>4. Eq(CHOOSE h : Eq(h))
  BY <1>1, <1>2
<1> QED
  BY <1>1, <1>3, <1>4 DEF g

\* So is NodeBytes.
LEMMA NodeBytesSum ==
    ASSUME NEW t, NEW S, IsFiniteSet(S), \A n \in S : t[n].size \in Nat
    PROVE  \E h : IsSum([n \in S |-> t[n].size], S, h) /\ NodeBytes(t, S) = h[S]
<1> DEFINE g == [n \in S |-> t[n].size]
           Eq(h) == h = [s \in SUBSET S |-> IF s = {} THEN 0
                                            ELSE t[CHOOSE x \in s : TRUE].size
                                                   + h[s \ {CHOOSE x \in s : TRUE}]]
<1>1. ASSUME NEW h
      PROVE  IsSum(g, S, h) <=> Eq(h)
  <2>1. \A s \in SUBSET S : s # {} => g[CHOOSE x \in s : TRUE] = t[CHOOSE x \in s : TRUE].size
    OBVIOUS
  <2> QED
    BY <2>1, SumEquation
<1>2. \E h : IsSum(g, S, h)
  BY SumExists
<1>3. NodeBytes(t, S) = (CHOOSE h : Eq(h))[S]
  BY DEF NodeBytes, MapThenSumSet, MapThenFoldSet
<1> HIDE DEF g, Eq
<1>4. Eq(CHOOSE h : Eq(h))
  BY <1>1, <1>2
<1> QED
  BY <1>1, <1>3, <1>4 DEF g

\* One more element adds its value to a sum.
LEMMA SumGrows ==
    ASSUME NEW S, IsFiniteSet(S), NEW g \in [S -> Nat], NEW h, IsSum(g, S, h),
           NEW x, x \notin S, NEW S2, S2 = S \cup {x},
           NEW g2 \in [S2 -> Nat], NEW h2, IsSum(g2, S2, h2),
           \A y \in S : g[y] = g2[y]
    PROVE  h[S] \in Nat /\ h2[S2] = h[S] + g2[x]
<1>1. IsFiniteSet(S2) /\ S \subseteq S2 /\ S2 \ {x} = S /\ x \in S2
  BY FS_AddElement
<1>2. h[S] = h2[S]
  BY <1>1, SumsAgree
<1>3. Splits(g2, S2, h2)
  BY <1>1, SumSplits
<1>4. h2[S2] = g2[x] + h2[S2 \ {x}]
  BY <1>1, <1>3 DEF Splits
<1>5. Splits(g, S, h)
  BY SumSplits
<1>6. h[S] \in Nat /\ g2[x] \in Nat
  BY <1>1, <1>5 DEF Splits
<1>7. h2[S2 \ {x}] = h[S]
  BY <1>1, <1>2
<1> QED
  BY ONLY <1>4, <1>6, <1>7

\* The sum over nothing.
LEMMA NothingSums ==
    ASSUME NEW g, NEW h, IsSum(g, {}, h)
    PROVE  h[{}] = 0
  BY DEF IsSum, Sums

\* One more file.
LEMMA FileBytesAdd ==
    ASSUME NEW F, IsFiniteSet(F), \A f \in F : f.size \in Nat,
           NEW x, x \notin F, x.size \in Nat
    PROVE  /\ FileBytes(F) \in Nat
           /\ FileBytes(F \cup {x}) = FileBytes(F) + x.size
<1> DEFINE F2 == F \cup {x}
           g == [f \in F |-> f.size]
           g2 == [f \in F2 |-> f.size]
<1>1. IsFiniteSet(F2) /\ \A f \in F2 : f.size \in Nat
  BY FS_AddElement
<1>2. PICK h : IsSum(g, F, h) /\ FileBytes(F) = h[F]
  BY FileBytesSum
<1>3. F2 = F \cup {x}
  OBVIOUS
<1> HIDE DEF F2
<1>4. PICK h2 : IsSum(g2, F2, h2) /\ FileBytes(F2) = h2[F2]
  BY <1>1, FileBytesSum
<1>5. /\ g \in [F -> Nat] /\ g2 \in [F2 -> Nat] /\ g2[x] = x.size
      /\ \A f \in F : g[f] = g2[f]
  BY <1>1 DEF F2
<1> HIDE DEF g, g2
<1>6. h[F] \in Nat /\ h2[F2] = h[F] + g2[x]
  BY <1>2, <1>3, <1>4, <1>5, SumGrows
<1> QED
  BY <1>2, <1>4, <1>5, <1>6 DEF F2

\* One more node.
LEMMA NodeBytesAdd ==
    ASSUME NEW t, NEW S, IsFiniteSet(S), \A n \in S : t[n].size \in Nat,
           NEW x, x \notin S, t[x].size \in Nat
    PROVE  /\ NodeBytes(t, S) \in Nat
           /\ NodeBytes(t, S \cup {x}) = NodeBytes(t, S) + t[x].size
<1> DEFINE S2 == S \cup {x}
           g == [n \in S |-> t[n].size]
           g2 == [n \in S2 |-> t[n].size]
<1>1. IsFiniteSet(S2) /\ \A n \in S2 : t[n].size \in Nat
  BY FS_AddElement
<1>2. PICK h : IsSum(g, S, h) /\ NodeBytes(t, S) = h[S]
  BY NodeBytesSum
<1>3. S2 = S \cup {x}
  OBVIOUS
<1> HIDE DEF S2
<1>4. PICK h2 : IsSum(g2, S2, h2) /\ NodeBytes(t, S2) = h2[S2]
  BY <1>1, NodeBytesSum
<1>5. /\ g \in [S -> Nat] /\ g2 \in [S2 -> Nat] /\ g2[x] = t[x].size
      /\ \A n \in S : g[n] = g2[n]
  BY <1>1 DEF S2
<1> HIDE DEF g, g2
<1>6. h[S] \in Nat /\ h2[S2] = h[S] + g2[x]
  BY <1>2, <1>3, <1>4, <1>5, SumGrows
<1> QED
  BY <1>2, <1>4, <1>5, <1>6 DEF S2

\* The sums begin at 0.
LEMMA NoBytes ==
    /\ FileBytes({}) = 0
    /\ \A t : NodeBytes(t, {}) = 0
<1>1. IsFiniteSet({})
  BY FS_EmptySet
<1>2. FileBytes({}) = 0
  <2>1. PICK h : IsSum([f \in {} |-> f.size], {}, h) /\ FileBytes({}) = h[{}]
    BY <1>1, FileBytesSum
  <2> QED
    BY <2>1, NothingSums
<1>3. ASSUME NEW t
      PROVE  NodeBytes(t, {}) = 0
  <2>1. PICK h : IsSum([n \in {} |-> t[n].size], {}, h) /\ NodeBytes(t, {}) = h[{}]
    BY <1>1, NodeBytesSum
  <2> QED
    BY <2>1, NothingSums
<1> QED
  BY <1>2, <1>3

-----------------------------------------------------------------------------
(* The invariants.                                                         *)

\* The limits, as the collection keeps track of them.
Counted ==
    /\ IsFiniteSet(files)
    /\ Cardinality(files) + Cardinality(found) <= max_files
    /\ \A f \in files : f.name \notin found
    /\ FileBytes(files) <= max_total_bytes

\* Where the collection is: before the first open nothing is read; from then on total
\* counts the bytes of the result, and the descriptor is on the way to the next file.
Placed ==
    /\ pc \in {"check", "walk"} => files = {} /\ fd = Outputs
    /\ pc = "check" => found = {}
    /\ pc \in {"next", "open", "read", "blocked"} => total = FileBytes(files)
    /\ pc \in {"open", "read", "blocked"} => found # {}
    /\ pc \in {"open", "read"} => ~ foreign
    /\ pc = "open" => fd \in Ancestors[Current]

CollectInv == Counted /\ Placed /\ MemoryBounded /\ NothingForeign

\* What the walk has still to see of a directory nobody touches: what lies below a
\* directory on the stack or an entry of the listing.  It has seen none of it yet.
StillToSee ==
    /\ \A n \in Nodes : Kind(n) \notin {"absent", "dir"} =>
         \/ n \in found
         \/ \E a \in PathOf(n) : a \in listing
         \/ \E a \in Ancestors[n] : a \in stack
    /\ listing \cap (found \cup stack) = {}
    /\ \A a \in stack \cup listing : \A n \in found \cup stack \cup listing :
         a \notin Ancestors[n]

QuietWalk ==
    /\ Kind(Outputs) = "dir"
    /\ \A d \in stack : Kind(d) = "dir"
    /\ \A n \in listing : Kind(n) # "absent"
    /\ found \subseteq Regular \ BadNames
    /\ total = NodeBytes(tree, found)
    /\ StillToSee

\* The files that are read are the ones that were found, and as they were found.
QuietRead ==
    /\ ObeysRules
    /\ found \subseteq Regular
    /\ total + NodeBytes(tree, found) = NodeBytes(tree, Regular)
    /\ files = {[name |-> n, size |-> tree[n].size, foreign |-> FALSE] :
                  n \in Regular \ found}
    /\ pc = "read" => fd_size = tree[Current].size

QuietInv ==
    changes = 0 =>
        /\ tree \in Trees
        /\ pc = "check" => stack = {} /\ listing = {} /\ total = 0
        /\ pc = "walk" => QuietWalk
        /\ pc \in {"next", "open", "read"} => QuietRead
        /\ QuietResultExact

\* Further directories are the other process's.
Untouched == changes = 0 => further = "none"

-----------------------------------------------------------------------------
(* What the steps work with.                                               *)

\* The fields of an entry.
LEMMA EntryTypes ==
    ASSUME NEW e \in Entries
    PROVE  /\ e.kind \in {"absent", "dir", "link", "fifo", "regular"}
           /\ e.size \in Nat
<1>1. e \in NotRegular => /\ e.kind \in {"absent", "dir", "link", "fifo"}
                          /\ e.size = 0
  BY DEF NotRegular
<1>2. e \in [kind : {"regular"}, size : Sizes] => e.kind = "regular" /\ e.size \in Sizes
  OBVIOUS
<1>3. Sizes \subseteq Nat
  BY OutputAssumption
<1>4. e \in NotRegular \/ e \in [kind : {"regular"}, size : Sizes]
  BY DEF Entries
<1>5. CASE e \in NotRegular
  BY <1>1, <1>5
<1>6. CASE e \in [kind : {"regular"}, size : Sizes]
  BY <1>2, <1>3, <1>6
<1> QED
  BY <1>4, <1>5, <1>6

\* A set of nodes is finite.
LEMMA FiniteNodes ==
    ASSUME NEW S \in SUBSET Nodes
    PROVE  IsFiniteSet(S) /\ Cardinality(S) \in Nat
<1>1. IsFiniteSet(Nodes)
  BY OutputAssumption
<1> QED
  BY <1>1, FS_Subset, FS_CardinalityType

\* The next file is one that was found.
LEMMA CurrentFound ==
    ASSUME TypeOK, found # {}
    PROVE  Current \in found /\ Current \in Nodes
<1>1. found \in SUBSET Nat
  BY OutputAssumption DEF TypeOK
<1> QED
  BY <1>1, MinIsLeast DEF Current, TypeOK

\* The next segment of its path is there, and is one of its directories or itself.
LEMMA SegmentOnPath ==
    ASSUME TypeOK, found # {}, fd \in Ancestors[Current]
    PROVE  /\ Segment \in Nodes
           /\ Segment # Current => Segment \in Ancestors[Current]
<1>1. Current \in Nodes /\ Current \in AllNodes
  BY CurrentFound DEF AllNodes
<1>2. \E k \in PathOf(Current) \ {Outputs} : Parent[k] = fd
  BY <1>1, AncestorFacts
<1>3. Segment \in PathOf(Current) \ {Outputs}
  BY <1>2 DEF Segment
<1>4. Ancestors[Current] \subseteq AllNodes
  BY <1>1, AncestorsEquation
<1> QED
  BY <1>1, <1>3, <1>4 DEF PathOf, AllNodes

\* A read returns the file, or one byte more than the limit leaves.
LEMMA ReadLength ==
    ASSUME TypeOK, total <= max_total_bytes
    PROVE  /\ Min({fd_size, ReadLimit}) \in Nat
           /\ total + Min({fd_size, ReadLimit}) <= max_total_bytes + 1
           /\ total + fd_size <= max_total_bytes => Min({fd_size, ReadLimit}) = fd_size
<1>1. fd_size \in Nat /\ ReadLimit \in Nat /\ max_total_bytes \in Nat /\ total \in Nat
  BY OutputAssumption DEF TypeOK, ReadLimit
<1>2. {fd_size, ReadLimit} \in SUBSET Nat
  BY <1>1
<1> DEFINE l == Min({fd_size, ReadLimit})
<1>3. /\ l = fd_size \/ l = ReadLimit
      /\ l <= fd_size /\ l <= ReadLimit
  BY <1>2, MinIsLeast
<1> HIDE DEF l
<1>4. l \in Nat
  BY <1>1, <1>3
<1>5. total + l <= max_total_bytes + 1
  BY <1>1, <1>3, <1>4 DEF ReadLimit
<1>6. total + fd_size <= max_total_bytes => l = fd_size
  BY <1>1, <1>3, <1>4 DEF ReadLimit
<1> QED
  BY <1>4, <1>5, <1>6 DEF l

-----------------------------------------------------------------------------
(* The limits and the links, whatever the surviving process does.          *)

\* The variables keep their types.
LEMMA TypeStep ==
    ASSUME TypeOK, CollectInv, [Next]_vars
    PROVE  TypeOK'
<1>1. CASE CheckDirectory
  BY <1>1 DEF CheckDirectory, TypeOK, AllNodes
<1>2. ASSUME NEW d \in AllNodes, ListDirectory(d)
      PROVE  TypeOK'
  BY <1>2 DEF ListDirectory, TypeOK, Children, Reject
<1>3. ASSUME NEW n \in Nodes, StatEntry(n)
      PROVE  TypeOK'
  <2>1. Lookup(n) \subseteq Entries
    BY <1>3 DEF Lookup, Entries, NotRegular, TypeOK, AllNodes
  <2>2. \A e \in Lookup(n) : e.size \in Nat
    BY <2>1, EntryTypes
  <2> QED
    BY <1>3, <2>2 DEF StatEntry, TypeOK, AllNodes, Reject
<1>4. CASE CheckTotal
  BY <1>4 DEF CheckTotal, TypeOK, Reject
<1>11. CASE StatFurther \/ ListFurther
  BY <1>11 DEF StatFurther, ListFurther, TypeOK, Reject
<1>5. CASE NextFile
  <2>1. Outputs \in AllNodes
    BY DEF AllNodes
  <2> QED
    BY <1>5, <2>1 DEF NextFile, TypeOK
<1>6. CASE OpenDirectory
  <2>1. Segment \in AllNodes
    BY <1>6, SegmentOnPath DEF OpenDirectory, CollectInv, Placed, AllNodes
  <2> QED
    BY <1>6, <2>1 DEF OpenDirectory, TypeOK
<1>7. CASE OpenFile
  <2>1. Current \in AllNodes
    BY <1>7, CurrentFound DEF OpenFile, CollectInv, Placed, AllNodes
  <2>2. tree[Current].size \in Nat
    BY <2>1, EntryTypes DEF TypeOK
  <2> QED
    BY <1>7, <2>1, <2>2 DEF OpenFile, TypeOK
<1>8. CASE ReadFile
  <2>1. Current \in Nodes
    BY <1>8, CurrentFound DEF ReadFile, CollectInv, Placed
  <2>2. Min({fd_size, ReadLimit}) \in Nat
    BY <1>8, ReadLength DEF ReadFile, CollectInv, Placed, Counted
  <2> DEFINE length == Min({fd_size, ReadLimit})
  <2>3. total + length \in Nat
        /\ [name |-> Current, size |-> length, foreign |-> foreign] \in Collected
    BY <2>1, <2>2 DEF TypeOK, Collected
  <2>4. /\ total' = total + length
        /\ \/ pc' = "rejected" /\ files' = files /\ found' = found
           \/ /\ pc' = "next" /\ found' = found \ {Current}
              /\ files' = files \cup {[name |-> Current, size |-> length, foreign |-> foreign]}
        /\ UNCHANGED <<tree, changes, stack, further, listing, fd, foreign, fd_size>>
    BY <1>8 DEF ReadFile, Reject
  <2> HIDE DEF length
  <2> QED
    BY <2>3, <2>4 DEF TypeOK
<1>9. CASE Survivor
  <2>1. ASSUME NEW n \in AllNodes, NEW e \in Entries, Replace(n, e)
        PROVE  TypeOK'
    BY <2>1, OutputAssumption DEF Replace, TypeOK
  <2>2. ASSUME NEW size \in Sizes, ResizeOpenFile(size)
        PROVE  TypeOK'
    BY <2>2, OutputAssumption DEF ResizeOpenFile, TypeOK
  <2>3. CASE OpenFifoForWriting
    BY <2>3, OutputAssumption DEF OpenFifoForWriting, TypeOK, Reject
  <2>4. CASE MakeDirectory
    BY <2>4, OutputAssumption DEF MakeDirectory, TypeOK
  <2> QED
    BY <1>9, <2>1, <2>2, <2>3, <2>4 DEF Survivor
<1>10. CASE UNCHANGED vars
  BY <1>10 DEF vars, TypeOK
<1> QED
  BY <1>1, <1>2, <1>3, <1>4, <1>5, <1>6, <1>7, <1>8, <1>9, <1>10, <1>11 DEF Next, Collect

\* A file is put into the result.
LEMMA FileCollected ==
    ASSUME TypeOK, CollectInv, pc = "read", NEW length \in Nat,
           total + length <= max_total_bytes,
           found' = found \ {Current}, total' = total + length, foreign' = foreign,
           files' = files \cup {[name |-> Current, size |-> length, foreign |-> foreign]}
    PROVE  /\ Counted'
           /\ total' = FileBytes(files')
           /\ NothingForeign'
<1> DEFINE r == [name |-> Current, size |-> length, foreign |-> foreign]
<1>1. Current \in found /\ ~ foreign /\ total = FileBytes(files)
  BY CurrentFound DEF CollectInv, Placed
<1>2. r \notin files /\ r.size = length /\ r.size \in Nat /\ r.name = Current /\ ~ r.foreign
  BY <1>1 DEF CollectInv, Counted
<1>3. \A f \in files : f.size \in Nat
  BY DEF TypeOK, Collected
<1>4. IsFiniteSet(files) /\ IsFiniteSet(found)
  BY FiniteNodes DEF CollectInv, Counted, TypeOK
<1>5. files' = files \cup {r}
  OBVIOUS
<1> HIDE DEF r
<1>6. FileBytes(files') = FileBytes(files) + length
  BY <1>2, <1>3, <1>4, <1>5, FileBytesAdd
<1>7. IsFiniteSet(files') /\ Cardinality(files') = Cardinality(files) + 1
  <2>1. /\ IsFiniteSet(files \cup {r})
        /\ Cardinality(files \cup {r}) = Cardinality(files) + 1
    BY <1>2, <1>4, FS_AddElement
  <2> QED
    BY <1>5, <2>1
<1>8. Cardinality(found') = Cardinality(found) - 1
  BY <1>1, <1>4, FS_RemoveElement
<1>9. Cardinality(files) \in Nat /\ Cardinality(found) \in Nat
  BY <1>4, FS_CardinalityType
<1>10. Cardinality(files') + Cardinality(found') <= max_files
  BY <1>7, <1>8, <1>9 DEF CollectInv, Counted
<1>11. \A f \in files' : f.name \notin found'
  BY <1>2, <1>5 DEF CollectInv, Counted
<1>12. NothingForeign'
  BY <1>2, <1>5 DEF CollectInv, NothingForeign
<1> QED
  BY <1>1, <1>6, <1>7, <1>10, <1>11, <1>12 DEF Counted

\* What the collection has counted and collected stays as it is in most steps.
LEMMA NothingCollected ==
    ASSUME CollectInv, files' = files, found' = found
    PROVE  Counted' /\ NothingForeign'
  BY DEF CollectInv, Counted, NothingForeign

\* CollectInv is inductive.
LEMMA CollectStep ==
    ASSUME TypeOK, CollectInv, [Next]_vars
    PROVE  CollectInv'
<1> USE DEF Outputs
<1>1. CASE CheckDirectory
  <2>1. /\ pc = "check" /\ pc' \in {"done", "walk", "rejected"}
        /\ UNCHANGED <<files, found, fd, total, foreign>>
    BY <1>1 DEF CheckDirectory
  <2> QED
    BY <2>1, NothingCollected DEF CollectInv, Placed, MemoryBounded
<1>2. ASSUME NEW d \in AllNodes, ListDirectory(d)
      PROVE  CollectInv'
  <2>1. /\ pc = "walk" /\ pc' \in {"walk", "rejected"}
        /\ UNCHANGED <<files, found, fd, total, foreign>>
    BY <1>2 DEF ListDirectory, Reject
  <2> QED
    BY <2>1, NothingCollected DEF CollectInv, Placed, MemoryBounded
<1>3. ASSUME NEW n \in Nodes, StatEntry(n)
      PROVE  CollectInv'
  <2>1. /\ pc = "walk" /\ pc' \in {"walk", "rejected"}
        /\ UNCHANGED <<files, fd, foreign>>
        /\ \/ found' = found
           \/ found' = found \cup {n} /\ Cardinality(found) < max_files
    BY <1>3 DEF StatEntry, Reject, Accepted
  <2>2. files = {} /\ fd = Outputs
    BY <2>1 DEF CollectInv, Placed
  <2>3. Counted' /\ NothingForeign'
    <3>1. CASE found' = found
      BY <2>1, <3>1, NothingCollected
    <3>2. CASE found' = found \cup {n} /\ Cardinality(found) < max_files
      <4>1. IsFiniteSet(found) /\ Cardinality(found) \in Nat
        BY FiniteNodes DEF TypeOK
      <4>2. Cardinality(found') \in {Cardinality(found), Cardinality(found) + 1}
        BY <3>2, <4>1, FS_AddElement
      <4>3. IsFiniteSet({}) /\ Cardinality({}) = 0
        BY FS_EmptySet
      <4> QED
        BY <2>1, <2>2, <3>2, <4>1, <4>2, <4>3, NoBytes, OutputAssumption
           DEF Counted, NothingForeign
    <3> QED
      BY <2>1, <3>1, <3>2
  <2> QED
    BY <2>1, <2>2, <2>3 DEF CollectInv, Placed, MemoryBounded
<1>4. CASE CheckTotal
  <2>1. /\ pc = "walk" /\ pc' \in {"next", "rejected"} /\ total' = 0
        /\ UNCHANGED <<files, found, fd, foreign>>
    BY <1>4 DEF CheckTotal, Reject
  <2>2. files = {} /\ fd = Outputs
    BY <2>1 DEF CollectInv, Placed
  <2> QED
    BY <2>1, <2>2, NoBytes, NothingCollected DEF CollectInv, Placed, MemoryBounded
<1>11. CASE StatFurther \/ ListFurther
  <2>1. /\ pc = "walk" /\ pc' \in {"walk", "rejected"}
        /\ UNCHANGED <<files, found, fd, total, foreign>>
    BY <1>11 DEF StatFurther, ListFurther, Reject
  <2> QED
    BY <2>1, NothingCollected DEF CollectInv, Placed, MemoryBounded
<1>5. CASE NextFile
  <2>1. /\ pc = "next" /\ UNCHANGED <<files, found, total>>
        /\ \/ found = {} /\ pc' = "done" /\ UNCHANGED <<fd, foreign>>
           \/ found # {} /\ pc' = "open" /\ fd' = Outputs /\ ~ foreign'
           \/ pc' = "rejected" /\ fd' = Outputs
    BY <1>5 DEF NextFile, Openable
  <2>2. found # {} => Outputs \in Ancestors[Current]
    BY CurrentFound, AncestorFacts DEF AllNodes
  <2>3. Current' = Current
    BY <2>1 DEF Current
  <2>4. Counted' /\ NothingForeign'
    BY <2>1, NothingCollected
  <2>5. Placed'
    BY <2>1, <2>2, <2>3 DEF CollectInv, Placed
  <2>6. MemoryBounded'
    BY <2>1 DEF CollectInv, MemoryBounded
  <2> QED
    BY <2>4, <2>5, <2>6 DEF CollectInv
<1>6. CASE OpenDirectory
  <2>1. /\ pc = "open" /\ UNCHANGED <<files, found, total>>
        /\ Segment # Current /\ fd' = Segment
        /\ \/ pc' = "open" /\ foreign' = (foreign \/ Kind(Segment) = "link")
                           /\ Kind(Segment) = "dir"
           \/ pc' = "rejected"
    BY <1>6 DEF OpenDirectory, Openable
  <2>2. /\ found # {} /\ ~ foreign /\ total = FileBytes(files) /\ fd \in Ancestors[Current]
        /\ pc' = "open" => ~ foreign'
    BY <2>1 DEF CollectInv, Placed
  <2>3. Segment \in Ancestors[Current] /\ Current' = Current
    BY <2>1, <2>2, SegmentOnPath DEF Current
  <2>4. Counted' /\ NothingForeign'
    BY <2>1, NothingCollected
  <2>5. Placed'
    BY <2>1, <2>2, <2>3 DEF Placed
  <2>6. MemoryBounded'
    BY <2>1, <2>2, OutputAssumption DEF CollectInv, Counted, MemoryBounded, TypeOK
  <2> QED
    BY <2>4, <2>5, <2>6 DEF CollectInv
<1>7. CASE OpenFile
  <2>1. /\ pc = "open" /\ UNCHANGED <<files, found, total>>
        /\ foreign' = (foreign \/ Kind(Current) = "link")
        /\ \/ pc' = "read" /\ Kind(Current) = "regular"
           \/ pc' \in {"blocked", "rejected"}
    BY <1>7 DEF OpenFile, Readable
  <2>2. /\ found # {} /\ ~ foreign /\ total = FileBytes(files)
        /\ pc' = "read" => ~ foreign'
    BY <2>1 DEF CollectInv, Placed
  <2>3. Counted' /\ NothingForeign'
    BY <2>1, NothingCollected
  <2>4. Placed'
    BY <2>1, <2>2 DEF Placed
  <2>5. MemoryBounded'
    BY <2>1, <2>2, OutputAssumption DEF CollectInv, Counted, MemoryBounded, TypeOK
  <2> QED
    BY <2>3, <2>4, <2>5 DEF CollectInv
<1>8. CASE ReadFile
  <2> DEFINE length == Min({fd_size, ReadLimit})
  <2>1. pc = "read" /\ total' = total + length /\ UNCHANGED <<fd, foreign>>
    BY <1>8 DEF ReadFile
  <2>2. found # {} /\ ~ foreign /\ total = FileBytes(files) /\ total <= max_total_bytes
    BY <2>1 DEF CollectInv, Placed, Counted
  <2>3. length \in Nat /\ total + length <= max_total_bytes + 1
    BY <2>2, ReadLength
  <2>4. \/ pc' = "rejected" /\ files' = files /\ found' = found
        \/ /\ pc' = "next" /\ found' = found \ {Current}
           /\ ~ (total' > max_total_bytes)
           /\ files' = files \cup {[name |-> Current, size |-> length, foreign |-> foreign]}
    BY <1>8 DEF ReadFile, Reject
  <2> HIDE DEF length
  <2>5. MemoryBounded'
    BY <2>1, <2>3 DEF MemoryBounded
  <2>6. CASE pc' = "rejected" /\ files' = files /\ found' = found
    <3>1. Placed'
      BY <2>6 DEF Placed
    <3> QED
      BY <2>5, <2>6, <3>1, NothingCollected DEF CollectInv
  <2>7. CASE /\ pc' = "next" /\ found' = found \ {Current}
             /\ ~ (total' > max_total_bytes)
             /\ files' = files \cup {[name |-> Current, size |-> length, foreign |-> foreign]}
    <3>1. total + length <= max_total_bytes
      BY <2>1, <2>3, <2>7, OutputAssumption DEF TypeOK
    <3>2. Counted' /\ total' = FileBytes(files') /\ NothingForeign'
      BY <2>1, <2>3, <2>7, <3>1, FileCollected
    <3>3. Placed'
      BY <2>7, <3>2 DEF Placed
    <3> QED
      BY <2>5, <3>2, <3>3 DEF CollectInv
  <2> QED
    BY <2>4, <2>6, <2>7
<1>9. CASE Survivor
  <2>1. /\ UNCHANGED <<files, found, total, fd, foreign>>
        /\ pc' \in {pc, "rejected"}
    BY <1>9 DEF Survivor, Replace, ResizeOpenFile, OpenFifoForWriting, MakeDirectory, Reject
  <2>2. Current' = Current
    BY <2>1 DEF Current
  <2>3. Placed'
    BY <2>1, <2>2 DEF CollectInv, Placed
  <2> QED
    BY <2>1, <2>3, NothingCollected DEF CollectInv, MemoryBounded
<1>10. CASE UNCHANGED vars
  BY <1>10 DEF vars, CollectInv, Counted, Placed, MemoryBounded, NothingForeign, Current
<1> QED
  BY <1>1, <1>2, <1>3, <1>4, <1>5, <1>6, <1>7, <1>8, <1>9, <1>10, <1>11 DEF Next, Collect

-----------------------------------------------------------------------------
(* A directory that nobody touches.                                        *)

\* Further directories appear only when the other process makes them.
LEMMA UntouchedStep ==
    ASSUME TypeOK, Untouched, [Next]_vars
    PROVE  Untouched'
<1>1. CASE CheckDirectory \/ (\E d \in AllNodes : ListDirectory(d))
  BY <1>1 DEF CheckDirectory, ListDirectory, Untouched
<1>2. CASE \E n \in Nodes : StatEntry(n)
  BY <1>2 DEF StatEntry, Untouched
<1>3. CASE StatFurther \/ ListFurther
  BY <1>3 DEF StatFurther, ListFurther, Untouched
<1>4. CASE CheckTotal \/ NextFile \/ OpenDirectory \/ OpenFile
  BY <1>4 DEF CheckTotal, NextFile, OpenDirectory, OpenFile, Untouched
<1>5. CASE ReadFile
  BY <1>5 DEF ReadFile, Untouched
<1>6. CASE Survivor
  <2>1. changes' # 0
    BY <1>6 DEF Survivor, Replace, ResizeOpenFile, OpenFifoForWriting, MakeDirectory, TypeOK
  <2> QED
    BY <2>1 DEF Untouched
<1>7. CASE UNCHANGED vars
  BY <1>7 DEF vars, Untouched
<1> QED
  BY <1>1, <1>2, <1>3, <1>4, <1>5, <1>6, <1>7 DEF Next, Collect

\* Around an entry there are only directories.
LEMMA AroundEntry ==
    ASSUME tree \in Trees, NEW n \in AllNodes, Kind(n) # "absent"
    PROVE  \A a \in Ancestors[n] : Kind(a) = "dir"
<1> DEFINE P(m) == Kind(m) # "absent" => \A a \in Ancestors[m] : Kind(a) = "dir"
           T == {m \in AllNodes : ~ P(m)}
<1>1. T \in SUBSET Nat
  BY NodesAreNumbers
<1>2. ASSUME T # {}
      PROVE  FALSE
  <2>1. PICK m \in T : \A y \in T : m <= y
    BY <1>1, <1>2, Least
  <2>2. m \in Nodes
    BY <2>1, AncestorsEquation DEF AllNodes
  <2> DEFINE p == Parent[m]
  <2>3. p \in AllNodes /\ p < m
    BY <2>2, OutputAssumption
  <2>4. p \in Nat /\ m \in Nat
    BY <2>2, <2>3, NodesAreNumbers DEF AllNodes
  <2>5. P(p)
    BY <2>1, <2>3, <2>4
  <2>6. Kind(m) # "absent" /\ Kind(p) = "dir"
    BY <2>1, <2>2 DEF Trees, Kind
  <2>7. Ancestors[m] = Ancestors[p] \cup {p}
    BY <2>2, AncestorsEquation
  <2> QED
    BY <2>1, <2>5, <2>6, <2>7
<1> QED
  BY <1>2

\* The walk begins at outputs, above everything.
LEMMA QuietBegin ==
    ASSUME TypeOK, tree \in Trees, Kind(Outputs) = "dir",
           stack' = {Outputs}, listing' = {}, found' = {}, total' = 0, tree' = tree
    PROVE  QuietWalk'
<1>1. \A n \in Nodes : Outputs \in Ancestors[n]
  BY AncestorFacts DEF AllNodes
<1>2. Ancestors[Outputs] = {}
  BY AncestorsEquation
<1>3. StillToSee'
  BY <1>1, <1>2 DEF StillToSee
<1>4. total' = NodeBytes(tree', found')
  BY NoBytes
<1> QED
  BY <1>3, <1>4 DEF QuietWalk, Kind

\* A directory is listed: what was below it is now below its entries.
LEMMA QuietList ==
    ASSUME TypeOK, tree \in Trees, pc = "walk", QuietWalk, NEW d \in AllNodes, ListDirectory(d)
    PROVE  pc' = "walk" /\ QuietWalk'
<1>1. d \in stack /\ Kind(d) = "dir" /\ stack' = stack \ {d} /\ listing = {}
  BY DEF ListDirectory, QuietWalk
<1>2. \A a \in PathOf(d) : Kind(a) = "dir"
  BY <1>1, AroundEntry DEF PathOf
<1>3. /\ pc' = "walk" /\ listing' = {n \in Children(d) : Kind(n) # "absent"}
      /\ UNCHANGED <<tree, found, total>>
  BY <1>2 DEF ListDirectory
<1>4. ASSUME NEW n \in listing'
      PROVE  /\ n \in Nodes /\ Kind(n) # "absent" /\ d < n
             /\ Ancestors[n] = Ancestors[d] \cup {d}
  BY <1>3, AncestorsEquation, OutputAssumption DEF Children
<1>5. ASSUME NEW n \in Nodes, Kind(n) \notin {"absent", "dir"}
      PROVE  \/ n \in found'
             \/ \E a \in PathOf(n) : a \in listing'
             \/ \E a \in Ancestors[n] : a \in stack'
  <2>1. n \in found \/ \E a \in Ancestors[n] : a \in stack
    BY <1>1, <1>5 DEF QuietWalk, StillToSee
  <2>2. ASSUME d \in Ancestors[n]
        PROVE  \E a \in PathOf(n) : a \in listing'
    <3>1. n \in AllNodes /\ Ancestors[n] \subseteq AllNodes
      BY AncestorsEquation DEF AllNodes
    <3>2. PICK k \in PathOf(n) \ {Outputs} : Parent[k] = d
      BY <2>2, <3>1, AncestorFacts
    <3>3. k \in Nodes /\ Kind(k) # "absent"
      BY <1>5, <3>1, <3>2, AroundEntry DEF PathOf, AllNodes
    <3> QED
      BY <1>3, <3>2, <3>3 DEF Children
  <2> QED
    BY <1>1, <1>3, <2>1, <2>2
<1>6. ASSUME NEW a \in stack' \cup listing', NEW n \in found' \cup stack' \cup listing'
      PROVE  a \notin Ancestors[n]
  <2>1. \A b \in stack : \A m \in found \cup stack : b \notin Ancestors[m]
    BY <1>1 DEF QuietWalk, StillToSee
  <2>2. \A b \in Ancestors[d] : b < d /\ b \in Nat
    BY AncestorFacts, NodesAreNumbers
  <2>3. d \in Nat
    BY NodesAreNumbers
  <2>4. CASE a \in stack' /\ n \in found' \cup stack'
    BY <1>1, <1>3, <2>1, <2>4
  <2>5. CASE a \in stack' /\ n \in listing'
    BY <1>1, <1>4, <2>1, <2>5
  <2>6. CASE a \in listing' /\ n \in found' \cup stack'
    <3>1. d \in Ancestors[a]
      BY <1>4, <2>6
    <3>2. n \in AllNodes
      BY <1>1, <1>3, <2>6 DEF TypeOK, AllNodes
    <3>3. d \notin Ancestors[n]
      BY <1>1, <1>3, <2>1, <2>6
    <3> QED
      BY <3>1, <3>2, <3>3, AncestorFacts
  <2>7. CASE a \in listing' /\ n \in listing'
    <3>1. d < a /\ a \in Nat
      BY <1>4, <2>7, NodesAreNumbers DEF AllNodes
    <3> QED
      BY <1>4, <2>2, <2>3, <2>7, <3>1
  <2> QED
    BY <1>6, <2>4, <2>5, <2>6, <2>7
<1>7. listing' \cap (found' \cup stack') = {}
  <2>1. ASSUME NEW n \in listing', n \in found' \cup stack'
        PROVE  FALSE
    <3>1. d \in Ancestors[n] /\ n \in found \cup stack
      BY <1>1, <1>3, <1>4, <2>1
    <3> QED
      BY <1>1, <3>1 DEF QuietWalk, StillToSee
  <2> QED
    BY <2>1
<1>8. StillToSee'
  BY <1>3, <1>5, <1>6, <1>7 DEF StillToSee, Kind
<1> QED
  BY <1>1, <1>3, <1>4, <1>8 DEF QuietWalk, Kind, Regular

\* An entry is looked at: a directory goes to the stack, a file is counted once, and
\* anything else breaks a rule.
LEMMA QuietStat ==
    ASSUME TypeOK, CollectInv, tree \in Trees, pc = "walk", QuietWalk,
           NEW n \in Nodes, StatEntry(n)
    PROVE  /\ tree' = tree
           /\ \/ pc' = "walk" /\ QuietWalk'
              \/ pc' = "rejected" /\ ~ ObeysRules
<1>1. /\ n \in listing /\ listing' = listing \ {n} /\ tree' = tree
      /\ n \in AllNodes /\ Kind(n) # "absent"
  BY DEF StatEntry, QuietWalk, AllNodes
<1>2. \A a \in Ancestors[n] : Kind(a) = "dir"
  BY <1>1, AroundEntry
<1>3. Lookup(n) = {tree[n]}
  BY <1>2 DEF Lookup
<1>4. n \notin found /\ n \notin stack
  BY <1>1 DEF QuietWalk, StillToSee
<1>5. \/ /\ Kind(n) = "dir" /\ pc' = "walk"
         /\ stack' = stack \cup {n} /\ UNCHANGED <<found, total>>
      \/ /\ Kind(n) = "regular" /\ n \notin BadNames /\ pc' = "walk"
         /\ found' = found \cup {n} /\ total' = total + tree[n].size /\ stack' = stack
      \/ /\ Kind(n) # "dir" /\ ~ Accepted(n, tree[n]) /\ pc' = "rejected"
  BY <1>3 DEF StatEntry, Accepted, Reject, Kind
<1>6. \A a \in stack \cup listing : \A m \in found \cup stack \cup listing :
        a \notin Ancestors[m]
  BY DEF QuietWalk, StillToSee
<1>7. ASSUME NEW m \in Nodes, Kind(m) \notin {"absent", "dir"}
      PROVE  \/ m \in found
             \/ \E a \in PathOf(m) : a \in listing
             \/ \E a \in Ancestors[m] : a \in stack
  BY <1>7 DEF QuietWalk, StillToSee
<1>8. CASE /\ Kind(n) = "dir" /\ pc' = "walk"
           /\ stack' = stack \cup {n} /\ UNCHANGED <<found, total>>
  <2>1. StillToSee'
    <3>1. \A a \in stack' \cup listing' : \A m \in found' \cup stack' \cup listing' :
            a \notin Ancestors[m]
      BY <1>1, <1>6, <1>8
    <3>2. listing' \cap (found' \cup stack') = {}
      BY <1>1, <1>8 DEF QuietWalk, StillToSee
    <3>3. ASSUME NEW m \in Nodes, Kind(m) \notin {"absent", "dir"}
          PROVE  \/ m \in found'
                 \/ \E a \in PathOf(m) : a \in listing'
                 \/ \E a \in Ancestors[m] : a \in stack'
      BY <1>1, <1>7, <1>8, <3>3 DEF PathOf
    <3> QED
      BY <1>1, <3>1, <3>2, <3>3 DEF StillToSee, Kind
  <2> QED
    BY <1>1, <1>8, <2>1 DEF QuietWalk, Kind, Regular
<1>9. CASE /\ Kind(n) = "regular" /\ n \notin BadNames /\ pc' = "walk"
           /\ found' = found \cup {n} /\ total' = total + tree[n].size /\ stack' = stack
  <2>1. StillToSee'
    <3>1. \A a \in stack' \cup listing' : \A m \in found' \cup stack' \cup listing' :
            a \notin Ancestors[m]
      BY <1>1, <1>6, <1>9
    <3>2. listing' \cap (found' \cup stack') = {}
      BY <1>1, <1>9 DEF QuietWalk, StillToSee
    <3>3. ASSUME NEW m \in Nodes, Kind(m) \notin {"absent", "dir"}
          PROVE  \/ m \in found'
                 \/ \E a \in PathOf(m) : a \in listing'
                 \/ \E a \in Ancestors[m] : a \in stack'
      <4>1. n \notin Ancestors[m]
        BY <1>9, <3>3, AroundEntry DEF AllNodes
      <4> QED
        BY <1>1, <1>7, <1>9, <3>3, <4>1 DEF PathOf
    <3> QED
      BY <1>1, <3>1, <3>2, <3>3 DEF StillToSee, Kind
  <2>2. total' = NodeBytes(tree', found')
    <3>1. IsFiniteSet(found) /\ total = NodeBytes(tree, found)
      BY FiniteNodes DEF TypeOK, QuietWalk
    <3>2. \A m \in found \cup {n} : tree[m].size \in Nat
      BY EntryTypes DEF TypeOK, AllNodes
    <3>3. NodeBytes(tree, found \cup {n}) = NodeBytes(tree, found) + tree[n].size
      BY <1>4, <3>1, <3>2, NodeBytesAdd
    <3> QED
      BY <1>1, <1>9, <3>1, <3>3
  <2> QED
    BY <1>1, <1>9, <2>1, <2>2 DEF QuietWalk, Kind, Regular
<1>10. CASE Kind(n) # "dir" /\ ~ Accepted(n, tree[n]) /\ pc' = "rejected"
  <2>1. CASE Kind(n) # "regular"
    BY <1>1, <1>10, <2>1 DEF ObeysRules
  <2>2. CASE Kind(n) = "regular" /\ n \in BadNames
    BY <1>1, <1>10, <2>2 DEF ObeysRules, Regular
  <2>3. CASE Kind(n) = "regular" /\ n \notin BadNames
    <3>1. ~ (Cardinality(found) < max_files)
      BY <1>10, <2>3 DEF Accepted, Kind
    <3>2. found \cup {n} \in SUBSET Regular /\ Regular \in SUBSET Nodes
      BY <2>3 DEF QuietWalk, Regular
    <3>3. /\ IsFiniteSet(found) /\ Cardinality(found) \in Nat
          /\ IsFiniteSet(Regular) /\ Cardinality(Regular) \in Nat
      BY <3>2, FiniteNodes DEF TypeOK
    <3>4. Cardinality(found \cup {n}) = Cardinality(found) + 1
      BY <1>4, <3>3, FS_AddElement
    <3>5. Cardinality(found \cup {n}) <= Cardinality(Regular)
      BY <3>2, <3>3, FS_Subset
    <3>6. ~ (Cardinality(Regular) <= max_files)
      BY <3>1, <3>3, <3>4, <3>5, OutputAssumption
    <3> QED
      BY <1>1, <1>10, <3>6 DEF ObeysRules
  <2> QED
    BY <1>1, <1>10, <2>1, <2>2, <2>3
<1> QED
  BY <1>1, <1>5, <1>8, <1>9, <1>10

\* At the end of the walk the regular files have been found, all of them, and nothing
\* else is there.
LEMMA QuietWalkEnds ==
    ASSUME TypeOK, CollectInv, pc = "walk", QuietWalk, listing = {}, stack = {}
    PROVE  /\ found = Regular
           /\ ObeysRules <=> total <= max_total_bytes
<1>1. \A n \in Nodes : Kind(n) \notin {"absent", "dir"} => n \in found
  BY DEF QuietWalk, StillToSee
<1>2. found = Regular
  BY <1>1 DEF QuietWalk, Regular
<1>3. \A n \in Nodes : Kind(n) \in {"absent", "dir", "regular"}
  BY <1>1 DEF QuietWalk, Regular
<1>4. Regular \cap BadNames = {}
  BY <1>2 DEF QuietWalk
<1>5. Cardinality(Regular) <= max_files
  <2>1. files = {} /\ Cardinality({}) = 0
    BY FS_EmptySet DEF CollectInv, Placed
  <2>2. Cardinality(found) \in Nat
    BY FiniteNodes DEF TypeOK
  <2> QED
    BY <1>2, <2>1, <2>2, OutputAssumption DEF CollectInv, Counted
<1>6. ObeysRules <=> NodeBytes(tree, Regular) <= max_total_bytes
  BY <1>3, <1>4, <1>5 DEF ObeysRules, QuietWalk
<1> QED
  BY <1>2, <1>6 DEF QuietWalk

\* A tree that does not change breaks the same rules as before.
LEMMA SameRules ==
    ASSUME tree' = tree
    PROVE  /\ Kind(Outputs)' = Kind(Outputs) /\ Regular' = Regular
           /\ ObeysRules' <=> ObeysRules
<1>1. Kind(Outputs)' = Kind(Outputs) /\ Regular' = Regular
  BY DEF Kind, Regular
<1> QED
  BY <1>1 DEF ObeysRules, Kind

\* The bytes of the rules are those of NodeBytes.
LEMMA RulesBound ==
    ASSUME ObeysRules
    PROVE  NodeBytes(tree, Regular) <= max_total_bytes
  BY DEF ObeysRules

\* A file is read as it was found.
LEMMA QuietReadFile ==
    ASSUME TypeOK, CollectInv, pc = "read", QuietRead, ReadFile
    PROVE  pc' = "next" /\ tree' = tree /\ QuietRead'
<1> DEFINE length == Min({fd_size, ReadLimit})
           rest == found \ {Current}
<1>1. /\ Current \in found /\ Current \in Regular /\ Current \in Nodes
      /\ ~ foreign /\ total \in Nat
      /\ fd_size = tree[Current].size /\ total <= max_total_bytes
  BY CurrentFound DEF CollectInv, Placed, Counted, QuietRead, TypeOK
<1>2. /\ rest \subseteq Nodes /\ Current \notin rest /\ rest \cup {Current} = found
      /\ \A m \in rest : tree[m].size \in Nat
      /\ tree[Current].size \in Nat
  BY <1>1, EntryTypes DEF TypeOK, AllNodes
<1> HIDE DEF rest
<1>3. NodeBytes(tree, rest) \in Nat
      /\ NodeBytes(tree, found) = NodeBytes(tree, rest) + tree[Current].size
  <2>1. IsFiniteSet(rest)
    BY <1>2, FiniteNodes
  <2>2. /\ NodeBytes(tree, rest) \in Nat
        /\ NodeBytes(tree, rest \cup {Current}) = NodeBytes(tree, rest) + tree[Current].size
    BY <1>2, <2>1, NodeBytesAdd
  <2> QED
    BY <1>2, <2>2
<1>4. total + fd_size + NodeBytes(tree, rest) = NodeBytes(tree, Regular)
  BY <1>1, <1>2, <1>3 DEF QuietRead
<1>5. NodeBytes(tree, Regular) <= max_total_bytes
  BY RulesBound DEF QuietRead
<1>6. total + fd_size <= max_total_bytes
  BY <1>1, <1>2, <1>3, <1>4, <1>5, OutputAssumption
<1>7. length = fd_size
  BY <1>1, <1>6, ReadLength
<1>8. total' = total + length /\ tree' = tree
  BY DEF ReadFile
<1>9. ~ (total' > max_total_bytes)
  BY <1>1, <1>2, <1>6, <1>7, <1>8, OutputAssumption
<1>10. /\ pc' = "next" /\ found' = rest
       /\ files' = files \cup {[name |-> Current, size |-> length, foreign |-> foreign]}
  BY <1>9 DEF ReadFile, rest
<1> HIDE DEF length
<1>11. files' = {[name |-> n, size |-> tree[n].size, foreign |-> FALSE] : n \in Regular \ rest}
  <2>1. Regular \ rest = (Regular \ found) \cup {Current}
    BY <1>1, <1>2 DEF rest
  <2>2. foreign = FALSE
    BY <1>1 DEF TypeOK
  <2>3. files' = files \cup {[name |-> Current, size |-> tree[Current].size,
                              foreign |-> FALSE]}
    BY <1>1, <1>7, <1>10, <2>2
  <2> QED
    BY <2>1, <2>3 DEF QuietRead
<1>12. total' + NodeBytes(tree', found') = NodeBytes(tree', Regular)
  BY <1>4, <1>7, <1>8, <1>10
<1>13. Regular' = Regular /\ (ObeysRules' <=> ObeysRules)
  BY <1>8, SameRules
<1> QED
  BY <1>2, <1>8, <1>10, <1>11, <1>12, <1>13 DEF QuietRead

\* QuietInv is inductive.
LEMMA QuietStep ==
    ASSUME TypeOK, CollectInv, Untouched, QuietInv, [Next]_vars
    PROVE  QuietInv'
<1> SUFFICES ASSUME changes' = 0
             PROVE  /\ tree' \in Trees
                    /\ pc' = "check" => stack' = {} /\ listing' = {} /\ total' = 0
                    /\ pc' = "walk" => QuietWalk'
                    /\ pc' \in {"next", "open", "read"} => QuietRead'
                    /\ QuietResultExact'
  BY DEF QuietInv
<1>1. ASSUME tree' = tree
      PROVE  /\ Kind(Outputs)' = Kind(Outputs) /\ Regular' = Regular
             /\ ObeysRules' <=> ObeysRules
  BY <1>1, SameRules
<1>2. ASSUME changes = 0, tree' = tree, pc' = "walk", QuietWalk'
      PROVE  QuietInv'
  BY <1>2 DEF QuietInv, QuietResultExact
<1>3. ASSUME changes = 0, tree' = tree, pc' \in {"next", "open", "read"}, QuietRead'
      PROVE  QuietInv'
  BY <1>3 DEF QuietInv, QuietResultExact
<1>4. ASSUME changes = 0, tree' = tree, pc' = "rejected", Kind(Outputs) # "absent",
             ~ ObeysRules
      PROVE  QuietInv'
  BY <1>1, <1>4 DEF QuietInv, QuietResultExact
<1>5. CASE CheckDirectory
  <2>1. /\ changes = 0 /\ tree' = tree /\ pc = "check" /\ files' = files
        /\ stack' = {Outputs} /\ UNCHANGED <<listing, found, total>>
    BY <1>5 DEF CheckDirectory
  <2>2. /\ listing = {} /\ found = {} /\ total = 0 /\ files = {} /\ tree \in Trees
    BY <2>1 DEF QuietInv, CollectInv, Placed
  <2>3. Outputs \in AllNodes
    BY DEF AllNodes
  <2>4. CASE Kind(Outputs) = "dir"
    <3>1. pc' = "walk"
      BY <1>5, <2>4 DEF CheckDirectory
    <3> QED
      BY <1>2, <2>1, <2>2, <2>4, <3>1, QuietBegin DEF QuietInv
  <2>5. CASE Kind(Outputs) = "absent"
    <3>1. pc' = "done"
      BY <1>5, <2>5 DEF CheckDirectory
    <3>2. \A n \in Nodes : Kind(n) = "absent"
      <4>1. \A n \in Nodes : Outputs \in Ancestors[n]
        BY AncestorFacts DEF AllNodes
      <4> QED
        BY <2>2, <2>5, <4>1, AroundEntry DEF AllNodes
    <3>3. Regular = {}
      BY <3>2 DEF Regular
    <3> QED
      BY <1>1, <2>1, <2>2, <2>5, <3>1, <3>3 DEF QuietResultExact
  <2>6. CASE Kind(Outputs) \notin {"dir", "absent"}
    <3>1. pc' = "rejected" /\ ~ ObeysRules
      BY <1>5, <2>6 DEF CheckDirectory, ObeysRules
    <3> QED
      BY <1>4, <2>1, <2>6, <3>1 DEF QuietInv
  <2> QED
    BY <2>4, <2>5, <2>6
<1>6. ASSUME NEW d \in AllNodes, ListDirectory(d)
      PROVE  QuietInv'
  <2>1. changes = 0 /\ tree' = tree /\ pc = "walk"
    BY <1>6 DEF ListDirectory
  <2>2. tree \in Trees /\ QuietWalk
    BY <2>1 DEF QuietInv
  <2> QED
    BY <1>2, <1>6, <2>1, <2>2, QuietList
<1>7. ASSUME NEW n \in Nodes, StatEntry(n)
      PROVE  QuietInv'
  <2>1. changes = 0 /\ tree' = tree /\ pc = "walk"
    BY <1>7 DEF StatEntry
  <2>2. tree \in Trees /\ QuietWalk /\ Kind(Outputs) # "absent"
    BY <2>1 DEF QuietInv, QuietWalk
  <2> QED
    BY <1>2, <1>4, <1>7, <2>1, <2>2, QuietStat
<1>8. CASE CheckTotal
  <2>1. /\ changes = 0 /\ tree' = tree /\ pc = "walk" /\ listing = {} /\ stack = {}
        /\ total' = 0 /\ UNCHANGED <<files, found>>
    BY <1>8 DEF CheckTotal
  <2>2. QuietWalk /\ Kind(Outputs) # "absent" /\ files = {}
    BY <2>1 DEF QuietInv, QuietWalk, CollectInv, Placed
  <2>3. found = Regular /\ (ObeysRules <=> total <= max_total_bytes)
    BY <2>1, <2>2, QuietWalkEnds
  <2>4. CASE total > max_total_bytes
    <3>1. pc' = "rejected" /\ ~ ObeysRules
      BY <1>8, <2>3, <2>4, OutputAssumption DEF CheckTotal, Reject, TypeOK
    <3> QED
      BY <1>4, <2>1, <2>2, <3>1 DEF QuietInv
  <2>5. CASE ~ (total > max_total_bytes)
    <3>1. pc' = "next" /\ ObeysRules
      BY <1>8, <2>3, <2>5, OutputAssumption DEF CheckTotal, TypeOK
    <3>2. /\ ObeysRules' /\ found' = Regular' /\ tree' = tree
          /\ files' = {}
      BY <1>1, <2>1, <2>2, <2>3, <3>1
    <3>3. NodeBytes(tree, found) \in Nat
      BY <2>2 DEF QuietWalk, TypeOK
    <3>4. total' + NodeBytes(tree', found') = NodeBytes(tree', Regular')
      BY <2>1, <2>3, <3>2, <3>3
    <3>5. QuietRead'
      BY <3>1, <3>2, <3>4 DEF QuietRead
    <3> QED
      BY <1>3, <2>1, <3>1, <3>5 DEF QuietInv
  <2> QED
    BY <2>4, <2>5
<1>9. ASSUME changes = 0, QuietRead, UNCHANGED <<tree, found, total, files>>,
             pc' \in {"next", "open", "read"},
             pc' = "read" => fd_size' = tree[Current].size
      PROVE  QuietInv'
  <2>1. /\ Regular' = Regular /\ (ObeysRules' <=> ObeysRules) /\ Current' = Current
    BY <1>1, <1>9 DEF Current
  <2>2. QuietRead'
    BY <1>9, <2>1 DEF QuietRead
  <2> QED
    BY <1>3, <1>9, <2>2
<1>10. CASE NextFile
  <2>1. changes = 0 /\ pc = "next" /\ UNCHANGED <<tree, found, total, files>>
    BY <1>10 DEF NextFile
  <2>2. QuietRead /\ Kind(Outputs) = "dir"
    BY <2>1 DEF QuietInv, QuietRead, ObeysRules
  <2>3. CASE found = {}
    <3>1. pc' = "done"
      BY <1>10, <2>3 DEF NextFile
    <3>2. /\ ObeysRules
          /\ files = {[name |-> n, size |-> tree[n].size, foreign |-> FALSE] : n \in Regular}
      BY <2>2, <2>3 DEF QuietRead
    <3>3. tree \in Trees
      BY <2>1 DEF QuietInv
    <3> QED
      BY <1>1, <2>1, <3>1, <3>2, <3>3 DEF QuietResultExact
  <2>4. CASE found # {}
    <3>1. pc' = "open"
      BY <1>10, <2>2, <2>4 DEF NextFile, Openable
    <3> QED
      BY <1>9, <2>1, <2>2, <3>1 DEF QuietInv
  <2> QED
    BY <2>3, <2>4
<1>11. ASSUME changes = 0, pc = "open"
       PROVE  /\ QuietRead /\ tree \in Trees
              /\ found # {} /\ fd \in Ancestors[Current]
              /\ Kind(Current) = "regular"
              /\ \A a \in Ancestors[Current] : Kind(a) = "dir"
  <2>1. /\ QuietRead /\ tree \in Trees /\ found # {} /\ fd \in Ancestors[Current]
    BY <1>11 DEF QuietInv, CollectInv, Placed
  <2>2. Kind(Current) = "regular" /\ Current \in AllNodes
    BY <2>1, CurrentFound DEF QuietRead, Regular, AllNodes
  <2> QED
    BY <2>1, <2>2, AroundEntry
<1>12. CASE OpenDirectory
  <2>1. /\ changes = 0 /\ pc = "open" /\ UNCHANGED <<tree, found, total, files>>
        /\ Segment # Current
    BY <1>12 DEF OpenDirectory
  <2>2. Kind(Segment) = "dir"
    BY <1>11, <2>1, SegmentOnPath
  <2>3. pc' = "open"
    BY <1>12, <2>2 DEF OpenDirectory, Openable
  <2> QED
    BY <1>9, <1>11, <2>1, <2>3 DEF QuietInv
<1>13. CASE OpenFile
  <2>1. /\ changes = 0 /\ pc = "open" /\ UNCHANGED <<tree, found, total, files>>
        /\ fd_size' = tree[Current].size
    BY <1>13 DEF OpenFile
  <2>2. pc' = "read"
    BY <1>11, <1>13, <2>1 DEF OpenFile, Readable
  <2> QED
    BY <1>9, <1>11, <2>1, <2>2 DEF QuietInv
<1>14. CASE ReadFile
  <2>1. changes = 0 /\ pc = "read"
    BY <1>14 DEF ReadFile
  <2>2. QuietRead
    BY <2>1 DEF QuietInv
  <2> QED
    BY <1>3, <1>14, <2>1, <2>2, QuietReadFile DEF QuietInv
<1>15. CASE Survivor
  <2>1. changes' # 0
    BY <1>15 DEF Survivor, Replace, ResizeOpenFile, OpenFifoForWriting, MakeDirectory, TypeOK
  <2> QED
    BY <2>1
<1>16. CASE UNCHANGED vars
  <2>1. UNCHANGED <<tree, changes, pc, stack, listing, found, total, fd_size, files>>
    BY <1>16 DEF vars
  <2>2. Regular' = Regular /\ (ObeysRules' <=> ObeysRules) /\ Current' = Current
    BY <1>1, <2>1 DEF Current
  <2>3. (QuietWalk' <=> QuietWalk) /\ (QuietRead' <=> QuietRead)
    BY <2>1, <2>2 DEF QuietWalk, QuietRead, StillToSee, Kind
  <2>4. QuietResultExact' <=> QuietResultExact
    BY <2>1, <2>2 DEF QuietResultExact, Kind
  <2> QED
    BY <2>1, <2>3, <2>4 DEF QuietInv
<1>17. CASE StatFurther \/ ListFurther
  <2>1. changes = 0 /\ further # "none"
    BY <1>17 DEF StatFurther, ListFurther
  <2> QED
    BY <2>1 DEF Untouched
<1>18. QuietInv'
  BY <1>5, <1>6, <1>7, <1>8, <1>10, <1>12, <1>13, <1>14, <1>15, <1>16, <1>17
     DEF Next, Collect, QuietInv
<1> QED
  BY <1>18 DEF QuietInv

-----------------------------------------------------------------------------
(* The theorems.                                                           *)

\* The states in which the collection begins.
LEMMA CollectInit ==
    Init => TypeOK /\ CollectInv /\ Untouched /\ QuietInv
<1> SUFFICES ASSUME Init PROVE TypeOK /\ CollectInv /\ Untouched /\ QuietInv
  OBVIOUS
<1>1. Outputs \in AllNodes /\ 0 \in 0 .. MaxChanges
  BY OutputAssumption DEF AllNodes
<1>2. TypeOK
  BY <1>1 DEF Init, Trees, TypeOK
<1>3. IsFiniteSet({}) /\ Cardinality({}) = 0 /\ FileBytes({}) = 0
  BY FS_EmptySet, NoBytes
<1>4. CollectInv
  BY <1>3, OutputAssumption
     DEF Init, CollectInv, Counted, Placed, MemoryBounded, NothingForeign
<1>5. QuietInv
  BY DEF Init, QuietInv, QuietResultExact
<1>6. Untouched
  BY DEF Init, Untouched
<1> QED
  BY <1>2, <1>4, <1>5, <1>6

\* Every reachable state of the collection has its types and satisfies CollectInv and
\* QuietInv, whatever the surviving process does.
THEOREM OutputInvariant == Spec => [](TypeOK /\ CollectInv /\ Untouched /\ QuietInv)
<1>1. TypeOK /\ CollectInv /\ Untouched /\ QuietInv /\ [Next]_vars
        => TypeOK' /\ CollectInv' /\ Untouched' /\ QuietInv'
  BY TypeStep, CollectStep, UntouchedStep, QuietStep
<1> QED
  BY <1>1, CollectInit, PTL DEF Spec

\* collect_output_files never returns more files or bytes than its limits allow, for
\* every directory tree and every race with a process that outlives the script.
THEOREM LimitsHold == Spec => []ResultWithinLimits
<1>1. TypeOK /\ CollectInv => ResultWithinLimits
  <2> SUFFICES ASSUME TypeOK, CollectInv PROVE ResultWithinLimits
    OBVIOUS
  <2>1. /\ IsFiniteSet(files) /\ Cardinality(files) + Cardinality(found) <= max_files
        /\ FileBytes(files) <= max_total_bytes
    BY DEF CollectInv, Counted
  <2>2. Cardinality(files) \in Nat /\ Cardinality(found) \in Nat
    BY <2>1, FiniteNodes, FS_CardinalityType DEF TypeOK
  <2>3. Cardinality(files) <= max_files
    BY <2>1, <2>2, OutputAssumption
  <2> QED
    BY <2>1, <2>3 DEF ResultWithinLimits
<1> QED
  BY <1>1, OutputInvariant, PTL

\* It never holds more than one byte above the limit, however a file grows.
THEOREM MemoryHolds == Spec => []MemoryBounded
<1>1. CollectInv => MemoryBounded
  BY DEF CollectInv
<1> QED
  BY <1>1, OutputInvariant, PTL

\* No byte of the result was reached through a symbolic link, at whatever depth and
\* moment a directory or the file itself is replaced by one.
THEOREM LinksRefused == Spec => []NothingForeign
<1>1. CollectInv => NothingForeign
  BY DEF CollectInv
<1> QED
  BY <1>1, OutputInvariant, PTL

\* A directory that nobody touches is returned exactly, or rejected for a rule it
\* breaks: for trees of every depth and any number of files.
THEOREM QuietCollectionExact == Spec => []QuietResultExact
<1>1. QuietInv => QuietResultExact
  BY DEF QuietInv, QuietResultExact
<1> QED
  BY <1>1, OutputInvariant, PTL
=============================================================================
