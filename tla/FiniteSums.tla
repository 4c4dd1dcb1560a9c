----------------------------- MODULE FiniteSums -----------------------------
(***************************************************************************)
(* What the proofs need of sums over finite sets, of counting, of sorting  *)
(* and of walking along cursors.  A sum is SumFunctionOnSet: a function    *)
(* of the summands, and the set they are taken over.                       *)
(*                                                                         *)
(* The library's induction theorems quantify over operators and cannot be  *)
(* used here.  Induction over a finite set is by a smallest subset for     *)
(* which the claim fails: strict inclusion is well founded there.          *)
(***************************************************************************)
EXTENDS Integers, FiniteSetsExt, FiniteSetTheorems, WellFoundedInduction, TLAPS

-----------------------------------------------------------------------------
(* Induction *)

\* Induction over a finite set: what fails for some subset fails for a smallest one.
LEMMA SmallestSubset ==
    ASSUME NEW S, IsFiniteSet(S), NEW Bad \in SUBSET SUBSET S, Bad # {}
    PROVE  \E V \in Bad : \A U \in Bad : U \subseteq V => U = V
<1>1. IsWellFoundedOn(StrictSubsetOrdering(S), SUBSET S)
    BY FS_FiniteSubsetsOfFinite, FS_StrictSubsetOrderingWellFounded
<1>2. PICK V \in Bad : \A U \in Bad : ~(<<U, V>> \in StrictSubsetOrdering(S))
    BY <1>1, WFMin
<1>3. ASSUME NEW U \in Bad, U \subseteq V, U # V
      PROVE  FALSE
  <2>1. U \in SUBSET S /\ V \in SUBSET S
    OBVIOUS
  <2>2. <<U, V>> \in StrictSubsetOrdering(S)
    BY <1>3, <2>1 DEF StrictSubsetOrdering
  <2> QED BY <1>2, <1>3, <2>2
<1> QED BY <1>3

\* The same the other way round: what holds of the empty set and keeps holding
\* with one element more holds of the whole set.
LEMMA OneByOne ==
    ASSUME NEW S, IsFiniteSet(S), NEW Good, {} \in Good,
           \A V \in SUBSET S : \A x \in S : V \in Good => V \cup {x} \in Good
    PROVE  S \in Good
<1> DEFINE Bad == {V \in SUBSET S : V \notin Good}
<1> SUFFICES ASSUME Bad # {}
             PROVE  FALSE
    OBVIOUS
<1>1. \E V \in Bad : \A U \in Bad : U \subseteq V => U = V
  <2>1. Bad \in SUBSET SUBSET S
    OBVIOUS
  <2> HIDE DEF Bad
  <2> QED BY <2>1, SmallestSubset
<1>2. PICK V \in Bad : \A U \in Bad : U \subseteq V => U = V
    BY <1>1
<1>3. PICK x : x \in V
    OBVIOUS
<1>4. V \ {x} \in SUBSET S /\ V \ {x} \in Good
    BY <1>2, <1>3
<1>5. (V \ {x}) \cup {x} = V
    BY <1>3
<1> QED BY <1>3, <1>4, <1>5

-----------------------------------------------------------------------------
(* The fold has one value *)

\* The recursive function behind SumFunctionOnSet.
Pick(s) == CHOOSE x \in s : TRUE
Adds(i, f, S) ==
    i = [s \in SUBSET S |-> IF s = {} THEN 0 ELSE f[Pick(s)] + i[s \ {Pick(s)}]]

\* A sum is its value.
LEMMA SumIs ==
    ASSUME NEW f, NEW S
    PROVE  SumFunctionOnSet(f, S) = (CHOOSE i : Adds(i, f, S))[S]
BY DEF SumFunctionOnSet, FoldFunctionOnSet, MapThenFoldSet, Adds, Pick

\* The function at one of its arguments.
LEMMA AddsAt ==
    ASSUME NEW i, NEW f, NEW S, Adds(i, f, S), NEW U \in SUBSET S
    PROVE  i[U] = IF U = {} THEN 0 ELSE f[Pick(U)] + i[U \ {Pick(U)}]
BY DEF Adds

\* A set that is not empty has a next element.
LEMMA Picked ==
    ASSUME NEW U, U # {}
    PROVE  Pick(U) \in U
BY DEF Pick

\* Two sums agree where their summands do.
LEMMA AddsUnique ==
    ASSUME NEW S, NEW T, NEW f, NEW g, NEW i, NEW j, Adds(i, f, S), Adds(j, g, T),
           NEW U \in SUBSET (S \cap T), IsFiniteSet(U), \A x \in U : f[x] = g[x]
    PROVE  i[U] = j[U]
<1> DEFINE Bad == {V \in SUBSET U : i[V] # j[V]}
<1> SUFFICES ASSUME Bad # {}
             PROVE  FALSE
    OBVIOUS
<1>0. \E V \in Bad : \A W \in Bad : W \subseteq V => W = V
  <2>1. Bad \in SUBSET SUBSET U
    OBVIOUS
  <2> HIDE DEF Bad
  <2> QED BY <2>1, SmallestSubset
<1>1. PICK V \in Bad : \A W \in Bad : W \subseteq V => W = V
    BY <1>0
<1>2. V \in SUBSET S /\ V \in SUBSET T /\ i[V] # j[V] /\ V \subseteq U
    OBVIOUS
<1>3. CASE V = {}
    BY <1>2, <1>3, AddsAt
<1>4. CASE V # {}
  <2>1. Pick(V) \in V
    BY <1>4, Picked
  <2>2. V \ {Pick(V)} \notin Bad
    BY <1>1, <2>1
  <2>3. i[V \ {Pick(V)}] = j[V \ {Pick(V)}]
    BY <1>2, <2>2
  <2>4. i[V] = f[Pick(V)] + i[V \ {Pick(V)}] /\ j[V] = g[Pick(V)] + j[V \ {Pick(V)}]
    BY <1>2, <1>4, AddsAt
  <2>5. f[Pick(V)] = g[Pick(V)]
    BY <1>2, <2>1
  <2> QED BY <1>2, <2>3, <2>4, <2>5
<1> QED BY <1>3, <1>4

\* Every finite set has a sum.
LEMMA AddsExists ==
    ASSUME NEW S, IsFiniteSet(S), NEW f
    PROVE  \E i : Adds(i, f, S)
<1> DEFINE Bad == {V \in SUBSET S : ~\E i : Adds(i, f, V)}
<1> SUFFICES ASSUME Bad # {}
             PROVE  FALSE
    OBVIOUS
<1>0. \E V \in Bad : \A W \in Bad : W \subseteq V => W = V
  <2>1. Bad \in SUBSET SUBSET S
    OBVIOUS
  <2> HIDE DEF Bad
  <2> QED BY <2>1, SmallestSubset
<1>1. PICK V \in Bad : \A W \in Bad : W \subseteq V => W = V
    BY <1>0
<1> DEFINE Below(t) == CHOOSE i : Adds(i, f, t)
           sum == [s \in SUBSET V |-> IF s = {} THEN 0
                                      ELSE f[Pick(s)] + Below(s \ {Pick(s)})[s \ {Pick(s)}]]
<1>2. \A t \in SUBSET V : t # V => Adds(Below(t), f, t)
    BY <1>1
<1> HIDE DEF Below
<1>3. ASSUME NEW s \in SUBSET V, s # {}
      PROVE  Below(s \ {Pick(s)})[s \ {Pick(s)}] = sum[s \ {Pick(s)}]
  <2> DEFINE t == s \ {Pick(s)}
  <2>1. t \in SUBSET V /\ t # V /\ Adds(Below(t), f, t)
    BY <1>2, <1>3, Picked
  <2>2. CASE t = {}
    BY <2>1, <2>2, AddsAt
  <2>3. CASE t # {}
    <3> DEFINE u == t \ {Pick(t)}
    <3>1. u \in SUBSET V /\ u # V /\ Adds(Below(u), f, u) /\ u \in SUBSET t
      BY <1>2, <2>1, <2>3, Picked
    <3>2. Below(t)[t] = f[Pick(t)] + Below(t)[u]
      BY <2>1, <2>3, AddsAt
    <3>3. IsFiniteSet(u)
      BY <3>1, FS_Subset
    <3>4. Below(t)[u] = Below(u)[u]
      BY <2>1, <3>1, <3>3, AddsUnique
    <3>5. sum[t] = f[Pick(t)] + Below(u)[u]
      BY <2>1, <2>3
    <3> QED BY <3>2, <3>4, <3>5
  <2> QED BY <2>2, <2>3
<1>4. sum = [s \in SUBSET V |-> IF s = {} THEN 0 ELSE f[Pick(s)] + sum[s \ {Pick(s)}]]
    BY <1>3
<1> HIDE DEF sum
<1>5. Adds(sum, f, V)
    BY <1>4 DEF Adds
<1> QED BY <1>1, <1>5

\* A sum does not depend on the order in which its set is picked empty.
LEMMA AddsRemove ==
    ASSUME NEW S, IsFiniteSet(S), NEW f, (\A x \in S : f[x] \in Int), NEW i, Adds(i, f, S),
           NEW U \in SUBSET S
    PROVE  i[U] \in Int /\ \A x \in U : i[U] = f[x] + i[U \ {x}]
<1> DEFINE Good(V) == i[V] \in Int /\ \A x \in V : i[V] = f[x] + i[V \ {x}]
           Bad == {V \in SUBSET S : ~Good(V)}
<1> SUFFICES ASSUME Bad # {}
             PROVE  FALSE
    OBVIOUS
<1>0. \E V \in Bad : \A W \in Bad : W \subseteq V => W = V
  <2>1. Bad \in SUBSET SUBSET S
    OBVIOUS
  <2> HIDE DEF Bad
  <2> QED BY <2>1, SmallestSubset
<1>1. PICK V \in Bad : \A W \in Bad : W \subseteq V => W = V
    BY <1>0
<1>2. \A W \in SUBSET V : W # V => Good(W)
    BY <1>1
<1>3. CASE V = {}
  <2>1. i[V] = 0
    BY <1>3, AddsAt
  <2> QED BY <1>3, <2>1
<1>4. CASE V # {}
  <2> DEFINE c == Pick(V)
  <2>1. c \in V /\ f[c] \in Int
    BY <1>4, Picked
  <2>2. i[V] = f[c] + i[V \ {c}]
    BY <1>4, AddsAt
  <2>3. Good(V \ {c})
    BY <1>2, <2>1
  <2> HIDE DEF c
  <2>4. i[V] \in Int
    BY <2>1, <2>2, <2>3
  <2>5. ASSUME NEW x \in V, x # c
        PROVE  i[V] = f[x] + i[V \ {x}]
    <3>1. i[V \ {c}] = f[x] + i[(V \ {c}) \ {x}]
      BY <2>3, <2>5
    <3>2. Good(V \ {x})
      BY <1>2
    <3>3. i[V \ {x}] = f[c] + i[(V \ {x}) \ {c}]
      BY <2>1, <2>5, <3>2
    <3>4. (V \ {x}) \ {c} = (V \ {c}) \ {x}
      OBVIOUS
    <3>5. Good((V \ {c}) \ {x}) /\ f[x] \in Int
      BY <1>2, <2>1
    <3> DEFINE r == i[(V \ {c}) \ {x}]
    <3>6. r \in Int /\ i[V] = f[c] + (f[x] + r) /\ i[V \ {x}] = f[c] + r
      BY <2>2, <3>1, <3>3, <3>4, <3>5
    <3> HIDE DEF r, Good
    <3> QED BY <2>1, <3>5, <3>6
  <2> QED BY <2>2, <2>4, <2>5
<1> QED BY <1>3, <1>4

-----------------------------------------------------------------------------
(* Sums *)

\* Nothing for the empty set, one summand more per element.
LEMMA SumSplit ==
    ASSUME NEW S, IsFiniteSet(S), NEW f, \A x \in S : f[x] \in Int
    PROVE  /\ SumFunctionOnSet(f, S) \in Int
           /\ S = {} => SumFunctionOnSet(f, S) = 0
           /\ \A x \in S : SumFunctionOnSet(f, S) = f[x] + SumFunctionOnSet(f, S \ {x})
<1>1. PICK i : Adds(i, f, S) /\ SumFunctionOnSet(f, S) = i[S]
    BY AddsExists, SumIs
<1>2. i[S] \in Int /\ \A x \in S : i[S] = f[x] + i[S \ {x}]
  <2>1. PICK U : U = S
    OBVIOUS
  <2>2. U \in SUBSET S
    BY <2>1
  <2>3. i[U] \in Int /\ \A x \in U : i[U] = f[x] + i[U \ {x}]
    BY <1>1, <2>2, AddsRemove
  <2> QED BY <2>1, <2>3
<1>3. S = {} => i[S] = 0
    BY <1>1, AddsAt
<1>4. ASSUME NEW x \in S
      PROVE  i[S \ {x}] = SumFunctionOnSet(f, S \ {x})
  <2> DEFINE T == S \ {x}
             j == CHOOSE k : Adds(k, f, T)
  <2>1. IsFiniteSet(T)
    BY FS_RemoveElement
  <2>2. Adds(j, f, T) /\ SumFunctionOnSet(f, T) = j[T]
    BY <2>1, AddsExists, SumIs
  <2> HIDE DEF j
  <2>3. i[T] = j[T]
    BY <1>1, <2>1, <2>2, AddsUnique
  <2> QED BY <2>2, <2>3
<1> QED BY <1>1, <1>2, <1>3, <1>4

\* Sums with the same summands are the same.
LEMMA SumSame ==
    ASSUME NEW S, IsFiniteSet(S), NEW f, NEW g, \A x \in S : f[x] = g[x]
    PROVE  SumFunctionOnSet(f, S) = SumFunctionOnSet(g, S)
<1> DEFINE i == CHOOSE k : Adds(k, f, S)
           j == CHOOSE k : Adds(k, g, S)
<1>1. /\ Adds(i, f, S) /\ Adds(j, g, S)
      /\ SumFunctionOnSet(f, S) = i[S] /\ SumFunctionOnSet(g, S) = j[S]
    BY AddsExists, SumIs
<1> HIDE DEF i, j
<1>2. i[S] = j[S]
    BY <1>1, AddsUnique
<1> QED BY <1>1, <1>2

\* One element more adds its summand.
LEMMA SumAdd ==
    ASSUME NEW S, IsFiniteSet(S), NEW x, x \notin S, NEW f, \A y \in S \cup {x} : f[y] \in Int
    PROVE  SumFunctionOnSet(f, S \cup {x}) = f[x] + SumFunctionOnSet(f, S)
<1>1. PICK T : T = S \cup {x}
    OBVIOUS
<1>2. IsFiniteSet(T) /\ x \in T /\ T \ {x} = S /\ \A y \in T : f[y] \in Int
    BY <1>1, FS_AddElement
<1>3. SumFunctionOnSet(f, T) = f[x] + SumFunctionOnSet(f, T \ {x})
    BY <1>2, SumSplit
<1> QED BY <1>1, <1>2, <1>3

\* Natural numbers add up to one.
LEMMA SumOfNat ==
    ASSUME NEW S, IsFiniteSet(S), NEW f, \A x \in S : f[x] \in Nat
    PROVE  /\ SumFunctionOnSet(f, S) \in Nat
           /\ S = {} => SumFunctionOnSet(f, S) = 0
           /\ \A x \in S : SumFunctionOnSet(f, S) = f[x] + SumFunctionOnSet(f, S \ {x})
<1> DEFINE Good == {V \in SUBSET S : SumFunctionOnSet(f, V) \in Nat}
<1>1. {} \in Good
  <2>1. PICK V : V = {}
    OBVIOUS
  <2>2. SumFunctionOnSet(f, V) = 0
    BY <2>1, FS_EmptySet, SumSplit
  <2> QED BY <2>1, <2>2
<1>2. ASSUME NEW V \in SUBSET S, NEW x \in S, V \in Good
      PROVE  V \cup {x} \in Good
  <2>1. CASE x \in V
    BY <1>2, <2>1
  <2>2. CASE x \notin V
    <3>1. IsFiniteSet(V)
      BY FS_Subset
    <3>2. SumFunctionOnSet(f, V \cup {x}) = f[x] + SumFunctionOnSet(f, V)
      <4>1. \A y \in V \cup {x} : f[y] \in Int
        OBVIOUS
      <4> QED BY <2>2, <3>1, <4>1, SumAdd
    <3> QED BY <1>2, <3>2
  <2> QED BY <2>1, <2>2
<1>3. S \in Good
  <2> HIDE DEF Good
  <2> QED BY <1>1, <1>2, OneByOne
<1>4. \A x \in S : f[x] \in Int
    OBVIOUS
<1> QED BY <1>3, <1>4, SumSplit

\* The summands of a function are its values.
LEMMA SumDomain ==
    ASSUME NEW f
    PROVE  SumFunction(f) = SumFunctionOnSet(f, DOMAIN f)
BY DEF SumFunction

\* Nothing adds up to nothing.
LEMMA SumNone ==
    ASSUME NEW f, NEW S, S = {}
    PROVE  SumFunctionOnSet(f, S) = 0
BY FS_EmptySet, SumSplit

\* What is added over two sets is added over both.
LEMMA SumUnion ==
    ASSUME NEW S, IsFiniteSet(S), NEW T, IsFiniteSet(T), S \cap T = {}, NEW f,
           \A x \in S \cup T : f[x] \in Int
    PROVE  SumFunctionOnSet(f, S \cup T) = SumFunctionOnSet(f, S) + SumFunctionOnSet(f, T)
<1> DEFINE Good == {V \in SUBSET T :
                        SumFunctionOnSet(f, S \cup V) = SumFunctionOnSet(f, S) + SumFunctionOnSet(f, V)}
<1>0. SumFunctionOnSet(f, S) \in Int
    BY SumSplit
<1>1. {} \in Good
  <2>1. S \cup {} = S /\ SumFunctionOnSet(f, {}) = 0
    BY SumNone
  <2> QED BY <1>0, <2>1
<1>2. ASSUME NEW V \in SUBSET T, NEW x \in T, V \in Good
      PROVE  V \cup {x} \in Good
  <2>1. CASE x \in V
    <3>1. V \cup {x} = V
      BY <2>1
    <3> QED BY <1>2, <3>1
  <2>2. CASE x \notin V
    <3>1. IsFiniteSet(V) /\ IsFiniteSet(S \cup V) /\ x \notin S \cup V
      BY <2>2, FS_Subset, FS_Union
    <3>2. (\A y \in V \cup {x} : f[y] \in Int) /\ \A y \in (S \cup V) \cup {x} : f[y] \in Int
      OBVIOUS
    <3>3. SumFunctionOnSet(f, V \cup {x}) = f[x] + SumFunctionOnSet(f, V)
      BY <2>2, <3>1, <3>2, SumAdd
    <3>4. SumFunctionOnSet(f, (S \cup V) \cup {x}) = f[x] + SumFunctionOnSet(f, S \cup V)
      BY <3>1, <3>2, SumAdd
    <3>5. SumFunctionOnSet(f, V) \in Int /\ f[x] \in Int
      BY <3>1, <3>2, SumSplit
    <3>6. S \cup (V \cup {x}) = (S \cup V) \cup {x}
      OBVIOUS
    <3>7. SumFunctionOnSet(f, S \cup V) = SumFunctionOnSet(f, S) + SumFunctionOnSet(f, V)
      BY <1>2
    <3>8. SumFunctionOnSet(f, (S \cup V) \cup {x})
              = SumFunctionOnSet(f, S) + SumFunctionOnSet(f, V \cup {x})
      BY ONLY <1>0, <3>3, <3>4, <3>5, <3>7
    <3> QED BY <3>6, <3>8
  <2> QED BY <2>1, <2>2
<1>3. T \in Good
  <2> HIDE DEF Good
  <2> QED BY <1>1, <1>2, OneByOne
<1> QED BY <1>3

\* What is added over a part, and over the rest.
LEMMA SumPart ==
    ASSUME NEW S, IsFiniteSet(S), NEW T, T \subseteq S, NEW f, \A x \in S : f[x] \in Int
    PROVE  SumFunctionOnSet(f, S) = SumFunctionOnSet(f, T) + SumFunctionOnSet(f, S \ T)
<1>1. PICK U : U = S \ T
    OBVIOUS
<1>2. IsFiniteSet(T) /\ IsFiniteSet(U) /\ T \cap U = {} /\ T \cup U = S
    BY <1>1, FS_Subset
<1>3. \A x \in T \cup U : f[x] \in Int
    BY <1>2
<1>4. SumFunctionOnSet(f, T \cup U) = SumFunctionOnSet(f, T) + SumFunctionOnSet(f, U)
    BY <1>2, <1>3, SumUnion
<1> QED BY <1>1, <1>2, <1>4

\* A part adds up to no more than the whole.
LEMMA SumOfPart ==
    ASSUME NEW S, IsFiniteSet(S), NEW T, T \subseteq S, NEW f, \A x \in S : f[x] \in Nat
    PROVE  SumFunctionOnSet(f, T) <= SumFunctionOnSet(f, S)
<1>1. PICK U : U = S \ T
    OBVIOUS
<1>2. IsFiniteSet(T) /\ IsFiniteSet(U) /\ (\A x \in T : f[x] \in Nat) /\ \A x \in U : f[x] \in Nat
    BY <1>1, FS_Subset
<1>3. SumFunctionOnSet(f, T) \in Nat /\ SumFunctionOnSet(f, U) \in Nat
    BY <1>2, SumOfNat
<1>4. \A x \in S : f[x] \in Int
    OBVIOUS
<1>5. SumFunctionOnSet(f, S) = SumFunctionOnSet(f, T) + SumFunctionOnSet(f, U)
    BY <1>1, <1>4, SumPart
<1> QED BY <1>3, <1>5

\* Summands with the sign turned.
LEMMA SumNegated ==
    ASSUME NEW S, IsFiniteSet(S), NEW f, NEW g, \A x \in S : f[x] \in Int /\ g[x] = -f[x]
    PROVE  SumFunctionOnSet(g, S) = -SumFunctionOnSet(f, S)
<1> DEFINE Good == {V \in SUBSET S : SumFunctionOnSet(g, V) = -SumFunctionOnSet(f, V)}
<1>1. {} \in Good
  <2>1. SumFunctionOnSet(f, {}) = 0 /\ SumFunctionOnSet(g, {}) = 0
    BY SumNone
  <2> QED BY <2>1
<1>2. ASSUME NEW V \in SUBSET S, NEW x \in S, V \in Good
      PROVE  V \cup {x} \in Good
  <2>1. CASE x \in V
    <3>1. V \cup {x} = V
      BY <2>1
    <3> QED BY <1>2, <3>1
  <2>2. CASE x \notin V
    <3>1. IsFiniteSet(V)
      BY FS_Subset
    <3>2. (\A y \in V \cup {x} : f[y] \in Int) /\ \A y \in V \cup {x} : g[y] \in Int
      OBVIOUS
    <3>3. SumFunctionOnSet(f, V \cup {x}) = f[x] + SumFunctionOnSet(f, V)
      BY <2>2, <3>1, <3>2, SumAdd
    <3>4. SumFunctionOnSet(g, V \cup {x}) = g[x] + SumFunctionOnSet(g, V)
      BY <2>2, <3>1, <3>2, SumAdd
    <3>5. SumFunctionOnSet(f, V) \in Int /\ f[x] \in Int /\ g[x] = -f[x]
      BY <3>1, <3>2, SumSplit
    <3> QED BY <1>2, <3>3, <3>4, <3>5
  <2> QED BY <2>1, <2>2
<1>3. S \in Good
  <2> HIDE DEF Good
  <2> QED BY <1>1, <1>2, OneByOne
<1> QED BY <1>3

\* One for each element counts them.
LEMMA SumOnes ==
    ASSUME NEW S, IsFiniteSet(S), NEW f, \A x \in S : f[x] = 1
    PROVE  SumFunctionOnSet(f, S) = Cardinality(S)
<1> DEFINE Good == {V \in SUBSET S : SumFunctionOnSet(f, V) = Cardinality(V)}
<1>1. {} \in Good
    BY SumNone, FS_EmptySet
<1>2. ASSUME NEW V \in SUBSET S, NEW x \in S, V \in Good
      PROVE  V \cup {x} \in Good
  <2>1. CASE x \in V
    <3>1. V \cup {x} = V
      BY <2>1
    <3> QED BY <1>2, <3>1
  <2>2. CASE x \notin V
    <3>1. IsFiniteSet(V)
      BY FS_Subset
    <3>2. \A y \in V \cup {x} : f[y] \in Int
      OBVIOUS
    <3>3. SumFunctionOnSet(f, V \cup {x}) = f[x] + SumFunctionOnSet(f, V)
      BY <2>2, <3>1, <3>2, SumAdd
    <3>4. Cardinality(V \cup {x}) = Cardinality(V) + 1 /\ Cardinality(V) \in Nat
      BY <2>2, <3>1, FS_AddElement, FS_CardinalityType
    <3> QED BY <1>2, <3>3, <3>4
  <2> QED BY <2>1, <2>2
<1>3. S \in Good
  <2> HIDE DEF Good
  <2> QED BY <1>1, <1>2, OneByOne
<1> QED BY <1>3

\* Summands of at most c add up to at most c for each.
LEMMA SumAtMost ==
    ASSUME NEW S, IsFiniteSet(S), NEW f, NEW c \in Nat, \A x \in S : f[x] \in Nat /\ f[x] <= c
    PROVE  SumFunctionOnSet(f, S) <= c * Cardinality(S)
<1> DEFINE Good == {V \in SUBSET S : SumFunctionOnSet(f, V) <= c * Cardinality(V)}
<1>1. {} \in Good
  <2>1. SumFunctionOnSet(f, {}) = 0 /\ Cardinality({}) = 0
    BY SumNone, FS_EmptySet
  <2> QED BY <2>1
<1>2. ASSUME NEW V \in SUBSET S, NEW x \in S, V \in Good
      PROVE  V \cup {x} \in Good
  <2>1. CASE x \in V
    <3>1. V \cup {x} = V
      BY <2>1
    <3> QED BY <1>2, <3>1
  <2>2. CASE x \notin V
    <3>1. IsFiniteSet(V)
      BY FS_Subset
    <3>2. \A y \in V \cup {x} : f[y] \in Int
      OBVIOUS
    <3>3. SumFunctionOnSet(f, V \cup {x}) = f[x] + SumFunctionOnSet(f, V)
      BY <2>2, <3>1, <3>2, SumAdd
    <3>4. Cardinality(V \cup {x}) = Cardinality(V) + 1 /\ Cardinality(V) \in Nat
      BY <2>2, <3>1, FS_AddElement, FS_CardinalityType
    <3>5. SumFunctionOnSet(f, V) \in Int /\ f[x] \in Nat /\ f[x] <= c
      BY <3>1, <3>2, SumSplit
    <3> DEFINE n == Cardinality(V)
               a == SumFunctionOnSet(f, V)
    <3>6. n \in Nat /\ a \in Int /\ a <= c * n
      BY <1>2, <3>4, <3>5
    <3> HIDE DEF n, a
    <3>7. f[x] + a <= c * (n + 1)
      BY <3>5, <3>6
    <3> QED BY <3>3, <3>4, <3>7 DEF n, a
  <2> QED BY <2>1, <2>2
<1>3. S \in Good
  <2> HIDE DEF Good
  <2> QED BY <1>1, <1>2, OneByOne
<1> QED BY <1>3

-----------------------------------------------------------------------------
(* The same summands under other names *)

Image(m, S) == {m[x] : x \in S}

\* A function maps finitely many elements to finitely many.
LEMMA ImageFinite ==
    ASSUME NEW S, IsFiniteSet(S), NEW m
    PROVE  IsFiniteSet(Image(m, S))
<1> DEFINE Good == {V \in SUBSET S : IsFiniteSet(Image(m, V))}
<1>1. {} \in Good
  <2>1. Image(m, {}) = {}
    BY DEF Image
  <2> QED BY <2>1, FS_EmptySet
<1>2. ASSUME NEW V \in SUBSET S, NEW x \in S, V \in Good
      PROVE  V \cup {x} \in Good
  <2>1. Image(m, V \cup {x}) = Image(m, V) \cup {m[x]}
    BY DEF Image
  <2>2. IsFiniteSet(Image(m, V) \cup {m[x]})
    BY <1>2, FS_AddElement
  <2> QED BY <2>1, <2>2
<1>3. S \in Good
  <2> HIDE DEF Good
  <2> QED BY <1>1, <1>2, OneByOne
<1> QED BY <1>3

\* Elements that are told apart by m may be added up by their images.
LEMMA SumImage ==
    ASSUME NEW S, IsFiniteSet(S), NEW m, \A x, y \in S : m[x] = m[y] => x = y,
           NEW f, NEW g, \A x \in S : f[x] \in Int /\ g[m[x]] = f[x]
    PROVE  SumFunctionOnSet(g, Image(m, S)) = SumFunctionOnSet(f, S)
<1> DEFINE Good == {V \in SUBSET S : SumFunctionOnSet(g, Image(m, V)) = SumFunctionOnSet(f, V)}
<1>1. {} \in Good
  <2>1. Image(m, {}) = {}
    BY DEF Image
  <2> QED BY <2>1, SumNone
<1>2. ASSUME NEW V \in SUBSET S, NEW x \in S, V \in Good
      PROVE  V \cup {x} \in Good
  <2>1. CASE x \in V
    <3>1. V \cup {x} = V
      BY <2>1
    <3> QED BY <1>2, <3>1
  <2>2. CASE x \notin V
    <3>1. IsFiniteSet(V) /\ IsFiniteSet(Image(m, V))
      BY FS_Subset, ImageFinite
    <3>2. Image(m, V \cup {x}) = Image(m, V) \cup {m[x]} /\ m[x] \notin Image(m, V)
      BY <2>2 DEF Image
    <3>3. \A y \in V \cup {x} : f[y] \in Int
      OBVIOUS
    <3>4. \A z \in Image(m, V) \cup {m[x]} : g[z] \in Int
      BY DEF Image
    <3>5. SumFunctionOnSet(f, V \cup {x}) = f[x] + SumFunctionOnSet(f, V)
      BY <2>2, <3>1, <3>3, SumAdd
    <3>6. SumFunctionOnSet(g, Image(m, V) \cup {m[x]}) = g[m[x]] + SumFunctionOnSet(g, Image(m, V))
      BY <3>1, <3>2, <3>4, SumAdd
    <3> QED BY <1>2, <3>2, <3>5, <3>6
  <2> QED BY <2>1, <2>2
<1>3. S \in Good
  <2> HIDE DEF Good
  <2> QED BY <1>1, <1>2, OneByOne
<1> QED BY <1>3

\* As many, too.
LEMMA CountImage ==
    ASSUME NEW S, IsFiniteSet(S), NEW m, \A x, y \in S : m[x] = m[y] => x = y
    PROVE  Cardinality(Image(m, S)) = Cardinality(S)
<1>1. PICK f : f = [x \in S |-> 1]
    OBVIOUS
<1>2. PICK g : g = [z \in Image(m, S) |-> 1]
    OBVIOUS
<1>3. \A x \in S : f[x] \in Int /\ g[m[x]] = f[x]
    BY <1>1, <1>2 DEF Image
<1>4. SumFunctionOnSet(g, Image(m, S)) = SumFunctionOnSet(f, S)
    BY <1>3, SumImage
<1>5. SumFunctionOnSet(f, S) = Cardinality(S)
    BY <1>1, SumOnes
<1>6. SumFunctionOnSet(g, Image(m, S)) = Cardinality(Image(m, S))
    BY <1>2, ImageFinite, SumOnes
<1> QED BY <1>4, <1>5, <1>6

-----------------------------------------------------------------------------
(* Group by group *)

With(key, S, k) == {x \in S : key[x] = k}

\* What is added over a set is added up over its groups, h[k] being the one of k.
LEMMA SumGroups ==
    ASSUME NEW S, IsFiniteSet(S), NEW K, IsFiniteSet(K), NEW key, \A x \in S : key[x] \in K,
           NEW f, \A x \in S : f[x] \in Int,
           NEW h, \A k \in K : h[k] = SumFunctionOnSet(f, With(key, S, k))
    PROVE  SumFunctionOnSet(f, S) = SumFunctionOnSet(h, K)
<1> DEFINE In(V) == {x \in S : key[x] \in V}
           Good == {V \in SUBSET K : SumFunctionOnSet(f, In(V)) = SumFunctionOnSet(h, V)}
<1>0. ASSUME NEW k \in K
      PROVE  IsFiniteSet(With(key, S, k)) /\ h[k] \in Int
  <2>1. PICK G : G = With(key, S, k)
    OBVIOUS
  <2>2. IsFiniteSet(G) /\ \A x \in G : f[x] \in Int
    BY <2>1, FS_Subset DEF With
  <2>3. SumFunctionOnSet(f, G) \in Int
    BY <2>2, SumSplit
  <2> QED BY <2>1, <2>2, <2>3
<1>1. {} \in Good
  <2>1. In({}) = {}
    OBVIOUS
  <2> QED BY <2>1, SumNone
<1>2. ASSUME NEW V \in SUBSET K, NEW k \in K, V \in Good
      PROVE  V \cup {k} \in Good
  <2>1. CASE k \in V
    <3>1. V \cup {k} = V
      BY <2>1
    <3> QED BY <1>2, <3>1
  <2>2. CASE k \notin V
    <3>1. PICK A : A = In(V)
      OBVIOUS
    <3>2. PICK B : B = With(key, S, k)
      OBVIOUS
    <3>3. IsFiniteSet(A) /\ IsFiniteSet(B) /\ A \cap B = {} /\ In(V \cup {k}) = A \cup B
      BY <1>0, <2>2, <3>1, <3>2, FS_Subset DEF With
    <3>4. \A x \in A \cup B : f[x] \in Int
      BY <3>1, <3>2 DEF With
    <3>5. SumFunctionOnSet(f, A \cup B) = SumFunctionOnSet(f, A) + SumFunctionOnSet(f, B)
      BY <3>3, <3>4, SumUnion
    <3>6. IsFiniteSet(V) /\ \A j \in V \cup {k} : h[j] \in Int
      BY <1>0, FS_Subset
    <3>7. SumFunctionOnSet(h, V \cup {k}) = h[k] + SumFunctionOnSet(h, V)
      BY <2>2, <3>6, SumAdd
    <3>8. SumFunctionOnSet(h, V) \in Int /\ h[k] \in Int
      BY <3>6, SumSplit
    <3>9. SumFunctionOnSet(f, A) = SumFunctionOnSet(h, V) /\ SumFunctionOnSet(f, B) = h[k]
      BY <1>2, <3>1, <3>2
    <3>10. SumFunctionOnSet(f, A \cup B) = SumFunctionOnSet(h, V \cup {k})
      BY ONLY <3>5, <3>7, <3>8, <3>9
    <3>11. SumFunctionOnSet(f, In(V \cup {k})) = SumFunctionOnSet(h, V \cup {k})
      BY <3>3, <3>10
    <3> HIDE DEF In
    <3> QED BY <3>11
  <2> QED BY <2>1, <2>2
<1>3. K \in Good
  <2> HIDE DEF Good
  <2> QED BY <1>1, <1>2, OneByOne
<1>4. In(K) = S
    OBVIOUS
<1> QED BY <1>3, <1>4

\* So do the groups' sizes.
LEMMA CountGroups ==
    ASSUME NEW S, IsFiniteSet(S), NEW K, IsFiniteSet(K), NEW key, \A x \in S : key[x] \in K,
           NEW h, \A k \in K : h[k] = Cardinality(With(key, S, k))
    PROVE  Cardinality(S) = SumFunctionOnSet(h, K)
<1>1. PICK f : f = [x \in S |-> 1]
    OBVIOUS
<1>2. ASSUME NEW k \in K
      PROVE  h[k] = SumFunctionOnSet(f, With(key, S, k))
  <2>1. PICK G : G = With(key, S, k)
    OBVIOUS
  <2>2. IsFiniteSet(G) /\ \A x \in G : f[x] = 1
    BY <1>1, <2>1, FS_Subset DEF With
  <2>3. SumFunctionOnSet(f, G) = Cardinality(G)
    BY <2>2, SumOnes
  <2> QED BY <2>1, <2>3
<1>3. \A x \in S : f[x] \in Int
    BY <1>1
<1>4. SumFunctionOnSet(f, S) = SumFunctionOnSet(h, K)
    BY <1>2, <1>3, SumGroups
<1> QED BY <1>1, <1>4, SumOnes

-----------------------------------------------------------------------------
(* Numbers, and sorting *)

\* A set of numbers has a smallest one.
LEMMA SmallestNumber ==
    ASSUME NEW S \in SUBSET Nat, S # {}
    PROVE  \E n \in S : \A m \in S : n <= m
<1>1. PICK n \in S : \A m \in S : <<m, n>> \notin OpToRel(<, Nat)
    BY NatLessThanWellFounded, WFMin
<1>2. \A m \in S : ~(m < n)
    BY <1>1 DEF OpToRel
<1> QED BY <1>2

\* A finite set has an element no other exceeds, in whatever its elements are measured.
LEMMA LastByKey ==
    ASSUME NEW S, IsFiniteSet(S), S # {}, NEW key, \A x \in S : key[x] \in Int
    PROVE  \E x \in S : \A y \in S : key[y] <= key[x]
<1> DEFINE Good == {V \in SUBSET S : V = {} \/ \E x \in V : \A y \in V : key[y] <= key[x]}
<1>1. {} \in Good
    OBVIOUS
<1>2. ASSUME NEW V \in SUBSET S, NEW x \in S, V \in Good
      PROVE  V \cup {x} \in Good
  <2>1. CASE V = {}
    BY <2>1
  <2>2. CASE V # {}
    <3>1. PICK z \in V : \A y \in V : key[y] <= key[z]
      BY <1>2, <2>2
    <3>2. key[x] \in Int /\ key[z] \in Int /\ \A y \in V : key[y] \in Int
      OBVIOUS
    <3>3. CASE key[x] <= key[z]
      BY <3>1, <3>3
    <3>4. CASE key[z] <= key[x]
      BY <3>1, <3>2, <3>4
    <3> QED BY <3>2, <3>3, <3>4
  <2> QED BY <2>1, <2>2
<1> HIDE DEF Good
<1>3. S \in Good
    BY <1>1, <1>2, OneByOne
<1> QED BY <1>3 DEF Good

\* And so a set of numbers that stays below some number has a largest one.
LEMMA LargestNumber ==
    ASSUME NEW S \in SUBSET Nat, S # {}, NEW c \in Nat, \A n \in S : n <= c
    PROVE  Max(S) \in S /\ \A m \in S : m <= Max(S)
<1>1. IsFiniteSet(S)
    BY FS_BoundedSetOfNaturals
<1>2. PICK key : key = [n \in S |-> n]
    OBVIOUS
<1>3. \A n \in S : key[n] \in Int
    BY <1>2
<1>4. PICK n \in S : \A m \in S : key[m] <= key[n]
    BY <1>1, <1>3, LastByKey
<1>5. \A m \in S : n >= m
    BY <1>2, <1>4
<1> QED BY <1>5 DEF Max

InOrder(rows, n, S, key) ==
    /\ rows \in [1..n -> S]
    /\ \A i, j \in 1..n : i < j => rows[i] # rows[j] /\ key[rows[i]] <= key[rows[j]]

\* A finite set can be sorted, in whatever its elements are measured.
LEMMA Sortable ==
    ASSUME NEW S, IsFiniteSet(S), NEW key, \A x \in S : key[x] \in Int
    PROVE  \E rows : InOrder(rows, Cardinality(S), S, key)
<1> DEFINE Bad == {V \in SUBSET S : ~\E rows : InOrder(rows, Cardinality(V), V, key)}
<1> SUFFICES ASSUME Bad # {}
             PROVE  FALSE
    OBVIOUS
<1>1. Bad \in SUBSET SUBSET S
    OBVIOUS
<1> HIDE DEF Bad
<1>2. PICK V \in Bad : \A U \in Bad : U \subseteq V => U = V
    BY <1>1, SmallestSubset
<1> USE DEF Bad
<1>3. V \subseteq S /\ IsFiniteSet(V) /\ ~\E rows : InOrder(rows, Cardinality(V), V, key)
    BY <1>2, FS_Subset
<1>4. \A U \in SUBSET V : U # V => \E rows : InOrder(rows, Cardinality(U), U, key)
    BY <1>2, <1>3
<1> HIDE DEF Bad
<1>5. V # {}
  <2>1. ASSUME V = {}
        PROVE  FALSE
    <3>1. Cardinality(V) = 0
      BY <2>1, FS_EmptySet
    <3>2. PICK rows : rows = [i \in 1..0 |-> 0]
      OBVIOUS
    <3>3. InOrder(rows, 0, V, key)
      BY <3>2 DEF InOrder
    <3> QED BY <1>3, <3>1, <3>3
  <2> QED BY <2>1
<1>6. PICK x \in V : \A y \in V : key[y] <= key[x]
    BY <1>3, <1>5, LastByKey
<1>7. PICK U : U = V \ {x}
    OBVIOUS
<1>8. PICK n : n = Cardinality(U)
    OBVIOUS
<1>9. n \in Nat /\ Cardinality(V) = n + 1
  <2>1. IsFiniteSet(U) /\ x \notin U /\ V = U \cup {x}
    BY <1>3, <1>7, FS_Subset
  <2> QED BY <1>8, <2>1, FS_AddElement, FS_CardinalityType
<1>10. PICK rows : InOrder(rows, n, U, key)
    BY <1>4, <1>7, <1>8
<1>11. PICK longer : longer = [i \in 1..(n + 1) |-> IF i = n + 1 THEN x ELSE rows[i]]
    OBVIOUS
<1>12. /\ longer \in [1..(n + 1) -> V] /\ longer[n + 1] = x
       /\ \A i \in 1..n : longer[i] = rows[i] /\ rows[i] \in V /\ rows[i] # x
    BY <1>7, <1>9, <1>10, <1>11 DEF InOrder
<1>13. ASSUME NEW i \in 1..(n + 1), NEW j \in 1..(n + 1), i < j
       PROVE  longer[i] # longer[j] /\ key[longer[i]] <= key[longer[j]]
  <2>1. i \in 1..n
    BY <1>9, <1>13
  <2>2. CASE j = n + 1
    BY <1>6, <1>12, <2>1, <2>2
  <2>3. CASE j # n + 1
    BY <1>9, <1>10, <1>12, <1>13, <2>1, <2>3 DEF InOrder
  <2> QED BY <2>2, <2>3
<1>14. InOrder(longer, n + 1, V, key)
    BY <1>12, <1>13 DEF InOrder
<1> QED BY <1>3, <1>9, <1>14

\* A sorted set has each of its elements somewhere, and once.
LEMMA AllInOrder ==
    ASSUME NEW S, IsFiniteSet(S), NEW rows \in [1..Cardinality(S) -> S],
           \A i, j \in 1..Cardinality(S) : i < j => rows[i] # rows[j]
    PROVE  \A x \in S : \E i \in 1..Cardinality(S) : rows[i] = x
<1>1. PICK n : n = Cardinality(S)
    OBVIOUS
<1>2. n \in Nat /\ rows \in [1..n -> S] /\ \A i, j \in 1..n : i < j => rows[i] # rows[j]
    BY <1>1, FS_CardinalityType
<1>3. \A i, j \in 1..n : rows[i] = rows[j] => i = j
    BY <1>2
<1>4. rows \in Injection(1..n, S)
    BY <1>2, <1>3 DEF Injection, IsInjective
<1>5. Cardinality(1..n) = n
    BY <1>2, FS_Interval
<1>6. rows \in Surjection(1..n, S)
    BY <1>1, <1>4, <1>5, FS_Injection
<1> QED BY <1>1, <1>6 DEF Surjection

\* Of stretches of n, one that begins no later than another ends is no later than it.
LEMMA MultiplesOrder ==
    ASSUME NEW n \in Nat \ {0}, NEW p \in Int, NEW q \in Int, NEW a \in Int, p * n <= a, a < (q + 1) * n
    PROVE  p <= q
<1>1. p * n \in Int /\ (q + 1) * n \in Int /\ p * n < (q + 1) * n
    OBVIOUS
<1>2. ASSUME p >= q + 1
      PROVE  FALSE
  <2>1. PICK d : d = p - (q + 1)
    OBVIOUS
  <2>2. d \in Nat /\ p = q + 1 + d
    BY <1>2, <2>1
  <2>3. d * n \in Int /\ d * n >= 0
    BY <2>2
  <2>4. p * n = (q + 1) * n + d * n
    BY <2>2
  <2>5. PICK x, y, z : x = p * n /\ y = (q + 1) * n /\ z = d * n
    OBVIOUS
  <2>6. x \in Int /\ y \in Int /\ z \in Int /\ x < y /\ z >= 0 /\ x = y + z
    BY <1>1, <2>3, <2>4, <2>5
  <2> QED BY ONLY <2>6
<1> QED BY <1>2

-----------------------------------------------------------------------------
(* Following cursors *)

\* T steps from the first place to the places that lie after it, all of them kept.
Walk(f, first, after, none, T) ==
    f = [m \in 0..T |-> IF m = 0 THEN {first}
                        ELSE f[m - 1] \cup ({after[o] : o \in f[m - 1]} \ {none})]

\* There is such a walk.
LEMMA WalkExists ==
    ASSUME NEW N, NEW first \in N, NEW after, NEW none, \A o \in N : after[o] \in N \cup {none},
           NEW T \in Nat
    PROVE  \E f : f \in [0..T -> SUBSET N] /\ Walk(f, first, after, none, T)
<1> DEFINE Good(f, t) == f \in [0..t -> SUBSET N] /\ Walk(f, first, after, none, t)
           Bad == {t \in Nat : ~\E f : Good(f, t)}
<1> SUFFICES ASSUME Bad # {}
             PROVE  FALSE
    OBVIOUS
<1>1. Bad \in SUBSET Nat
    OBVIOUS
<1> HIDE DEF Bad
<1>2. PICK t \in Bad : \A m \in Bad : t <= m
    BY <1>1, SmallestNumber
<1> USE DEF Bad
<1>3. t \in Nat /\ ~\E f : Good(f, t)
    OBVIOUS
<1>4. \A m \in Nat : m < t => \E f : Good(f, m)
    BY <1>2, <1>3
<1> HIDE DEF Bad
<1>5. t # 0
  <2>1. PICK f : f = [m \in 0..0 |-> {first}]
    OBVIOUS
  <2>2. Good(f, 0)
    BY <2>1 DEF Walk
  <2> QED BY <1>3, <2>2
<1>6. PICK p : p = t - 1
    OBVIOUS
<1>7. p \in Nat /\ p < t /\ t = p + 1
    BY <1>3, <1>5, <1>6
<1>8. PICK f : Good(f, p)
    BY <1>4, <1>7
<1>9. PICK last : last = f[p] \cup ({after[o] : o \in f[p]} \ {none})
    OBVIOUS
<1>10. f[p] \in SUBSET N
    BY <1>7, <1>8
<1>11. last \in SUBSET N
    BY <1>9, <1>10
<1>12. PICK g : g = [m \in 0..t |-> IF m = t THEN last ELSE f[m]]
    OBVIOUS
<1>13. g \in [0..t -> SUBSET N]
    BY <1>7, <1>8, <1>11, <1>12
<1>14. ASSUME NEW m \in 0..t
       PROVE  g[m] = IF m = 0 THEN {first} ELSE g[m - 1] \cup ({after[o] : o \in g[m - 1]} \ {none})
  <2>1. CASE m = t
    <3>1. g[m] = last /\ m - 1 = p /\ g[p] = f[p] /\ m # 0
      BY <1>7, <1>12, <2>1
    <3> QED BY <1>9, <3>1
  <2>2. CASE m # t
    <3>1. m \in 0..p /\ g[m] = f[m] /\ (m # 0 => m - 1 \in 0..p /\ g[m - 1] = f[m - 1])
      BY <1>7, <1>12, <2>2
    <3>2. f[m] = IF m = 0 THEN {first} ELSE f[m - 1] \cup ({after[o] : o \in f[m - 1]} \ {none})
      BY <1>8, <3>1 DEF Walk
    <3> QED BY <3>1, <3>2
  <2> QED BY <2>1, <2>2
<1>15. Walk(g, first, after, none, t)
    BY <1>12, <1>13, <1>14 DEF Walk
<1> QED BY <1>3, <1>13, <1>15

\* A walk, step by step.
LEMMA WalkStep ==
    ASSUME NEW f, NEW first, NEW after, NEW none, NEW T \in Nat, Walk(f, first, after, none, T)
    PROVE  /\ f[0] = {first}
           /\ \A m \in 0..T : m # 0 =>
                  f[m] = f[m - 1] \cup ({after[o] : o \in f[m - 1]} \ {none})
BY DEF Walk

\* Down a set of numbers: every one below the start is met, the next largest first.
LEMMA WalkDown ==
    ASSUME NEW D \in SUBSET Nat, NEW L \in Nat, NEW T \in Nat, L <= T,
           NEW after, NEW none, none \notin Nat,
           \A m \in Nat : \/ after[m] = none /\ \A d \in D : d >= m
                          \/ after[m] \in D /\ after[m] < m /\ \A d \in D : d < m => d <= after[m],
           NEW f, Walk(f, L, after, none, T)
    PROVE  f[T] \ {L} = {d \in D : d < L}
<1> DEFINE Below == {d \in D : d < L}
           Good(m) == /\ f[m] \subseteq Below \cup {L} /\ L \in f[m]
                      /\ \A d \in Below : d + m >= L => d \in f[m]
           Bad == {m \in 0..T : ~Good(m)}
<1>1. Bad \in SUBSET Nat
    OBVIOUS
<1>0. /\ \A x \in Below \cup {L} : x \in Nat /\ x <= L
      /\ \A x \in D : x \in Nat /\ (x < L => x \in Below)
    OBVIOUS
<1>2. Bad = {}
  <2> SUFFICES ASSUME Bad # {}
               PROVE  FALSE
      OBVIOUS
  <2> HIDE DEF Bad
  <2>1. PICK t \in Bad : \A m \in Bad : t <= m
      BY <1>1, SmallestNumber
  <2> USE DEF Bad
  <2>2. t \in 0..T /\ ~Good(t)
      OBVIOUS
  <2>3. \A m \in 0..T : m < t => Good(m)
      BY <2>1, <2>2
  <2> HIDE DEF Bad
  <2>4. t # 0
    <3>1. f[0] = {L}
      BY WalkStep
    <3>2. \A d \in Below : ~(d + 0 >= L)
      OBVIOUS
    <3> HIDE DEF Below
    <3>3. Good(0)
      BY <3>1, <3>2
    <3> QED BY <2>2, <3>3
  <2>5. PICK p : p = t - 1
      OBVIOUS
  <2>6. p \in 0..T /\ t = p + 1 /\ p < t
      BY <2>2, <2>4, <2>5
  <2>7. Good(p)
      BY <2>3, <2>6
  <2>8. f[t] = f[p] \cup ({after[o] : o \in f[p]} \ {none})
      BY <2>2, <2>4, <2>5, WalkStep
  <2>9. L \in f[t]
      BY <2>7, <2>8
  <2>10. f[t] \subseteq Below \cup {L}
    <3> SUFFICES ASSUME NEW x \in f[t], x \notin f[p]
                 PROVE  x \in Below
        BY <2>7
    <3>1. PICK o \in f[p] : x = after[o] /\ x # none
        BY <2>8
    <3>2. o \in Nat /\ o <= L
      <4>1. o \in Below \cup {L}
          BY <2>7, <3>1
      <4> QED BY <1>0, <4>1
    <3>3. x \in D /\ x < o
        BY <3>1, <3>2
    <3>4. x \in Nat /\ x < L
        BY <1>0, <3>2, <3>3
    <3> QED BY <1>0, <3>3, <3>4
  <2>11. ASSUME NEW d \in Below, d + t >= L
         PROVE  d \in f[t]
    <3>1. CASE d + p >= L
      BY <2>7, <2>8, <3>1
    <3>2. CASE ~(d + p >= L)
      <4> DEFINE Above == {x \in Nat : d < x /\ (x = L \/ x \in Below)}
      <4>1. L \in Above /\ Above \in SUBSET Nat
          OBVIOUS
      <4> HIDE DEF Above
      <4>2. PICK e \in Above : \A x \in Above : e <= x
          BY <4>1, SmallestNumber
      <4>3. /\ e \in Nat /\ d < e /\ (e = L \/ e \in Below)
            /\ \A x \in Nat : d < x /\ (x = L \/ x \in Below) => e <= x
          BY <4>2 DEF Above
      <4>4. e \in Nat /\ d < e /\ e \in Below \cup {L} /\ \A x \in Below \cup {L} : d < x => e <= x
          BY <4>3
      <4>5. e \in f[p]
        <5>1. e + p >= L
            BY <2>6, <2>11, <4>4
        <5> QED BY <2>7, <4>4, <5>1
      <4>6. d \in D /\ d < e
          BY <4>4
      <4>7. PICK x : x = after[e]
          OBVIOUS
      <4>8. x \in D /\ x < e /\ d <= x
          BY <4>4, <4>6, <4>7
      <4>9. d \in Nat /\ x \in Nat /\ e <= L
          BY <1>0, <4>4, <4>6, <4>8
      <4>10. x < L
          BY <4>4, <4>8, <4>9
      <4>11. x \in Below
          BY <1>0, <4>8, <4>10
      <4>12. ~(d < x)
        <5>1. d < x => e <= x
            BY <4>4, <4>11
        <5> QED BY <4>4, <4>8, <4>9, <5>1
      <4>13. x = d /\ x # none
          BY <4>8, <4>9, <4>12
      <4> QED BY <2>8, <4>5, <4>7, <4>13
    <3> QED BY <3>1, <3>2
  <2> QED BY <2>2, <2>9, <2>10, <2>11
<1>3. Good(T)
  <2>1. T \in 0..T
      OBVIOUS
  <2> HIDE DEF Good
  <2> QED BY <1>2, <2>1
<1>4. f[T] \ {L} = Below
  <2>1. L \notin Below /\ \A d \in Below : d + T >= L
      BY <1>0
  <2>2. f[T] \subseteq Below \cup {L} /\ \A d \in Below : d \in f[T]
      BY <1>3, <2>1
  <2> HIDE DEF Below
  <2> QED BY <2>1, <2>2
<1> QED BY <1>4

\* Where pages of l rows begin in a list of n, the first m + 1 of them.
Offsets(n, l, m) == {o \in 0..n : \E q \in 0..m : o = q * l /\ (q = 0 \/ o < n)}

\* Page by page: next_offset leads to every page and to nothing else.
LEMMA WalkPages ==
    ASSUME NEW n \in Nat, NEW l \in Nat \ {0}, NEW none, none \notin Nat,
           NEW after, \A o \in Nat : after[o] = IF o + l < n THEN o + l ELSE none,
           NEW f, Walk(f, 0, after, none, n)
    PROVE  f[n] = Offsets(n, l, n)
<1> DEFINE Bad == {m \in 0..n : f[m] # Offsets(n, l, m)}
<1>1. Bad \in SUBSET Nat
    OBVIOUS
<1>2. Bad = {}
  <2> SUFFICES ASSUME Bad # {}
               PROVE  FALSE
      OBVIOUS
  <2> HIDE DEF Bad
  <2>1. PICK t \in Bad : \A m \in Bad : t <= m
      BY <1>1, SmallestNumber
  <2> USE DEF Bad
  <2>2. t \in 0..n /\ f[t] # Offsets(n, l, t)
      OBVIOUS
  <2>3. \A m \in 0..n : m < t => f[m] = Offsets(n, l, m)
      BY <2>1, <2>2
  <2> HIDE DEF Bad
  <2>4. t # 0
    <3>1. f[0] = {0}
      BY WalkStep
    <3>2. Offsets(n, l, 0) = {0}
      BY DEF Offsets
    <3> QED BY <2>2, <3>1, <3>2
  <2>5. PICK p : p = t - 1
      OBVIOUS
  <2>6. p \in 0..n /\ t = p + 1 /\ p < t
      BY <2>2, <2>4, <2>5
  <2>7. f[p] = Offsets(n, l, p)
      BY <2>3, <2>6
  <2>8. f[t] = f[p] \cup ({after[o] : o \in f[p]} \ {none})
      BY <2>2, <2>4, <2>5, WalkStep
  <2>9. ASSUME NEW x \in f[t]
        PROVE  x \in Offsets(n, l, t)
    <3>1. CASE x \in Offsets(n, l, p)
      BY <2>6, <3>1 DEF Offsets
    <3>2. CASE x \notin Offsets(n, l, p)
      <4>1. PICK o \in Offsets(n, l, p) : x = after[o] /\ x # none
          BY <2>7, <2>8, <2>9, <3>2
      <4>2. PICK q \in 0..p : o = q * l /\ o \in 0..n
          BY <4>1 DEF Offsets
      <4>3. x = o + l /\ x < n /\ x \in 0..n
          BY <4>1, <4>2
      <4>4. q + 1 \in 0..t /\ x = (q + 1) * l
          BY <2>6, <4>2, <4>3
      <4> QED BY <4>3, <4>4 DEF Offsets
    <3> QED BY <3>1, <3>2
  <2>10. ASSUME NEW x \in Offsets(n, l, t)
         PROVE  x \in f[t]
    <3>1. PICK q \in 0..t : x = q * l /\ (q = 0 \/ x < n) /\ x \in 0..n
        BY <2>10 DEF Offsets
    <3>2. CASE q \in 0..p
      <4>1. x \in Offsets(n, l, p)
          BY <3>1, <3>2 DEF Offsets
      <4> QED BY <2>7, <2>8, <4>1
    <3>3. CASE q \notin 0..p
      <4>1. q = p + 1 /\ p \in Nat
          BY <2>6, <3>1, <3>3
      <4>2. PICK o : o = p * l
          OBVIOUS
      <4>3. o \in Nat /\ x = o + l
          BY <3>1, <4>1, <4>2
      <4>4. x < n /\ o < n
          BY <3>1, <4>1, <4>3
      <4>5. o \in Offsets(n, l, p)
          BY <4>1, <4>2, <4>3, <4>4 DEF Offsets
      <4>6. after[o] = x /\ x # none
          BY <4>3, <4>4
      <4> QED BY <2>7, <2>8, <4>5, <4>6
    <3> QED BY <3>2, <3>3
  <2> QED BY <2>2, <2>9, <2>10
<1>3. f[n] = Offsets(n, l, n)
  <2>1. n \in 0..n
      OBVIOUS
  <2> QED BY <1>2, <2>1
<1> QED BY <1>3

\* The pages' lengths.
PageLength(n, l) == [o \in Offsets(n, l, n) |-> Cardinality({i \in 1..n : o < i /\ i <= o + l})]

\* Each row of the list is on one page, and none of those pages but the first is empty.
LEMMA PagesCover ==
    ASSUME NEW n \in Nat, NEW l \in Nat \ {0}
    PROVE  /\ \A i \in 1..n : \E o \in Offsets(n, l, n) : o < i /\ i <= o + l
           /\ \A o \in Offsets(n, l, n) : o # 0 => o < n
           /\ IsFiniteSet(Offsets(n, l, n))
           /\ SumFunctionOnSet(PageLength(n, l), Offsets(n, l, n)) = n
<1> DEFINE K == Offsets(n, l, n)
<1>1. K \in SUBSET (0..n) /\ IsFiniteSet(0..n) /\ IsFiniteSet(1..n) /\ Cardinality(1..n) = n
    BY FS_Interval DEF Offsets
<1>2. IsFiniteSet(K)
    BY <1>1, FS_Subset
<1>3. \A o \in K : o # 0 => o < n
    BY DEF Offsets
<1>4. ASSUME NEW i \in 1..n
      PROVE  \E o \in K : o < i /\ i <= o + l
  <2>1. PICK q : q = (i - 1) \div l
      OBVIOUS
  <2>2. q \in Int /\ q * l <= i - 1 /\ i - 1 < (q + 1) * l
      BY <2>1
  <2>3. 0 <= q
    <3>1. 0 * l <= i - 1
        OBVIOUS
    <3> QED BY <2>2, <3>1, MultiplesOrder
  <2>4. PICK o : o = q * l
      OBVIOUS
  <2>5. o \in Nat /\ o < i /\ i <= o + l
    <3>1. (q + 1) * l = o + l /\ o \in Int /\ o >= 0
        BY <2>2, <2>3, <2>4
    <3> QED BY <2>2, <2>4, <3>1
  <2>6. q <= o
    <3>1. PICK d : d = l - 1
        OBVIOUS
    <3>2. d \in Nat /\ o = q + q * d
        BY <2>2, <2>3, <2>4, <3>1
    <3>3. q * d \in Int /\ q * d >= 0
        BY <2>2, <2>3, <3>2
    <3>4. PICK z : z = q * d
        OBVIOUS
    <3> QED BY <2>2, <3>2, <3>3, <3>4
  <2>7. o < n /\ o \in 0..n /\ q \in 0..n
      BY <2>2, <2>3, <2>5, <2>6
  <2>8. o \in K
      BY <2>4, <2>7 DEF Offsets
  <2> QED BY <2>5, <2>8
<1>5. ASSUME NEW i \in 1..n, NEW o \in K, NEW r \in K, o < i, i <= o + l, r < i, i <= r + l
      PROVE  o = r
  <2>1. PICK q \in 0..n : o = q * l
      BY DEF Offsets
  <2>2. PICK p \in 0..n : r = p * l
      BY DEF Offsets
  <2>3. (q + 1) * l = o + l /\ (p + 1) * l = r + l /\ o \in Nat /\ r \in Nat
      BY <2>1, <2>2
  <2>4. q * l <= i - 1 /\ i - 1 < (p + 1) * l /\ p * l <= i - 1 /\ i - 1 < (q + 1) * l
      BY <1>5, <2>1, <2>2, <2>3
  <2>5. q <= p
      BY <2>4, MultiplesOrder
  <2>6. p <= q
      BY <2>4, MultiplesOrder
  <2> QED BY <2>1, <2>2, <2>5, <2>6
<1> DEFINE key == [i \in 1..n |-> CHOOSE o \in K : o < i /\ i <= o + l]
<1>6. \A i \in 1..n : key[i] \in K /\ key[i] < i /\ i <= key[i] + l
    BY <1>4
<1>7. ASSUME NEW o \in K
      PROVE  PageLength(n, l)[o] = Cardinality(With(key, 1..n, o))
  <2> HIDE DEF key
  <2>1. \A i \in 1..n : key[i] = o <=> o < i /\ i <= o + l
      BY <1>5, <1>6
  <2>2. With(key, 1..n, o) = {i \in 1..n : o < i /\ i <= o + l}
      BY <2>1 DEF With
  <2> QED BY <2>2 DEF PageLength
<1> HIDE DEF key
<1>8. Cardinality(1..n) = SumFunctionOnSet(PageLength(n, l), K)
  <2> HIDE DEF K
  <2>1. PICK S, h : S = 1..n /\ h = PageLength(n, l)
      OBVIOUS
  <2>2. IsFiniteSet(S) /\ IsFiniteSet(K) /\ \A i \in S : key[i] \in K
      BY <1>1, <1>2, <1>6, <2>1
  <2>3. \A o \in K : h[o] = Cardinality(With(key, S, o))
      BY <1>7, <2>1
  <2>4. Cardinality(S) = SumFunctionOnSet(h, K)
      BY <2>2, <2>3, CountGroups
  <2> QED BY <2>1, <2>4
<1> QED BY <1>1, <1>2, <1>3, <1>4, <1>8

=============================================================================
