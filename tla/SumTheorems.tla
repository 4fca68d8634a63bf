---------------------------- MODULE SumTheorems ----------------------------
(***************************************************************************)
(* What SumFunctionOnSet of the module Functions adds up to, over any      *)
(* finite set and for any function with integer values there.  The sum is  *)
(* defined by a function that takes the elements of a set away one by one: *)
(* IterExists shows that there is such a function and SumFirst what it     *)
(* computes.  Every lemma then takes a smallest set for which it fails,    *)
(* which exists because no set has an endless chain of smaller finite ones. *)
(***************************************************************************)
EXTENDS Integers, Functions, FiniteSetTheorems, TLAPS

\* Of the subsets of a finite set that are in B, one has no other of B inside it.
LEMMA SmallestSet ==
    ASSUME NEW S, IsFiniteSet(S), NEW B \in SUBSET SUBSET S, B # {}
    PROVE  \E T \in B : \A U \in B : U \subseteq T => U = T
<1>1. IsWellFoundedOn(StrictSubsetOrdering(S), FiniteSubsetsOf(S)) /\ FiniteSubsetsOf(S) = SUBSET S
  BY FS_StrictSubsetOrderingWellFounded, FS_FiniteSubsetsOfFinite
<1>2. PICK T \in B : \A U \in B : <<U, T>> \notin StrictSubsetOrdering(S)
  BY <1>1, WFMin
<1>3. \A U \in B : U \subseteq T => U = T
  BY <1>2 DEF StrictSubsetOrdering
<1> QED BY <1>3

\* The element a sum takes away first, and the function it is computed by.
First(s) == CHOOSE x \in s : TRUE
Iterates(f, S, it) ==
    it = [s \in SUBSET S |-> IF s = {} THEN 0 ELSE f[First(s)] + it[s \ {First(s)}]]
IterOf(f, S) == CHOOSE it : Iterates(f, S, it)

LEMMA SumIsIter == ASSUME NEW f, NEW S PROVE SumFunctionOnSet(f, S) = IterOf(f, S)[S]
BY DEF SumFunctionOnSet, FoldFunctionOnSet, MapThenFoldSet, IterOf, Iterates, First

LEMMA FirstIn == ASSUME NEW s, s # {} PROVE First(s) \in s
BY DEF First

\* Two such functions agree on what both are defined on.
LEMMA IterUnique ==
    ASSUME NEW f, NEW S, IsFiniteSet(S), NEW T \in SUBSET S, NEW g, NEW h,
           Iterates(f, S, g), Iterates(f, T, h)
    PROVE  \A U \in SUBSET T : g[U] = h[U]
<1> DEFINE B == {U \in SUBSET T : g[U] # h[U]}
<1> SUFFICES ASSUME B # {} PROVE FALSE
  OBVIOUS
<1>1. IsFiniteSet(T)
  BY FS_Subset
<1>2. PICK U \in B : \A V \in B : V \subseteq U => V = U
  <2>1. B \in SUBSET SUBSET T
    OBVIOUS
  <2> HIDE DEF B
  <2> QED BY <1>1, <2>1, SmallestSet
<1>3. CASE U = {}
  BY <1>2, <1>3 DEF Iterates
<1>4. CASE U # {}
  <2> DEFINE V == U \ {First(U)}
  <2>1. V \subseteq U /\ V # U
    BY <1>4, FirstIn
  <2>2. g[V] = h[V]
    BY <1>2, <2>1
  <2>3. g[U] = f[First(U)] + g[V] /\ h[U] = f[First(U)] + h[V]
    BY <1>4 DEF Iterates
  <2> QED BY <2>2, <2>3
<1> QED BY <1>3, <1>4

\* There is such a function on the subsets of any finite set.
LEMMA IterExists ==
    ASSUME NEW f, NEW S, IsFiniteSet(S)
    PROVE  Iterates(f, S, IterOf(f, S))
<1> DEFINE B == {U \in SUBSET S : \A it : ~Iterates(f, U, it)}
<1>1. B = {}
  <2> SUFFICES ASSUME B # {} PROVE FALSE
    OBVIOUS
  <2>1. PICK U \in B : \A V \in B : V \subseteq U => V = U
    <3>1. B \in SUBSET SUBSET S
      OBVIOUS
    <3> HIDE DEF B
    <3> QED BY <3>1, SmallestSet
  <2>2. \A V \in SUBSET U : V # U => Iterates(f, V, IterOf(f, V))
    BY <2>1 DEF IterOf
  <2>3. \A V \in SUBSET U : IsFiniteSet(V)
    BY FS_Subset
  <2> DEFINE G == [V \in SUBSET U |-> IterOf(f, V)[V]]
  <2>4. ASSUME NEW V \in SUBSET U, V # U
        PROVE  G[V] = IF V = {} THEN 0 ELSE f[First(V)] + G[V \ {First(V)}]
    <3>1. CASE V = {}
      BY <2>2, <2>4, <3>1 DEF Iterates
    <3>2. CASE V # {}
      <4> DEFINE W == V \ {First(V)}
      <4>1. W \in SUBSET V /\ W \in SUBSET U /\ W # U
        BY <2>4
      <4>2. IterOf(f, V)[W] = IterOf(f, W)[W]
        BY <2>2, <2>3, <2>4, <4>1, IterUnique
      <4>3. IterOf(f, V)[V] = f[First(V)] + IterOf(f, V)[W]
        BY <2>2, <2>4, <3>2 DEF Iterates
      <4> QED BY <3>2, <4>1, <4>2, <4>3
    <3> QED BY <3>1, <3>2
  <2> DEFINE g == [s \in SUBSET U |-> IF s = {} THEN 0 ELSE f[First(s)] + G[s \ {First(s)}]]
  <2>5. ASSUME NEW s \in SUBSET U, s # {}
        PROVE  G[s \ {First(s)}] = g[s \ {First(s)}]
    <3>1. s \ {First(s)} \in SUBSET U /\ s \ {First(s)} # U
      BY <2>5, FirstIn
    <3> QED BY <2>4, <3>1
  <2> HIDE DEF G
  <2>6. Iterates(f, U, g)
    BY <2>5 DEF Iterates
  <2> QED BY <2>1, <2>6
<1>2. \E it : Iterates(f, S, it)
  BY <1>1
<1> QED BY <1>2 DEF IterOf

\* A sum is the first element's summand and the sum of the others.
LEMMA SumFirst ==
    ASSUME NEW f, NEW S, IsFiniteSet(S)
    PROVE  SumFunctionOnSet(f, S) =
              IF S = {} THEN 0 ELSE f[First(S)] + SumFunctionOnSet(f, S \ {First(S)})
<1> DEFINE T == S \ {First(S)}
<1>1. T \in SUBSET S /\ IsFiniteSet(T)
  BY FS_Subset
<1>2. Iterates(f, S, IterOf(f, S)) /\ Iterates(f, T, IterOf(f, T))
  BY <1>1, IterExists
<1>3. IterOf(f, S)[T] = IterOf(f, T)[T]
  <2> HIDE DEF T
  <2> QED BY <1>1, <1>2, IterUnique
<1>4. IterOf(f, S)[S] = IF S = {} THEN 0 ELSE f[First(S)] + IterOf(f, S)[T]
  BY <1>2 DEF Iterates
<1> QED BY <1>3, <1>4, SumIsIter

LEMMA SumEmpty == ASSUME NEW f PROVE SumFunctionOnSet(f, {}) = 0
BY SumFirst, FS_EmptySet

LEMMA SumInt ==
    ASSUME NEW f, NEW S, IsFiniteSet(S), \A x \in S : f[x] \in Int
    PROVE  SumFunctionOnSet(f, S) \in Int
<1> DEFINE B == {T \in SUBSET S : SumFunctionOnSet(f, T) \notin Int}
<1> SUFFICES ASSUME B # {} PROVE FALSE
  OBVIOUS
<1>1. PICK T \in B : \A U \in B : U \subseteq T => U = T
  <2>1. B \in SUBSET SUBSET S
    OBVIOUS
  <2> HIDE DEF B
  <2> QED BY <2>1, SmallestSet
<1>2. IsFiniteSet(T)
  BY FS_Subset
<1>3. CASE T = {}
  BY <1>3, SumEmpty
<1>4. CASE T # {}
  <2> DEFINE U == T \ {First(T)}
  <2>1. First(T) \in T /\ U \in SUBSET S /\ U \subseteq T /\ U # T
    BY <1>4, FirstIn
  <2>2. SumFunctionOnSet(f, U) \in Int
    BY <1>1, <2>1
  <2>3. SumFunctionOnSet(f, T) = f[First(T)] + SumFunctionOnSet(f, U)
    BY <1>2, <1>4, SumFirst
  <2> QED BY <2>1, <2>2, <2>3
<1> QED BY <1>3, <1>4

\* Any element may be taken out first.
LEMMA SumRemove ==
    ASSUME NEW f, NEW S, IsFiniteSet(S), \A x \in S : f[x] \in Int, NEW a \in S
    PROVE  SumFunctionOnSet(f, S) = f[a] + SumFunctionOnSet(f, S \ {a})
<1> DEFINE Apart(T) == \A x \in T : SumFunctionOnSet(f, T) = f[x] + SumFunctionOnSet(f, T \ {x})
           B == {T \in SUBSET S : ~Apart(T)}
<1> SUFFICES ASSUME B # {} PROVE FALSE
  OBVIOUS
<1>1. PICK T \in B : \A U \in B : U \subseteq T => U = T
  <2>1. B \in SUBSET SUBSET S
    OBVIOUS
  <2> HIDE DEF B
  <2> QED BY <2>1, SmallestSet
<1>2. PICK x \in T : SumFunctionOnSet(f, T) # f[x] + SumFunctionOnSet(f, T \ {x})
  BY <1>1
<1> DEFINE y == First(T)
           U == T \ {y}
           V == T \ {x}
           W == T \ {x, y}
<1>3. y \in T
  BY <1>2, FirstIn
<1>4. \A X \in SUBSET T : IsFiniteSet(X) /\ SumFunctionOnSet(f, X) \in Int
  BY FS_Subset, SumInt
<1>5. SumFunctionOnSet(f, T) = f[y] + SumFunctionOnSet(f, U)
  BY <1>3, <1>4, SumFirst
<1>6. x # y
  BY <1>2, <1>5
<1>7. Apart(U) /\ Apart(V)
  BY <1>1, <1>2, <1>3
<1>8. SumFunctionOnSet(f, U) = f[x] + SumFunctionOnSet(f, W)
  <2>1. x \in U /\ W = U \ {x}
    BY <1>2, <1>6
  <2> QED BY <1>7, <2>1
<1>9. SumFunctionOnSet(f, V) = f[y] + SumFunctionOnSet(f, W)
  <2>1. y \in V /\ W = V \ {y}
    BY <1>3, <1>6
  <2> QED BY <1>7, <2>1
<1>10. f[x] \in Int /\ f[y] \in Int /\ SumFunctionOnSet(f, W) \in Int
  BY <1>1, <1>2, <1>3, <1>4
<1> QED BY <1>2, <1>5, <1>8, <1>9, <1>10

LEMMA SumAdd ==
    ASSUME NEW f, NEW S, IsFiniteSet(S), NEW a, a \notin S, \A x \in S \cup {a} : f[x] \in Int
    PROVE  SumFunctionOnSet(f, S \cup {a}) = f[a] + SumFunctionOnSet(f, S)
<1>1. IsFiniteSet(S \cup {a}) /\ S = (S \cup {a}) \ {a}
  BY FS_AddElement
<1> QED BY <1>1, SumRemove

LEMMA SumNat ==
    ASSUME NEW f, NEW S, IsFiniteSet(S), \A x \in S : f[x] \in Nat
    PROVE  SumFunctionOnSet(f, S) \in Nat
<1> DEFINE B == {T \in SUBSET S : SumFunctionOnSet(f, T) \notin Nat}
<1> SUFFICES ASSUME B # {} PROVE FALSE
  OBVIOUS
<1>1. PICK T \in B : \A U \in B : U \subseteq T => U = T
  <2>1. B \in SUBSET SUBSET S
    OBVIOUS
  <2> HIDE DEF B
  <2> QED BY <2>1, SmallestSet
<1>2. IsFiniteSet(T)
  BY FS_Subset
<1>3. CASE T = {}
  BY <1>3, SumEmpty
<1>4. CASE T # {}
  <2>1. PICK x \in T : TRUE
    BY <1>4
  <2>2. T \ {x} \in SUBSET S /\ T \ {x} \subseteq T /\ T \ {x} # T
    OBVIOUS
  <2>3. SumFunctionOnSet(f, T \ {x}) \in Nat
    BY <1>1, <2>2
  <2>4. SumFunctionOnSet(f, T) = f[x] + SumFunctionOnSet(f, T \ {x})
    BY <1>2, SumRemove
  <2> QED BY <2>3, <2>4
<1> QED BY <1>3, <1>4

LEMMA SumSame ==
    ASSUME NEW f, NEW g, NEW S, IsFiniteSet(S), \A x \in S : f[x] \in Int /\ g[x] = f[x]
    PROVE  SumFunctionOnSet(g, S) = SumFunctionOnSet(f, S)
<1> DEFINE B == {T \in SUBSET S : SumFunctionOnSet(g, T) # SumFunctionOnSet(f, T)}
<1> SUFFICES ASSUME B # {} PROVE FALSE
  OBVIOUS
<1>1. PICK T \in B : \A U \in B : U \subseteq T => U = T
  <2>1. B \in SUBSET SUBSET S
    OBVIOUS
  <2> HIDE DEF B
  <2> QED BY <2>1, SmallestSet
<1>2. IsFiniteSet(T)
  BY FS_Subset
<1>3. CASE T = {}
  BY <1>3, <1>1, SumEmpty
<1>4. CASE T # {}
  <2>1. PICK x \in T : TRUE
    BY <1>4
  <2>2. T \ {x} \in SUBSET S /\ T \ {x} \subseteq T /\ T \ {x} # T
    OBVIOUS
  <2>3. SumFunctionOnSet(g, T \ {x}) = SumFunctionOnSet(f, T \ {x})
    BY <1>1, <2>2
  <2>4. /\ SumFunctionOnSet(f, T) = f[x] + SumFunctionOnSet(f, T \ {x})
        /\ SumFunctionOnSet(g, T) = g[x] + SumFunctionOnSet(g, T \ {x})
    BY <1>2, SumRemove
  <2> QED BY <1>1, <2>3, <2>4
<1> QED BY <1>3, <1>4

\* One summand changes.
LEMMA SumUpdate ==
    ASSUME NEW f, NEW g, NEW S, IsFiniteSet(S), NEW a \in S,
           \A x \in S : f[x] \in Int, g[a] \in Int, \A x \in S \ {a} : g[x] = f[x]
    PROVE  SumFunctionOnSet(g, S) = SumFunctionOnSet(f, S) - f[a] + g[a]
<1>1. IsFiniteSet(S \ {a})
  BY FS_RemoveElement
<1>2. SumFunctionOnSet(f, S) = f[a] + SumFunctionOnSet(f, S \ {a})
  BY SumRemove
<1>3. SumFunctionOnSet(g, S) = g[a] + SumFunctionOnSet(g, S \ {a})
  BY SumRemove
<1>4. SumFunctionOnSet(g, S \ {a}) = SumFunctionOnSet(f, S \ {a})
  BY <1>1, SumSame
<1>5. SumFunctionOnSet(f, S \ {a}) \in Int
  BY <1>1, SumInt
<1> QED BY <1>2, <1>3, <1>4, <1>5

LEMMA SumUnion ==
    ASSUME NEW f, NEW S, IsFiniteSet(S), NEW T, IsFiniteSet(T), S \cap T = {},
           \A x \in S \cup T : f[x] \in Int
    PROVE  SumFunctionOnSet(f, S \cup T) = SumFunctionOnSet(f, S) + SumFunctionOnSet(f, T)
<1> DEFINE B == {U \in SUBSET S : SumFunctionOnSet(f, U \cup T)
                                   # SumFunctionOnSet(f, U) + SumFunctionOnSet(f, T)}
<1> SUFFICES ASSUME B # {} PROVE FALSE
  OBVIOUS
<1>1. PICK U \in B : \A V \in B : V \subseteq U => V = U
  <2>1. B \in SUBSET SUBSET S
    OBVIOUS
  <2> HIDE DEF B
  <2> QED BY <2>1, SmallestSet
<1>2. IsFiniteSet(U) /\ IsFiniteSet(U \cup T)
  BY FS_Subset, FS_Union
<1>3. SumFunctionOnSet(f, T) \in Int
  BY SumInt
<1>4. CASE U = {}
  <2>1. U \cup T = T
    BY <1>4
  <2> QED BY <1>1, <1>3, <1>4, <2>1, SumEmpty
<1>5. CASE U # {}
  <2>1. PICK x \in U : TRUE
    BY <1>5
  <2> DEFINE V == U \ {x}
  <2>2. /\ V \in SUBSET S /\ V \subseteq U /\ V # U /\ x \in U \cup T
        /\ (U \cup T) \ {x} = V \cup T
    OBVIOUS
  <2>3. SumFunctionOnSet(f, V \cup T) = SumFunctionOnSet(f, V) + SumFunctionOnSet(f, T)
    BY <1>1, <2>2
  <2>4. SumFunctionOnSet(f, U \cup T) = f[x] + SumFunctionOnSet(f, V \cup T)
    <3>1. SumFunctionOnSet(f, U \cup T) = f[x] + SumFunctionOnSet(f, (U \cup T) \ {x})
      BY <1>2, <2>2, SumRemove
    <3>2. (U \cup T) \ {x} = V \cup T
      BY <2>2
    <3> HIDE DEF V
    <3> QED BY <3>1, <3>2, Zenon
  <2>5. SumFunctionOnSet(f, U) = f[x] + SumFunctionOnSet(f, V)
    BY <1>2, SumRemove
  <2>6. SumFunctionOnSet(f, V) \in Int /\ f[x] \in Int
    <3>1. IsFiniteSet(V) /\ \A y \in V : f[y] \in Int
      BY <1>2, FS_RemoveElement
    <3> HIDE DEF V
    <3> QED BY <3>1, SumInt
  <2> HIDE DEF V
  <2>7. SumFunctionOnSet(f, U \cup T) = SumFunctionOnSet(f, U) + SumFunctionOnSet(f, T)
    BY <1>3, <2>2, <2>3, <2>4, <2>5, <2>6
  <2> QED BY <1>1, <2>7
<1> QED BY <1>4, <1>5

LEMMA SumPlus ==
    ASSUME NEW f, NEW g, NEW h, NEW S, IsFiniteSet(S),
           \A x \in S : f[x] \in Int /\ g[x] \in Int /\ h[x] = f[x] + g[x]
    PROVE  SumFunctionOnSet(h, S) = SumFunctionOnSet(f, S) + SumFunctionOnSet(g, S)
<1> DEFINE B == {U \in SUBSET S : SumFunctionOnSet(h, U)
                                   # SumFunctionOnSet(f, U) + SumFunctionOnSet(g, U)}
<1> SUFFICES ASSUME B # {} PROVE FALSE
  OBVIOUS
<1>1. PICK U \in B : \A V \in B : V \subseteq U => V = U
  <2>1. B \in SUBSET SUBSET S
    OBVIOUS
  <2> HIDE DEF B
  <2> QED BY <2>1, SmallestSet
<1>2. IsFiniteSet(U)
  BY FS_Subset
<1>3. CASE U = {}
  BY <1>1, <1>3, SumEmpty
<1>4. CASE U # {}
  <2>1. PICK x \in U : TRUE
    BY <1>4
  <2> DEFINE V == U \ {x}
  <2>2. V \in SUBSET S /\ V \subseteq U /\ V # U /\ IsFiniteSet(V)
    BY <1>2, FS_RemoveElement
  <2>3. SumFunctionOnSet(h, V) = SumFunctionOnSet(f, V) + SumFunctionOnSet(g, V)
    BY <1>1, <2>2
  <2>4. /\ SumFunctionOnSet(f, U) = f[x] + SumFunctionOnSet(f, V)
        /\ SumFunctionOnSet(g, U) = g[x] + SumFunctionOnSet(g, V)
        /\ SumFunctionOnSet(h, U) = h[x] + SumFunctionOnSet(h, V)
    BY <1>2, SumRemove
  <2>5. SumFunctionOnSet(f, V) \in Int /\ SumFunctionOnSet(g, V) \in Int
    BY <2>2, SumInt
  <2> HIDE DEF V
  <2> QED BY <1>1, <2>3, <2>4, <2>5
<1> QED BY <1>3, <1>4

\* Summands of zero.
LEMMA SumZero ==
    ASSUME NEW f, NEW S, IsFiniteSet(S), \A x \in S : f[x] = 0
    PROVE  SumFunctionOnSet(f, S) = 0
<1> DEFINE B == {U \in SUBSET S : SumFunctionOnSet(f, U) # 0}
<1> SUFFICES ASSUME B # {} PROVE FALSE
  OBVIOUS
<1>1. PICK U \in B : \A V \in B : V \subseteq U => V = U
  <2>1. B \in SUBSET SUBSET S
    OBVIOUS
  <2> HIDE DEF B
  <2> QED BY <2>1, SmallestSet
<1>2. IsFiniteSet(U)
  BY FS_Subset
<1>3. CASE U = {}
  BY <1>1, <1>3, SumEmpty
<1>4. CASE U # {}
  <2>1. PICK x \in U : TRUE
    BY <1>4
  <2>2. U \ {x} \in SUBSET S /\ U \ {x} \subseteq U /\ U \ {x} # U
    OBVIOUS
  <2>3. SumFunctionOnSet(f, U \ {x}) = 0
    BY <1>1, <2>2
  <2>4. SumFunctionOnSet(f, U) = f[x] + SumFunctionOnSet(f, U \ {x})
    BY <1>2, SumRemove
  <2> QED BY <1>1, <2>3, <2>4
<1> QED BY <1>3, <1>4

\* A summand is no more than the sum, and a smaller set sums to no more.
LEMMA SumSubset ==
    ASSUME NEW f, NEW S, IsFiniteSet(S), NEW T \in SUBSET S, \A x \in S : f[x] \in Nat
    PROVE  SumFunctionOnSet(f, T) <= SumFunctionOnSet(f, S)
<1>1. IsFiniteSet(T) /\ IsFiniteSet(S \ T) /\ S = T \cup (S \ T)
  BY FS_Subset, FS_Difference
<1>2. SumFunctionOnSet(f, S) = SumFunctionOnSet(f, T) + SumFunctionOnSet(f, S \ T)
  BY <1>1, SumUnion
<1>3. SumFunctionOnSet(f, T) \in Nat /\ SumFunctionOnSet(f, S \ T) \in Nat
  BY <1>1, SumNat
<1> QED BY <1>2, <1>3

\* Summands that are zero may be left out.
LEMMA SumWithin ==
    ASSUME NEW f, NEW g, NEW S, IsFiniteSet(S), NEW T \in SUBSET S,
           \A x \in T : f[x] \in Int /\ g[x] = f[x], \A x \in S \ T : g[x] = 0
    PROVE  SumFunctionOnSet(g, S) = SumFunctionOnSet(f, T)
<1>1. IsFiniteSet(T) /\ IsFiniteSet(S \ T) /\ S = T \cup (S \ T)
  BY FS_Subset, FS_Difference
<1>2. SumFunctionOnSet(g, S) = SumFunctionOnSet(g, T) + SumFunctionOnSet(g, S \ T)
  <2>1. \A x \in T \cup (S \ T) : g[x] \in Int
    OBVIOUS
  <2> QED BY <1>1, <2>1, SumUnion
<1>3. SumFunctionOnSet(g, T) = SumFunctionOnSet(f, T) /\ SumFunctionOnSet(f, T) \in Int
  BY <1>1, SumSame, SumInt
<1>4. SumFunctionOnSet(g, S \ T) = 0
  BY <1>1, SumZero
<1> QED BY <1>2, <1>3, <1>4

LEMMA SumSingleton ==
    ASSUME NEW f, NEW a, f[a] \in Int
    PROVE  SumFunctionOnSet(f, {a}) = f[a]
<1>1. SumFunctionOnSet(f, {a}) = f[a] + SumFunctionOnSet(f, {a} \ {a})
  BY FS_Singleton, SumRemove
<1>2. SumFunctionOnSet(f, {a} \ {a}) = 0
  <2>1. {a} \ {a} = {}
    OBVIOUS
  <2> QED BY <2>1, SumEmpty, Zenon
<1> QED BY <1>1, <1>2

\* Elements may be summed key by key.
LEMMA SumFibres ==
    ASSUME NEW f, NEW key, NEW S, IsFiniteSet(S), NEW K, IsFiniteSet(K),
           \A x \in S : f[x] \in Int /\ key[x] \in K,
           NEW g, \A k \in K : g[k] = SumFunctionOnSet(f, {x \in S : key[x] = k})
    PROVE  SumFunctionOnSet(f, S) = SumFunctionOnSet(g, K)
<1> DEFINE Part(T) == [k \in K |-> SumFunctionOnSet(f, {x \in T : key[x] = k})]
           B == {T \in SUBSET S : SumFunctionOnSet(f, T) # SumFunctionOnSet(Part(T), K)}
<1>1. B = {}
  <2> SUFFICES ASSUME B # {} PROVE FALSE
    OBVIOUS
  <2>1. PICK T \in B : \A U \in B : U \subseteq T => U = T
    <3>1. B \in SUBSET SUBSET S
      OBVIOUS
    <3> HIDE DEF B
    <3> QED BY <3>1, SmallestSet
  <2>2. T \in SUBSET S /\ IsFiniteSet(T) /\ \A k \in K : IsFiniteSet({x \in T : key[x] = k})
    BY FS_Subset
  <2>3. CASE T = {}
    <3>1. \A k \in K : {x \in T : key[x] = k} = {}
      BY <2>3
    <3>2. \A k \in K : Part(T)[k] = 0
      BY <3>1, SumEmpty
    <3> QED BY <2>1, <2>3, <3>2, SumEmpty, SumZero
  <2>4. CASE T # {}
    <3>1. PICK x \in T : TRUE
      BY <2>4
    <3> DEFINE U == T \ {x}
    <3>2. U \in SUBSET S /\ U \subseteq T /\ U # T /\ IsFiniteSet(U)
      BY <2>2, FS_Subset
    <3>3. SumFunctionOnSet(f, U) = SumFunctionOnSet(Part(U), K)
      BY <2>1, <3>2
    <3>4. SumFunctionOnSet(f, T) = f[x] + SumFunctionOnSet(f, U)
      BY <2>2, SumRemove
    <3>5. \A k \in K : Part(U)[k] \in Int
      <4> SUFFICES ASSUME NEW k \in K PROVE SumFunctionOnSet(f, {y \in U : key[y] = k}) \in Int
        OBVIOUS
      <4>1. IsFiniteSet({y \in U : key[y] = k}) /\ \A y \in {y \in U : key[y] = k} : f[y] \in Int
        BY <3>2, FS_Subset
      <4> QED BY <4>1, SumInt
    <3>6. \A k \in K \ {key[x]} : Part(T)[k] = Part(U)[k]
      <4> SUFFICES ASSUME NEW k \in K \ {key[x]} PROVE Part(T)[k] = Part(U)[k]
        OBVIOUS
      <4>1. {y \in T : key[y] = k} = {y \in U : key[y] = k}
        OBVIOUS
      <4> QED BY <4>1
    <3>7. Part(T)[key[x]] = f[x] + Part(U)[key[x]]
      <4> DEFINE Y == {y \in T : key[y] = key[x]}
      <4>1. x \in Y /\ IsFiniteSet(Y) /\ \A y \in Y : f[y] \in Int
        BY <2>2
      <4>2. Y \ {x} = {y \in U : key[y] = key[x]}
        OBVIOUS
      <4> HIDE DEF Y
      <4>3. SumFunctionOnSet(f, Y) = f[x] + SumFunctionOnSet(f, Y \ {x})
        BY <4>1, SumRemove
      <4> QED BY <2>2, <4>2, <4>3 DEF Y
    <3>8. f[x] \in Int /\ key[x] \in K
      BY <2>2
    <3> HIDE DEF Part, U, B
    <3>9. SumFunctionOnSet(Part(T), K) = SumFunctionOnSet(Part(U), K) - Part(U)[key[x]] + Part(T)[key[x]]
      BY <3>5, <3>6, <3>7, <3>8, SumUpdate
    <3>10. SumFunctionOnSet(Part(U), K) \in Int
      BY <3>5, SumInt
    <3>11. SumFunctionOnSet(f, T) = SumFunctionOnSet(Part(T), K)
      BY <3>3, <3>4, <3>5, <3>7, <3>8, <3>9, <3>10
    <3> QED BY <2>1, <3>11 DEF B
  <2> QED BY <2>3, <2>4
<1>2. SumFunctionOnSet(f, S) = SumFunctionOnSet(Part(S), K)
  BY <1>1
<1>3. SumFunctionOnSet(g, K) = SumFunctionOnSet(Part(S), K)
  <2>1. \A k \in K : Part(S)[k] = g[k] /\ Part(S)[k] \in Int
    <3> SUFFICES ASSUME NEW k \in K PROVE Part(S)[k] = g[k] /\ SumFunctionOnSet(f, {x \in S : key[x] = k}) \in Int
      OBVIOUS
    <3>1. IsFiniteSet({x \in S : key[x] = k}) /\ \A x \in {x \in S : key[x] = k} : f[x] \in Int
      BY FS_Subset
    <3> QED BY <3>1, SumInt
  <2> HIDE DEF Part
  <2> QED BY <2>1, SumSame
<1> QED BY <1>2, <1>3

\* A nonempty set of natural numbers has a least one.
LEMMA SmallestNat ==
    ASSUME NEW S \in SUBSET Nat, S # {}
    PROVE  \E n \in S : \A m \in S : n <= m
<1>1. PICK top \in S : TRUE
  OBVIOUS
<1> DEFINE B == {0..m : m \in {m \in S : m <= top}}
<1>2. IsFiniteSet(0..top) /\ B \in SUBSET SUBSET (0..top) /\ B # {}
  <2>1. IsFiniteSet(0..top)
    BY FS_Interval
  <2>2. \A m \in S : m <= top => 0..m \subseteq 0..top
    OBVIOUS
  <2>3. 0..top \in B
    OBVIOUS
  <2> QED BY <2>1, <2>2, <2>3
<1>3. PICK T \in B : \A U \in B : U \subseteq T => U = T
  <2> DEFINE I == 0..top
  <2>1. IsFiniteSet(I) /\ B \in SUBSET SUBSET I /\ B # {}
    BY <1>2
  <2> HIDE DEF B, I
  <2> QED BY <2>1, SmallestSet
<1>4. PICK n \in S : n <= top /\ T = 0..n
  BY <1>3
<1>5. ASSUME NEW m \in S, m < n PROVE FALSE
  <2>1. 0..m \in B /\ 0..m \subseteq 0..n /\ n \in 0..n /\ n \notin 0..m
    BY <1>4, <1>5
  <2> QED BY <1>3, <1>4, <2>1
<1>6. \A m \in S : n <= m
  BY <1>5
<1> QED BY <1>6
=============================================================================
