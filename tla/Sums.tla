------------------------------------ MODULE Sums ----------------------------
(***************************************************************************)
(* SumFunctionOnSet(f, S) of the community modules adds up f[x] for x in a *)
(* finite set S.  It is defined by a recursive function over the subsets of*)
(* S; here are the facts about it that proofs need.                        *)
(*                                                                         *)
(* Each is proved by a smallest counterexample: the finite subsets for which*)
(* a fact fails, if there are any, have one that contains no other, since  *)
(* strict inclusion is well-founded on them; take an element away from that*)
(* one and the fact holds of the rest.                                     *)
(***************************************************************************)
EXTENDS FiniteSetTheorems, TLAPS

(* A set of subsets of a finite set has a member that contains no other.   *)
LEMMA Smallest ==
  ASSUME NEW S, IsFiniteSet(S), NEW B, B \subseteq SUBSET S, B # {}
  PROVE  \E T \in B : \A U \in B : U \subseteq T => U = T
<1>1. IsWellFoundedOn(StrictSubsetOrdering(S), SUBSET S)
  BY FS_StrictSubsetOrderingWellFounded, FS_FiniteSubsetsOfFinite
<1>2. PICK T \in B : \A U \in B : ~(<< U, T >> \in StrictSubsetOrdering(S))
  BY <1>1, WFMin
<1>3. \A U \in B : U \subseteq T => U = T
  BY <1>2 DEF StrictSubsetOrdering
<1>4. QED BY <1>3

(* The element the fold adds first.                                        *)
Pick(s) == CHOOSE x \in s : TRUE

(* A set that is not empty has the element picked.                         *)
LEMMA PickIsIn == \A s : s # {} => Pick(s) \in s
BY DEF Pick

(* The sum over s, when g gives the sums over smaller sets.                *)
SumAt(g, f, s) == IF s = {} THEN 0 ELSE f[Pick(s)] + g[s \ {Pick(s)}]

(* g is the table of the sums over the subsets of S.                       *)
IsSum(g, f, S) == g = [s \in SUBSET S |-> SumAt(g, f, s)]

(* What SumFunctionOnSet is by its definition.                             *)
LEMMA SumUnfolds ==
  ASSUME NEW f, NEW S
  PROVE  SumFunctionOnSet(f, S) = (CHOOSE g : IsSum(g, f, S))[S]
BY DEF SumFunctionOnSet, FoldFunctionOnSet, MapThenFoldSet, IsSum, SumAt, Pick

(* A table of sums obeys its equation at every subset.                     *)
LEMMA SumAtEach ==
  ASSUME NEW f, NEW S, NEW g, IsSum(g, f, S), NEW T \in SUBSET S
  PROVE  g[T] = SumAt(g, f, T)
<1> DEFINE Q(s) == SumAt(g, f, s)
<1>1. g = [s \in SUBSET S |-> Q(s)]
  BY DEF IsSum
<1> HIDE DEF Q
<1>2. g[T] = Q(T)
  BY <1>1
<1>3. QED BY <1>2 DEF Q

(* Two tables agree wherever both are defined.                             *)
LEMMA OneSum ==
  ASSUME NEW f, NEW S, NEW T, IsFiniteSet(S), NEW g, NEW h, IsSum(g, f, S), IsSum(h, f, T)
  PROVE  \A V \in SUBSET (S \cap T) : g[V] = h[V]
<1> DEFINE B == {V \in SUBSET S : V \subseteq T /\ g[V] # h[V]}
<1>1. SUFFICES ASSUME B # {} PROVE FALSE
  OBVIOUS
<1>2. PICK V \in B : \A U \in B : U \subseteq V => U = V
  <2>1. B \subseteq SUBSET S
    OBVIOUS
  <2> HIDE DEF B
  <2>2. QED BY <1>1, <2>1, Smallest
<1> DEFINE W == V \ {Pick(V)}
<1>3. g[V] = SumAt(g, f, V) /\ h[V] = SumAt(h, f, V)
  BY SumAtEach
<1>4. V # {}
  BY <1>3 DEF SumAt
<1>5. W # V /\ W \subseteq V
  BY <1>4, PickIsIn
<1>6. g[W] = h[W]
  BY <1>2, <1>5
<1>7. QED BY <1>3, <1>6 DEF SumAt

(* A finite set has a table of sums.                                       *)
LEMMA SomeSum ==
  ASSUME NEW f, NEW S, IsFiniteSet(S)
  PROVE  \E h : IsSum(h, f, S)
<1> DEFINE B == {T \in SUBSET S : \A h : ~IsSum(h, f, T)}
<1>1. SUFFICES ASSUME B # {} PROVE FALSE
  OBVIOUS
<1>2. PICK T \in B : \A U \in B : U \subseteq T => U = T
  <2>1. B \subseteq SUBSET S
    OBVIOUS
  <2> HIDE DEF B
  <2>2. QED BY <1>1, <2>1, Smallest
<1> DEFINE Below(U) == CHOOSE g : IsSum(g, f, U)
           h == [s \in SUBSET T |->
                   IF s = {} THEN 0 ELSE f[Pick(s)] + Below(s \ {Pick(s)})[s \ {Pick(s)}]]
<1>3. \A U \in SUBSET T : U # T => IsSum(Below(U), f, U)
  <2> SUFFICES ASSUME NEW U \in SUBSET T, U # T PROVE IsSum(Below(U), f, U)
    OBVIOUS
  <2>1. U \notin B
    BY <1>2
  <2>2. \E g : IsSum(g, f, U)
    BY <2>1
  <2>3. QED BY <2>2
<1>4. \A U \in SUBSET T : U # T => h[U] = Below(U)[U]
  <2> SUFFICES ASSUME NEW U \in SUBSET T, U # T PROVE h[U] = Below(U)[U]
    OBVIOUS
  <2> DEFINE V == U \ {Pick(U)}
  <2>1. Below(U)[U] = SumAt(Below(U), f, U)
    <3>1. IsSum(Below(U), f, U) /\ U \in SUBSET U
      BY <1>3
    <3> HIDE DEF Below
    <3>2. QED BY <3>1, SumAtEach
  <2>2. CASE U = {}
    BY <2>1, <2>2 DEF SumAt
  <2>3. CASE U # {}
    <3>1. V # T /\ V \subseteq U /\ V \subseteq T
      BY <2>3, PickIsIn
    <3>2. IsSum(Below(V), f, V) /\ IsSum(Below(U), f, U)
      BY <3>1, <1>3
    <3>3. IsFiniteSet(U)
      BY FS_Subset
    <3>4. Below(U)[V] = Below(V)[V]
      <4> HIDE DEF Below, V
      <4>1. \A Z \in SUBSET (U \cap V) : Below(U)[Z] = Below(V)[Z]
        BY <3>2, <3>3, OneSum
      <4>2. QED BY <4>1, <3>1
    <3>5. h[U] = f[Pick(U)] + Below(V)[V]
      BY <2>3
    <3>6. QED BY <2>1, <2>3, <3>4, <3>5 DEF SumAt
  <2>4. QED BY <2>2, <2>3
<1>5. \A s \in SUBSET T : h[s] = SumAt(h, f, s)
  <2> SUFFICES ASSUME NEW s \in SUBSET T PROVE h[s] = SumAt(h, f, s)
    OBVIOUS
  <2>1. CASE s = {}
    BY <2>1 DEF SumAt
  <2>2. CASE s # {}
    <3>1. s \ {Pick(s)} \in SUBSET T /\ s \ {Pick(s)} # T
      BY <2>2, PickIsIn
    <3>2. h[s \ {Pick(s)}] = Below(s \ {Pick(s)})[s \ {Pick(s)}]
      BY <1>4, <3>1
    <3>3. h[s] = f[Pick(s)] + Below(s \ {Pick(s)})[s \ {Pick(s)}]
      BY <2>2
    <3>4. QED BY <2>2, <3>2, <3>3 DEF SumAt
  <2>3. QED BY <2>1, <2>2
<1>6. IsSum(h, f, T)
  <2>1. h = [s \in SUBSET T |-> h[s]]
    OBVIOUS
  <2> HIDE DEF h
  <2>2. QED BY <1>5, <2>1 DEF IsSum
<1>7. QED
  <2> HIDE DEF h
  <2>1. QED BY <1>2, <1>6

(* The recursion itself: nothing adds up to zero, anything else to the     *)
(* element picked and the sum over the rest.                               *)
LEMMA SumUnwinds ==
  ASSUME NEW f, NEW S, IsFiniteSet(S)
  PROVE  /\ SumFunctionOnSet(f, {}) = 0
         /\ S # {} => SumFunctionOnSet(f, S)
                      = f[Pick(S)] + SumFunctionOnSet(f, S \ {Pick(S)})
<1> DEFINE G(U) == CHOOSE g : IsSum(g, f, U)
<1>1. \A U : IsFiniteSet(U) => IsSum(G(U), f, U)
  BY SomeSum
<1>2. \A U : IsFiniteSet(U) => G(U)[U] = SumAt(G(U), f, U)
  <2> SUFFICES ASSUME NEW U, IsFiniteSet(U) PROVE G(U)[U] = SumAt(G(U), f, U)
    OBVIOUS
  <2>1. IsSum(G(U), f, U) /\ U \in SUBSET U
    BY <1>1
  <2> HIDE DEF G
  <2>2. QED BY <2>1, SumAtEach
<1>3. SumFunctionOnSet(f, {}) = 0
  <2>1. IsFiniteSet({})
    BY FS_EmptySet
  <2>2. QED BY <1>2, <2>1, SumUnfolds DEF SumAt
<1>4. ASSUME S # {} PROVE SumFunctionOnSet(f, S)
                      = f[Pick(S)] + SumFunctionOnSet(f, S \ {Pick(S)})
  <2> DEFINE V == S \ {Pick(S)}
  <2>1. IsFiniteSet(V)
    BY FS_Subset
  <2>2. IsSum(G(S), f, S) /\ IsSum(G(V), f, V)
    BY <1>1, <2>1
  <2>3. G(S)[V] = G(V)[V]
    <3> HIDE DEF G, V
    <3>1. \A Z \in SUBSET (S \cap V) : G(S)[Z] = G(V)[Z]
      BY <2>2, OneSum
    <3>2. V \in SUBSET (S \cap V)
      BY DEF V
    <3>3. QED BY <3>1, <3>2
  <2>4. G(S)[S] = f[Pick(S)] + G(S)[V]
    BY <1>2, <1>4 DEF SumAt
  <2>5. QED BY <2>3, <2>4, SumUnfolds
<1>5. QED BY <1>3, <1>4

(* A sum of integers is an integer.                                        *)
LEMMA SumIsInt ==
  ASSUME NEW S, IsFiniteSet(S), NEW f, \A x \in S : f[x] \in Int
  PROVE  SumFunctionOnSet(f, S) \in Int
<1> DEFINE B == {T \in SUBSET S : SumFunctionOnSet(f, T) \notin Int}
<1>1. SUFFICES ASSUME B # {} PROVE FALSE
  OBVIOUS
<1>2. PICK T \in B : \A U \in B : U \subseteq T => U = T
  <2>1. B \subseteq SUBSET S
    OBVIOUS
  <2> HIDE DEF B
  <2>2. QED BY <1>1, <2>1, Smallest
<1>3. IsFiniteSet(T)
  BY FS_Subset
<1>4. T # {}
  <2>1. SumFunctionOnSet(f, {}) = 0 /\ SumFunctionOnSet(f, T) \notin Int
    BY <1>2, <1>3, SumUnwinds
  <2>2. QED BY <2>1
<1>5. T \ {Pick(T)} \notin B
  BY <1>2, <1>4, PickIsIn
<1>6. SumFunctionOnSet(f, T \ {Pick(T)}) \in Int
  BY <1>5
<1>7. f[Pick(T)] \in Int
  BY <1>4, PickIsIn
<1>8. QED BY <1>3, <1>4, <1>6, <1>7, SumUnwinds

(* Any element may be split off, not only the one picked.                  *)
LEMMA SumSplits ==
  ASSUME NEW S, IsFiniteSet(S), NEW f, \A x \in S : f[x] \in Int, NEW a \in S
  PROVE  SumFunctionOnSet(f, S) = f[a] + SumFunctionOnSet(f, S \ {a})
<1> DEFINE B == {T \in SUBSET S :
                   \E x \in T : SumFunctionOnSet(f, T) # f[x] + SumFunctionOnSet(f, T \ {x})}
<1>1. SUFFICES ASSUME B # {} PROVE FALSE
  OBVIOUS
<1>2. PICK T \in B : \A U \in B : U \subseteq T => U = T
  <2>1. B \subseteq SUBSET S
    OBVIOUS
  <2> HIDE DEF B
  <2>2. QED BY <1>1, <2>1, Smallest
<1>3. PICK x \in T : SumFunctionOnSet(f, T) # f[x] + SumFunctionOnSet(f, T \ {x})
  BY <1>2
<1> DEFINE c == Pick(T)
<1>4. c \in T
  BY PickIsIn
<1> HIDE DEF c
<1>5. IsFiniteSet(T)
  BY FS_Subset
<1>6. SumFunctionOnSet(f, T) = f[c] + SumFunctionOnSet(f, T \ {c})
  BY <1>5, SumUnwinds DEF c
<1>7. x # c
  BY <1>3, <1>6
<1>8. T \ {c} \notin B /\ T \ {x} \notin B
  BY <1>2, <1>4
<1>9. SumFunctionOnSet(f, T \ {c}) = f[x] + SumFunctionOnSet(f, (T \ {c}) \ {x})
  BY <1>7, <1>8
<1>10. SumFunctionOnSet(f, T \ {x}) = f[c] + SumFunctionOnSet(f, (T \ {x}) \ {c})
  BY <1>4, <1>7, <1>8
<1>11. (T \ {c}) \ {x} = (T \ {x}) \ {c}
  OBVIOUS
<1>12. f[x] \in Int /\ f[c] \in Int /\ SumFunctionOnSet(f, (T \ {x}) \ {c}) \in Int
  <2>1. IsFiniteSet((T \ {x}) \ {c}) /\ \A y \in (T \ {x}) \ {c} : f[y] \in Int
    BY FS_Subset
  <2>2. QED BY <1>4, <2>1, SumIsInt
<1> DEFINE u == SumFunctionOnSet(f, (T \ {x}) \ {c})
<1>13. SumFunctionOnSet(f, T) = f[c] + (f[x] + u)
  BY <1>6, <1>9, <1>11
<1>14. SumFunctionOnSet(f, T) # f[x] + (f[c] + u)
  BY <1>3, <1>10
<1>15. f[c] + (f[x] + u) = f[x] + (f[c] + u)
  <2> HIDE DEF u
  <2>1. \A p, q, r \in Int : p + (q + r) = q + (p + r)
    OBVIOUS
  <2>2. u \in Int
    BY <1>12 DEF u
  <2>3. QED BY <1>12, <2>1, <2>2
<1>16. QED BY <1>13, <1>14, <1>15

(* The sum over the empty set.                                             *)
LEMMA SumOfNone == \A f : SumFunctionOnSet(f, {}) = 0
BY FS_EmptySet, SumUnwinds

(* A new element adds its own value.                                       *)
LEMMA SumAdds ==
  ASSUME NEW S, IsFiniteSet(S), NEW a, a \notin S, NEW f, \A x \in S \cup {a} : f[x] \in Int
  PROVE  SumFunctionOnSet(f, S \cup {a}) = f[a] + SumFunctionOnSet(f, S)
<1>1. IsFiniteSet(S \cup {a})
  BY FS_AddElement
<1>2. (S \cup {a}) \ {a} = S
  OBVIOUS
<1>3. SumFunctionOnSet(f, S \cup {a}) = f[a] + SumFunctionOnSet(f, (S \cup {a}) \ {a})
  BY <1>1, SumSplits
<1>4. QED BY <1>2, <1>3

(* The sum depends on the values on the set only.                          *)
LEMMA SumAgrees ==
  ASSUME NEW S, IsFiniteSet(S), NEW f, NEW g, \A x \in S : f[x] = g[x]
  PROVE  SumFunctionOnSet(f, S) = SumFunctionOnSet(g, S)
<1> DEFINE B == {T \in SUBSET S : SumFunctionOnSet(f, T) # SumFunctionOnSet(g, T)}
<1>1. SUFFICES ASSUME B # {} PROVE FALSE
  OBVIOUS
<1>2. PICK T \in B : \A U \in B : U \subseteq T => U = T
  <2>1. B \subseteq SUBSET S
    OBVIOUS
  <2> HIDE DEF B
  <2>2. QED BY <1>1, <2>1, Smallest
<1>3. IsFiniteSet(T)
  BY FS_Subset
<1>4. T # {}
  <2>1. SumFunctionOnSet(f, {}) = SumFunctionOnSet(g, {})
    BY SumOfNone
  <2>2. QED BY <1>2, <2>1
<1>5. T \ {Pick(T)} \notin B
  BY <1>2, <1>4, PickIsIn
<1>6. SumFunctionOnSet(f, T \ {Pick(T)}) = SumFunctionOnSet(g, T \ {Pick(T)})
  BY <1>5
<1>7. f[Pick(T)] = g[Pick(T)]
  BY <1>4, PickIsIn
<1>8. QED BY <1>2, <1>3, <1>4, <1>6, <1>7, SumUnwinds

(* Changing one value changes the sum by the difference.                   *)
LEMMA SumChanges ==
  ASSUME NEW S, IsFiniteSet(S), NEW f, NEW g, NEW a \in S,
         \A x \in S : f[x] \in Int /\ g[x] \in Int,
         \A x \in S \ {a} : g[x] = f[x]
  PROVE  SumFunctionOnSet(g, S) = SumFunctionOnSet(f, S) + (g[a] - f[a])
<1> DEFINE r == SumFunctionOnSet(f, S \ {a})
           s == SumFunctionOnSet(g, S \ {a})
<1>1. IsFiniteSet(S \ {a})
  BY FS_Subset
<1>2. r \in Int
  BY <1>1, SumIsInt
<1>3. s = r
  BY <1>1, SumAgrees
<1>4. SumFunctionOnSet(f, S) = f[a] + r /\ SumFunctionOnSet(g, S) = g[a] + s
  BY SumSplits
<1> HIDE DEF r, s
<1>5. QED BY <1>2, <1>3, <1>4

(* A sum of natural numbers is a natural number.                           *)
LEMMA SumIsNat ==
  ASSUME NEW S, IsFiniteSet(S), NEW f, \A x \in S : f[x] \in Nat
  PROVE  SumFunctionOnSet(f, S) \in Nat
<1> DEFINE B == {T \in SUBSET S : SumFunctionOnSet(f, T) \notin Nat}
<1>1. SUFFICES ASSUME B # {} PROVE FALSE
  OBVIOUS
<1>2. PICK T \in B : \A U \in B : U \subseteq T => U = T
  <2>1. B \subseteq SUBSET S
    OBVIOUS
  <2> HIDE DEF B
  <2>2. QED BY <1>1, <2>1, Smallest
<1>3. IsFiniteSet(T)
  BY FS_Subset
<1>4. T # {}
  <2>1. SumFunctionOnSet(f, {}) = 0 /\ SumFunctionOnSet(f, T) \notin Nat
    BY <1>2, SumOfNone
  <2>2. QED BY <2>1
<1>5. SumFunctionOnSet(f, T \ {Pick(T)}) \in Nat
  BY <1>2, <1>4, PickIsIn
<1>6. SumFunctionOnSet(f, T) = f[Pick(T)] + SumFunctionOnSet(f, T \ {Pick(T)})
  BY <1>3, <1>4, SumUnwinds
<1>7. f[Pick(T)] \in Nat /\ SumFunctionOnSet(f, T) \notin Nat
  BY <1>2, <1>4, PickIsIn
<1>8. QED BY <1>5, <1>6, <1>7

(* A larger set of natural numbers has a larger sum.                       *)
LEMMA SumGrows ==
  ASSUME NEW S, IsFiniteSet(S), NEW f, \A x \in S : f[x] \in Nat, NEW T \in SUBSET S
  PROVE  SumFunctionOnSet(f, T) <= SumFunctionOnSet(f, S)
<1> DEFINE B == {U \in SUBSET S :
                   T \subseteq U /\ ~(SumFunctionOnSet(f, T) <= SumFunctionOnSet(f, U))}
<1>1. SUFFICES ASSUME B # {} PROVE FALSE
  OBVIOUS
<1>2. PICK U \in B : \A V \in B : V \subseteq U => V = U
  <2>1. B \subseteq SUBSET S
    OBVIOUS
  <2> HIDE DEF B
  <2>2. QED BY <1>1, <2>1, Smallest
<1>3. IsFiniteSet(U) /\ IsFiniteSet(T)
  BY FS_Subset
<1>4. SumFunctionOnSet(f, T) \in Nat
  BY <1>3, SumIsNat
<1>5. PICK a \in U : a \notin T
  BY <1>2, <1>4
<1>6. IsFiniteSet(U \ {a}) /\ \A x \in U \ {a} : f[x] \in Nat
  BY FS_Subset
<1>7. SumFunctionOnSet(f, U \ {a}) \in Nat
  BY <1>6, SumIsNat
<1>8. SumFunctionOnSet(f, T) <= SumFunctionOnSet(f, U \ {a})
  BY <1>2, <1>5
<1>9. SumFunctionOnSet(f, U) = f[a] + SumFunctionOnSet(f, U \ {a})
  BY <1>3, <1>5, SumSplits
<1>10. f[a] \in Nat /\ ~(SumFunctionOnSet(f, T) <= SumFunctionOnSet(f, U))
  BY <1>2, <1>5
<1>11. QED BY <1>4, <1>7, <1>8, <1>9, <1>10

(* Zeros add up to zero.                                                   *)
LEMMA SumOfZeros ==
  ASSUME NEW S, IsFiniteSet(S), NEW f, \A x \in S : f[x] = 0
  PROVE  SumFunctionOnSet(f, S) = 0
<1> DEFINE B == {T \in SUBSET S : SumFunctionOnSet(f, T) # 0}
<1>1. SUFFICES ASSUME B # {} PROVE FALSE
  OBVIOUS
<1>2. PICK T \in B : \A U \in B : U \subseteq T => U = T
  <2>1. B \subseteq SUBSET S
    OBVIOUS
  <2> HIDE DEF B
  <2>2. QED BY <1>1, <2>1, Smallest
<1>3. T # {}
  <2>1. SumFunctionOnSet(f, {}) = 0 /\ SumFunctionOnSet(f, T) # 0
    BY <1>2, SumOfNone
  <2>2. QED BY <2>1
<1>4. SumFunctionOnSet(f, T \ {Pick(T)}) = 0
  BY <1>2, <1>3, PickIsIn
<1>5. SumFunctionOnSet(f, T) = f[Pick(T)] + SumFunctionOnSet(f, T \ {Pick(T)})
  BY <1>3, FS_Subset, SumUnwinds
<1>6. f[Pick(T)] = 0 /\ SumFunctionOnSet(f, T) # 0
  BY <1>2, <1>3, PickIsIn
<1>7. QED BY <1>4, <1>5, <1>6

=============================================================================
