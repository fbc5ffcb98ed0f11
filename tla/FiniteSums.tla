----------------------------- MODULE FiniteSums -----------------------------
(***************************************************************************)
(* Facts about sums over finite sets, for the invariants that add up       *)
(* claims, leaves and accepted events.                                     *)
(***************************************************************************)
EXTENDS Integers, FiniteSetsExt, FiniteSetTheorems, WellFoundedInduction, TLAPS

(* The sum of the values of the function f on the set S.                   *)
SumOver(f, S) == MapThenSumSet(LAMBDA x : f[x], S)

-----------------------------------------------------------------------------
(* The recursive function behind the community modules' fold.              *)
Pick(s) == CHOOSE x \in s : TRUE

Unfold(f, S, g) ==
  [s \in SUBSET S |-> IF s = {} THEN 0 ELSE f[Pick(s)] + g[s \ {Pick(s)}]]

Partial(f, S) == CHOOSE g : g = Unfold(f, S, g)

LEMMA SumIsPartial ==
  ASSUME NEW f, NEW S
  PROVE  SumOver(f, S) = Partial(f, S)[S]
BY DEF SumOver, MapThenSumSet, MapThenFoldSet, Partial, Unfold, Pick

\* Induction over finite sets, by a minimal counterexample: the library's
\* well-foundedness theorem takes no operator as a parameter.
LEMMA MinimalSet ==
  ASSUME NEW S, IsFiniteSet(S), NEW B \in SUBSET (SUBSET S), B # {}
  PROVE  \E T \in B : \A U \in B : U \subseteq T => U = T
<1> DEFINE R == StrictSubsetOrdering(S)
<1>1. IsWellFoundedOn(R, SUBSET S)
  BY FS_StrictSubsetOrderingWellFounded, FS_FiniteSubsetsOfFinite
<1> HIDE DEF R
<1>2. PICK T \in B : \A U \in B : ~ (<<U, T>> \in R)
  BY <1>1, WFMin
<1>3. ASSUME NEW U \in B, U \subseteq T, U # T PROVE FALSE
  <2>1. <<U, T>> \in R
    BY <1>3 DEF R, StrictSubsetOrdering
  <2> QED BY <1>2, <2>1
<1> QED BY <1>3

LEMMA PickIn ==
  ASSUME NEW s, s # {}
  PROVE  Pick(s) \in s /\ s \ {Pick(s)} \subseteq s /\ s \ {Pick(s)} # s
BY DEF Pick

LEMMA UnfoldAt ==
  ASSUME NEW f, NEW S, NEW g, g = Unfold(f, S, g), NEW s \in SUBSET S
  PROVE  g[s] = IF s = {} THEN 0 ELSE f[Pick(s)] + g[s \ {Pick(s)}]
<1>1. Unfold(f, S, g)[s] = IF s = {} THEN 0 ELSE f[Pick(s)] + g[s \ {Pick(s)}]
  BY DEF Unfold
<1> QED BY <1>1

LEMMA UnfoldUnique ==
  ASSUME NEW f, NEW A, NEW B, IsFiniteSet(A), NEW g, NEW h,
         g = Unfold(f, A, g), h = Unfold(f, B, h), NEW s \in SUBSET A, s \in SUBSET B
  PROVE  g[s] = h[s]
<1> DEFINE Bad == {t \in SUBSET A : t \in SUBSET B /\ g[t] # h[t]}
<1> SUFFICES ASSUME Bad # {} PROVE FALSE
  OBVIOUS
<1>1. Bad \in SUBSET (SUBSET A)
  OBVIOUS
<1>2. PICK t \in Bad : \A u \in Bad : u \subseteq t => u = t
  <2> HIDE DEF Bad
  <2> QED BY <1>1, MinimalSet
<1>3. t \in SUBSET A /\ t \in SUBSET B /\ g[t] # h[t]
  OBVIOUS
<1>4. g[t] = IF t = {} THEN 0 ELSE f[Pick(t)] + g[t \ {Pick(t)}]
  BY <1>3, UnfoldAt
<1>5. h[t] = IF t = {} THEN 0 ELSE f[Pick(t)] + h[t \ {Pick(t)}]
  BY <1>3, UnfoldAt
<1>6. t # {}
  BY <1>3, <1>4, <1>5
<1>7. t \ {Pick(t)} \subseteq t /\ t \ {Pick(t)} # t
  BY <1>6, PickIn
<1>8. g[t \ {Pick(t)}] = h[t \ {Pick(t)}]
  BY <1>2, <1>3, <1>7
<1> QED BY <1>3, <1>4, <1>5, <1>6, <1>8

LEMMA PartialExists ==
  ASSUME NEW f, NEW S, IsFiniteSet(S)
  PROVE  Partial(f, S) = Unfold(f, S, Partial(f, S))
<1> DEFINE Has(T) == \E g : g = Unfold(f, T, g)
           Bad == {T \in SUBSET S : ~ Has(T)}
<1>1. ASSUME NEW T \in SUBSET S, Has(T) PROVE Partial(f, T) = Unfold(f, T, Partial(f, T))
  BY <1>1 DEF Partial
<1>2. ASSUME Bad # {} PROVE FALSE
  <2>1. PICK T \in Bad : \A U \in Bad : U \subseteq T => U = T
    <3>1. Bad \in SUBSET (SUBSET S)
      OBVIOUS
    <3> HIDE DEF Bad
    <3> QED BY <1>2, <3>1, MinimalSet
  <2>2. \A U \in SUBSET T : U # T => Has(U)
    BY <2>1
  <2> DEFINE h(u) == Partial(f, u)[u]
             g == [s \in SUBSET T |-> IF s = {} THEN 0 ELSE f[Pick(s)] + h(s \ {Pick(s)})]
  <2> HIDE DEF Has
  <2>3. ASSUME NEW U \in SUBSET T, U # T PROVE g[U] = h(U)
    <3>1. Partial(f, U) = Unfold(f, U, Partial(f, U))
      BY <1>1, <2>2, <2>3
    <3>2. h(U) = IF U = {} THEN 0 ELSE f[Pick(U)] + Partial(f, U)[U \ {Pick(U)}]
      BY <3>1, UnfoldAt
    <3>3. CASE U = {}
      BY <3>2, <3>3
    <3>4. CASE U # {}
      <4> DEFINE V == U \ {Pick(U)}
      <4>1. V \subseteq U /\ V # U
        BY <3>4, PickIn
      <4>2. V \in SUBSET T /\ V # T
        BY <4>1
      <4>3. Partial(f, V) = Unfold(f, V, Partial(f, V))
        BY <1>1, <2>2, <4>2
      <4>4. IsFiniteSet(U)
        BY FS_Subset
      <4> HIDE DEF V
      <4>5. Partial(f, U)[V] = h(V)
        BY <3>1, <4>1, <4>3, <4>4, UnfoldUnique
      <4> USE DEF V
      <4> QED BY <3>2, <3>4, <4>5
    <3> QED BY <3>3, <3>4
  <2>4. ASSUME NEW s \in SUBSET T, s # {} PROVE h(s \ {Pick(s)}) = g[s \ {Pick(s)}]
    <3>1. s \ {Pick(s)} \in SUBSET T /\ s \ {Pick(s)} # T
      BY <2>4, PickIn
    <3> HIDE DEF g, h
    <3> QED BY <3>1, <2>3
  <2>5. g = Unfold(f, T, g)
    <3>1. Unfold(f, T, g) = [s \in SUBSET T |-> IF s = {} THEN 0 ELSE f[Pick(s)] + g[s \ {Pick(s)}]]
      BY DEF Unfold
    <3> HIDE DEF h
    <3> QED BY <2>4, <3>1
  <2>6. Has(T)
    BY <2>5 DEF Has
  <2> QED BY <2>1, <2>6 DEF Has
<1> QED BY <1>1, <1>2

-----------------------------------------------------------------------------
(* What the sum of a function over a finite set is. *)

\* The empty sum.
LEMMA SumEmpty ==
  ASSUME NEW f
  PROVE  SumOver(f, {}) = 0
<1>1. IsFiniteSet({})
  BY FS_EmptySet
<1>2. Partial(f, {})[{}] = 0
  BY <1>1, PartialExists, UnfoldAt
<1> QED BY <1>2, SumIsPartial

\* One unfolding of the fold.
LEMMA SumStep ==
  ASSUME NEW f, NEW S, IsFiniteSet(S), S # {}
  PROVE  SumOver(f, S) = f[Pick(S)] + SumOver(f, S \ {Pick(S)})
<1> DEFINE T == S \ {Pick(S)}
<1>1. Partial(f, S)[S] = f[Pick(S)] + Partial(f, S)[T]
  BY PartialExists, UnfoldAt
<1>2. T \subseteq S /\ IsFiniteSet(T)
  BY FS_Subset
<1> HIDE DEF T
<1>3. Partial(f, S) = Unfold(f, S, Partial(f, S)) /\ Partial(f, T) = Unfold(f, T, Partial(f, T))
  BY <1>2, PartialExists
<1>4. Partial(f, S)[T] = Partial(f, T)[T]
  BY <1>2, <1>3, UnfoldUnique
<1> QED BY <1>1, <1>4, SumIsPartial DEF T

\* A sum of integers is an integer.
LEMMA SumInt ==
  ASSUME NEW f, NEW S, IsFiniteSet(S), \A x \in S : f[x] \in Int
  PROVE  SumOver(f, S) \in Int
<1> DEFINE Bad == {T \in SUBSET S : SumOver(f, T) \notin Int}
<1> SUFFICES ASSUME Bad # {} PROVE FALSE
  OBVIOUS
<1>1. PICK T \in Bad : \A U \in Bad : U \subseteq T => U = T
  <2>1. Bad \in SUBSET (SUBSET S)
    OBVIOUS
  <2> HIDE DEF Bad
  <2> QED BY <2>1, MinimalSet
<1>2. T # {}
  BY SumEmpty
<1>3. Pick(T) \in T /\ T \ {Pick(T)} \subseteq T /\ T \ {Pick(T)} # T
  BY <1>2, PickIn
<1>4. SumOver(f, T \ {Pick(T)}) \in Int
  BY <1>1, <1>3
<1>5. SumOver(f, T) = f[Pick(T)] + SumOver(f, T \ {Pick(T)})
  BY <1>2, SumStep, FS_Subset
<1> QED BY <1>3, <1>4, <1>5

\* A sum of natural numbers is a natural number.
LEMMA SumNat ==
  ASSUME NEW f, NEW S, IsFiniteSet(S), \A x \in S : f[x] \in Nat
  PROVE  SumOver(f, S) \in Nat
<1> DEFINE Bad == {T \in SUBSET S : SumOver(f, T) \notin Nat}
<1> SUFFICES ASSUME Bad # {} PROVE FALSE
  OBVIOUS
<1>1. PICK T \in Bad : \A U \in Bad : U \subseteq T => U = T
  <2>1. Bad \in SUBSET (SUBSET S)
    OBVIOUS
  <2> HIDE DEF Bad
  <2> QED BY <2>1, MinimalSet
<1>2. T # {}
  BY SumEmpty
<1>3. Pick(T) \in T /\ T \ {Pick(T)} \subseteq T /\ T \ {Pick(T)} # T
  BY <1>2, PickIn
<1>4. SumOver(f, T \ {Pick(T)}) \in Nat
  BY <1>1, <1>3
<1>5. SumOver(f, T) = f[Pick(T)] + SumOver(f, T \ {Pick(T)})
  BY <1>2, SumStep, FS_Subset
<1> QED BY <1>3, <1>4, <1>5

\* Any element may be taken out first: the order of the fold is immaterial.
LEMMA SumRemove ==
  ASSUME NEW f, NEW S, IsFiniteSet(S), \A y \in S : f[y] \in Int, NEW x \in S
  PROVE  SumOver(f, S) = f[x] + SumOver(f, S \ {x})
<1> DEFINE Bad == {T \in SUBSET S : \E z \in T : SumOver(f, T) # f[z] + SumOver(f, T \ {z})}
<1> SUFFICES ASSUME Bad # {} PROVE FALSE
  OBVIOUS
<1>1. PICK T \in Bad : \A U \in Bad : U \subseteq T => U = T
  <2>1. Bad \in SUBSET (SUBSET S)
    OBVIOUS
  <2> HIDE DEF Bad
  <2> QED BY <2>1, MinimalSet
<1>2. PICK z \in T : SumOver(f, T) # f[z] + SumOver(f, T \ {z})
  BY <1>1
<1> DEFINE p == Pick(T)
           U == T \ {p}
           V == T \ {z}
           W == T \ {p, z}
<1>3. p \in T /\ U \subseteq T /\ U # T
  BY PickIn
<1>4. SumOver(f, T) = f[p] + SumOver(f, U)
  BY SumStep, FS_Subset
<1> HIDE DEF p
<1>5. p # z
  BY <1>2, <1>4
<1>6. SumOver(f, U) = f[z] + SumOver(f, U \ {z})
  BY <1>1, <1>3, <1>5
<1>7. U \ {z} = W /\ V \ {p} = W /\ p \in V
  BY <1>3, <1>5
<1>8. SumOver(f, V) = f[p] + SumOver(f, W)
  <2>1. V \subseteq T /\ V # T /\ V \in SUBSET S
    OBVIOUS
  <2>2. V \notin Bad
    <3> HIDE DEF Bad, V
    <3> QED BY <1>1, <2>1
  <2>3. SumOver(f, V) = f[p] + SumOver(f, V \ {p})
    <3> HIDE DEF V
    <3> QED BY <1>7, <2>1, <2>2
  <2> QED BY <1>7, <2>3
<1>9. W \subseteq S /\ IsFiniteSet(W)
  BY FS_Subset
<1>10. SumOver(f, W) \in Int
  <2> HIDE DEF W
  <2> QED BY <1>9, SumInt
<1>11. f[p] \in Int /\ f[z] \in Int
  BY <1>3
<1>12. SumOver(f, U) = f[z] + SumOver(f, W)
  BY <1>6, <1>7
<1>13. SumOver(f, T) # f[z] + SumOver(f, V)
  BY <1>2
<1> HIDE DEF U, V, W, Bad
<1> QED BY <1>4, <1>8, <1>10, <1>11, <1>12, <1>13

\* Functions that agree on a set have the same sum over it.
LEMMA SumSame ==
  ASSUME NEW f, NEW g, NEW S, IsFiniteSet(S), \A x \in S : f[x] = g[x]
  PROVE  SumOver(f, S) = SumOver(g, S)
<1> DEFINE Bad == {T \in SUBSET S : SumOver(f, T) # SumOver(g, T)}
<1> SUFFICES ASSUME Bad # {} PROVE FALSE
  OBVIOUS
<1>1. PICK T \in Bad : \A U \in Bad : U \subseteq T => U = T
  <2>1. Bad \in SUBSET (SUBSET S)
    OBVIOUS
  <2> HIDE DEF Bad
  <2> QED BY <2>1, MinimalSet
<1>2. T # {}
  BY SumEmpty
<1>3. Pick(T) \in T /\ T \ {Pick(T)} \subseteq T /\ T \ {Pick(T)} # T
  BY <1>2, PickIn
<1>4. SumOver(f, T \ {Pick(T)}) = SumOver(g, T \ {Pick(T)})
  BY <1>1, <1>3
<1>5. /\ SumOver(f, T) = f[Pick(T)] + SumOver(f, T \ {Pick(T)})
      /\ SumOver(g, T) = g[Pick(T)] + SumOver(g, T \ {Pick(T)})
  BY <1>2, SumStep, FS_Subset
<1> QED BY <1>3, <1>4, <1>5

\* Adding an element that was not there.
LEMMA SumInsert ==
  ASSUME NEW f, NEW S, IsFiniteSet(S), NEW x, x \notin S,
         \A y \in S \cup {x} : f[y] \in Int
  PROVE  IsFiniteSet(S \cup {x}) /\ SumOver(f, S \cup {x}) = f[x] + SumOver(f, S)
<1>1. IsFiniteSet(S \cup {x}) /\ (S \cup {x}) \ {x} = S
  BY FS_AddElement
<1> DEFINE T == S \cup {x}
<1>2. x \in T
  OBVIOUS
<1> HIDE DEF T
<1>3. SumOver(f, T) = f[x] + SumOver(f, T \ {x})
  BY <1>1, <1>2, SumRemove DEF T
<1> QED BY <1>1, <1>3 DEF T

\* Changing the function at one element changes the sum by the difference.
LEMMA SumChange ==
  ASSUME NEW f, NEW g, NEW S, IsFiniteSet(S), NEW x \in S,
         \A y \in S : f[y] \in Int /\ g[y] \in Int,
         \A y \in S \ {x} : g[y] = f[y]
  PROVE  SumOver(g, S) = SumOver(f, S) + (g[x] - f[x])
<1> DEFINE T == S \ {x}
<1>1. SumOver(f, S) = f[x] + SumOver(f, T) /\ SumOver(g, S) = g[x] + SumOver(g, T)
  BY SumRemove
<1>2. IsFiniteSet(T)
  BY FS_Subset
<1>3. SumOver(f, T) = SumOver(g, T) /\ SumOver(f, T) \in Int
  <2>1. \A y \in T : f[y] = g[y] /\ f[y] \in Int
    OBVIOUS
  <2> HIDE DEF T
  <2> QED BY <1>2, <2>1, SumSame, SumInt
<1> QED BY <1>1, <1>3

\* A sum of natural numbers grows with the set.
LEMMA SumSubset ==
  ASSUME NEW f, NEW S, IsFiniteSet(S), \A x \in S : f[x] \in Nat, NEW R \in SUBSET S
  PROVE  SumOver(f, R) <= SumOver(f, S)
<1> DEFINE Bad == {T \in SUBSET S : R \subseteq T /\ ~ (SumOver(f, R) <= SumOver(f, T))}
<1> SUFFICES ASSUME Bad # {} PROVE FALSE
  OBVIOUS
<1>0. SumOver(f, R) \in Nat
  BY SumNat, FS_Subset
<1>1. PICK T \in Bad : \A U \in Bad : U \subseteq T => U = T
  <2>1. Bad \in SUBSET (SUBSET S)
    OBVIOUS
  <2> HIDE DEF Bad
  <2> QED BY <2>1, MinimalSet
<1>2. T # R
  BY <1>0
<1>3. PICK x \in T : x \notin R
  BY <1>2
<1> DEFINE U == T \ {x}
<1>4. SumOver(f, T) = f[x] + SumOver(f, U)
  <2>1. IsFiniteSet(T) /\ \A y \in T : f[y] \in Int
    BY FS_Subset
  <2> QED BY <2>1, SumRemove
<1>5. SumOver(f, R) <= SumOver(f, U)
  BY <1>1, <1>3
<1>6. SumOver(f, U) \in Nat
  <2>1. IsFiniteSet(U) /\ U \subseteq S
    BY FS_Subset
  <2> HIDE DEF U
  <2> QED BY <2>1, SumNat
<1>7. f[x] \in Nat
  OBVIOUS
<1> QED BY <1>0, <1>4, <1>5, <1>6, <1>7

\* One term is at most the sum.
LEMMA SumTerm ==
  ASSUME NEW f, NEW S, IsFiniteSet(S), \A x \in S : f[x] \in Nat, NEW x \in S
  PROVE  f[x] <= SumOver(f, S)
<1>1. SumOver(f, S) = f[x] + SumOver(f, S \ {x})
  BY SumRemove
<1>2. SumOver(f, S \ {x}) \in Nat
  <2>1. IsFiniteSet(S \ {x}) /\ \A y \in S \ {x} : f[y] \in Nat
    BY FS_Subset
  <2> DEFINE T == S \ {x}
  <2> HIDE DEF T
  <2>2. SumOver(f, T) \in Nat
    BY <2>1, SumNat DEF T
  <2> QED BY <2>2 DEF T
<1> QED BY <1>1, <1>2

\* The sum of a function that is zero on the set.
LEMMA SumZero ==
  ASSUME NEW f, NEW S, IsFiniteSet(S), \A x \in S : f[x] = 0
  PROVE  SumOver(f, S) = 0
<1> DEFINE Bad == {T \in SUBSET S : SumOver(f, T) # 0}
<1> SUFFICES ASSUME Bad # {} PROVE FALSE
  OBVIOUS
<1>1. PICK T \in Bad : \A U \in Bad : U \subseteq T => U = T
  <2>1. Bad \in SUBSET (SUBSET S)
    OBVIOUS
  <2> HIDE DEF Bad
  <2> QED BY <2>1, MinimalSet
<1>2. T # {}
  BY SumEmpty
<1>3. Pick(T) \in T /\ T \ {Pick(T)} \subseteq T /\ T \ {Pick(T)} # T
  BY <1>2, PickIn
<1>4. SumOver(f, T \ {Pick(T)}) = 0
  BY <1>1, <1>3
<1>5. SumOver(f, T) = f[Pick(T)] + SumOver(f, T \ {Pick(T)})
  BY <1>2, SumStep, FS_Subset
<1> QED BY <1>3, <1>4, <1>5

\* The entries of a table that are kept under the keys of a set.
EntriesOf(key, I, S) == {i \in I : key[i] \in S}

\* Payments drawn from a table: if every payment that is not zero is the entry
\* of the table under the payee's own key, the payments of a set of payees add
\* up to no more than the entries under the keys of that set.
LEMMA SumDrawn ==
  ASSUME NEW S, IsFiniteSet(S), NEW I, IsFiniteSet(I),
         NEW f, \A x \in S : f[x] \in Nat, NEW g, \A i \in I : g[i] \in Nat, NEW key,
         \A x \in S : f[x] = 0 \/ (\E i \in I : key[i] = x /\ g[i] = f[x])
  PROVE  SumOver(f, S) <= SumOver(g, EntriesOf(key, I, S))
<1> USE DEF EntriesOf
<1> DEFINE Of(T) == {i \in I : key[i] \in T}
           Bad == {T \in SUBSET S : ~ (SumOver(f, T) <= SumOver(g, Of(T)))}
<1> SUFFICES ASSUME Bad # {} PROVE FALSE
  OBVIOUS
<1>1. PICK T \in Bad : \A U \in Bad : U \subseteq T => U = T
  <2>1. Bad \in SUBSET (SUBSET S)
    OBVIOUS
  <2> HIDE DEF Bad
  <2> QED BY <2>1, MinimalSet
<1>0. ASSUME NEW U \in SUBSET S
      PROVE  /\ SumOver(f, U) \in Nat /\ SumOver(g, Of(U)) \in Nat
             /\ IsFiniteSet(Of(U)) /\ Of(U) \subseteq I
  <2>1. IsFiniteSet(U) /\ IsFiniteSet(Of(U)) /\ Of(U) \subseteq I
    BY FS_Subset
  <2> HIDE DEF Of
  <2> QED BY <2>1, SumNat
<1>2. T # {}
  <2>1. SumOver(f, {}) = 0
    BY SumEmpty
  <2>2. SumOver(g, Of({})) \in Nat
    BY <1>0
  <2>3. SumOver(f, {}) <= SumOver(g, Of({}))
    <3> HIDE DEF Of
    <3> QED BY <2>1, <2>2
  <2>4. ~ (SumOver(f, T) <= SumOver(g, Of(T)))
    OBVIOUS
  <2> HIDE DEF Of, Bad
  <2> QED BY <2>3, <2>4
<1> DEFINE x == Pick(T)
           U == T \ {x}
<1>3. x \in T /\ U \subseteq T /\ U # T
  BY <1>2, PickIn
<1>4. SumOver(f, T) = f[x] + SumOver(f, U)
  BY <1>2, SumStep, FS_Subset
<1> HIDE DEF x
<1>5. SumOver(f, U) <= SumOver(g, Of(U))
  <2> HIDE DEF Of, U
  <2> QED BY <1>1, <1>3
<1>6. Of(U) \subseteq Of(T)
  OBVIOUS
<1>7. \A i \in Of(T) : g[i] \in Nat
  OBVIOUS
<1>8. ~ (SumOver(f, T) <= SumOver(g, Of(T)))
  OBVIOUS
<1>9. /\ SumOver(f, U) \in Nat /\ SumOver(g, Of(U)) \in Nat
      /\ SumOver(g, Of(T)) \in Nat /\ IsFiniteSet(Of(T)) /\ f[x] \in Nat
  <2>1. U \in SUBSET S /\ T \in SUBSET S /\ f[x] \in Nat
    BY <1>3
  <2> HIDE DEF Of, U
  <2> QED BY <1>0, <2>1
<1>10. CASE f[x] = 0
  <2>1. SumOver(g, Of(U)) <= SumOver(g, Of(T))
    <3> HIDE DEF Of
    <3> QED BY <1>6, <1>7, <1>9, SumSubset
  <2> HIDE DEF Of, U
  <2> QED BY <1>4, <1>5, <1>8, <1>9, <1>10, <2>1
<1>11. CASE f[x] # 0
  <2>1. PICK i \in I : key[i] = x /\ g[i] = f[x]
    BY <1>3, <1>11
  <2>2. i \in Of(T) /\ Of(U) \subseteq Of(T) \ {i}
    BY <1>3, <2>1
  <2> HIDE DEF Of, U
  <2>3. SumOver(g, Of(T)) = g[i] + SumOver(g, Of(T) \ {i})
    BY <1>7, <1>9, <2>2, SumRemove
  <2>4. SumOver(g, Of(U)) <= SumOver(g, Of(T) \ {i}) /\ SumOver(g, Of(T) \ {i}) \in Nat
    <3> DEFINE R == Of(T) \ {i}
    <3>1. IsFiniteSet(R) /\ \A y \in R : g[y] \in Nat
      BY <1>7, <1>9, FS_Subset
    <3>2. Of(U) \subseteq R
      BY <2>2
    <3> HIDE DEF R
    <3>3. SumOver(g, Of(U)) <= SumOver(g, R) /\ SumOver(g, R) \in Nat
      BY <3>1, <3>2, SumSubset, SumNat
    <3> QED BY <3>3 DEF R
  <2> QED BY <1>4, <1>5, <1>8, <1>9, <2>1, <2>3, <2>4
<1> QED BY <1>10, <1>11

-----------------------------------------------------------------------------
(* Tables of rows <<key, amount>>, such as the leaves of a prize tree. *)

TableTotal(t, I) == MapThenSumSet(LAMBDA i : t[i][2], I)

\* The sum of a table's amounts is the sum of its second column.
LEMMA TableSum ==
  ASSUME NEW t, NEW I, IsFiniteSet(I)
  PROVE  TableTotal(t, I) = SumOver([i \in I |-> t[i][2]], I)
<1> DEFINE f == [i \in I |-> t[i][2]]
           Rows(g) == [s \in SUBSET I |-> IF s = {} THEN 0 ELSE t[Pick(s)][2] + g[s \ {Pick(s)}]]
           total == CHOOSE g : g = Rows(g)
<1>1. TableTotal(t, I) = total[I]
  BY DEF TableTotal, MapThenSumSet, MapThenFoldSet, Pick
<1>2. ASSUME NEW g PROVE Rows(g) = Unfold(f, I, g)
  <2>1. \A s \in SUBSET I : s # {} => f[Pick(s)] = t[Pick(s)][2]
    BY PickIn
  <2> HIDE DEF f
  <2> QED BY <2>1 DEF Unfold
<1>3. Partial(f, I) = Unfold(f, I, Partial(f, I))
  BY PartialExists
<1>4. \E g : g = Rows(g)
  BY <1>2, <1>3
<1>5. total = Rows(total)
  <2> HIDE DEF Rows
  <2> QED BY <1>4
<1> HIDE DEF total, Rows, f
<1>6. total = Unfold(f, I, total)
  BY <1>2, <1>5
<1>7. total[I] = Partial(f, I)[I]
  BY <1>3, <1>6, UnfoldUnique
<1> QED BY <1>1, <1>7, SumIsPartial DEF f

\* A table pays its last reader: if everybody was paid nothing or a row of
\* their own, an unpaid row fits beside all payments in the table's sum.
LEMMA TableCovers ==
  ASSUME NEW S, IsFiniteSet(S), NEW I, IsFiniteSet(I), NEW t \in [I -> S \X Nat],
         NEW f \in [S -> Nat], \A x \in S : f[x] = 0 \/ (\E i \in I : t[i] = <<x, f[x]>>),
         NEW k \in I, f[t[k][1]] = 0
  PROVE  /\ SumOver(f, S) \in Nat
         /\ TableTotal(t, I) \in Nat
         /\ SumOver(f, S) + t[k][2] <= TableTotal(t, I)
<1> DEFINE g == [i \in I |-> t[i][2]]
           key == [i \in I |-> t[i][1]]
           w == t[k][1]
           T == S \ {w}
           J == {i \in I : key[i] \in T}
<1>1. w \in S /\ (\A i \in I : g[i] \in Nat /\ key[i] \in S) /\ g[k] = t[k][2] /\ key[k] = w
  OBVIOUS
<1>2. SumOver(f, S) = SumOver(f, T)
  <2>1. SumOver(f, S) = f[w] + SumOver(f, S \ {w})
    BY <1>1, SumRemove
  <2>2. IsFiniteSet(T) /\ \A x \in T : f[x] \in Int
    BY FS_Subset
  <2>3. SumOver(f, T) \in Int
    <3> HIDE DEF T
    <3> QED BY <2>2, SumInt
  <2> QED BY <2>1, <2>3
<1>3. IsFiniteSet(T) /\ IsFiniteSet(J) /\ T \subseteq S
  BY FS_Subset
<1>4. \A x \in T : f[x] \in Nat /\ (f[x] = 0 \/ (\E i \in I : key[i] = x /\ g[i] = f[x]))
  BY <1>3
<1>5. SumOver(f, T) <= SumOver(g, J)
  <2>1. \A i \in I : g[i] \in Nat
    BY <1>1
  <2>2. \A x \in T : f[x] \in Nat
    BY <1>4
  <2>3. \A x \in T : f[x] = 0 \/ (\E i \in I : key[i] = x /\ g[i] = f[x])
    BY <1>4
  <2>4. IsFiniteSet(T)
    BY <1>3
  <2> HIDE DEF T, g, key
  <2>5. SumOver(f, T) <= SumOver(g, EntriesOf(key, I, T))
    BY <2>1, <2>2, <2>3, <2>4, SumDrawn
  <2> QED BY <2>5 DEF EntriesOf
<1>6. J \subseteq I \ {k}
  BY <1>1
<1> DEFINE R == I \ {k}
<1>7. IsFiniteSet(R) /\ \A i \in R : g[i] \in Nat
  BY FS_Subset
<1>8. SumOver(g, I) = g[k] + SumOver(g, R)
  <2> HIDE DEF g
  <2> QED BY <1>1, SumRemove
<1>9. SumOver(g, J) <= SumOver(g, R) /\ SumOver(g, R) \in Nat /\ SumOver(g, J) \in Nat
  <2> HIDE DEF g, J, R
  <2> QED BY <1>3, <1>6, <1>7, SumSubset, SumNat DEF R
<1>10. SumOver(f, T) \in Nat
  <2> HIDE DEF T
  <2> QED BY <1>3, <1>4, SumNat
<1>11. TableTotal(t, I) = SumOver(g, I)
  BY TableSum
<1> HIDE DEF g, key, w, T, J, R
<1> QED BY <1>1, <1>2, <1>5, <1>8, <1>9, <1>10, <1>11

-----------------------------------------------------------------------------
(* Splitting and regrouping. *)

\* The sum over two disjoint sets.
LEMMA SumDisjoint ==
  ASSUME NEW f, NEW A, NEW B, IsFiniteSet(A), IsFiniteSet(B), A \cap B = {},
         \A x \in A \cup B : f[x] \in Int
  PROVE  SumOver(f, A \cup B) = SumOver(f, A) + SumOver(f, B)
<1> DEFINE Bad == {T \in SUBSET B : SumOver(f, A \cup T) # SumOver(f, A) + SumOver(f, T)}
<1> SUFFICES ASSUME Bad # {} PROVE FALSE
  OBVIOUS
<1>1. PICK T \in Bad : \A U \in Bad : U \subseteq T => U = T
  <2>1. Bad \in SUBSET (SUBSET B)
    OBVIOUS
  <2> HIDE DEF Bad
  <2> QED BY <2>1, MinimalSet
<1>0. SumOver(f, A) \in Int
  BY SumInt
<1>2. SumOver(f, A \cup T) # SumOver(f, A) + SumOver(f, T) /\ T \subseteq B
  OBVIOUS
<1>3. T # {}
  <2>1. A \cup {} = A /\ SumOver(f, {}) = 0
    BY SumEmpty
  <2>2. SumOver(f, A \cup {}) = SumOver(f, A) + SumOver(f, {})
    BY <1>0, <2>1
  <2> HIDE DEF Bad
  <2> QED BY <1>2, <2>2
<1>4. PICK x \in T : TRUE
  BY <1>3
<1> DEFINE U == T \ {x}
           AU == A \cup U
<1>5. SumOver(f, AU) = SumOver(f, A) + SumOver(f, U)
  <2>1. U \subseteq T /\ U # T /\ U \subseteq B
    BY <1>2
  <2> HIDE DEF U
  <2> QED BY <1>1, <2>1
<1>6. SumOver(f, T) = f[x] + SumOver(f, U)
  <2>1. IsFiniteSet(T) /\ \A y \in T : f[y] \in Int
    BY <1>2, FS_Subset
  <2> QED BY <2>1, SumRemove
<1>7. IsFiniteSet(U) /\ IsFiniteSet(AU) /\ (\A y \in U : f[y] \in Int) /\ f[x] \in Int
  BY <1>2, FS_Subset, FS_Union
<1>8. x \notin AU /\ AU \cup {x} = A \cup T /\ \A y \in AU \cup {x} : f[y] \in Int
  BY <1>2
<1>9. SumOver(f, U) \in Int
  <2> HIDE DEF U
  <2> QED BY <1>7, SumInt
<1> HIDE DEF U, AU, Bad
<1>10. SumOver(f, AU \cup {x}) = f[x] + SumOver(f, AU)
  BY <1>7, <1>8, SumInsert
<1>11. SumOver(f, A \cup T) = SumOver(f, AU \cup {x})
  BY <1>8
<1>12. SumOver(f, AU \cup {x}) = SumOver(f, A) + SumOver(f, T)
  BY <1>0, <1>5, <1>6, <1>7, <1>9, <1>10
<1> QED BY <1>2, <1>11, <1>12

\* The entries kept under one key.
Group(c, R, b) == EntriesOf(c, R, {b})

\* Summing group by group: if h[b] is the sum of f over the entries kept under
\* the key b, the sum of h over the keys is the sum of f over their entries.
LEMMA SumGroups ==
  ASSUME NEW R, IsFiniteSet(R), NEW B, IsFiniteSet(B), NEW f, \A r \in R : f[r] \in Int,
         NEW c, NEW h, \A b \in B : h[b] = SumOver(f, Group(c, R, b))
  PROVE  SumOver(h, B) = SumOver(f, EntriesOf(c, R, B))
<1> DEFINE Bad == {T \in SUBSET B : SumOver(h, T) # SumOver(f, EntriesOf(c, R, T))}
<1> SUFFICES ASSUME Bad # {} PROVE FALSE
  OBVIOUS
<1>1. PICK T \in Bad : \A U \in Bad : U \subseteq T => U = T
  <2>1. Bad \in SUBSET (SUBSET B)
    OBVIOUS
  <2> HIDE DEF Bad
  <2> QED BY <2>1, MinimalSet
<1>2. SumOver(h, T) # SumOver(f, EntriesOf(c, R, T)) /\ T \subseteq B
  OBVIOUS
<1>3. T # {}
  <2>1. EntriesOf(c, R, {}) = {}
    BY DEF EntriesOf
  <2> HIDE DEF Bad
  <2> QED BY <1>2, <2>1, SumEmpty
<1> DEFINE x == Pick(T)
           U == T \ {x}
<1>4. x \in T /\ U \subseteq T /\ U # T
  BY <1>3, PickIn
<1>5. SumOver(h, T) = h[x] + SumOver(h, U)
  BY <1>2, <1>3, SumStep, FS_Subset
<1> HIDE DEF x
<1>6. SumOver(h, U) = SumOver(f, EntriesOf(c, R, U))
  <2> HIDE DEF U
  <2> QED BY <1>1, <1>2, <1>4
<1> DEFINE E == EntriesOf(c, R, {x})
           F == EntriesOf(c, R, U)
<1>7. E \cap F = {} /\ E \cup F = EntriesOf(c, R, T) /\ E \subseteq R /\ F \subseteq R
  BY <1>4 DEF EntriesOf
<1>8. IsFiniteSet(E) /\ IsFiniteSet(F) /\ \A r \in E \cup F : f[r] \in Int
  BY <1>7, FS_Subset
<1>9. h[x] = SumOver(f, E)
  BY <1>2, <1>4 DEF Group
<1> HIDE DEF E, F, U, Bad
<1>10. SumOver(f, E \cup F) = SumOver(f, E) + SumOver(f, F)
  BY <1>7, <1>8, SumDisjoint
<1> QED BY <1>2, <1>5, <1>6, <1>7, <1>9, <1>10 DEF F

\* Renaming the elements of a set one to one.
ImageOf(c, R) == {c[r] : r \in R}

LEMMA SumRename ==
  ASSUME NEW R, IsFiniteSet(R), NEW c, \A r, s \in R : c[r] = c[s] => r = s,
         NEW f, NEW g, \A r \in R : g[r] \in Int /\ g[r] = f[c[r]]
  PROVE  SumOver(g, R) = SumOver(f, ImageOf(c, R))
<1> DEFINE Bad == {T \in SUBSET R : SumOver(g, T) # SumOver(f, ImageOf(c, T))}
<1> SUFFICES ASSUME Bad # {} PROVE FALSE
  OBVIOUS
<1>1. PICK T \in Bad : \A U \in Bad : U \subseteq T => U = T
  <2>1. Bad \in SUBSET (SUBSET R)
    OBVIOUS
  <2> HIDE DEF Bad
  <2> QED BY <2>1, MinimalSet
<1>2. SumOver(g, T) # SumOver(f, ImageOf(c, T)) /\ T \subseteq R
  OBVIOUS
<1>3. T # {}
  <2>1. ImageOf(c, {}) = {}
    BY DEF ImageOf
  <2> HIDE DEF Bad
  <2> QED BY <1>2, <2>1, SumEmpty
<1> DEFINE x == Pick(T)
           U == T \ {x}
           V == ImageOf(c, U)
<1>4. x \in T /\ U \subseteq T /\ U # T
  BY <1>3, PickIn
<1>5. SumOver(g, T) = g[x] + SumOver(g, U)
  BY <1>2, <1>3, SumStep, FS_Subset
<1> HIDE DEF x
<1>6. SumOver(g, U) = SumOver(f, V)
  <2> HIDE DEF U
  <2> QED BY <1>1, <1>2, <1>4
<1>7. c[x] \notin V /\ V \cup {c[x]} = ImageOf(c, T) /\ g[x] = f[c[x]]
      /\ \A y \in V \cup {c[x]} : f[y] \in Int
  BY <1>2, <1>4 DEF ImageOf
<1>8. IsFiniteSet(V)
  <2>1. IsFiniteSet(U)
    BY <1>2, FS_Subset
  <2> HIDE DEF U
  <2> DEFINE m == [r \in U |-> c[r]]
  <2>2. m \in Surjection(U, V)
    BY DEF Surjection, ImageOf
  <2> HIDE DEF m, V
  <2> QED BY <2>1, <2>2, FS_Surjection
<1> HIDE DEF U, V, Bad
<1>9. SumOver(f, V \cup {c[x]}) = f[c[x]] + SumOver(f, V)
  BY <1>7, <1>8, SumInsert
<1> QED BY <1>2, <1>5, <1>6, <1>7, <1>9

\* Rows <<item, ...>> that are worth what their item is worth.
RowTotal(a, I) == MapThenSumSet(LAMBDA row : a[row[1]], I)

LEMMA RowSum ==
  ASSUME NEW a, NEW I, IsFiniteSet(I)
  PROVE  RowTotal(a, I) = SumOver([r \in I |-> a[r[1]]], I)
<1> DEFINE f == [r \in I |-> a[r[1]]]
           Rows(g) == [s \in SUBSET I |-> IF s = {} THEN 0 ELSE a[Pick(s)[1]] + g[s \ {Pick(s)}]]
           total == CHOOSE g : g = Rows(g)
<1>1. RowTotal(a, I) = total[I]
  BY DEF RowTotal, MapThenSumSet, MapThenFoldSet, Pick
<1>2. ASSUME NEW g PROVE Rows(g) = Unfold(f, I, g)
  <2>1. \A s \in SUBSET I : s # {} => f[Pick(s)] = a[Pick(s)[1]]
    BY PickIn
  <2> HIDE DEF f
  <2> QED BY <2>1 DEF Unfold
<1>3. Partial(f, I) = Unfold(f, I, Partial(f, I))
  BY PartialExists
<1>4. \E g : g = Rows(g)
  BY <1>2, <1>3
<1>5. total = Rows(total)
  <2> HIDE DEF Rows
  <2> QED BY <1>4
<1> HIDE DEF total, Rows, f
<1>6. total = Unfold(f, I, total)
  BY <1>2, <1>5
<1>7. total[I] = Partial(f, I)[I]
  BY <1>3, <1>6, UnfoldUnique
<1> QED BY <1>1, <1>7, SumIsPartial DEF f
=============================================================================
