---------------------------- MODULE SumTheorems ----------------------------
(***************************************************************************)
(* Sums of functions over finite sets.  SumFunctionOnSet is a recursive    *)
(* function on the subsets of its index set.  Induction is by a least      *)
(* counterexample: a nonempty set of numbers, or of subsets of a finite    *)
(* set, has a minimal member.                                              *)
(***************************************************************************)
EXTENDS Naturals, FiniteSets, Functions, FiniteSetTheorems, TLAPS

\* A nonempty set of numbers has a least one.
LEMMA LeastNat ==
  ASSUME NEW W \in SUBSET Nat, W # {}
  PROVE  \E n \in W : \A m \in W : n <= m
<1>1. PICK n \in W : \A m \in W : ~ (<<m, n>> \in OpToRel(<, Nat))
  BY NatLessThanWellFounded, WFMin, Zenon
<1>2. \A m \in W : ~ (m < n)
  BY <1>1 DEF OpToRel
<1> QED BY <1>2

\* A nonempty family of subsets of a finite set has a minimal one.
LEMMA LeastSet ==
  ASSUME NEW S, IsFiniteSet(S), NEW W \in SUBSET (SUBSET S), W # {}
  PROVE  \E T \in W : \A U \in W : U \subseteq T => U = T
<1>1. W \subseteq FiniteSubsetsOf(S)
  BY FS_FiniteSubsetsOfFinite
<1>2. PICK T \in W : \A U \in W : ~ (<<U, T>> \in StrictSubsetOrdering(S))
  BY <1>1, FS_StrictSubsetOrderingWellFounded, WFMin, Zenon
<1>3. ASSUME NEW U \in W, U \subseteq T PROVE U = T
  BY <1>2, <1>3 DEF StrictSubsetOrdering
<1> QED BY <1>3

\* The element that the fold takes out of a set.
Pick(s) == CHOOSE x \in s : TRUE

\* g is the recursive function that sums f over the subsets of S.
IsSum(g, f, S) ==
    g = [s \in SUBSET S |-> IF s = {} THEN 0 ELSE f[Pick(s)] + g[s \ {Pick(s)}]]

\* The library's definition, unfolded.
LEMMA SumUnfold ==
  ASSUME NEW f, NEW S
  PROVE SumFunctionOnSet(f, S) = (CHOOSE g : IsSum(g, f, S))[S]
BY DEF SumFunctionOnSet, FoldFunctionOnSet, MapThenFoldSet, IsSum, Pick

Sets(S, n) == {s \in SUBSET S : Cardinality(s) <= n}

\* Taking an element out makes the set smaller.
LEMMA PickRemoves ==
  ASSUME NEW S, IsFiniteSet(S), NEW s \in SUBSET S, s # {}
  PROVE  /\ Pick(s) \in s
         /\ s \ {Pick(s)} \in SUBSET S
         /\ Cardinality(s) \in Nat
         /\ Cardinality(s \ {Pick(s)}) = Cardinality(s) - 1
<1>1. Pick(s) \in s
  BY DEF Pick
<1>2. IsFiniteSet(s)
  BY FS_Subset
<1> QED BY <1>1, <1>2, FS_RemoveElement, FS_CardinalityType

\* g sums f over the subsets of S with at most n elements.
Approx(g, f, S, n) ==
    g = [s \in Sets(S, n) |-> IF s = {} THEN 0 ELSE f[Pick(s)] + g[s \ {Pick(s)}]]

\* The recursion defines a function: approximations exist for every n.
LEMMA SumExists ==
  ASSUME NEW f, NEW S, IsFiniteSet(S)
  PROVE  \E g : IsSum(g, f, S)
<1> DEFINE W == {n \in Nat : ~ \E g : Approx(g, f, S, n)}
<1>1. W = {}
  <2> SUFFICES ASSUME W # {} PROVE FALSE
    OBVIOUS
  <2>1. PICK n \in W : \A m \in W : n <= m
    BY LeastNat
  <2>2. CASE n = 0
    <3> DEFINE g == [s \in Sets(S, 0) |-> 0]
    <3>1. \A s \in Sets(S, 0) : s = {}
      <4> SUFFICES ASSUME NEW s \in Sets(S, 0), s # {} PROVE FALSE
        OBVIOUS
      <4>1. IsFiniteSet(s) /\ Cardinality(s) \in Nat /\ Cardinality(s) <= 0
        BY FS_Subset, FS_CardinalityType DEF Sets
      <4> QED BY <4>1, FS_EmptySet
    <3>2. Approx(g, f, S, 0)
      BY <3>1 DEF Approx
    <3> QED BY <2>2, <3>2
  <2>3. CASE n # 0
    <3>1. n - 1 \in Nat /\ n - 1 \notin W
      BY <2>1, <2>3
    <3>2. PICK h : Approx(h, f, S, n - 1)
      BY <3>1
    <3> DEFINE g == [s \in Sets(S, n) |-> IF s = {} THEN 0 ELSE f[Pick(s)] + h[s \ {Pick(s)}]]
    <3>3. ASSUME NEW s \in Sets(S, n), s # {} PROVE g[s \ {Pick(s)}] = h[s \ {Pick(s)}]
      <4> DEFINE t == s \ {Pick(s)}
      <4>1. t \in Sets(S, n - 1) /\ t \in Sets(S, n)
        BY <3>1, <3>3, PickRemoves DEF Sets
      <4> HIDE DEF t
      <4>2. h[t] = IF t = {} THEN 0 ELSE f[Pick(t)] + h[t \ {Pick(t)}]
        BY <3>2, <4>1 DEF Approx
      <4>3. g[t] = h[t]
        BY <4>1, <4>2
      <4> QED BY <4>3 DEF t
    <3>4. Approx(g, f, S, n)
      BY <3>3 DEF Approx
    <3> QED BY <3>4
  <2> QED BY <2>2, <2>3
<1>2. Cardinality(S) \in Nat /\ Cardinality(S) \notin W
  BY <1>1, FS_CardinalityType
<1>3. PICK g : Approx(g, f, S, Cardinality(S))
  BY <1>2
<1>4. Sets(S, Cardinality(S)) = SUBSET S
  BY FS_Subset DEF Sets
<1> QED BY <1>3, <1>4 DEF Approx, IsSum

\* The sum is a value of the recursive function.
LEMMA SumRule ==
  ASSUME NEW f, NEW S, IsFiniteSet(S)
  PROVE  \E g : /\ IsSum(g, f, S) /\ SumFunctionOnSet(f, S) = g[S]
<1>1. IsSum(CHOOSE g : IsSum(g, f, S), f, S)
  BY SumExists
<1> QED BY <1>1, SumUnfold

\* The sum over a subset does not depend on the set it is taken in.
LEMMA SumAgrees ==
  ASSUME NEW f, NEW S, NEW T, IsFiniteSet(S), T \subseteq S,
         NEW g, IsSum(g, f, S), NEW h, IsSum(h, f, T)
  PROVE  g[T] = h[T]
<1> DEFINE W == {s \in SUBSET T : g[s] # h[s]}
<1> SUFFICES ASSUME W # {} PROVE FALSE
  OBVIOUS
<1>0. IsFiniteSet(T) /\ W \in SUBSET (SUBSET T)
  BY FS_Subset
<1>1. PICK s \in W : \A u \in W : u \subseteq s => u = s
  <2> HIDE DEF W
  <2> QED BY <1>0, LeastSet
<1>2. s \in SUBSET T /\ s \in SUBSET S /\ g[s] # h[s]
  OBVIOUS
<1>3. /\ g[s] = IF s = {} THEN 0 ELSE f[Pick(s)] + g[s \ {Pick(s)}]
      /\ h[s] = IF s = {} THEN 0 ELSE f[Pick(s)] + h[s \ {Pick(s)}]
  <2> HIDE DEF W
  <2> QED BY <1>2 DEF IsSum
<1>4. s # {}
  BY <1>2, <1>3
<1>5. Pick(s) \in s /\ s \ {Pick(s)} \in SUBSET T
  BY <1>2, <1>4 DEF Pick
<1>6. g[s \ {Pick(s)}] = h[s \ {Pick(s)}]
  BY <1>1, <1>5
<1> QED BY <1>2, <1>3, <1>6

\* Nothing sums to zero.
LEMMA SumEmpty == ASSUME NEW f PROVE SumFunctionOnSet(f, {}) = 0
<1>1. PICK g : IsSum(g, f, {}) /\ SumFunctionOnSet(f, {}) = g[{}]
  BY SumRule, FS_EmptySet
<1> QED BY <1>1 DEF IsSum

\* One step of the recursion.
LEMMA SumStep ==
  ASSUME NEW f, NEW S, IsFiniteSet(S), S # {}
  PROVE  SumFunctionOnSet(f, S) = f[Pick(S)] + SumFunctionOnSet(f, S \ {Pick(S)})
<1> DEFINE T == S \ {Pick(S)}
<1>1. T \subseteq S /\ IsFiniteSet(T)
  BY FS_Subset
<1>2. PICK g : IsSum(g, f, S) /\ SumFunctionOnSet(f, S) = g[S]
  BY SumRule
<1> HIDE DEF T
<1>3. PICK h : IsSum(h, f, T) /\ SumFunctionOnSet(f, T) = h[T]
  BY <1>1, SumRule
<1>4. g[T] = h[T]
  BY <1>1, <1>2, <1>3, SumAgrees
<1>5. g[S] = f[Pick(S)] + g[T]
  BY <1>2 DEF IsSum, T
<1> QED BY <1>2, <1>3, <1>4, <1>5 DEF T

\* Numbers sum to a number.
LEMMA SumNat ==
  ASSUME NEW f, NEW S, IsFiniteSet(S), \A i \in S : f[i] \in Nat
  PROVE  SumFunctionOnSet(f, S) \in Nat
<1> DEFINE W == {s \in SUBSET S : SumFunctionOnSet(f, s) \notin Nat}
<1> SUFFICES ASSUME W # {} PROVE FALSE
  OBVIOUS
<1>1. PICK s \in W : \A u \in W : u \subseteq s => u = s
  <2>1. W \in SUBSET (SUBSET S)
    OBVIOUS
  <2> HIDE DEF W
  <2> QED BY <2>1, LeastSet
<1>2. s \in SUBSET S /\ SumFunctionOnSet(f, s) \notin Nat /\ IsFiniteSet(s)
  BY FS_Subset
<1>3. s # {}
  BY <1>2, SumEmpty
<1> DEFINE t == s \ {Pick(s)}
<1>4. Pick(s) \in s /\ t \in SUBSET S /\ t \subseteq s /\ t # s
  BY <1>2, <1>3 DEF Pick
<1>5. SumFunctionOnSet(f, t) \in Nat
  BY <1>1, <1>4
<1>6. SumFunctionOnSet(f, s) = f[Pick(s)] + SumFunctionOnSet(f, t)
  BY <1>2, <1>3, SumStep
<1>7. f[Pick(s)] \in Nat
  BY <1>2, <1>4
<1> HIDE DEF t, W
<1> QED BY <1>2, <1>5, <1>6, <1>7

\* The sum does not depend on which element is taken out first.
LEMMA SumRemove ==
  ASSUME NEW f, NEW S, IsFiniteSet(S), \A i \in S : f[i] \in Nat, NEW y \in S
  PROVE  SumFunctionOnSet(f, S) = f[y] + SumFunctionOnSet(f, S \ {y})
<1> DEFINE Sum(s) == SumFunctionOnSet(f, s)
           Ok(s) == \A z \in s : Sum(s) = f[z] + Sum(s \ {z})
           W == {s \in SUBSET S : ~Ok(s)}
<1> SUFFICES ASSUME W # {} PROVE FALSE
  OBVIOUS
<1>1. PICK s \in W : \A u \in W : u \subseteq s => u = s
  <2>1. W \in SUBSET (SUBSET S)
    OBVIOUS
  <2> HIDE DEF W
  <2> QED BY <2>1, LeastSet
<1>2. s \in SUBSET S /\ ~Ok(s)
  OBVIOUS
<1>2a. \A t \in SUBSET s : t # s => Ok(t)
  BY <1>1, <1>2
<1>3. PICK z \in s : Sum(s) # f[z] + Sum(s \ {z})
  BY <1>2
<1> HIDE DEF W
<1> DEFINE p == Pick(s)
<1>4. p \in s /\ IsFiniteSet(s)
  BY <1>2, <1>3, FS_Subset DEF Pick
<1>5. Sum(s) = f[p] + Sum(s \ {p})
  BY <1>3, <1>4, SumStep
<1> HIDE DEF p
<1>6. p # z
  BY <1>3, <1>5
<1>7. Sum(s \ {p}) = f[z] + Sum((s \ {p}) \ {z})
  <2>1. Ok(s \ {p}) /\ z \in s \ {p}
    BY <1>2a, <1>4, <1>6
  <2> QED BY <2>1
<1>8. Sum(s \ {z}) = f[p] + Sum((s \ {z}) \ {p})
  <2>1. Ok(s \ {z}) /\ p \in s \ {z}
    BY <1>2a, <1>4, <1>6
  <2> QED BY <2>1
<1>9. (s \ {p}) \ {z} = (s \ {z}) \ {p}
  OBVIOUS
<1>10. Sum((s \ {z}) \ {p}) \in Nat
  <2>1. (s \ {z}) \ {p} \subseteq S
    BY <1>2
  <2>2. IsFiniteSet((s \ {z}) \ {p})
    BY <2>1, FS_Subset
  <2> QED BY <2>1, <2>2, SumNat
<1>11. f[p] \in Nat /\ f[z] \in Nat
  BY <1>2, <1>3, <1>4
<1>12. Sum((s \ {p}) \ {z}) = Sum((s \ {z}) \ {p})
  BY <1>9
<1>13. ASSUME NEW a \in Nat, NEW b \in Nat, NEW k \in Nat PROVE a + (b + k) = b + (a + k)
  OBVIOUS
<1> HIDE DEF Sum
<1> QED BY <1>3, <1>5, <1>7, <1>8, <1>10, <1>11, <1>12, <1>13

\* What two functions agree on sums the same.
LEMMA SumSame ==
  ASSUME NEW f, NEW e, NEW S, IsFiniteSet(S), \A i \in S : f[i] = e[i]
  PROVE  SumFunctionOnSet(f, S) = SumFunctionOnSet(e, S)
<1> DEFINE W == {s \in SUBSET S : SumFunctionOnSet(f, s) # SumFunctionOnSet(e, s)}
<1> SUFFICES ASSUME W # {} PROVE FALSE
  OBVIOUS
<1>1. PICK s \in W : \A u \in W : u \subseteq s => u = s
  <2>1. W \in SUBSET (SUBSET S)
    OBVIOUS
  <2> HIDE DEF W
  <2> QED BY <2>1, LeastSet
<1>2. s \in SUBSET S /\ SumFunctionOnSet(f, s) # SumFunctionOnSet(e, s) /\ IsFiniteSet(s)
  BY FS_Subset
<1>3. s # {}
  BY <1>2, SumEmpty
<1> DEFINE t == s \ {Pick(s)}
<1>4. Pick(s) \in s /\ t \in SUBSET S /\ t \subseteq s /\ t # s
  BY <1>2, <1>3 DEF Pick
<1>5. SumFunctionOnSet(f, t) = SumFunctionOnSet(e, t)
  BY <1>1, <1>4
<1>6. /\ SumFunctionOnSet(f, s) = f[Pick(s)] + SumFunctionOnSet(f, t)
      /\ SumFunctionOnSet(e, s) = e[Pick(s)] + SumFunctionOnSet(e, t)
  BY <1>2, <1>3, SumStep
<1>7. f[Pick(s)] = e[Pick(s)]
  BY <1>2, <1>4
<1> HIDE DEF t, W
<1> QED BY <1>2, <1>5, <1>6, <1>7

\* A part set to zero leaves the sum of the rest.
LEMMA SumSplit ==
  ASSUME NEW f, NEW e, NEW S, IsFiniteSet(S), NEW G \in SUBSET S,
         \A i \in S : f[i] \in Nat,
         \A i \in S : e[i] = IF i \in G THEN 0 ELSE f[i]
  PROVE  SumFunctionOnSet(f, S) = SumFunctionOnSet(f, G) + SumFunctionOnSet(e, S)
<1> DEFINE F(s) == SumFunctionOnSet(f, s)
           E(s) == SumFunctionOnSet(e, s)
           W == {s \in SUBSET S : F(s) # F(s \cap G) + E(s)}
<1>0. S \cap G = G
  OBVIOUS
<1> SUFFICES ASSUME W # {} PROVE FALSE
  BY <1>0
<1>1. PICK s \in W : \A u \in W : u \subseteq s => u = s
  <2>1. W \in SUBSET (SUBSET S)
    OBVIOUS
  <2> HIDE DEF W
  <2> QED BY <2>1, LeastSet
<1>2. s \in SUBSET S /\ F(s) # F(s \cap G) + E(s) /\ IsFiniteSet(s)
  BY FS_Subset
<1>3. s # {}
  <2>1. {} \cap G = {}
    OBVIOUS
  <2> QED BY <1>2, <2>1, SumEmpty
<1> DEFINE p == Pick(s)
           t == s \ {p}
<1>4. p \in s /\ t \in SUBSET S /\ t \subseteq s /\ t # s
  BY <1>2, <1>3 DEF Pick
<1>5. F(t) = F(t \cap G) + E(t)
  BY <1>1, <1>4
<1>6. F(s) = f[p] + F(t) /\ E(s) = e[p] + E(t)
  BY <1>2, <1>3, SumStep
<1>7. f[p] \in Nat /\ e[p] = IF p \in G THEN 0 ELSE f[p]
  BY <1>2, <1>4
<1>8. F(s \cap G) = IF p \in G THEN f[p] + F(t \cap G) ELSE F(t \cap G)
  <2>1. CASE p \in G
    <3>1. IsFiniteSet(s \cap G) /\ p \in s \cap G /\ (\A i \in s \cap G : f[i] \in Nat)
      BY <1>2, <1>4, <2>1, FS_Subset
    <3>2. (s \cap G) \ {p} = t \cap G
      OBVIOUS
    <3>3. F(s \cap G) = f[p] + F((s \cap G) \ {p})
      BY <3>1, SumRemove
    <3> QED BY <2>1, <3>2, <3>3
  <2>2. CASE p \notin G
    <3>1. s \cap G = t \cap G
      BY <2>2
    <3> QED BY <2>2, <3>1
  <2> QED BY <2>1, <2>2
<1>9. F(t \cap G) \in Nat /\ E(t) \in Nat
  <2>1. IsFiniteSet(t) /\ IsFiniteSet(t \cap G) /\ t \cap G \subseteq S
    BY <1>4, FS_Subset
  <2>2. (\A i \in t : e[i] \in Nat) /\ (\A i \in t \cap G : f[i] \in Nat)
    BY <1>4
  <2> QED BY <2>1, <2>2, SumNat
<1> HIDE DEF F, E, t, p, W
<1>10. CASE p \in G
  BY <1>2, <1>5, <1>6, <1>7, <1>8, <1>9, <1>10
<1>11. CASE p \notin G
  BY <1>2, <1>5, <1>6, <1>7, <1>8, <1>9, <1>11
<1> QED BY <1>10, <1>11

\* Zeros sum to zero.
LEMMA SumZero ==
  ASSUME NEW f, NEW S, IsFiniteSet(S), \A i \in S : f[i] = 0
  PROVE  SumFunctionOnSet(f, S) = 0
<1>1. SumFunctionOnSet(f, S) = SumFunctionOnSet(f, S) + SumFunctionOnSet(f, S)
  BY SumSplit
<1>2. SumFunctionOnSet(f, S) \in Nat
  BY SumNat
<1>3. ASSUME NEW n \in Nat, n = n + n PROVE n = 0
  BY <1>3
<1> QED BY <1>1, <1>2, <1>3
=============================================================================
