------------------------------- MODULE SetSums -------------------------------
(***************************************************************************)
(* Sums over finite sets, as the scheduler takes them of what its tasks     *)
(* need and the bridge of its retry budgets.  MapThenSumSet is a recursive  *)
(* function on the subsets of its set; what it adds up to is shown by a     *)
(* smallest set for which it would be wrong.                                *)
(***************************************************************************)
EXTENDS Naturals, FiniteSets, FiniteSetsExt, WellFoundedInduction,
        FiniteSetTheorems, TLAPS

SumOver(f, S) == MapThenSumSet(LAMBDA x : f[x], S)

Picked(s) == CHOOSE x \in s : TRUE

(* The recursive function that MapThenSumSet is the last value of.          *)
Adds(g, f, S) ==
  g = [s \in SUBSET S |-> IF s = {} THEN 0 ELSE f[Picked(s)] + g[s \ {Picked(s)}]]

(* A set of subsets of a finite set has a member that contains no other.    *)
LEMMA SmallestSubset ==
  ASSUME NEW S, IsFiniteSet(S), NEW B, B \subseteq SUBSET S, B # {}
  PROVE  \E T \in B : \A U \in SUBSET T : U # T => U \notin B
<1>1. IsWellFoundedOn(StrictSubsetOrdering(S), FiniteSubsetsOf(S))
  BY FS_StrictSubsetOrderingWellFounded
<1>2. B \subseteq FiniteSubsetsOf(S)
  BY FS_Subset DEF FiniteSubsetsOf
<1>3. PICK T \in B : \A U \in B : ~(<<U, T>> \in StrictSubsetOrdering(S))
  BY <1>1, <1>2, WFMin
<1>4. ASSUME NEW U \in SUBSET T, U # T  PROVE U \notin B
  <2>1. <<U, T>> \in StrictSubsetOrdering(S) BY <1>4 DEF StrictSubsetOrdering
  <2> QED BY <2>1, <1>3
<1> QED BY <1>4

LEMMA PickedIn == \A s : s # {} => Picked(s) \in s
  BY DEF Picked

(* What the recursive function says of each subset.                         *)
LEMMA AddsStep ==
  ASSUME NEW g, NEW f, NEW S, Adds(g, f, S), NEW T \in SUBSET S
  PROVE  g[T] = IF T = {} THEN 0 ELSE f[Picked(T)] + g[T \ {Picked(T)}]
  BY DEF Adds

(* Two of them agree where both are defined.                                *)
LEMMA AddsAgree ==
  ASSUME NEW f, NEW g, NEW S, Adds(g, f, S), NEW h, NEW R, Adds(h, f, R),
         NEW T, T \subseteq S, T \subseteq R, IsFiniteSet(T)
  PROVE  g[T] = h[T]
<1> DEFINE B == {U \in SUBSET T : g[U] # h[U]}
<1> SUFFICES ASSUME B # {} PROVE FALSE
  OBVIOUS
<1>0. B \subseteq SUBSET T OBVIOUS
<1>1. PICK U \in B : \A V \in SUBSET U : V # U => V \notin B
  <2> HIDE DEF B
  <2> QED BY SmallestSubset, <1>0
<1>2. g[U] = IF U = {} THEN 0 ELSE f[Picked(U)] + g[U \ {Picked(U)}]
  BY AddsStep
<1>3. h[U] = IF U = {} THEN 0 ELSE f[Picked(U)] + h[U \ {Picked(U)}]
  BY AddsStep
<1>4. U # {} BY <1>2, <1>3
<1>5. Picked(U) \in U BY <1>4, PickedIn
<1> DEFINE V == U \ {Picked(U)}
<1>6. V \in SUBSET U /\ V # U BY <1>5
<1>7. g[V] = h[V] BY <1>1, <1>6
<1> QED BY <1>2, <1>3, <1>4, <1>7

(* Sums of sets up to a size extend to sums of sets that are one larger.    *)
Sized(S, n) == {T \in SUBSET S : Cardinality(T) <= n}

AddsUpTo(g, f, S, n) ==
  g = [s \in Sized(S, n) |-> IF s = {} THEN 0 ELSE f[Picked(s)] + g[s \ {Picked(s)}]]

LEMMA SmallerSized ==
  ASSUME NEW S, IsFiniteSet(S), NEW n \in Nat, NEW T \in Sized(S, n + 1), T # {}
  PROVE  T \ {Picked(T)} \in Sized(S, n)
<1>1. IsFiniteSet(T) /\ Cardinality(T) \in Nat
  BY FS_Subset, FS_CardinalityType DEF Sized
<1>2. Cardinality(T \ {Picked(T)}) = Cardinality(T) - 1
  BY <1>1, FS_RemoveElement, PickedIn
<1> QED BY <1>1, <1>2 DEF Sized

LEMMA AddsExtend ==
  ASSUME NEW f, NEW S, IsFiniteSet(S), NEW n \in Nat, NEW g, AddsUpTo(g, f, S, n)
  PROVE  \E h : AddsUpTo(h, f, S, n + 1)
<1> DEFINE h == [s \in Sized(S, n + 1) |->
                   IF s = {} THEN 0 ELSE f[Picked(s)] + g[s \ {Picked(s)}]]
<1>1. ASSUME NEW T \in Sized(S, n)  PROVE h[T] = g[T]
  <2>1. T \in Sized(S, n + 1)
    BY FS_Subset, FS_CardinalityType DEF Sized
  <2> QED BY <2>1 DEF AddsUpTo
<1>2. h = [s \in Sized(S, n + 1) |->
             IF s = {} THEN 0 ELSE f[Picked(s)] + h[s \ {Picked(s)}]]
  <2>1. ASSUME NEW T \in Sized(S, n + 1), T # {}
        PROVE  g[T \ {Picked(T)}] = h[T \ {Picked(T)}]
    <3> HIDE DEF h
    <3> QED BY <1>1, <2>1, SmallerSized
  <2>2. \A T \in Sized(S, n + 1) :
           (IF T = {} THEN 0 ELSE f[Picked(T)] + g[T \ {Picked(T)}])
             = (IF T = {} THEN 0 ELSE f[Picked(T)] + h[T \ {Picked(T)}])
    <3> HIDE DEF h
    <3> QED BY <2>1
  <2> QED BY <2>2
<1> HIDE DEF h
<1> QED BY <1>2 DEF AddsUpTo

(* So the recursive function of a finite set exists.                        *)
LEMMA AddsExists ==
  ASSUME NEW f, NEW S, IsFiniteSet(S)
  PROVE  \E g : Adds(g, f, S)
<1> DEFINE B == {n \in Nat : ~ \E g : AddsUpTo(g, f, S, n)}
<1>1. B = {}
  <2> SUFFICES ASSUME B # {} PROVE FALSE
    OBVIOUS
  <2>1. PICK n \in B : \A m \in B : n <= m
    <3>1. IsWellFoundedOn(OpToRel(<, Nat), Nat) BY NatLessThanWellFounded
    <3>2. PICK n \in B : \A m \in B : ~(<<m, n>> \in OpToRel(<, Nat))
      <4>0. B \subseteq Nat OBVIOUS
      <4> HIDE DEF B
      <4> QED BY <3>1, <4>0, WFMin
    <3>3. ASSUME NEW m \in B  PROVE n <= m
      <4>1. ~(<<m, n>> \in OpToRel(<, Nat)) BY <3>2
      <4>2. m \in Nat /\ n \in Nat OBVIOUS
      <4>3. ~(m < n) BY <4>1, <4>2 DEF OpToRel
      <4> QED BY <4>2, <4>3
    <3> HIDE DEF B
    <3> QED BY <3>3
  <2>2. CASE n = 0
    <3> DEFINE g == [s \in Sized(S, 0) |-> 0]
    <3>1. \A s \in Sized(S, 0) : s = {}
      BY FS_Subset, FS_EmptySet, FS_CardinalityType DEF Sized
    <3>2. AddsUpTo(g, f, S, 0) BY <3>1 DEF AddsUpTo
    <3> QED BY <2>2, <3>2
  <2>3. CASE n # 0
    <3>1. n - 1 \in Nat /\ n - 1 \notin B BY <2>1, <2>3
    <3>2. PICK g : AddsUpTo(g, f, S, n - 1) BY <3>1
    <3>3. \E h : AddsUpTo(h, f, S, (n - 1) + 1) BY <3>1, <3>2, AddsExtend
    <3> QED BY <3>3
  <2> QED BY <2>2, <2>3
<1>2. Cardinality(S) \in Nat BY FS_CardinalityType
<1>3. PICK g : AddsUpTo(g, f, S, Cardinality(S)) BY <1>1, <1>2
<1>4. Sized(S, Cardinality(S)) = SUBSET S BY FS_Subset DEF Sized
<1> QED BY <1>3, <1>4 DEF AddsUpTo, Adds

(* The sum is the value of any such function.                               *)
LEMMA SumAdds ==
  ASSUME NEW f, NEW S, NEW g, Adds(g, f, S), NEW T \in SUBSET S, IsFiniteSet(T)
  PROVE  SumOver(f, T) = g[T]
<1> DEFINE P(h) == Adds(h, f, T)
<1>1. \E h : P(h) BY AddsExists
<1>2. P(CHOOSE h : P(h)) BY <1>1
<1>3. SumOver(f, T) = (CHOOSE h : P(h))[T]
  BY DEF SumOver, MapThenSumSet, MapThenFoldSet, Adds, Picked
<1>4. PICK h : P(h) /\ SumOver(f, T) = h[T] BY <1>2, <1>3
<1> QED BY <1>4, AddsAgree

LEMMA SumEmpty == \A f : SumOver(f, {}) = 0
<1> TAKE f
<1>1. PICK g : Adds(g, f, {}) BY AddsExists, FS_EmptySet
<1>2. SumOver(f, {}) = g[{}] BY <1>1, SumAdds, FS_EmptySet
<1>3. g[{}] = 0 BY <1>1, AddsStep
<1> QED BY <1>2, <1>3

LEMMA SumPicked ==
  ASSUME NEW f, NEW S, IsFiniteSet(S), S # {}
  PROVE  SumOver(f, S) = f[Picked(S)] + SumOver(f, S \ {Picked(S)})
<1>1. PICK g : Adds(g, f, S) BY AddsExists
<1>2. IsFiniteSet(S \ {Picked(S)}) BY FS_RemoveElement
<1>3. SumOver(f, S) = g[S] BY <1>1, SumAdds
<1>4. SumOver(f, S \ {Picked(S)}) = g[S \ {Picked(S)}] BY <1>1, <1>2, SumAdds
<1>5. g[S] = f[Picked(S)] + g[S \ {Picked(S)}] BY <1>1, AddsStep
<1> QED BY <1>3, <1>4, <1>5

LEMMA SumNat ==
  ASSUME NEW f, NEW S, IsFiniteSet(S), \A x \in S : f[x] \in Nat
  PROVE  SumOver(f, S) \in Nat
<1> DEFINE B == {T \in SUBSET S : SumOver(f, T) \notin Nat}
<1> SUFFICES ASSUME B # {} PROVE FALSE
  OBVIOUS
<1>0. B \subseteq SUBSET S OBVIOUS
<1>1. PICK T \in B : \A U \in SUBSET T : U # T => U \notin B
  <2> HIDE DEF B
  <2> QED BY SmallestSubset, <1>0
<1>2. T # {} BY SumEmpty
<1>3. IsFiniteSet(T) BY FS_Subset
<1>4. Picked(T) \in T BY <1>2, PickedIn
<1>5. SumOver(f, T \ {Picked(T)}) \in Nat BY <1>1, <1>4
<1> QED BY <1>2, <1>3, <1>4, <1>5, SumPicked

(* Any member may be taken out of the sum, not only the one picked.         *)
LEMMA SumMember ==
  ASSUME NEW f, NEW S, IsFiniteSet(S), \A x \in S : f[x] \in Nat, NEW x \in S
  PROVE  SumOver(f, S) = f[x] + SumOver(f, S \ {x})
<1> DEFINE B == {T \in SUBSET S : \E y \in T : SumOver(f, T) # f[y] + SumOver(f, T \ {y})}
<1>1. B = {}
  <2> SUFFICES ASSUME B # {} PROVE FALSE
    OBVIOUS
  <2>0. B \subseteq SUBSET S OBVIOUS
  <2>1. PICK T \in B : \A U \in SUBSET T : U # T => U \notin B
    <3> HIDE DEF B
    <3> QED BY SmallestSubset, <2>0
  <2>2. PICK y \in T : SumOver(f, T) # f[y] + SumOver(f, T \ {y}) OBVIOUS
  <2>3. PICK c \in T : c = Picked(T) BY PickedIn
  <2>4. IsFiniteSet(T) BY FS_Subset
  <2>5. SumOver(f, T) = f[c] + SumOver(f, T \ {c}) BY <2>3, <2>4, SumPicked
  <2>6. c # y BY <2>2, <2>5
  <2>7. SumOver(f, T \ {c}) = f[y] + SumOver(f, (T \ {c}) \ {y}) BY <2>1, <2>6
  <2>8. SumOver(f, T \ {y}) = f[c] + SumOver(f, (T \ {y}) \ {c}) BY <2>1, <2>6
  <2>9. (T \ {c}) \ {y} = (T \ {y}) \ {c} OBVIOUS
  <2>10. SumOver(f, (T \ {y}) \ {c}) \in Nat
    <3>1. IsFiniteSet((T \ {y}) \ {c}) BY <2>4, FS_Subset
    <3> QED BY <3>1, SumNat
  <2>11. f[c] \in Nat /\ f[y] \in Nat OBVIOUS
  <2> HIDE DEF B
  <2> QED BY <2>2, <2>5, <2>7, <2>8, <2>9, <2>10, <2>11
<1> QED BY <1>1

LEMMA SumWith ==
  ASSUME NEW f, NEW S, IsFiniteSet(S), NEW x, x \notin S,
         \A y \in S \cup {x} : f[y] \in Nat
  PROVE  SumOver(f, S \cup {x}) = SumOver(f, S) + f[x]
<1>1. IsFiniteSet(S \cup {x}) /\ (S \cup {x}) \ {x} = S BY FS_AddElement
<1>2. SumOver(f, S \cup {x}) = f[x] + SumOver(f, S) BY <1>1, SumMember
<1> QED BY <1>1, <1>2, SumNat

(* The sum depends on the values at its members only.                       *)
LEMMA SumSame ==
  ASSUME NEW f, NEW g, NEW S, IsFiniteSet(S), \A x \in S : f[x] = g[x]
  PROVE  SumOver(f, S) = SumOver(g, S)
<1>1. PICK h : Adds(h, f, S) BY AddsExists
<1>2. Adds(h, g, S)
  <2>1. \A s \in SUBSET S : s # {} => f[Picked(s)] = g[Picked(s)] BY PickedIn
  <2>2. h = [s \in SUBSET S |-> IF s = {} THEN 0 ELSE f[Picked(s)] + h[s \ {Picked(s)}]]
    BY <1>1 DEF Adds
  <2>3. \A s \in SUBSET S :
          (IF s = {} THEN 0 ELSE f[Picked(s)] + h[s \ {Picked(s)}])
            = (IF s = {} THEN 0 ELSE g[Picked(s)] + h[s \ {Picked(s)}])
    BY <2>1
  <2>4. h = [s \in SUBSET S |-> IF s = {} THEN 0 ELSE g[Picked(s)] + h[s \ {Picked(s)}]]
    BY <2>2, <2>3
  <2> QED BY <2>4 DEF Adds
<1> QED BY <1>1, <1>2, SumAdds

LEMMA SumMonotone ==
  ASSUME NEW f, NEW g, NEW S, IsFiniteSet(S),
         \A x \in S : f[x] \in Nat /\ g[x] \in Nat /\ f[x] <= g[x]
  PROVE  SumOver(f, S) <= SumOver(g, S)
<1> DEFINE B == {T \in SUBSET S : ~(SumOver(f, T) <= SumOver(g, T))}
<1> SUFFICES ASSUME B # {} PROVE FALSE
  OBVIOUS
<1>0. B \subseteq SUBSET S OBVIOUS
<1>1. PICK T \in B : \A U \in SUBSET T : U # T => U \notin B
  <2> HIDE DEF B
  <2> QED BY SmallestSubset, <1>0
<1>2. T # {} BY SumEmpty
<1>3. IsFiniteSet(T) BY FS_Subset
<1>4. PICK c \in T : c = Picked(T) BY <1>2, PickedIn
<1>5. SumOver(f, T) = f[c] + SumOver(f, T \ {c}) /\ SumOver(g, T) = g[c] + SumOver(g, T \ {c})
  BY <1>2, <1>3, <1>4, SumPicked
<1>6. IsFiniteSet(T \ {c}) BY <1>3, FS_RemoveElement
<1>7. SumOver(f, T \ {c}) \in Nat /\ SumOver(g, T \ {c}) \in Nat BY <1>6, SumNat
<1>8. SumOver(f, T \ {c}) <= SumOver(g, T \ {c}) BY <1>1, <1>4
<1>9. f[c] \in Nat /\ g[c] \in Nat /\ f[c] <= g[c] BY <1>4
<1>10. ~(SumOver(f, T) <= SumOver(g, T)) OBVIOUS
<1> HIDE DEF B
<1> QED BY <1>5, <1>7, <1>8, <1>9, <1>10
=============================================================================
