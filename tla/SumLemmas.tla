------------------------------- MODULE SumLemmas -------------------------------
(***************************************************************************)
(* Sums of integers over a finite set, as the models write them             *)
(* (SumFunctionOnSet).  The fold takes an element, adds its number and goes *)
(* on with the others: these lemmas show that it does not matter which it   *)
(* takes, and what the sum does when a set or a number changes.             *)
(***************************************************************************)
EXTENDS Integers, FiniteSetsExt, FiniteSetTheorems, TLAPS

(* Induction over a finite set, with the sets that have the property in B.  *)
LEMMA OneByOne ==
    ASSUME NEW S, IsFiniteSet(S), NEW B,
           \A T \in SUBSET S : (\A x \in T : T \ {x} \in B) => T \in B
    PROVE  S \in B
<1> SUFFICES ASSUME S \notin B PROVE FALSE
  OBVIOUS
<1> DEFINE Bad == {T \in SUBSET S : T \notin B}
<1>1. IsWellFoundedOn(StrictSubsetOrdering(S), SUBSET S)
  <2>1. FiniteSubsetsOf(S) = SUBSET S
    BY FS_FiniteSubsetsOfFinite
  <2>2. IsWellFoundedOn(StrictSubsetOrdering(S), FiniteSubsetsOf(S))
    BY FS_StrictSubsetOrderingWellFounded
  <2> QED
    BY <2>1, <2>2
<1>2. Bad \subseteq SUBSET S /\ Bad # {}
  OBVIOUS
<1> HIDE DEF Bad
<1>3. PICK T \in Bad : \A U \in Bad : ~(<<U, T>> \in StrictSubsetOrdering(S))
  BY <1>1, <1>2, WFMin
<1>4. T \in SUBSET S /\ T \notin B
  BY <1>3 DEF Bad
<1>5. ASSUME NEW x \in T PROVE T \ {x} \in B
  <2>1. <<T \ {x}, T>> \in StrictSubsetOrdering(S)
    BY <1>4 DEF StrictSubsetOrdering
  <2>2. T \ {x} \notin Bad
    BY <1>3, <2>1
  <2> QED
    BY <1>4, <2>2 DEF Bad
<1> QED
  BY <1>4, <1>5

-----------------------------------------------------------------------------
(* What the fold computes: there is one such function, and it is total.     *)
Picked(s) == CHOOSE x \in s : TRUE
Adds(g, f, S) ==
    g = [s \in SUBSET S |-> IF s = {} THEN 0 ELSE f[Picked(s)] + g[s \ {Picked(s)}]]

LEMMA SumIsFold ==
    ASSUME NEW f, NEW S
    PROVE  SumFunctionOnSet(f, S) = (CHOOSE g : Adds(g, f, S))[S]
  BY DEF SumFunctionOnSet, FoldFunctionOnSet, MapThenFoldSet, Adds, Picked

LEMMA PickedIsMember ==
    ASSUME NEW s, s # {}
    PROVE  Picked(s) \in s
  BY DEF Picked

LEMMA AddsStep ==
    ASSUME NEW f, NEW S, NEW g, Adds(g, f, S), NEW s \in SUBSET S
    PROVE  g[s] = IF s = {} THEN 0 ELSE f[Picked(s)] + g[s \ {Picked(s)}]
  BY DEF Adds

(* Two such functions agree where both are defined.                         *)
LEMMA AddsAgree ==
    ASSUME NEW f, NEW S, NEW T, NEW g, NEW h, Adds(g, f, S), Adds(h, f, T),
           NEW U, IsFiniteSet(U), U \subseteq S, U \subseteq T
    PROVE  g[U] = h[U]
<1> DEFINE B == {V \in SUBSET U : g[V] = h[V]}
<1>1. ASSUME NEW V \in SUBSET U, \A x \in V : V \ {x} \in B
      PROVE  V \in B
  <2>1. CASE V = {}
    BY <2>1, AddsStep
  <2>2. CASE V # {}
    <3> DEFINE x == Picked(V)
    <3>1. x \in V
      BY <2>2, PickedIsMember
    <3>2. g[V \ {x}] = h[V \ {x}]
      BY <1>1, <3>1
    <3>3. V \in SUBSET S /\ V \in SUBSET T
      OBVIOUS
    <3>4. g[V] = f[x] + g[V \ {x}]
      BY <2>2, <3>3, AddsStep
    <3>5. h[V] = f[x] + h[V \ {x}]
      BY <2>2, <3>3, AddsStep
    <3> QED
      BY <3>2, <3>4, <3>5
  <2> QED
    BY <2>1, <2>2
<1> HIDE DEF B
<1>2. U \in B
  BY <1>1, OneByOne
<1> QED
  BY <1>2 DEF B

LEMMA AddsExists ==
    ASSUME NEW f, NEW S, IsFiniteSet(S)
    PROVE  \E g : Adds(g, f, S)
<1> DEFINE B == {T \in SUBSET S : \E g : Adds(g, f, T)}
<1>1. ASSUME NEW T \in SUBSET S, \A x \in T : T \ {x} \in B
      PROVE  T \in B
  <2>1. IsFiniteSet(T)
    BY FS_Subset
  <2>2. CASE T = {}
    <3> DEFINE g == [s \in SUBSET T |-> 0]
    <3>1. Adds(g, f, T)
      BY <2>2 DEF Adds
    <3> QED
      BY <3>1
  <2>3. CASE T # {}
    <3> DEFINE part(x) == CHOOSE g : Adds(g, f, T \ {x})
    <3>1. \A x \in T : Adds(part(x), f, T \ {x})
      BY <1>1
    <3> HIDE DEF part
    <3> DEFINE left(s) == CHOOSE x \in T : x \notin s
               old == [s \in (SUBSET T) \ {T} |-> part(left(s))[s]]
               g == [s \in SUBSET T |->
                        IF s # T THEN old[s] ELSE f[Picked(T)] + old[T \ {Picked(T)}]]
    <3>2. \A s \in (SUBSET T) \ {T} : left(s) \in T /\ left(s) \notin s
      OBVIOUS
    <3>3. Picked(T) \in T
      BY <2>3, PickedIsMember
    <3> HIDE DEF left
    <3>4. ASSUME NEW s \in (SUBSET T) \ {T}, NEW x \in T, x \notin s
          PROVE  old[s] = part(x)[s]
      <4>1. IsFiniteSet(s)
        BY <2>1, FS_Subset
      <4>2. s \subseteq T \ {left(s)} /\ s \subseteq T \ {x}
        BY <3>2, <3>4
      <4>3. old[s] = part(left(s))[s]
        OBVIOUS
      <4>4. Adds(part(left(s)), f, T \ {left(s)}) /\ Adds(part(x), f, T \ {x})
        BY <3>1, <3>2
      <4> QED
        BY <4>1, <4>2, <4>3, <4>4, AddsAgree
    <3>5. ASSUME NEW s \in (SUBSET T) \ {T}
          PROVE  old[s] = IF s = {} THEN 0 ELSE f[Picked(s)] + old[s \ {Picked(s)}]
      <4>1. PICK x \in T : x \notin s
        OBVIOUS
      <4>2. s \in SUBSET (T \ {x}) /\ Adds(part(x), f, T \ {x})
        BY <3>1, <4>1
      <4>3. part(x)[s] = IF s = {} THEN 0 ELSE f[Picked(s)] + part(x)[s \ {Picked(s)}]
        BY <4>2, AddsStep
      <4>4. s \ {Picked(s)} \in (SUBSET T) \ {T} /\ x \notin s \ {Picked(s)}
        BY <4>1
      <4>5. old[s] = part(x)[s] /\ old[s \ {Picked(s)}] = part(x)[s \ {Picked(s)}]
        BY <3>4, <4>1, <4>4
      <4> QED
        BY <4>3, <4>5
    <3> HIDE DEF old
    <3>6. \A s \in SUBSET T :
            g[s] = IF s = {} THEN 0 ELSE f[Picked(s)] + g[s \ {Picked(s)}]
      <4> SUFFICES ASSUME NEW s \in SUBSET T
                   PROVE  g[s] = IF s = {} THEN 0 ELSE f[Picked(s)] + g[s \ {Picked(s)}]
        OBVIOUS
      <4>1. CASE s = T
        <5>1. T \ {Picked(T)} # T /\ T \ {Picked(T)} \in SUBSET T
          BY <3>3
        <5> QED
          BY <2>3, <4>1, <5>1
      <4>2. CASE s # T
        <5>1. s \ {Picked(s)} # T /\ s \ {Picked(s)} \in SUBSET T
          BY <4>2
        <5> QED
          BY <3>5, <4>2, <5>1
      <4> QED
        BY <4>1, <4>2
    <3>7. g = [s \in SUBSET T |-> g[s]]
      OBVIOUS
    <3> HIDE DEF g
    <3>8. Adds(g, f, T)
      BY <3>6, <3>7 DEF Adds
    <3> QED
      BY <3>8
  <2> QED
    BY <2>2, <2>3
<1> HIDE DEF B
<1>2. S \in B
  BY <1>1, OneByOne
<1> QED
  BY <1>2 DEF B

LEMMA SumAdds ==
    ASSUME NEW f, NEW S, IsFiniteSet(S), NEW g, Adds(g, f, S), NEW T \in SUBSET S
    PROVE  SumFunctionOnSet(f, T) = g[T]
<1>1. IsFiniteSet(T)
  BY FS_Subset
<1> DEFINE h == CHOOSE h : Adds(h, f, T)
<1>2. Adds(h, f, T)
  BY <1>1, AddsExists
<1>3. SumFunctionOnSet(f, T) = h[T]
  BY SumIsFold
<1> HIDE DEF h
<1> QED
  BY <1>1, <1>2, <1>3, AddsAgree

-----------------------------------------------------------------------------
(* The sum, element by element.                                             *)
LEMMA SumOfNone ==
    ASSUME NEW f
    PROVE  SumFunctionOnSet(f, {}) = 0
<1>1. IsFiniteSet({})
  BY FS_EmptySet
<1>2. PICK g : Adds(g, f, {})
  BY <1>1, AddsExists
<1> QED
  BY <1>1, <1>2, SumAdds, AddsStep

LEMMA SumStep ==
    ASSUME NEW f, NEW S, IsFiniteSet(S), S # {}
    PROVE  SumFunctionOnSet(f, S) =
               f[Picked(S)] + SumFunctionOnSet(f, S \ {Picked(S)})
<1>1. PICK g : Adds(g, f, S)
  BY AddsExists
<1>2. SumFunctionOnSet(f, S) = g[S] /\ SumFunctionOnSet(f, S \ {Picked(S)}) = g[S \ {Picked(S)}]
  BY <1>1, SumAdds
<1> QED
  BY <1>1, <1>2, AddsStep

(* A sum of integers is an integer: of stock rows, held pieces, metal.        *)
THEOREM SumIsInt ==
    ASSUME NEW S, IsFiniteSet(S), NEW f, \A x \in S : f[x] \in Int
    PROVE  SumFunctionOnSet(f, S) \in Int
<1> DEFINE B == {T \in SUBSET S : SumFunctionOnSet(f, T) \in Int}
<1>1. ASSUME NEW T \in SUBSET S, \A x \in T : T \ {x} \in B
      PROVE  T \in B
  <2>1. IsFiniteSet(T)
    BY FS_Subset
  <2>2. CASE T = {}
    BY <2>2, SumOfNone
  <2>3. CASE T # {}
    <3> DEFINE p == Picked(T)
    <3>1. p \in T
      BY <2>3, PickedIsMember
    <3>2. SumFunctionOnSet(f, T) = f[p] + SumFunctionOnSet(f, T \ {p})
      BY <2>1, <2>3, SumStep
    <3>3. SumFunctionOnSet(f, T \ {p}) \in Int
      BY <1>1, <3>1
    <3>4. f[p] \in Int
      BY <3>1
    <3> HIDE DEF p
    <3> QED
      BY <3>2, <3>3, <3>4
  <2> QED
    BY <2>2, <2>3
<1> HIDE DEF B
<1>2. S \in B
  BY <1>1, OneByOne
<1> QED
  BY <1>2 DEF B

(* It does not matter which element is taken out first.                     *)
THEOREM SumTakeOut ==
    ASSUME NEW S, IsFiniteSet(S), NEW f, \A x \in S : f[x] \in Int, NEW x \in S
    PROVE  SumFunctionOnSet(f, S) = f[x] + SumFunctionOnSet(f, S \ {x})
<1> DEFINE B == {T \in SUBSET S : \A y \in T :
               SumFunctionOnSet(f, T) = f[y] + SumFunctionOnSet(f, T \ {y})}
<1>1. ASSUME NEW T \in SUBSET S, \A y \in T : T \ {y} \in B
      PROVE  T \in B
  <2> SUFFICES ASSUME NEW y \in T
               PROVE  SumFunctionOnSet(f, T) = f[y] + SumFunctionOnSet(f, T \ {y})
    OBVIOUS
  <2> DEFINE p == Picked(T)
  <2>1. /\ IsFiniteSet(T) /\ p \in T
        /\ SumFunctionOnSet(f, T) = f[p] + SumFunctionOnSet(f, T \ {p})
    BY FS_Subset, SumStep, PickedIsMember
  <2> HIDE DEF p
  <2>2. CASE y = p
    BY <2>1, <2>2
  <2>3. CASE y # p
    <3>1. /\ SumFunctionOnSet(f, T \ {p}) = f[y] + SumFunctionOnSet(f, (T \ {p}) \ {y})
          /\ SumFunctionOnSet(f, T \ {y}) = f[p] + SumFunctionOnSet(f, (T \ {y}) \ {p})
      BY <1>1, <2>1, <2>3
    <3>2. (T \ {p}) \ {y} = (T \ {y}) \ {p}
      OBVIOUS
    <3>3. IsFiniteSet((T \ {y}) \ {p})
      BY FS_Subset
    <3>4. SumFunctionOnSet(f, (T \ {y}) \ {p}) \in Int /\ f[p] \in Int /\ f[y] \in Int
      BY <2>1, <3>3, SumIsInt
    <3> DEFINE a == SumFunctionOnSet(f, (T \ {y}) \ {p})
    <3>5. /\ SumFunctionOnSet(f, T) = f[p] + (f[y] + a)
          /\ SumFunctionOnSet(f, T \ {y}) = f[p] + a
      BY <2>1, <3>1, <3>2
    <3> HIDE DEF a
    <3>6. a \in Int
      BY <3>4 DEF a
    <3> QED
      BY <3>4, <3>5, <3>6
  <2> QED
    BY <2>2, <2>3
<1> HIDE DEF B
<1>2. S \in B
  BY <1>1, OneByOne
<1> QED
  BY <1>2 DEF B

(* A further element adds its own number: a new row of the ledger.           *)
THEOREM SumPutIn ==
    ASSUME NEW S, IsFiniteSet(S), NEW x, x \notin S,
           NEW f, \A y \in S \cup {x} : f[y] \in Int
    PROVE  SumFunctionOnSet(f, S \cup {x}) = f[x] + SumFunctionOnSet(f, S)
<1>1. IsFiniteSet(S \cup {x}) /\ (S \cup {x}) \ {x} = S
  BY FS_AddElement
<1> QED
  BY <1>1, SumTakeOut

(* Equal numbers, equal sums; smaller numbers, a smaller sum.               *)
THEOREM SumSame ==
    ASSUME NEW S, IsFiniteSet(S), NEW f, NEW g, \A x \in S : g[x] = f[x]
    PROVE  SumFunctionOnSet(g, S) = SumFunctionOnSet(f, S)
<1> DEFINE B == {T \in SUBSET S : SumFunctionOnSet(g, T) = SumFunctionOnSet(f, T)}
<1>1. ASSUME NEW T \in SUBSET S, \A x \in T : T \ {x} \in B
      PROVE  T \in B
  <2>1. IsFiniteSet(T)
    BY FS_Subset
  <2>2. CASE T = {}
    BY <2>2, SumOfNone
  <2>3. CASE T # {}
    <3> DEFINE p == Picked(T)
    <3>1. p \in T
      BY <2>3, PickedIsMember
    <3>2. /\ SumFunctionOnSet(f, T) = f[p] + SumFunctionOnSet(f, T \ {p})
          /\ SumFunctionOnSet(g, T) = g[p] + SumFunctionOnSet(g, T \ {p})
      BY <2>1, <2>3, SumStep
    <3>3. SumFunctionOnSet(g, T \ {p}) = SumFunctionOnSet(f, T \ {p}) /\ g[p] = f[p]
      BY <1>1, <3>1
    <3> HIDE DEF p
    <3> QED
      BY <3>2, <3>3
  <2> QED
    BY <2>2, <2>3
<1> HIDE DEF B
<1>2. S \in B
  BY <1>1, OneByOne
<1> QED
  BY <1>2 DEF B

(* Smaller numbers, a smaller sum.                                           *)
THEOREM SumNotMore ==
    ASSUME NEW S, IsFiniteSet(S), NEW f, NEW g,
           \A x \in S : f[x] \in Int /\ g[x] \in Int /\ g[x] <= f[x]
    PROVE  SumFunctionOnSet(g, S) <= SumFunctionOnSet(f, S)
<1> DEFINE B == {T \in SUBSET S : SumFunctionOnSet(g, T) <= SumFunctionOnSet(f, T)}
<1>1. ASSUME NEW T \in SUBSET S, \A x \in T : T \ {x} \in B
      PROVE  T \in B
  <2>1. IsFiniteSet(T)
    BY FS_Subset
  <2>2. CASE T = {}
    BY <2>2, SumOfNone
  <2>3. CASE T # {}
    <3> DEFINE p == Picked(T)
    <3>1. p \in T
      BY <2>3, PickedIsMember
    <3>2. /\ SumFunctionOnSet(f, T) = f[p] + SumFunctionOnSet(f, T \ {p})
          /\ SumFunctionOnSet(g, T) = g[p] + SumFunctionOnSet(g, T \ {p})
      BY <2>1, <2>3, SumStep
    <3>3. IsFiniteSet(T \ {p})
      BY <2>1, FS_RemoveElement
    <3>4. SumFunctionOnSet(f, T \ {p}) \in Int /\ SumFunctionOnSet(g, T \ {p}) \in Int
      BY <3>3, SumIsInt
    <3>5. SumFunctionOnSet(g, T \ {p}) <= SumFunctionOnSet(f, T \ {p})
      BY <1>1, <3>1
    <3>6. f[p] \in Int /\ g[p] \in Int /\ g[p] <= f[p]
      BY <3>1
    <3> HIDE DEF p
    <3> QED
      BY <3>2, <3>4, <3>5, <3>6
  <2> QED
    BY <2>2, <2>3
<1> HIDE DEF B
<1>2. S \in B
  BY <1>1, OneByOne
<1> QED
  BY <1>2 DEF B

(* A sum of zeros is zero: nothing shipped, nothing held.                    *)
THEOREM SumOfZeros ==
    ASSUME NEW S, IsFiniteSet(S), NEW f, \A x \in S : f[x] = 0
    PROVE  SumFunctionOnSet(f, S) = 0
<1> DEFINE B == {T \in SUBSET S : SumFunctionOnSet(f, T) = 0}
<1>1. ASSUME NEW T \in SUBSET S, \A x \in T : T \ {x} \in B
      PROVE  T \in B
  <2>1. IsFiniteSet(T)
    BY FS_Subset
  <2>2. CASE T = {}
    BY <2>2, SumOfNone
  <2>3. CASE T # {}
    <3> DEFINE p == Picked(T)
    <3>1. p \in T
      BY <2>3, PickedIsMember
    <3>2. SumFunctionOnSet(f, T) = f[p] + SumFunctionOnSet(f, T \ {p})
      BY <2>1, <2>3, SumStep
    <3>3. SumFunctionOnSet(f, T \ {p}) = 0
      BY <1>1, <3>1
    <3>4. f[p] = 0
      BY <3>1
    <3> HIDE DEF p
    <3> QED
      BY <3>2, <3>3, <3>4
  <2> QED
    BY <2>2, <2>3
<1> HIDE DEF B
<1>2. S \in B
  BY <1>1, OneByOne
<1> QED
  BY <1>2 DEF B

(* A sum of natural numbers is one.                                          *)
THEOREM SumIsNat ==
    ASSUME NEW S, IsFiniteSet(S), NEW f, \A x \in S : f[x] \in Nat
    PROVE  SumFunctionOnSet(f, S) \in Nat
<1> DEFINE z == [x \in S |-> 0]
<1>1. SumFunctionOnSet(z, S) = 0
  BY SumOfZeros
<1>2. \A x \in S : z[x] \in Int /\ f[x] \in Int /\ z[x] <= f[x]
  OBVIOUS
<1> HIDE DEF z
<1>3. SumFunctionOnSet(z, S) <= SumFunctionOnSet(f, S)
  BY <1>2, SumNotMore
<1>4. SumFunctionOnSet(f, S) \in Int
  BY <1>2, SumIsInt
<1> QED
  BY <1>1, <1>3, <1>4

-----------------------------------------------------------------------------
(* One number of the sum changes.                                           *)
THEOREM SumOneChanges ==
    ASSUME NEW S, IsFiniteSet(S), NEW f, NEW g, NEW x \in S,
           \A y \in S : f[y] \in Int /\ g[y] \in Int,
           \A y \in S : y # x => g[y] = f[y]
    PROVE  SumFunctionOnSet(g, S) = SumFunctionOnSet(f, S) - f[x] + g[x]
<1>1. IsFiniteSet(S \ {x})
  BY FS_RemoveElement
<1>2. SumFunctionOnSet(g, S \ {x}) = SumFunctionOnSet(f, S \ {x})
  BY <1>1, SumSame
<1>3. SumFunctionOnSet(f, S \ {x}) \in Int
  BY <1>1, SumIsInt
<1>4. /\ SumFunctionOnSet(f, S) = f[x] + SumFunctionOnSet(f, S \ {x})
      /\ SumFunctionOnSet(g, S) = g[x] + SumFunctionOnSet(g, S \ {x})
  BY SumTakeOut
<1> QED
  BY <1>2, <1>3, <1>4

(* A sum over two sets.                                                     *)
THEOREM SumOfParts ==
    ASSUME NEW S, IsFiniteSet(S), NEW T \in SUBSET S, NEW f, \A x \in S : f[x] \in Int
    PROVE  SumFunctionOnSet(f, S) = SumFunctionOnSet(f, T) + SumFunctionOnSet(f, S \ T)
<1> DEFINE B == {U \in SUBSET T :
               SumFunctionOnSet(f, U \cup (S \ T))
                   = SumFunctionOnSet(f, U) + SumFunctionOnSet(f, S \ T)}
<1>1. IsFiniteSet(T) /\ IsFiniteSet(S \ T)
  BY FS_Subset
<1>2. SumFunctionOnSet(f, S \ T) \in Int
  BY <1>1, SumIsInt
<1>3. ASSUME NEW U \in SUBSET T, \A x \in U : U \ {x} \in B
      PROVE  U \in B
  <2>1. CASE U = {}
    <3>1. U \cup (S \ T) = S \ T
      BY <2>1
    <3> QED
      BY <1>2, <2>1, <3>1, SumOfNone
  <2>2. CASE U # {}
    <3>1. PICK x \in U : TRUE
      BY <2>2
    <3> DEFINE V == U \cup (S \ T)
    <3>2. V \ {x} = (U \ {x}) \cup (S \ T) /\ x \in V /\ V \subseteq S
      OBVIOUS
    <3>3. IsFiniteSet(V) /\ IsFiniteSet(U) /\ IsFiniteSet(U \ {x})
      BY <3>2, FS_Subset
    <3>4. SumFunctionOnSet(f, V) = f[x] + SumFunctionOnSet(f, V \ {x})
      BY <3>2, <3>3, SumTakeOut
    <3>5. SumFunctionOnSet(f, U) = f[x] + SumFunctionOnSet(f, U \ {x})
      BY <3>3, SumTakeOut
    <3>6. SumFunctionOnSet(f, U \ {x}) \in Int /\ f[x] \in Int
      BY <3>3, SumIsInt
    <3>7. SumFunctionOnSet(f, V \ {x})
              = SumFunctionOnSet(f, U \ {x}) + SumFunctionOnSet(f, S \ T)
      BY <1>3, <3>2
    <3>8. SumFunctionOnSet(f, V) = SumFunctionOnSet(f, U) + SumFunctionOnSet(f, S \ T)
      BY <1>2, <3>4, <3>5, <3>6, <3>7
    <3> QED
      BY <3>8
  <2> QED
    BY <2>1, <2>2
<1> HIDE DEF B
<1>4. T \in B
  BY <1>1, <1>3, OneByOne
<1>5. T \cup (S \ T) = S
  OBVIOUS
<1> QED
  BY <1>4, <1>5 DEF B

(* Of natural numbers, a part sums up to no more than the whole.             *)
THEOREM SumOfPart ==
    ASSUME NEW S, IsFiniteSet(S), NEW T \in SUBSET S, NEW f, \A x \in S : f[x] \in Nat
    PROVE  SumFunctionOnSet(f, T) <= SumFunctionOnSet(f, S)
<1>1. IsFiniteSet(T) /\ IsFiniteSet(S \ T)
  BY FS_Subset
<1>2. SumFunctionOnSet(f, T) \in Nat /\ SumFunctionOnSet(f, S \ T) \in Nat
  BY <1>1, SumIsNat
<1>3. SumFunctionOnSet(f, S) = SumFunctionOnSet(f, T) + SumFunctionOnSet(f, S \ T)
  BY SumOfParts
<1> QED
  BY <1>2, <1>3

(* What is zero may be left out.                                             *)
THEOREM SumWithoutZeros ==
    ASSUME NEW S, IsFiniteSet(S), NEW T \in SUBSET S, NEW f,
           \A x \in S : f[x] \in Int, \A x \in S \ T : f[x] = 0
    PROVE  SumFunctionOnSet(f, S) = SumFunctionOnSet(f, T)
<1>1. IsFiniteSet(T) /\ IsFiniteSet(S \ T)
  BY FS_Subset
<1>2. SumFunctionOnSet(f, T) \in Int /\ SumFunctionOnSet(f, S \ T) = 0
  BY <1>1, SumIsInt, SumOfZeros
<1> QED
  BY <1>2, SumOfParts

(* The sum of two functions.                                                *)
THEOREM SumOfBoth ==
    ASSUME NEW S, IsFiniteSet(S), NEW f, NEW g, NEW h,
           \A x \in S : f[x] \in Int /\ g[x] \in Int /\ h[x] = f[x] + g[x]
    PROVE  SumFunctionOnSet(h, S) = SumFunctionOnSet(f, S) + SumFunctionOnSet(g, S)
<1> DEFINE B == {T \in SUBSET S :
               SumFunctionOnSet(h, T) = SumFunctionOnSet(f, T) + SumFunctionOnSet(g, T)}
<1>1. ASSUME NEW T \in SUBSET S, \A x \in T : T \ {x} \in B
      PROVE  T \in B
  <2>1. IsFiniteSet(T)
    BY FS_Subset
  <2>2. CASE T = {}
    BY <2>2, SumOfNone
  <2>3. CASE T # {}
    <3> DEFINE p == Picked(T)
    <3>1. p \in T
      BY <2>3, PickedIsMember
    <3>2. /\ SumFunctionOnSet(f, T) = f[p] + SumFunctionOnSet(f, T \ {p})
          /\ SumFunctionOnSet(g, T) = g[p] + SumFunctionOnSet(g, T \ {p})
          /\ SumFunctionOnSet(h, T) = h[p] + SumFunctionOnSet(h, T \ {p})
      BY <2>1, <2>3, SumStep
    <3>3. IsFiniteSet(T \ {p})
      BY <2>1, FS_RemoveElement
    <3>4. SumFunctionOnSet(f, T \ {p}) \in Int /\ SumFunctionOnSet(g, T \ {p}) \in Int
      BY <3>3, SumIsInt
    <3>5. SumFunctionOnSet(h, T \ {p})
              = SumFunctionOnSet(f, T \ {p}) + SumFunctionOnSet(g, T \ {p})
      BY <1>1, <3>1
    <3>6. f[p] \in Int /\ g[p] \in Int /\ h[p] = f[p] + g[p]
      BY <3>1
    <3> HIDE DEF p
    <3> QED
      BY <3>2, <3>4, <3>5, <3>6
  <2> QED
    BY <2>2, <2>3
<1> HIDE DEF B
<1>2. S \in B
  BY <1>1, OneByOne
<1> QED
  BY <1>2 DEF B

(* A share each, and one more for some.                                     *)
THEOREM SumOfShares ==
    ASSUME NEW S, IsFiniteSet(S), NEW more \in SUBSET S, NEW k \in Int,
           NEW f, \A x \in S : f[x] = k + (IF x \in more THEN 1 ELSE 0)
    PROVE  SumFunctionOnSet(f, S) = k * Cardinality(S) + Cardinality(more)
<1> DEFINE B == {T \in SUBSET S :
                   SumFunctionOnSet(f, T) = k * Cardinality(T) + Cardinality(T \cap more)}
<1>1. ASSUME NEW T \in SUBSET S, \A x \in T : T \ {x} \in B
      PROVE  T \in B
  <2>1. IsFiniteSet(T) /\ Cardinality(T) \in Nat
    BY FS_Subset, FS_CardinalityType
  <2>2. CASE T = {}
    <3>1. SumFunctionOnSet(f, T) = 0 /\ T \cap more = {}
      BY <2>2, SumOfNone
    <3>2. Cardinality(T) = 0 /\ Cardinality(T \cap more) = 0
      BY <2>2, <3>1, FS_EmptySet
    <3> QED
      BY <3>1, <3>2
  <2>3. CASE T # {}
    <3>1. PICK x \in T : TRUE
      BY <2>3
    <3> DEFINE U == T \ {x}
    <3>2. SumFunctionOnSet(f, U) = k * Cardinality(U) + Cardinality(U \cap more)
      BY <1>1
    <3>3. \A y \in T : f[y] \in Int
      OBVIOUS
    <3>4. SumFunctionOnSet(f, T) = f[x] + SumFunctionOnSet(f, U)
      BY <2>1, <3>3, SumTakeOut
    <3>5. Cardinality(U) = Cardinality(T) - 1 /\ IsFiniteSet(T \cap more)
      BY <2>1, FS_RemoveElement, FS_Subset
    <3>6. Cardinality(T \cap more) \in Nat
      BY <3>5, FS_CardinalityType
    <3>7. Cardinality(U \cap more) = Cardinality(T \cap more) - (IF x \in more THEN 1 ELSE 0)
      <4>1. CASE x \in more
        <5>1. U \cap more = (T \cap more) \ {x} /\ x \in T \cap more
          BY <4>1
        <5>2. Cardinality((T \cap more) \ {x}) = Cardinality(T \cap more) - 1
          <6> DEFINE V == T \cap more
          <6>1. x \in V /\ IsFiniteSet(V)
            BY <3>5, <5>1
          <6> HIDE DEF V
          <6>2. Cardinality(V \ {x}) = Cardinality(V) - 1
            BY <6>1, FS_RemoveElement
          <6> QED
            BY <6>2 DEF V
        <5> QED
          BY <4>1, <5>1, <5>2
      <4>2. CASE x \notin more
        <5>1. U \cap more = T \cap more
          BY <4>2
        <5> QED
          BY <3>6, <4>2, <5>1
      <4> QED
        BY <4>1, <4>2
    <3>8. f[x] = k + (IF x \in more THEN 1 ELSE 0)
      OBVIOUS
    <3> DEFINE n == Cardinality(T)
               m == Cardinality(T \cap more)
               d == IF x \in more THEN 1 ELSE 0
    <3>9. SumFunctionOnSet(f, T) = (k + d) + (k * (n - 1) + (m - d))
      BY <3>2, <3>4, <3>5, <3>7, <3>8
    <3>10. n \in Int /\ m \in Int /\ d \in Int
      BY <2>1, <3>6
    <3> HIDE DEF n, m, d, U
    <3>11. k * (n - 1) = k * n - k
      BY <3>10
    <3>12. k * n \in Int
      BY <3>10
    <3>13. SumFunctionOnSet(f, T) = k * n + m
      BY <3>9, <3>10, <3>11, <3>12
    <3> QED
      BY <3>13 DEF n, m
  <2> QED
    BY <2>2, <2>3
<1> HIDE DEF B
<1>2. S \in B
  BY <1>1, OneByOne
<1>3. S \cap more = more
  OBVIOUS
<1> QED
  BY <1>2, <1>3 DEF B
================================================================================
