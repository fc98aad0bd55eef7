---------------------------- MODULE Figures_proofs ----------------------------
(***************************************************************************)
(* Theorems about the figures: the silver and the stones of a ticket on     *)
(* its way through the stages, and the layers of price of the store.        *)
(***************************************************************************)
EXTENDS StageWeights, PriceLayers, SumLemmas, SequenceTheorems

(* Among finitely many numbers one is the least.                           *)
LEMMA LeastExists ==
    ASSUME NEW S, IsFiniteSet(S), S \subseteq Nat, S # {}
    PROVE  \E m \in S : \A x \in S : m <= x
<1> DEFINE B == {T \in SUBSET S : T = {} \/ \E m \in T : \A x \in T : m <= x}
<1>1. ASSUME NEW T \in SUBSET S, \A x \in T : T \ {x} \in B
      PROVE  T \in B
  <2>1. CASE T = {}
      BY <2>1
  <2>2. CASE T # {}
    <3>1. PICK x \in T : T \ {x} \in B
        BY <1>1, <2>2
    <3>2. CASE T \ {x} = {}
        BY <3>1, <3>2
    <3>3. CASE T \ {x} # {}
      <4>1. PICK m \in T \ {x} : \A y \in T \ {x} : m <= y
          BY <3>1, <3>3
      <4>2. m \in Nat /\ x \in Nat
          OBVIOUS
      <4>3. CASE m <= x
          BY <4>1, <4>3
      <4>4. CASE ~(m <= x)
        <5>1. \A y \in T : x <= y
            BY <4>1, <4>2, <4>4
        <5> QED
            BY <3>1, <5>1
      <4> QED
          BY <4>3, <4>4
    <3> QED
        BY <3>2, <3>3
  <2> QED
      BY <2>1, <2>2
<1> HIDE DEF B
<1>2. S \in B
    BY <1>1, OneByOne
<1> QED
    BY <1>2 DEF B

(* Induction up to a number, with the numbers that have the property in B. *)
LEMMA Upward ==
    ASSUME NEW n \in Nat, NEW B, 0 \in B, \A k \in 0..(n - 1) : k \in B => k + 1 \in B
    PROVE  \A k \in 0..n : k \in B
<1> SUFFICES ASSUME NEW k \in 0..n, k \notin B PROVE FALSE
    OBVIOUS
<1>1. PICK Bad : Bad = {j \in 0..n : j \notin B}
    OBVIOUS
<1>2. Bad \subseteq 0..n /\ Bad \subseteq Nat /\ Bad # {}
    BY <1>1
<1>3. IsFiniteSet(Bad)
  <2>1. IsFiniteSet(0..n)
      BY FS_Interval
  <2> QED
      BY <1>2, <2>1, FS_Subset
<1>4. PICK j \in Bad : \A i \in Bad : j <= i
    BY <1>2, <1>3, LeastExists
<1>5. \A i \in Bad : ~(i < j)
    BY <1>2, <1>4
<1>6. j \in 0..n /\ j \notin B
    BY <1>1
<1>7. CASE j = 0
    BY <1>6, <1>7
<1>8. CASE j # 0
  <2>1. j - 1 \in 0..(n - 1) /\ j - 1 < j /\ j - 1 + 1 = j
      BY <1>6, <1>8
  <2>2. j - 1 \notin B
      BY <1>6, <2>1
  <2>3. j - 1 \in Bad
      BY <1>1, <2>1, <2>2
  <2> QED
      BY <1>5, <2>1, <2>3
<1> QED
    BY <1>7, <1>8

-----------------------------------------------------------------------------
(* Division, rounded half up.                                              *)
LEMMA DivBelow ==
    ASSUME NEW a \in Nat, NEW b \in Nat, b > 0
    PROVE  /\ a \div b \in Nat
           /\ b * (a \div b) <= a
           /\ a < b * (a \div b) + b
OBVIOUS

LEMMA HalfUpNat ==
    ASSUME NEW a \in Nat, NEW b \in Nat, b > 0
    PROVE  HalfUp(a, b) \in Nat /\ 2 * b * HalfUp(a, b) <= 2 * a + b
BY DEF HalfUp

(* A whole share is itself.                                                *)
LEMMA HalfUpWhole ==
    ASSUME NEW k \in Nat, NEW b \in Nat, b > 0
    PROVE  HalfUp(k * b, b) = k
BY DEF HalfUp

(* A share of a quantity is not more than the quantity.                    *)
LEMMA HalfUpShare ==
    ASSUME NEW q \in Nat, NEW g \in Nat, NEW w \in Nat, w > 0, g <= w
    PROVE  HalfUp(q * g, w) \in Nat /\ HalfUp(q * g, w) <= q
BY DEF HalfUp

-----------------------------------------------------------------------------
(* A chain: what each link hands on is what the next one takes, so all that *)
(* is taken and handed on differs by the first and the last alone.          *)
LEMMA ChainSums ==
    ASSUME NEW n \in Nat, n > 0, NEW f, NEW g,
           \A i \in 1..n : f[i] \in Int /\ g[i] \in Int,
           \A i \in 1..(n - 1) : f[i + 1] = g[i]
    PROVE  SumFunctionOnSet(f, 1..n) - SumFunctionOnSet(g, 1..n) = f[1] - g[n]
<1> DEFINE B == {k \in 0..(n - 1) :
                   SumFunctionOnSet(f, 1..(k + 1)) - SumFunctionOnSet(g, 1..(k + 1)) = f[1] - g[k + 1]}
<1>1. \A k \in Int : IsFiniteSet(1..k)
    BY FS_Interval
<1>2. 0 \in B
  <2>1. /\ 1..1 = {} \cup {1} /\ 1 \notin {} /\ IsFiniteSet({})
        /\ \A y \in {} \cup {1} : f[y] \in Int /\ g[y] \in Int
      BY FS_EmptySet
  <2>2. SumFunctionOnSet(f, {} \cup {1}) = f[1] + SumFunctionOnSet(f, {})
      BY <2>1, SumPutIn
  <2>3. SumFunctionOnSet(g, {} \cup {1}) = g[1] + SumFunctionOnSet(g, {})
      BY <2>1, SumPutIn
  <2>4. SumFunctionOnSet(f, {}) = 0 /\ SumFunctionOnSet(g, {}) = 0
      BY SumOfNone
  <2>5. f[1] \in Int /\ g[1] \in Int
      OBVIOUS
  <2> QED
      BY <2>1, <2>2, <2>3, <2>4, <2>5
<1>3. ASSUME NEW k \in 0..(n - 1 - 1), k \in B PROVE k + 1 \in B
  <2>1. /\ 1..(k + 2) = 1..(k + 1) \cup {k + 2} /\ k + 2 \notin 1..(k + 1)
        /\ \A y \in 1..(k + 1) \cup {k + 2} : f[y] \in Int /\ g[y] \in Int
        /\ IsFiniteSet(1..(k + 1))
      BY <1>1
  <2>2. SumFunctionOnSet(f, 1..(k + 2)) = f[k + 2] + SumFunctionOnSet(f, 1..(k + 1))
      BY <2>1, SumPutIn
  <2>3. SumFunctionOnSet(g, 1..(k + 2)) = g[k + 2] + SumFunctionOnSet(g, 1..(k + 1))
      BY <2>1, SumPutIn
  <2>4. f[k + 2] = g[k + 1]
    <3>1. k + 1 \in 1..(n - 1) /\ k + 1 + 1 = k + 2
        OBVIOUS
    <3> QED
        BY <3>1
  <2>5. SumFunctionOnSet(f, 1..(k + 1)) \in Int
      BY <2>1, SumIsInt
  <2>6. SumFunctionOnSet(g, 1..(k + 1)) \in Int
      BY <2>1, SumIsInt
  <2>7. SumFunctionOnSet(f, 1..(k + 1)) - SumFunctionOnSet(g, 1..(k + 1)) = f[1] - g[k + 1]
      BY <1>3
  <2>8. f[1] \in Int /\ g[k + 1] \in Int /\ f[k + 2] \in Int /\ g[k + 2] \in Int
      BY <2>1
  <2>9. SumFunctionOnSet(f, 1..(k + 2)) - SumFunctionOnSet(g, 1..(k + 2)) = f[1] - g[k + 2]
    <3>1. PICK F \in Int : F = SumFunctionOnSet(f, 1..(k + 1))
        BY <2>5
    <3>2. PICK G \in Int : G = SumFunctionOnSet(g, 1..(k + 1))
        BY <2>6
    <3>3. /\ SumFunctionOnSet(f, 1..(k + 2)) = f[k + 2] + F
          /\ SumFunctionOnSet(g, 1..(k + 2)) = g[k + 2] + G
          /\ F - G = f[1] - g[k + 1]
        BY <2>2, <2>3, <2>7, <3>1, <3>2
    <3>4. PICK first \in Int, handed \in Int, last \in Int :
                first = f[1] /\ handed = g[k + 1] /\ handed = f[k + 2] /\ last = g[k + 2]
        BY <2>4, <2>8
    <3>5. F - G = first - handed => (handed + F) - (last + G) = first - last
        OBVIOUS
    <3> QED
        BY <3>3, <3>4, <3>5
  <2>10. k + 1 + 1 = k + 2 /\ k + 1 \in 0..(n - 1)
      OBVIOUS
  <2> QED
      BY <2>9, <2>10
<1> HIDE DEF B
<1>4. n - 1 \in B
  <2>1. PICK m \in Nat : m = n - 1
      OBVIOUS
  <2>2. \A k \in 0..(m - 1) : k \in B => k + 1 \in B
      BY <1>3, <2>1
  <2>3. \A k \in 0..m : k \in B
      BY <1>2, <2>2, Upward
  <2> QED
      BY <2>1, <2>3
<1> QED
    BY <1>4 DEF B

-----------------------------------------------------------------------------
(* Lists of rows, and sums over them.                                      *)
LEMMA RowsOf ==
    ASSUME NEW S, NEW s \in Seq(S)
    PROVE  /\ Len(s) \in Nat /\ DOMAIN s = 1..Len(s) /\ IsFiniteSet(DOMAIN s)
           /\ \A i \in DOMAIN s : s[i] \in S
           /\ s # <<>> <=> Len(s) > 0
           /\ s # <<>> => Len(s) \in DOMAIN s
<1>1. Len(s) \in Nat /\ DOMAIN s = 1..Len(s)
    BY LenProperties
<1>2. IsFiniteSet(1..Len(s))
    BY <1>1, FS_Interval
<1>3. \A i \in DOMAIN s : s[i] \in S
    BY <1>1, ElementOfSeq
<1>4. s # <<>> <=> Len(s) > 0
    BY <1>1, EmptySeq
<1> QED
    BY <1>1, <1>2, <1>3, <1>4

LEMMA RowChanged ==
    ASSUME NEW S, NEW s \in Seq(S), NEW i \in DOMAIN s, NEW e \in S, NEW t, t = [s EXCEPT ![i] = e]
    PROVE  /\ t \in Seq(S) /\ Len(t) = Len(s) /\ DOMAIN t = DOMAIN s /\ t[i] = e
           /\ \A j \in DOMAIN s : j # i => t[j] = s[j]
<1>1. DOMAIN s = 1..Len(s)
    BY RowsOf
<1>2. t \in Seq(S) /\ Len(t) = Len(s)
    BY <1>1, ExceptSeq
<1> QED
    BY <1>1, <1>2

LEMMA RowAdded ==
    ASSUME NEW S, NEW s \in Seq(S), NEW e \in S, NEW t, t = Append(s, e)
    PROVE  /\ t \in Seq(S) /\ Len(t) = Len(s) + 1 /\ t # <<>>
           /\ DOMAIN t = DOMAIN s \cup {Len(s) + 1} /\ Len(s) + 1 \notin DOMAIN s
           /\ t[Len(s) + 1] = e
           /\ \A j \in DOMAIN s : t[j] = s[j]
<1>1. DOMAIN s = 1..Len(s) /\ Len(s) \in Nat
    BY RowsOf
<1>2. t \in Seq(S) /\ Len(t) = Len(s) + 1
    BY AppendProperties
<1>3. DOMAIN t = 1..(Len(s) + 1)
    BY <1>2, RowsOf
<1>4. t[Len(s) + 1] = e /\ \A j \in 1..Len(s) : t[j] = s[j]
    BY <1>1, AppendProperties
<1> QED
    BY <1>1, <1>2, <1>3, <1>4

(* A list rewritten row by row.                                            *)
LEMMA RowsRewritten ==
    ASSUME NEW S, NEW s \in Seq(S), NEW R, NEW t, DOMAIN t = DOMAIN s, t = [i \in DOMAIN s |-> t[i]],
           \A i \in DOMAIN s : t[i] \in R
    PROVE  t \in Seq(R) /\ Len(t) = Len(s)
<1>1. DOMAIN s = 1..Len(s) /\ Len(s) \in Nat
    BY RowsOf
<1>2. t \in [1..Len(s) -> R]
    BY <1>1
<1>3. t \in Seq(R)
    BY <1>1, <1>2, SeqDef
<1>4. DOMAIN t = 1..Len(t) /\ Len(t) \in Nat
    BY <1>3, RowsOf
<1> QED
    BY <1>1, <1>3, <1>4

(* The sum of a list changes by what its only new or changed row does.     *)
LEMMA SumRowChanges ==
    ASSUME NEW f, NEW g, IsFiniteSet(DOMAIN f), DOMAIN g = DOMAIN f, NEW x \in DOMAIN f,
           \A y \in DOMAIN f : f[y] \in Int /\ g[y] \in Int,
           \A y \in DOMAIN f : y # x => g[y] = f[y]
    PROVE  SumOf(g) = SumOf(f) - f[x] + g[x]
BY SumOneChanges DEF SumOf

LEMMA SumRowAdded ==
    ASSUME NEW f, NEW g, IsFiniteSet(DOMAIN f), NEW x, x \notin DOMAIN f, DOMAIN g = DOMAIN f \cup {x},
           \A y \in DOMAIN f : f[y] \in Int /\ g[y] = f[y], g[x] \in Int
    PROVE  SumOf(g) = SumOf(f) + g[x]
<1>1. SumFunctionOnSet(g, DOMAIN f) = SumFunctionOnSet(f, DOMAIN f)
    BY SumSame
<1>2. \A y \in DOMAIN f \cup {x} : g[y] \in Int
    OBVIOUS
<1>3. SumFunctionOnSet(g, DOMAIN f \cup {x}) = g[x] + SumFunctionOnSet(g, DOMAIN f)
    BY <1>2, SumPutIn
<1>4. SumFunctionOnSet(f, DOMAIN f) \in Int
    BY SumIsInt
<1> QED
    BY <1>1, <1>3, <1>4 DEF SumOf

LEMMA SumRows ==
    ASSUME NEW f, IsFiniteSet(DOMAIN f)
    PROVE  /\ (\A y \in DOMAIN f : f[y] \in Int) => SumOf(f) \in Int
           /\ (\A y \in DOMAIN f : f[y] \in Nat) => SumOf(f) \in Nat
           /\ (\A y \in DOMAIN f : f[y] = 0) => SumOf(f) = 0
<1>1. (\A y \in DOMAIN f : f[y] \in Int) => SumOf(f) \in Int
    BY SumIsInt DEF SumOf
<1>2. (\A y \in DOMAIN f : f[y] \in Nat) => SumOf(f) \in Nat
    BY SumIsNat DEF SumOf
<1>3. (\A y \in DOMAIN f : f[y] = 0) => SumOf(f) = 0
    BY SumOfZeros DEF SumOf
<1> QED
    BY <1>1, <1>2, <1>3

LEMMA SumRowsSame ==
    ASSUME NEW f, NEW g, IsFiniteSet(DOMAIN f), DOMAIN g = DOMAIN f, \A y \in DOMAIN f : g[y] = f[y]
    PROVE  SumOf(g) = SumOf(f)
BY SumSame DEF SumOf

(* Two columns together.                                                   *)
LEMMA SumRowsBoth ==
    ASSUME NEW f, NEW g, NEW h, IsFiniteSet(DOMAIN f), DOMAIN g = DOMAIN f, DOMAIN h = DOMAIN f,
           \A y \in DOMAIN f : f[y] \in Int /\ g[y] \in Int /\ h[y] = f[y] + g[y]
    PROVE  SumOf(h) = SumOf(f) + SumOf(g)
BY SumOfBoth DEF SumOf

LEMMA SumRowsNotMore ==
    ASSUME NEW f, NEW g, IsFiniteSet(DOMAIN f), DOMAIN g = DOMAIN f,
           \A y \in DOMAIN f : f[y] \in Int /\ g[y] \in Int /\ g[y] <= f[y]
    PROVE  SumOf(g) <= SumOf(f)
BY SumNotMore DEF SumOf

-----------------------------------------------------------------------------
(* A list of amounts is emptied in some order (r is the turn of each): each *)
(* gives what it can of what those before it left to give, so that together *)
(* they give the amount, or all they have.                                  *)
LEMMA GreedySum ==
    ASSUME NEW D, NEW n \in Nat, NEW r, NEW xs, NEW amount \in Nat, NEW take, IsFiniteSet(D),
           \A x \in D : r[x] \in 1..n /\ xs[x] \in Nat,
           \A x, y \in D : r[x] = r[y] => x = y,
           \A x \in D : take[x] = Lesser(xs[x],
                NonNegative(amount - SumFunctionOnSet(xs, {y \in D : r[y] < r[x]})))
    PROVE  /\ \A x \in D : take[x] \in 0..xs[x]
           /\ SumFunctionOnSet(take, D) = Lesser(SumFunctionOnSet(xs, D), amount)
<1> DEFINE Upto(k) == {y \in D : r[y] <= k}
           B == {k \in 0..n : SumFunctionOnSet(take, Upto(k)) = Lesser(SumFunctionOnSet(xs, Upto(k)), amount)}
<1>1. \A T \in SUBSET D : IsFiniteSet(T) /\ SumFunctionOnSet(xs, T) \in Nat
  <2> SUFFICES ASSUME NEW T \in SUBSET D PROVE IsFiniteSet(T) /\ SumFunctionOnSet(xs, T) \in Nat
      OBVIOUS
  <2>1. IsFiniteSet(T)
      BY FS_Subset
  <2>2. \A x \in T : xs[x] \in Nat
      OBVIOUS
  <2> QED
      BY <2>1, <2>2, SumIsNat
<1>2. ASSUME NEW x \in D PROVE take[x] \in 0..xs[x]
  <2>1. PICK S \in Nat : S = SumFunctionOnSet(xs, {y \in D : r[y] < r[x]})
      BY <1>1
  <2>2. take[x] = Lesser(xs[x], NonNegative(amount - S))
      BY <2>1
  <2> QED
      BY <2>2 DEF Lesser, NonNegative
<1>3. 0 \in B
  <2>1. Upto(0) = {}
      OBVIOUS
  <2>2. SumFunctionOnSet(take, {}) = 0 /\ SumFunctionOnSet(xs, {}) = 0
      BY SumOfNone
  <2> QED
      BY <2>1, <2>2 DEF Lesser
<1>4. ASSUME NEW k \in 0..(n - 1), k \in B PROVE k + 1 \in B
  <2>1. CASE \A x \in D : r[x] # k + 1
    <3>1. Upto(k + 1) = Upto(k)
        BY <2>1
    <3> QED
        BY <1>4, <3>1
  <2>2. CASE \E x \in D : r[x] = k + 1
    <3>1. PICK x \in D : r[x] = k + 1
        BY <2>2
    <3>2. Upto(k + 1) = Upto(k) \cup {x} /\ x \notin Upto(k) /\ {y \in D : r[y] < r[x]} = Upto(k)
        BY <3>1
    <3>3. Upto(k) \in SUBSET D
        OBVIOUS
    <3>4. PICK T \in SUBSET D : T = Upto(k)
        BY <3>3
    <3>5. T \cup {x} = Upto(k + 1) /\ x \notin T /\ {y \in D : r[y] < r[x]} = T
        BY <3>2, <3>4
    <3>6. SumFunctionOnSet(take, T) = Lesser(SumFunctionOnSet(xs, T), amount)
        BY <1>4, <3>4
    <3> HIDE DEF Upto
    <3>7. \A y \in T \cup {x} : xs[y] \in Int /\ take[y] \in Int
        BY <1>2
    <3>8. SumFunctionOnSet(xs, T \cup {x}) = xs[x] + SumFunctionOnSet(xs, T)
        BY <1>1, <3>5, <3>7, SumPutIn
    <3>9. SumFunctionOnSet(take, T \cup {x}) = take[x] + SumFunctionOnSet(take, T)
        BY <1>1, <3>5, <3>7, SumPutIn
    <3>10. PICK S \in Nat : S = SumFunctionOnSet(xs, T)
        BY <1>1
    <3>11. take[x] = Lesser(xs[x], NonNegative(amount - S))
        BY <3>5, <3>10
    <3>12. PICK a \in Nat : a = xs[x]
        OBVIOUS
    <3>13. /\ SumFunctionOnSet(xs, Upto(k + 1)) = a + S
           /\ SumFunctionOnSet(take, Upto(k + 1)) = Lesser(a, NonNegative(amount - S)) + Lesser(S, amount)
        BY <3>5, <3>6, <3>8, <3>9, <3>10, <3>11, <3>12
    <3>14. Lesser(a, NonNegative(amount - S)) + Lesser(S, amount) = Lesser(a + S, amount)
        BY DEF Lesser, NonNegative
    <3>15. k + 1 \in 0..n
        OBVIOUS
    <3> QED
        BY <3>13, <3>14, <3>15
  <2> QED
      BY <2>1, <2>2
<1> HIDE DEF B
<1>5. n \in B
  <2>1. \A k \in 0..n : k \in B
      BY <1>3, <1>4, Upward
  <2> QED
      BY <2>1
<1>6. Upto(n) = D
    OBVIOUS
<1> QED
    BY <1>2, <1>5, <1>6 DEF B

(* From the first, or from the last.                                       *)
LEMMA SumOfChosen ==
    ASSUME NEW xs, IsFiniteSet(DOMAIN xs), \A x \in DOMAIN xs : xs[x] \in Nat, NEW T \in SUBSET (DOMAIN xs),
           NEW f, f = [y \in DOMAIN xs |-> IF y \in T THEN xs[y] ELSE 0]
    PROVE  SumOf(f) = SumFunctionOnSet(xs, T)
<1>1. \A y \in DOMAIN xs : f[y] \in Int
    OBVIOUS
<1>2. \A y \in (DOMAIN xs) \ T : f[y] = 0
    OBVIOUS
<1>3. SumFunctionOnSet(f, DOMAIN xs) = SumFunctionOnSet(f, T)
    BY <1>1, <1>2, SumWithoutZeros
<1>4. IsFiniteSet(T) /\ \A y \in T : f[y] = xs[y]
    BY FS_Subset
<1>5. SumFunctionOnSet(f, T) = SumFunctionOnSet(xs, T)
    BY <1>4, SumSame
<1>6. DOMAIN f = DOMAIN xs
    OBVIOUS
<1> QED
    BY <1>3, <1>5, <1>6 DEF SumOf

LEMMA FromTheFirstGives ==
    ASSUME NEW n \in Nat, NEW xs, DOMAIN xs \subseteq 1..n, \A x \in DOMAIN xs : xs[x] \in Nat,
           NEW amount \in Nat, NEW take, take = FromTheFirst(xs, amount)
    PROVE  /\ DOMAIN take = DOMAIN xs /\ \A x \in DOMAIN xs : take[x] \in 0..xs[x]
           /\ SumOf(take) = Lesser(SumOf(xs), amount)
<1> DEFINE D == DOMAIN xs
<1>1. PICK r : r = [x \in D |-> x]
    OBVIOUS
<1>2. IsFiniteSet(D)
  <2>1. IsFiniteSet(1..n)
      BY FS_Interval
  <2> QED
      BY <2>1, FS_Subset
<1>3. ASSUME NEW x \in D
      PROVE  take[x] = Lesser(xs[x], NonNegative(amount - SumFunctionOnSet(xs, {y \in D : r[y] < r[x]})))
  <2>1. PICK f : f = [y \in DOMAIN xs |-> IF y < x THEN xs[y] ELSE 0]
      OBVIOUS
  <2>2. take[x] = Lesser(xs[x], NonNegative(amount - SumOf(f)))
      BY <2>1 DEF FromTheFirst, SumWhere
  <2>3. PICK T : T = {y \in D : r[y] < r[x]}
      OBVIOUS
  <2>4. /\ T \in SUBSET (DOMAIN xs)
        /\ f = [y \in DOMAIN xs |-> IF y \in T THEN xs[y] ELSE 0]
      BY <1>1, <2>1, <2>3
  <2>5. SumOf(f) = SumFunctionOnSet(xs, T)
      BY <1>2, <2>4, SumOfChosen
  <2> QED
      BY <2>2, <2>3, <2>5
<1>4. DOMAIN take = D
    BY DEF FromTheFirst
<1>5. \A x \in D : r[x] \in 1..n
    BY <1>1
<1>6. \A x, y \in D : r[x] = r[y] => x = y
    BY <1>1
<1> HIDE DEF D
<1>7. \A x \in D : xs[x] \in Nat
    BY DEF D
<1>8. /\ \A x \in D : take[x] \in 0..xs[x]
      /\ SumFunctionOnSet(take, D) = Lesser(SumFunctionOnSet(xs, D), amount)
    BY <1>2, <1>3, <1>5, <1>6, <1>7, GreedySum
<1> QED
    BY <1>4, <1>8 DEF D, SumOf

LEMMA FromTheLastGives ==
    ASSUME NEW n \in Nat, NEW xs, DOMAIN xs \subseteq 1..n, \A x \in DOMAIN xs : xs[x] \in Nat,
           NEW amount \in Nat, NEW take, take = FromTheLast(xs, amount)
    PROVE  /\ DOMAIN take = DOMAIN xs /\ \A x \in DOMAIN xs : take[x] \in 0..xs[x]
           /\ SumOf(take) = Lesser(SumOf(xs), amount)
<1> DEFINE D == DOMAIN xs
<1>1. PICK r : r = [x \in D |-> n + 1 - x]
    OBVIOUS
<1>2. IsFiniteSet(D)
  <2>1. IsFiniteSet(1..n)
      BY FS_Interval
  <2> QED
      BY <2>1, FS_Subset
<1>3. ASSUME NEW x \in D
      PROVE  take[x] = Lesser(xs[x], NonNegative(amount - SumFunctionOnSet(xs, {y \in D : r[y] < r[x]})))
  <2>1. PICK f : f = [y \in DOMAIN xs |-> IF y > x THEN xs[y] ELSE 0]
      OBVIOUS
  <2>2. take[x] = Lesser(xs[x], NonNegative(amount - SumOf(f)))
      BY <2>1 DEF FromTheLast, SumWhere
  <2>3. PICK T : T = {y \in D : r[y] < r[x]}
      OBVIOUS
  <2>4. /\ T \in SUBSET (DOMAIN xs)
        /\ f = [y \in DOMAIN xs |-> IF y \in T THEN xs[y] ELSE 0]
      BY <1>1, <2>1, <2>3
  <2>5. SumOf(f) = SumFunctionOnSet(xs, T)
      BY <1>2, <2>4, SumOfChosen
  <2> QED
      BY <2>2, <2>3, <2>5
<1>4. DOMAIN take = D
    BY DEF FromTheLast
<1>5. \A x \in D : r[x] \in 1..n
    BY <1>1
<1>6. \A x, y \in D : r[x] = r[y] => x = y
    BY <1>1
<1> HIDE DEF D
<1>7. \A x \in D : xs[x] \in Nat
    BY DEF D
<1>8. /\ \A x \in D : take[x] \in 0..xs[x]
      /\ SumFunctionOnSet(take, D) = Lesser(SumFunctionOnSet(xs, D), amount)
    BY <1>2, <1>3, <1>5, <1>6, <1>7, GreedySum
<1> QED
    BY <1>4, <1>8 DEF D, SumOf

(* The stones counted are all shared out, and no bag gets more than it had. *)
LEMMA SplitGives ==
    ASSUME NEW n \in Nat, NEW counts, DOMAIN counts \subseteq 1..n, NEW grams, NEW count \in Nat,
           \A x \in DOMAIN counts : counts[x] \in Nat /\ grams[x] \in Nat,
           count <= SumOf(counts), NEW split, split = SplitReturnedCount(counts, grams, count)
    PROVE  /\ DOMAIN split = DOMAIN counts /\ \A x \in DOMAIN counts : split[x] \in 0..counts[x]
           /\ SumOf(split) = count
<1> DEFINE D == DOMAIN counts
<1>1. IsFiniteSet(D)
  <2>1. IsFiniteSet(1..n)
      BY FS_Interval
  <2> QED
      BY <2>1, FS_Subset
<1>2. PICK weights_ : weights_ = [i \in D |-> grams[i]]
    OBVIOUS
<1>3. PICK total \in Nat : total = SumOf(weights_)
  <2>1. DOMAIN weights_ = D /\ \A x \in D : weights_[x] \in Nat
      BY <1>2
  <2> QED
      BY <1>1, <2>1, SumRows
<1>4. PICK share : share = [i \in D |-> IF total = 0 \/ i = Max(D) THEN counts[i]
                                        ELSE Lesser(counts[i], HalfUp(count * grams[i], total))]
    OBVIOUS
<1>5. DOMAIN share = D /\ \A x \in D : share[x] \in 0..counts[x]
  <2> SUFFICES ASSUME NEW x \in D PROVE share[x] \in 0..counts[x]
      BY <1>4
  <2>1. CASE total = 0 \/ x = Max(D)
      BY <1>4, <2>1
  <2>2. CASE ~(total = 0 \/ x = Max(D))
    <3>1. PICK part \in Nat : part = HalfUp(count * grams[x], total)
      <4>1. PICK a \in Nat : a = count * grams[x]
          OBVIOUS
      <4>2. total > 0
          BY <2>2
      <4>3. HalfUp(a, total) \in Nat
          BY <4>2, HalfUpNat
      <4> QED
          BY <4>1, <4>3
    <3>2. share[x] = Lesser(counts[x], part)
        BY <1>4, <2>2, <3>1
    <3> QED
        BY <3>2 DEF Lesser
  <2> QED
      BY <2>1, <2>2
<1>6. PICK take : take = FromTheFirst(share, count)
    OBVIOUS
<1>7. /\ DOMAIN take = D /\ \A x \in D : take[x] \in 0..share[x]
      /\ SumOf(take) = Lesser(SumOf(share), count)
  <2>1. DOMAIN share \subseteq 1..n /\ \A x \in DOMAIN share : share[x] \in Nat
      BY <1>5
  <2> QED
      BY <1>5, <1>6, <2>1, FromTheFirstGives
<1>8. PICK room : room = [i \in D |-> counts[i] - take[i]]
    OBVIOUS
<1>9. DOMAIN room = D /\ \A x \in D : room[x] \in Nat /\ take[x] \in Nat /\ counts[x] = room[x] + take[x]
                                     /\ room[x] <= counts[x]
  <2> SUFFICES ASSUME NEW x \in D
               PROVE  room[x] \in Nat /\ take[x] \in Nat /\ counts[x] = room[x] + take[x] /\ room[x] <= counts[x]
      BY <1>8
  <2>1. share[x] \in 0..counts[x] /\ take[x] \in 0..share[x] /\ room[x] = counts[x] - take[x]
      BY <1>5, <1>7, <1>8
  <2> QED
      BY <2>1
<1>10. SumOf(counts) = SumOf(room) + SumOf(take)
    BY <1>1, <1>7, <1>9, SumRowsBoth
<1>11. SumOf(room) \in Nat
    BY <1>1, <1>9, SumRows
<1>12. SumOf(take) \in Nat
    BY <1>1, <1>7, <1>9, SumRows
<1>13. SumOf(share) \in Nat
    BY <1>1, <1>5, SumRows
<1>14. PICK rest \in Nat : rest = count - SumOf(take)
    BY <1>7, <1>12, <1>13 DEF Lesser
<1>15. PICK extra : extra = FromTheFirst(room, rest)
    OBVIOUS
<1>16. /\ DOMAIN extra = D /\ \A x \in D : extra[x] \in 0..room[x]
       /\ SumOf(extra) = Lesser(SumOf(room), rest)
    BY <1>9, <1>15, FromTheFirstGives
<1>17. split = [i \in D |-> take[i] + extra[i]]
    BY <1>2, <1>3, <1>4, <1>6, <1>8, <1>14, <1>15 DEF SplitReturnedCount
<1>18. \A x \in D : extra[x] \in Nat /\ split[x] = take[x] + extra[x] /\ split[x] \in 0..counts[x]
  <2> SUFFICES ASSUME NEW x \in D
               PROVE  extra[x] \in Nat /\ split[x] = take[x] + extra[x] /\ split[x] \in 0..counts[x]
      OBVIOUS
  <2>1. extra[x] \in 0..room[x] /\ split[x] = take[x] + extra[x] /\ room[x] \in Nat /\ take[x] \in Nat
        /\ counts[x] = room[x] + take[x]
      BY <1>9, <1>16, <1>17
  <2> QED
      BY <2>1
<1>19. SumOf(split) = SumOf(take) + SumOf(extra)
    BY <1>1, <1>7, <1>9, <1>16, <1>17, <1>18, SumRowsBoth
<1>20. SumOf(split) = count
  <2>1. PICK a \in Nat, b \in Nat : a = SumOf(room) /\ b = SumOf(take)
      BY <1>11, <1>12
  <2>2. count <= a + b /\ rest = count - b /\ SumOf(split) = b + Lesser(a, rest)
      BY <1>10, <1>14, <1>16, <1>19, <2>1
  <2> QED
      BY <2>2 DEF Lesser
<1> QED
    BY <1>17, <1>18, <1>20

-----------------------------------------------------------------------------
(* One ticket.                                                             *)

(* What an entry says by itself: only what was handed back has figures,     *)
(* only a stage that is weighed has weights, only stone setting has stones. *)
Plain(e) ==
    /\ ~IsReturned(e) => /\ e.returned = None /\ e.btp = 0 /\ e.silver = 0 /\ e.s999 = 0
                         /\ e.set = None /\ e.setGrams = None /\ e.back = None
    /\ e.stage # "STONE_SETTING" =>
        /\ e.stones = None /\ e.more = 0 /\ e.set = None /\ e.setGrams = None /\ e.back = None
    /\ e.stage \in PHOTO_ONLY_STAGES => e.returned = None /\ Recovered(e) = 0
    /\ IsReturned(e) /\ e.stage \notin PHOTO_ONLY_STAGES => e.returned # None /\ (e.good => e.returned > 0)
    /\ e.phase = "returned" => e.stage \in KEEPER_CONFIRM_STAGES
    /\ e.returned # None /\ SilverIn(e) # None => e.returned + Recovered(e) <= SilverIn(e) + Or0(e.setGrams)

(* The entries of the ticket: one of each stage of its course, the stages   *)
(* before the last closed and good, each taking over what the one before    *)
(* gave back.                                                               *)
EntriesSound ==
    \A i \in DOMAIN entries :
        /\ entries[i].stage = order.route[i]
        /\ Plain(entries[i])
        /\ i < Len(entries) => entries[i].phase = "confirmed" /\ entries[i].good
        /\ i > 1 => SilverIn(entries[i]) = CarriedSilver(entries[i - 1])

(* A bag: sold by the piece its stock is its pieces, else its weight.       *)
Sound(b) ==
    /\ b \in BagValues
    /\ ByThePiece => b.count = b.qty
    /\ ~ByThePiece => b.qty = b.weight
    /\ b.state = "HELD" => b.qty > 0
BagsSound ==
    /\ \A k \in DOMAIN bags : Sound(bags[k])
    /\ (\A i \in DOMAIN entries : entries[i].stage # "STONE_SETTING") => bags = <<>>

(* What the setter has had, by number and by weight, is in the bags, and    *)
(* none of it leaves the stock before the keeper closes the stage.          *)
GivenCount(e) == Or0(e.stones) + e.more - EarlyCount
HeldCounts == [k \in DOMAIN bags |-> IF IsHeld(bags[k]) THEN Or0(bags[k].count) ELSE 0]
InHisBags(e) ==
    /\ GivenCount(e) = SumOf(HeldCounts)
    /\ e.stoneGrams # None => e.stoneGrams + Or0(e.moreGrams) - EarlyGrams = StoneLine.weight
    /\ \A k \in DOMAIN bags : /\ bags[k].state # "CONSUMED" /\ bags[k].out = 0
                              /\ bags[k].state = "RELEASED" => Or0(bags[k].count) = 0

(* What QC wrote down of the stones left over is what the bags took back.   *)
HeldBack == [k \in DOMAIN bags |-> IF IsHeld(bags[k]) THEN Or0(bags[k].backC) ELSE 0]
Unseen == \A k \in DOMAIN bags : IsHeld(bags[k]) => bags[k].backW = None /\ bags[k].backC = None
BackInBags(e) ==
    \/ Unseen /\ Or0(e.back) <= GivenCount(e)
    \/ /\ \A k \in DOMAIN bags : IsHeld(bags[k]) => bags[k].backC \in 0..bags[k].count
       /\ Or0(e.back) = SumOf(HeldBack)

(* What the stock gave is what was given and not taken back.                *)
CameBackWhole == \E k \in DOMAIN bags :
    bags[k].weight > 0 /\ bags[k].backW # None /\ bags[k].backW >= bags[k].weight
AllCounted == \A k \in DOMAIN bags :
    bags[k].count # None /\ ~(bags[k].weight = 0 /\ bags[k].count # 0)
OutIsGiven(e) ==
    SumOf([k \in DOMAIN bags |-> bags[k].out]) = Or0(StonesHanded(e)) - Or0(e.back)

StonesOK(e) ==
    /\ e.phase # "confirmed" => InHisBags(e)
    /\ IsReturned(e) =>
        /\ GivenCount(e) >= 0
        /\ GivenCount(e) > 0 => Or0(e.set) + Or0(e.back) <= GivenCount(e)
        /\ e.typed # None /\ AllCounted => e.back = e.typed
    /\ e.phase = "returned" /\ ByThePiece => BackInBags(e)
    /\ e.phase = "confirmed" /\ ByThePiece /\ ~CameBackWhole => OutIsGiven(e)
StonesSound == \A i \in DOMAIN entries : entries[i].stage = "STONE_SETTING" => StonesOK(entries[i])

(* What was recovered of stages closed is in the store.                     *)
StoreSound ==
    /\ stock \in [s925 : Nat, s999 : Nat, scrap : 0..MaxScrap]
    /\ stock.s925 = SumOf([i \in DOMAIN entries |->
            IF entries[i].phase = "confirmed" THEN entries[i].btp + entries[i].silver ELSE 0])
    /\ stock.s999 = SumOf([i \in DOMAIN entries |->
            IF entries[i].phase = "confirmed" THEN entries[i].s999 ELSE 0])

TicketInv == WeightsTypeOK /\ EntriesSound /\ BagsSound /\ StonesSound /\ StoreSound

(* The course of the ticket.                                               *)
LEMMA PlacesKnown ==
    \A stage \in Stages : Place(stage) \in 1..5 /\ STAGE_ORDER[Place(stage)] = stage
<1> SUFFICES ASSUME NEW stage \in Stages
             PROVE  Place(stage) \in 1..5 /\ STAGE_ORDER[Place(stage)] = stage
    OBVIOUS
<1>1. DOMAIN STAGE_ORDER = 1..5
    BY DEF STAGE_ORDER
<1>2. /\ STAGE_ORDER[1] = "FILING" /\ STAGE_ORDER[2] = "STONE_SETTING" /\ STAGE_ORDER[3] = "ENGRAVING"
      /\ STAGE_ORDER[4] = "POLISHING" /\ STAGE_ORDER[5] = "PLATING"
    BY DEF STAGE_ORDER
<1>3. \E i \in 1..5 : STAGE_ORDER[i] = stage
    BY <1>2 DEF Stages, KEEPER_CONFIRM_STAGES, PHOTO_ONLY_STAGES, QC_STOCK_RECOVERY_STAGES
<1> QED
    BY <1>1, <1>3 DEF Place

LEMMA FilingIsFirst ==
    Place("FILING") = 1
<1>1. "FILING" \in Stages
    BY DEF Stages, KEEPER_CONFIRM_STAGES
<1>2. /\ STAGE_ORDER[1] = "FILING" /\ STAGE_ORDER[2] = "STONE_SETTING" /\ STAGE_ORDER[3] = "ENGRAVING"
      /\ STAGE_ORDER[4] = "POLISHING" /\ STAGE_ORDER[5] = "PLATING"
    BY DEF STAGE_ORDER
<1>3. Place("FILING") \in 1..5 /\ STAGE_ORDER[Place("FILING")] = "FILING"
    BY <1>1, PlacesKnown
<1> QED
    BY <1>2, <1>3

LEMMA SettingIsSecond ==
    Place("STONE_SETTING") = 2
<1>1. "STONE_SETTING" \in Stages
    BY DEF Stages, KEEPER_CONFIRM_STAGES
<1>2. /\ STAGE_ORDER[1] = "FILING" /\ STAGE_ORDER[2] = "STONE_SETTING" /\ STAGE_ORDER[3] = "ENGRAVING"
      /\ STAGE_ORDER[4] = "POLISHING" /\ STAGE_ORDER[5] = "PLATING"
    BY DEF STAGE_ORDER
<1>3. Place("STONE_SETTING") \in 1..5 /\ STAGE_ORDER[Place("STONE_SETTING")] = "STONE_SETTING"
    BY <1>1, PlacesKnown
<1> QED
    BY <1>2, <1>3

(* Every course is in order: filing can only be its first stage, and no     *)
(* stage comes twice.                                                       *)
LEMMA CourseInOrder ==
    ASSUME order.route \in Routes \cup {OldRoute, FiledRoute}
    PROVE  /\ order.route \in Seq(Stages)
           /\ \A j \in DOMAIN order.route :
                /\ order.route[j] = "FILING" => j = 1
                /\ \A i \in 1..(j - 1) : order.route[i] # order.route[j]
<1>1. order.route \in Seq(Stages) /\ InOrder(order.route)
  <2>1. OldRoute \in Seq(Stages) /\ InOrder(OldRoute)
      BY DEF OldRoute, InOrder, Stages, KEEPER_CONFIRM_STAGES
  <2>2. FiledRoute \in Seq(Stages) /\ InOrder(FiledRoute)
    <3>1. FiledRoute \in Seq(Stages) /\ DOMAIN FiledRoute = 1..2
          /\ FiledRoute[1] = "FILING" /\ FiledRoute[2] = "STONE_SETTING"
        BY DEF FiledRoute, Stages, KEEPER_CONFIRM_STAGES
    <3> QED
        BY <3>1, FilingIsFirst, SettingIsSecond DEF InOrder
  <2> QED
      BY <2>1, <2>2, RoutesAssumption
<1>2. DOMAIN order.route = 1..Len(order.route) /\ Len(order.route) \in Nat
      /\ \A j \in DOMAIN order.route : order.route[j] \in Stages
    BY <1>1, RowsOf
<1>3. \A j \in DOMAIN order.route : Place(order.route[j]) \in 1..5
    BY <1>2, PlacesKnown
<1>4. ASSUME NEW j \in DOMAIN order.route, NEW i \in 1..(j - 1)
      PROVE  order.route[i] # order.route[j] /\ order.route[j] # "FILING"
  <2>1. i \in DOMAIN order.route /\ Place(order.route[i]) < Place(order.route[j])
      BY <1>1, <1>2 DEF InOrder
  <2>2. Place(order.route[i]) \in 1..5 /\ Place(order.route[j]) \in 1..5
      BY <1>3, <2>1
  <2>3. order.route[j] # "FILING"
    <3>1. Place(order.route[j]) # 1
        BY <2>1, <2>2
    <3> QED
        BY <3>1, FilingIsFirst
  <2>4. order.route[i] # order.route[j]
      BY <2>1, <2>2
  <2> QED
      BY <2>3, <2>4
<1>5. ASSUME NEW j \in DOMAIN order.route, order.route[j] = "FILING" PROVE j = 1
  <2>1. CASE j > 1
    <3>1. 1 \in 1..(j - 1)
        BY <1>2, <2>1
    <3> QED
        BY <1>4, <1>5, <3>1
  <2> QED
      BY <1>2, <2>1
<1> QED
    BY <1>1, <1>4, <1>5

-----------------------------------------------------------------------------
(* A bag.                                                                  *)
LEMMA BagFields ==
    ASSUME NEW b, b \in BagValues
    PROVE  /\ b.state \in {"HELD", "RELEASED", "CONSUMED"} /\ b.qty \in Nat /\ b.count \in Given
           /\ b.weight \in Nat /\ b.backW \in Given /\ b.backC \in Given /\ b.earlyW \in Nat
           /\ b.earlyC \in Nat /\ b.out \in Nat /\ Or0(b.count) \in Nat /\ Or0(b.backC) \in Nat
           /\ Or0(b.backW) \in Nat
BY DEF BagValues, Given, None, Or0

LEMMA CountGivenBack ==
    ASSUME NEW b, b \in BagValues, NEW grams \in Nat
    PROVE  /\ StoneReturnedCount(b, grams) \in Given
           /\ b.count # None => StoneReturnedCount(b, grams) \in 0..b.count
<1>1. b.count \in Given /\ b.weight \in Nat
    BY BagFields
<1>2. CASE b.count = None
    BY <1>2 DEF StoneReturnedCount, Given
<1>3. CASE b.count # None /\ b.weight = 0
    BY <1>1, <1>3 DEF StoneReturnedCount, Given
<1>4. CASE b.count # None /\ b.weight # 0
  <2>1. b.count \in Nat /\ b.weight > 0
      BY <1>1, <1>4 DEF Given
  <2>2. PICK g \in Nat : g = Lesser(grams, b.weight) /\ g <= b.weight
      BY <1>1 DEF Lesser
  <2>3. HalfUp(b.count * g, b.weight) \in Nat
      BY <1>1, <2>1, <2>2, HalfUpShare
  <2>4. StoneReturnedCount(b, grams) = Lesser(b.count, HalfUp(b.count * g, b.weight))
      BY <1>4, <2>2 DEF StoneReturnedCount
  <2>5. PICK h \in Nat, c \in Nat : h = HalfUp(b.count * g, b.weight) /\ c = b.count
      BY <2>1, <2>3
  <2>6. Lesser(c, h) \in 0..c
      BY DEF Lesser
  <2> QED
      BY <1>4, <2>4, <2>5, <2>6 DEF Given
<1> QED
    BY <1>2, <1>3, <1>4

(* What is taken out of a bag before the stage is over is written down on   *)
(* it: its stones and their weight stay the same in all, and what is struck *)
(* off holds no stone, and less than half the weight of one.                *)
LEMMA BagShrinks ==
    ASSUME ByThePiece \in BOOLEAN, NEW b, Sound(b), b.state = "HELD", NEW g \in Nat, g > 0, g <= b.weight,
           NEW c, c = ShrinkHold(b, g)
    PROVE  /\ Sound(c) /\ c.state \in {"HELD", "RELEASED"} /\ c.out = b.out
           /\ c.earlyW = b.earlyW + g /\ c.weight + c.earlyW = b.weight + b.earlyW
           /\ Or0(c.count) + c.earlyC = Or0(b.count) + b.earlyC
           /\ c.state = "RELEASED" => Or0(c.count) = 0 /\ 2 * b.qty * c.weight <= b.weight
<1> DEFINE backQty == Lesser(HalfUp(b.qty * g, b.weight), b.qty)
           backCount == StoneReturnedCount(b, g)
           emptied == backQty = b.qty \/ g = b.weight
<1>1. b \in BagValues /\ (ByThePiece => b.count = b.qty) /\ (~ByThePiece => b.qty = b.weight) /\ b.qty > 0
    BY DEF Sound
<1>2. /\ b.qty \in Nat /\ b.count \in Given /\ b.weight \in Nat /\ b.earlyW \in Nat /\ b.earlyC \in Nat
      /\ b.weight > 0 /\ Or0(b.count) \in Nat
    BY <1>1, BagFields
<1>3. HalfUp(b.qty * g, b.weight) \in Nat /\ HalfUp(b.qty * g, b.weight) <= b.qty
    BY <1>2, HalfUpShare
<1>4. backQty \in Nat /\ backQty <= b.qty /\ backQty = HalfUp(b.qty * g, b.weight)
    BY <1>2, <1>3 DEF Lesser
<1>5. backCount \in Given /\ (b.count # None => backCount \in 0..b.count) /\ (b.count = None => backCount = None)
  <2>1. backCount \in Given /\ (b.count # None => backCount \in 0..b.count)
      BY <1>1, CountGivenBack
  <2> QED
      BY <2>1 DEF StoneReturnedCount
<1>6. c = [b EXCEPT !.qty = @ - backQty, !.count = IF @ = None THEN None ELSE @ - Or0(backCount),
                    !.weight = @ - g, !.earlyW = @ + g, !.earlyC = @ + Or0(backCount),
                    !.state = IF emptied THEN "RELEASED" ELSE "HELD"]
    BY DEF ShrinkHold
<1>7. ByThePiece => backCount = backQty
  <2> HAVE ByThePiece
  <2>1. b.count = b.qty /\ b.count # None /\ b.weight # 0
      BY <1>1, <1>2 DEF None
  <2>2. Lesser(g, b.weight) = g
      BY <1>2 DEF Lesser
  <2>3. backCount = Lesser(b.qty, HalfUp(b.qty * g, b.weight))
      BY <2>1, <2>2 DEF StoneReturnedCount
  <2> QED
      BY <1>2, <1>3, <1>4, <2>3 DEF Lesser
<1>8. ~ByThePiece => backQty = g
  <2> HAVE ~ByThePiece
  <2>1. HalfUp(g * b.weight, b.weight) = g
      BY <1>2, HalfUpWhole
  <2>2. b.qty * g = g * b.weight
      BY <1>1, <1>2
  <2> QED
      BY <1>4, <2>1, <2>2
<1>9. g = b.weight => backQty = b.qty /\ (b.count # None => backCount = b.count)
  <2> HAVE g = b.weight
  <2>1. HalfUp(b.qty * b.weight, b.weight) = b.qty
      BY <1>2, HalfUpWhole
  <2>2. ASSUME b.count # None PROVE backCount = b.count
    <3>1. b.count \in Nat
        BY <1>2, <2>2 DEF Given
    <3>2. HalfUp(b.count * b.weight, b.weight) = b.count
        BY <1>2, <3>1, HalfUpWhole
    <3>3. backCount = Lesser(b.count, HalfUp(b.count * b.weight, b.weight))
        BY <1>2, <2>2 DEF StoneReturnedCount, Lesser
    <3> QED
        BY <3>1, <3>2, <3>3 DEF Lesser
  <2> QED
      BY <1>4, <2>1, <2>2
<1>10. Or0(backCount) \in Nat /\ (b.count # None => Or0(backCount) = backCount)
    BY <1>2, <1>5 DEF Or0, Given, None
<1>11. 2 * b.weight * backQty <= 2 * (b.qty * g) + b.weight
  <2>1. PICK a \in Nat : a = b.qty * g
      BY <1>2
  <2> QED
      BY <1>2, <1>4, <2>1, HalfUpNat
<1> HIDE DEF backQty, backCount
<1>12. /\ c.qty = b.qty - backQty /\ c.weight = b.weight - g /\ c.earlyW = b.earlyW + g
       /\ c.earlyC = b.earlyC + Or0(backCount) /\ c.out = b.out /\ c.backW = b.backW /\ c.backC = b.backC
       /\ c.count = IF b.count = None THEN None ELSE b.count - Or0(backCount)
       /\ c.state = IF emptied THEN "RELEASED" ELSE "HELD"
    BY <1>1, <1>6 DEF BagValues
<1>13. c.count \in Given /\ Or0(c.count) + Or0(backCount) = Or0(b.count)
       /\ (b.count = None => c.count = None) /\ (b.count # None => c.count = b.count - backCount)
  <2>1. CASE b.count = None
    <3>1. Or0(backCount) = 0
        BY <1>5, <2>1 DEF Or0
    <3> QED
        BY <1>12, <2>1, <3>1 DEF Or0, Given
  <2>2. CASE b.count # None
    <3>1. b.count \in Nat /\ backCount \in 0..b.count /\ c.count = b.count - backCount /\ Or0(backCount) = backCount
        BY <1>2, <1>5, <1>10, <1>12, <2>2 DEF Given
    <3>2. c.count \in Nat /\ c.count # None
        BY <3>1 DEF None
    <3> QED
        BY <2>2, <3>1, <3>2 DEF Or0, Given
  <2> QED
      BY <2>1, <2>2
<1>14. c \in BagValues
  <2>1. c.qty \in Nat /\ c.weight \in Nat /\ c.earlyW \in Nat /\ c.earlyC \in Nat
      BY <1>2, <1>4, <1>10, <1>12
  <2> QED
      BY <1>1, <1>6, <1>12, <1>13, <2>1 DEF BagValues
<1>15. Sound(c)
  <2>1. ByThePiece => c.count = c.qty
      BY <1>1, <1>2, <1>7, <1>12, <1>13 DEF None
  <2>2. ~ByThePiece => c.qty = c.weight
      BY <1>1, <1>8, <1>12
  <2>3. c.state = "HELD" => c.qty > 0
      BY <1>2, <1>4, <1>12
  <2> QED
      BY <1>14, <2>1, <2>2, <2>3 DEF Sound
<1>16. c.weight + c.earlyW = b.weight + b.earlyW /\ Or0(c.count) + c.earlyC = Or0(b.count) + b.earlyC
  <2>1. Or0(c.count) \in Nat
      BY <1>14, BagFields
  <2> QED
      BY <1>2, <1>10, <1>12, <1>13, <2>1
<1>17. ASSUME c.state = "RELEASED"
       PROVE  Or0(c.count) = 0 /\ 2 * b.qty * c.weight <= b.weight
  <2>1. emptied
      BY <1>12, <1>17
  <2>2. backQty = b.qty
      BY <1>9, <2>1
  <2>3. CASE ByThePiece
    <3>1. c.count = 0
        BY <1>1, <1>2, <1>7, <1>13, <2>2, <2>3 DEF None
    <3>2. 2 * b.weight * b.qty <= 2 * (b.qty * g) + b.weight /\ c.weight = b.weight - g
        BY <1>11, <1>12, <2>2
    <3>3. 2 * b.qty * (b.weight - g) <= b.weight
        BY <1>2, <3>2
    <3> QED
        BY <3>1, <3>2, <3>3 DEF Or0
  <2>4. CASE ~ByThePiece
    <3>1. g = b.weight /\ c.weight = 0
        BY <1>1, <1>2, <1>8, <1>12, <2>2, <2>4
    <3>2. 2 * b.qty * 0 <= b.weight
        BY <1>2
    <3>3. Or0(c.count) = 0
        BY <1>2, <1>9, <1>13, <3>1 DEF Or0, Given
    <3> QED
        BY <3>1, <3>2, <3>3
  <2> QED
      BY <2>3, <2>4
<1>18. c.state \in {"HELD", "RELEASED"}
    BY <1>12
<1> QED
    BY <1>12, <1>15, <1>16, <1>17, <1>18

(* The bags of the ticket, added up.                                       *)
LEMMA BagSums ==
    ASSUME bags \in Seq(BagValues)
    PROVE  /\ Len(bags) \in Nat /\ DOMAIN bags = 1..Len(bags) /\ IsFiniteSet(DOMAIN bags)
           /\ \A k \in DOMAIN bags : bags[k] \in BagValues
           /\ EarlyCount \in Nat /\ EarlyGrams \in Nat /\ SumOf(HeldCounts) \in Nat
           /\ DOMAIN Weighed = DOMAIN bags /\ \A k \in DOMAIN bags : Weighed[k] \in Nat
           /\ SumOf(Weighed) \in Nat
           /\ DOMAIN Unweighed = DOMAIN bags /\ \A k \in DOMAIN bags : Unweighed[k] \in Nat
           /\ SumOf(Unweighed) \in Nat
           /\ DOMAIN Counted = {k \in DOMAIN bags : Weighed[k] > 0 /\ bags[k].count # None}
           /\ \A k \in DOMAIN Counted : Counted[k] = bags[k].count /\ Counted[k] \in Nat
           /\ SumOf(Counted) \in Nat
<1>1. Len(bags) \in Nat /\ DOMAIN bags = 1..Len(bags) /\ IsFiniteSet(DOMAIN bags)
      /\ \A k \in DOMAIN bags : bags[k] \in BagValues
    BY RowsOf
<1>2. \A k \in DOMAIN bags : /\ bags[k].earlyC \in Nat /\ bags[k].earlyW \in Nat /\ bags[k].weight \in Nat
                             /\ Or0(bags[k].count) \in Nat /\ bags[k].count \in Given
    BY <1>1, BagFields
<1>3. EarlyCount \in Nat
  <2>1. PICK f : f = [k \in DOMAIN bags |-> bags[k].earlyC]
      OBVIOUS
  <2>2. DOMAIN f = DOMAIN bags /\ \A k \in DOMAIN f : f[k] \in Nat
      BY <1>2, <2>1
  <2>3. SumOf(f) \in Nat
      BY <1>1, <2>2, SumRows
  <2> QED
      BY <2>1, <2>3 DEF EarlyCount
<1>4. EarlyGrams \in Nat
  <2>1. PICK f : f = [k \in DOMAIN bags |-> bags[k].earlyW]
      OBVIOUS
  <2>2. DOMAIN f = DOMAIN bags /\ \A k \in DOMAIN f : f[k] \in Nat
      BY <1>2, <2>1
  <2>3. SumOf(f) \in Nat
      BY <1>1, <2>2, SumRows
  <2> QED
      BY <2>1, <2>3 DEF EarlyGrams
<1>5. DOMAIN HeldCounts = DOMAIN bags /\ \A k \in DOMAIN HeldCounts : HeldCounts[k] \in Nat
    BY <1>2 DEF HeldCounts
<1>6. DOMAIN Weighed = DOMAIN bags /\ \A k \in DOMAIN Weighed : Weighed[k] \in Nat
    BY <1>2 DEF Weighed
<1>7. DOMAIN Unweighed = DOMAIN bags /\ \A k \in DOMAIN Unweighed : Unweighed[k] \in Nat
    BY <1>2 DEF Unweighed
<1>8. /\ DOMAIN Counted = {k \in DOMAIN bags : Weighed[k] > 0 /\ bags[k].count # None}
      /\ \A k \in DOMAIN Counted : Counted[k] = bags[k].count /\ Counted[k] \in Nat
    BY <1>2 DEF Counted, Given
<1>9. IsFiniteSet(DOMAIN Counted)
  <2>1. DOMAIN Counted \subseteq DOMAIN bags
      BY <1>8
  <2> QED
      BY <1>1, <2>1, FS_Subset
<1>10. SumOf(HeldCounts) \in Nat
    BY <1>1, <1>5, SumRows
<1>11. SumOf(Weighed) \in Nat
    BY <1>1, <1>6, SumRows
<1>12. SumOf(Unweighed) \in Nat
    BY <1>1, <1>7, SumRows
<1>13. SumOf(Counted) \in Nat
    BY <1>8, <1>9, SumRows
<1> QED
    BY <1>1, <1>3, <1>4, <1>6, <1>7, <1>8, <1>10, <1>11, <1>12, <1>13

(* What QC counts is shared out among the bags, none taking more than it    *)
(* had; all they take is what he counted.                                   *)
AskValues == [line : Given, typed : Given, legacy : Given]
LEMMA PlanFields ==
    ASSUME bags \in Seq(BagValues), \A k \in DOMAIN bags : Sound(bags[k]), ByThePiece \in BOOLEAN,
           NEW ask \in AskValues, StoneAskOK(ask), NEW plan, plan = PlanStoneReturn(ask)
    PROVE  /\ plan \in Seq(BagValues) /\ DOMAIN plan = DOMAIN bags
           /\ \A k \in DOMAIN bags :
                /\ Sound(plan[k])
                /\ plan[k].state = bags[k].state /\ plan[k].count = bags[k].count
                /\ plan[k].weight = bags[k].weight /\ plan[k].earlyW = bags[k].earlyW
                /\ plan[k].earlyC = bags[k].earlyC /\ plan[k].out = bags[k].out
                /\ IsHeld(bags[k]) /\ bags[k].count # None => plan[k].backC \in 0..bags[k].count
                /\ IsHeld(bags[k]) /\ bags[k].count = None => plan[k].backC = None
           /\ ask.typed # None =>
                SumFunctionOnSet([k \in DOMAIN bags |-> plan[k].backC], DOMAIN Counted) = ask.typed
<1>1. /\ Len(bags) \in Nat /\ DOMAIN bags = 1..Len(bags) /\ IsFiniteSet(DOMAIN bags)
      /\ \A k \in DOMAIN bags : bags[k] \in BagValues
      /\ DOMAIN Weighed = DOMAIN bags /\ \A k \in DOMAIN bags : Weighed[k] \in Nat
      /\ SumOf(Weighed) \in Nat
      /\ DOMAIN Unweighed = DOMAIN bags /\ \A k \in DOMAIN bags : Unweighed[k] \in Nat
      /\ SumOf(Unweighed) \in Nat
      /\ DOMAIN Counted = {k \in DOMAIN bags : Weighed[k] > 0 /\ bags[k].count # None}
      /\ \A k \in DOMAIN Counted : Counted[k] = bags[k].count /\ Counted[k] \in Nat
      /\ SumOf(Counted) \in Nat
    BY BagSums
<1>2. /\ ask.line \in Given /\ ask.typed \in Given /\ ask.legacy \in Given
      /\ Or0(ask.line) \in Nat /\ Or0(ask.typed) \in Nat /\ Or0(ask.legacy) \in Nat
    BY DEF AskValues, Given, Or0
<1>3. PICK grams : grams = FromTheLast(Weighed, Or0(ask.line))
    OBVIOUS
<1>4. DOMAIN grams = DOMAIN bags /\ \A k \in DOMAIN bags : grams[k] \in 0..Weighed[k]
  <2>1. PICK xs : xs = Weighed
      OBVIOUS
  <2>2. Len(bags) \in Nat
      BY <1>1
  <2>3. PICK n \in Nat : n = Len(bags)
      BY <2>2
  <2>4. PICK amount \in Nat : amount = Or0(ask.line)
      BY <1>1, <1>2
  <2>5. DOMAIN xs \subseteq 1..n /\ \A x \in DOMAIN xs : xs[x] \in Nat
      BY <1>1, <2>1, <2>3
  <2>6. grams = FromTheLast(xs, amount)
      BY <1>3, <2>1, <2>4
  <2>7. DOMAIN grams = DOMAIN xs /\ \A x \in DOMAIN xs : grams[x] \in 0..xs[x]
      BY <2>5, <2>6, FromTheLastGives
  <2> QED
      BY <1>1, <2>1, <2>7
<1>5. PICK legacy : legacy = FromTheLast(Unweighed, Or0(ask.legacy))
    OBVIOUS
<1>6. DOMAIN legacy = DOMAIN bags /\ \A k \in DOMAIN bags : legacy[k] \in 0..Unweighed[k]
  <2>1. PICK xs : xs = Unweighed
      OBVIOUS
  <2>2. Len(bags) \in Nat
      BY <1>1
  <2>3. PICK n \in Nat : n = Len(bags)
      BY <2>2
  <2>4. PICK amount \in Nat : amount = Or0(ask.legacy)
      BY <1>1, <1>2
  <2>5. DOMAIN xs \subseteq 1..n /\ \A x \in DOMAIN xs : xs[x] \in Nat
      BY <1>1, <2>1, <2>3
  <2>6. legacy = FromTheLast(xs, amount)
      BY <1>5, <2>1, <2>4
  <2>7. DOMAIN legacy = DOMAIN xs /\ \A x \in DOMAIN xs : legacy[x] \in 0..xs[x]
      BY <2>5, <2>6, FromTheLastGives
  <2> QED
      BY <1>1, <2>1, <2>7
<1>7. PICK typed : typed = SplitReturnedCount(Counted, grams, Or0(ask.typed))
    OBVIOUS
<1>8. ask.typed # None => /\ DOMAIN typed = DOMAIN Counted
                          /\ \A k \in DOMAIN Counted : typed[k] \in 0..bags[k].count
                          /\ SumOf(typed) = ask.typed
  <2> HAVE ask.typed # None
  <2>1. ask.typed <= SumOf(Counted) /\ Or0(ask.typed) = ask.typed
      BY DEF StoneAskOK, Or0
  <2>2. PICK xs : xs = Counted
      OBVIOUS
  <2>3. Len(bags) \in Nat
      BY <1>1
  <2>4. PICK n \in Nat : n = Len(bags)
      BY <2>3
  <2>5. PICK amount \in Nat : amount = ask.typed
      BY <1>1, <1>2, <2>1 DEF Given
  <2>6. DOMAIN xs \subseteq 1..n /\ (\A x \in DOMAIN xs : xs[x] \in Nat /\ grams[x] \in Nat) /\ amount <= SumOf(xs)
      BY <1>1, <1>4, <2>1, <2>2, <2>4, <2>5
  <2>7. typed = SplitReturnedCount(xs, grams, amount)
      BY <1>7, <2>1, <2>2, <2>5
  <2>8. /\ DOMAIN typed = DOMAIN xs /\ \A x \in DOMAIN xs : typed[x] \in 0..xs[x]
        /\ SumOf(typed) = amount
      BY <2>6, <2>7, SplitGives
  <2> QED
      BY <1>1, <2>2, <2>5, <2>8
<1>9. plan = [k \in DOMAIN bags |->
            IF ~IsHeld(bags[k]) THEN bags[k]
            ELSE IF Weighed[k] = 0 THEN TakeBack(bags[k], None, legacy[k])
            ELSE TakeBack(bags[k], grams[k],
                    IF ask.typed # None /\ bags[k].count # None THEN typed[k]
                    ELSE StoneReturnedCount(bags[k], grams[k]))]
    BY <1>3, <1>5, <1>7 DEF PlanStoneReturn
<1>10. ASSUME NEW k \in DOMAIN bags
       PROVE  /\ Sound(plan[k])
              /\ plan[k].state = bags[k].state /\ plan[k].count = bags[k].count
              /\ plan[k].weight = bags[k].weight /\ plan[k].earlyW = bags[k].earlyW
              /\ plan[k].earlyC = bags[k].earlyC /\ plan[k].out = bags[k].out
              /\ IsHeld(bags[k]) /\ bags[k].count # None => plan[k].backC \in 0..bags[k].count
              /\ IsHeld(bags[k]) /\ bags[k].count = None => plan[k].backC = None
              /\ ask.typed # None /\ k \in DOMAIN Counted => plan[k].backC = typed[k]
  <2>1. PICK b : b = bags[k]
      OBVIOUS
  <2>2. Sound(b) /\ b \in BagValues
      BY <1>1, <2>1
  <2>3. b.count \in Given /\ b.qty \in Nat /\ b.weight \in Nat /\ grams[k] \in Nat
      BY <1>1, <1>4, <2>2, BagFields
  <2>4. k \in DOMAIN Counted => IsHeld(b) /\ Weighed[k] # 0 /\ b.count # None
      BY <1>1, <2>1 DEF Weighed
  <2>5. CASE ~IsHeld(b)
    <3>1. plan[k] = b
        BY <1>9, <2>1, <2>5
    <3> QED
        BY <2>1, <2>2, <2>4, <2>5, <3>1
  <2>6. CASE IsHeld(b) /\ Weighed[k] = 0
    <3>1. plan[k] = TakeBack(b, None, legacy[k])
        BY <1>9, <2>1, <2>6
    <3>2. b.count # None /\ Unweighed[k] = b.count
      <4>1. b.weight = 0 /\ b.qty > 0
          BY <2>1, <2>2, <2>6 DEF Weighed, Sound, IsHeld
      <4>2. b.count # None
          BY <2>2, <2>3, <4>1 DEF Sound, None
      <4> QED
          BY <2>1, <2>6, <4>2 DEF Unweighed, Or0
    <3>3. legacy[k] \in 0..b.count /\ legacy[k] \in Given /\ None \in Given
        BY <1>6, <2>3, <3>2 DEF Given
    <3>4. plan[k] \in BagValues
        BY <2>2, <3>1, <3>3 DEF BagValues, TakeBack
    <3>5. /\ plan[k].state = b.state /\ plan[k].count = b.count /\ plan[k].weight = b.weight
          /\ plan[k].earlyW = b.earlyW /\ plan[k].earlyC = b.earlyC /\ plan[k].out = b.out
          /\ plan[k].qty = b.qty /\ plan[k].backC = legacy[k]
        BY <2>2, <3>1 DEF BagValues, TakeBack
    <3>6. Sound(plan[k])
        BY <2>2, <3>4, <3>5 DEF Sound
    <3> QED
        BY <2>1, <2>4, <2>6, <3>2, <3>3, <3>5, <3>6
  <2>7. CASE IsHeld(b) /\ Weighed[k] # 0
    <3>1. PICK back : back = IF ask.typed # None /\ b.count # None THEN typed[k]
                             ELSE StoneReturnedCount(b, grams[k])
        OBVIOUS
    <3>2. plan[k] = TakeBack(b, grams[k], back)
        BY <1>9, <2>1, <2>7, <3>1
    <3>3. StoneReturnedCount(b, grams[k]) \in Given
          /\ (b.count # None => StoneReturnedCount(b, grams[k]) \in 0..b.count)
          /\ (b.count = None => StoneReturnedCount(b, grams[k]) = None)
      <4>1. StoneReturnedCount(b, grams[k]) \in Given
            /\ (b.count # None => StoneReturnedCount(b, grams[k]) \in 0..b.count)
          BY <2>2, <2>3, CountGivenBack
      <4> QED
          BY <4>1 DEF StoneReturnedCount
    <3>4. b.count # None => k \in DOMAIN Counted
        BY <1>1, <2>1, <2>7
    <3>5. back \in Given /\ (b.count # None => back \in 0..b.count) /\ (b.count = None => back = None)
          /\ (ask.typed # None /\ b.count # None => back = typed[k])
      <4>1. CASE ask.typed # None /\ b.count # None
          BY <1>8, <2>1, <2>3, <3>1, <3>4, <4>1 DEF Given
      <4>2. CASE ~(ask.typed # None /\ b.count # None)
          BY <3>1, <3>3, <4>2
      <4> QED
          BY <4>1, <4>2
    <3>6. grams[k] \in Given
        BY <2>3 DEF Given
    <3>7. plan[k] \in BagValues
        BY <2>2, <3>2, <3>5, <3>6 DEF BagValues, TakeBack
    <3>8. /\ plan[k].state = b.state /\ plan[k].count = b.count /\ plan[k].weight = b.weight
          /\ plan[k].earlyW = b.earlyW /\ plan[k].earlyC = b.earlyC /\ plan[k].out = b.out
          /\ plan[k].qty = b.qty /\ plan[k].backC = back
        BY <2>2, <3>2 DEF BagValues, TakeBack
    <3>9. Sound(plan[k])
        BY <2>2, <3>7, <3>8 DEF Sound
    <3> QED
        BY <2>1, <2>4, <3>5, <3>8, <3>9
  <2> QED
      BY <2>5, <2>6, <2>7
<1>11. plan \in Seq(BagValues) /\ DOMAIN plan = DOMAIN bags
  <2>1. DOMAIN plan = DOMAIN bags /\ plan = [k \in DOMAIN bags |-> plan[k]]
      BY <1>9
  <2>2. \A k \in DOMAIN bags : plan[k] \in BagValues
      BY <1>10 DEF Sound
  <2> QED
      BY <2>1, <2>2, RowsRewritten
<1>12. ASSUME ask.typed # None
       PROVE  SumFunctionOnSet([k \in DOMAIN bags |-> plan[k].backC], DOMAIN Counted) = ask.typed
  <2>1. PICK f : f = [k \in DOMAIN bags |-> plan[k].backC]
      OBVIOUS
  <2>2. \A k \in DOMAIN Counted : typed[k] = f[k]
      BY <1>1, <1>10, <1>12, <2>1
  <2>3. IsFiniteSet(DOMAIN Counted)
    <3>1. DOMAIN Counted \subseteq DOMAIN bags
        BY <1>1
    <3> QED
        BY <1>1, <3>1, FS_Subset
  <2>4. SumFunctionOnSet(typed, DOMAIN Counted) = SumFunctionOnSet(f, DOMAIN Counted)
      BY <2>2, <2>3, SumSame
  <2>5. SumFunctionOnSet(typed, DOMAIN Counted) = ask.typed
      BY <1>8, <1>12 DEF SumOf
  <2> QED
      BY <2>1, <2>4, <2>5
<1> QED
    BY <1>10, <1>11, <1>12

(* The stones handed to the setter, by number and by weight.                *)
LEMMA EntryFields ==
    ASSUME NEW e, e \in EntryValues
    PROVE  /\ e.stage \in Stages /\ e.phase \in {"working", "submitted", "returned", "confirmed"}
           /\ e.handed \in Given /\ e.metal \in Nat /\ e.stones \in Given /\ e.stoneGrams \in Given
           /\ e.more \in Nat /\ e.moreGrams \in Given /\ e.asked \in BOOLEAN /\ e.good \in BOOLEAN
           /\ e.returned \in Given /\ e.btp \in Nat /\ e.silver \in Nat /\ e.s999 \in Nat
           /\ e.set \in Given /\ e.setGrams \in Given /\ e.back \in Given /\ e.typed \in Given
           /\ e.revisions \in Nat
BY DEF EntryValues

LEMMA GivenOrNothing ==
    ASSUME NEW x \in Given
    PROVE  /\ Or0(x) \in Nat
           /\ x # None => x \in Nat /\ Or0(x) = x
           /\ x = None => Or0(x) = 0
BY DEF Given, Or0

LEMMA HandedFields ==
    ASSUME bags \in Seq(BagValues), NEW e \in EntryValues
    PROVE  /\ StonesHanded(e) \in Given /\ StoneWeightHanded(e) \in Given
           /\ GivenCount(e) \in Int
           /\ StonesHanded(e) # None => StonesHanded(e) = NonNegative(GivenCount(e))
           /\ StonesHanded(e) = None => GivenCount(e) = 0 - EarlyCount
<1>1. EarlyCount \in Nat /\ EarlyGrams \in Nat
    BY BagSums
<1>2. /\ e.stones \in Given /\ e.more \in Nat /\ e.stoneGrams \in Given /\ e.moreGrams \in Given
      /\ Or0(e.stones) \in Nat /\ Or0(e.stoneGrams) \in Nat /\ Or0(e.moreGrams) \in Nat
    BY EntryFields, GivenOrNothing
<1>3. GivenCount(e) \in Int
    BY <1>1, <1>2 DEF GivenCount
<1>4. /\ StonesHanded(e) \in Given
      /\ StonesHanded(e) # None => StonesHanded(e) = NonNegative(GivenCount(e))
    BY <1>1, <1>2 DEF StonesHanded, GivenCount, NonNegative, Given
<1>5. StoneWeightHanded(e) \in Given
    BY <1>1, <1>2 DEF StoneWeightHanded, NonNegative, Given
<1>6. StonesHanded(e) = None => GivenCount(e) = 0 - EarlyCount
  <2> HAVE StonesHanded(e) = None
  <2>1. e.stones = None /\ e.more = 0
      BY <1>1, <1>2 DEF StonesHanded, NonNegative, None
  <2> QED
      BY <1>1, <2>1 DEF GivenCount, Or0
<1> QED
    BY <1>3, <1>4, <1>5, <1>6

(* What QC writes down of the stones: those the bags told of.               *)
Told(plan) == {k \in DOMAIN bags : IsHeld(bags[k]) /\ plan[k].backC # None}
ToldBack(plan) == [k \in DOMAIN bags |-> IF k \in Told(plan) THEN plan[k].backC ELSE 0]
LEMMA FiguresFields ==
    ASSUME bags \in Seq(BagValues), \A k \in DOMAIN bags : Sound(bags[k]), ByThePiece \in BOOLEAN,
           Gram3d \in Given, NEW e \in EntryValues, NEW ask \in AskValues, StoneAskOK(ask),
           NEW typed, typed[1] \in Given, typed[2] \in Given,
           NEW plan, plan = PlanStoneReturn(ask), NEW f, f = StoneFigures(e, ask, typed, plan)
    PROVE  /\ f.back \in Given /\ f.set \in Given /\ f.setGrams \in Given
           /\ Told(plan) # {} => f.back = SumOf(ToldBack(plan))
           /\ Told(plan) = {} => f.back = ask.legacy
<1> DEFINE told == Told(plan)
           backs == ToldBack(plan)
<1>0. /\ told = {k \in DOMAIN bags : IsHeld(bags[k]) /\ plan[k].backC # None}
      /\ backs = [k \in DOMAIN bags |-> IF k \in told THEN plan[k].backC ELSE 0]
    BY DEF Told, ToldBack
<1> HIDE DEF told, backs
<1>1. /\ IsFiniteSet(DOMAIN bags) /\ DOMAIN plan = DOMAIN bags /\ plan \in Seq(BagValues)
      /\ \A k \in DOMAIN bags : bags[k] \in BagValues
    BY BagSums, PlanFields
<1>2. \A k \in DOMAIN bags : /\ plan[k].backC \in Given /\ Or0(plan[k].backW) \in Nat
  <2> SUFFICES ASSUME NEW k \in DOMAIN bags
               PROVE  plan[k].backC \in Given /\ Or0(plan[k].backW) \in Nat
      OBVIOUS
  <2>1. plan[k] \in BagValues
      BY <1>1, RowsOf
  <2> QED
      BY <2>1, BagFields
<1>3. ask.legacy \in Given
    BY DEF AskValues
<1>4. SumOf(backs) \in Nat
  <2>1. DOMAIN backs = DOMAIN bags /\ \A k \in DOMAIN backs : backs[k] \in Nat
      BY <1>0, <1>2, GivenOrNothing
  <2> QED
      BY <1>1, <2>1, SumRows
<1>5. PICK back : back = IF told # {} THEN SumOf(backs) ELSE ask.legacy
    OBVIOUS
<1>6. back \in Given /\ Or0(back) \in Nat
  <2>1. back \in Given
      BY <1>3, <1>4, <1>5 DEF Given
  <2> QED
      BY <2>1, GivenOrNothing
<1>7. StonesHanded(e) \in Given /\ StoneWeightHanded(e) \in Given
    BY HandedFields
<1>8. PICK set : set = IF typed[1] # None THEN typed[1]
                       ELSE IF StonesHanded(e) = None THEN None ELSE NonNegative(StonesHanded(e) - Or0(back))
    OBVIOUS
<1>9. set \in Given
  <2>1. CASE typed[1] # None
      BY <1>8, <2>1
  <2>2. CASE typed[1] = None /\ StonesHanded(e) = None
      BY <1>8, <2>2 DEF Given
  <2>3. CASE typed[1] = None /\ StonesHanded(e) # None
    <3>1. StonesHanded(e) \in Nat
        BY <1>7, <2>3 DEF Given
    <3>2. NonNegative(StonesHanded(e) - Or0(back)) \in Nat
        BY <1>6, <3>1 DEF NonNegative
    <3> QED
        BY <1>8, <2>3, <3>2 DEF Given
  <2> QED
      BY <2>1, <2>2, <2>3
<1>10. PICK crumbs : crumbs = [k \in DOMAIN bags |->
            IF k \in {j \in DOMAIN bags : IsHeld(bags[j])} THEN Or0(plan[k].backW) ELSE 0]
    OBVIOUS
<1>11. SumOf(crumbs) \in Nat
  <2>1. DOMAIN crumbs = DOMAIN bags /\ \A k \in DOMAIN crumbs : crumbs[k] \in Nat
      BY <1>2, <1>10
  <2> QED
      BY <1>1, <2>1, SumRows
<1>12. PICK prorated : prorated =
            IF StoneWeightHanded(e) = None THEN None
            ELSE IF {k \in DOMAIN bags : IsHeld(bags[k])} # {}
                    /\ \A k \in {j \in DOMAIN bags : IsHeld(bags[j])} : bags[k].weight > 0
            THEN NonNegative(StoneWeightHanded(e) - SumOf(crumbs))
            ELSE IF StonesHanded(e) # None /\ StonesHanded(e) > 0 /\ set # None
            THEN HalfUp(StoneWeightHanded(e) * set, StonesHanded(e))
            ELSE StoneWeightHanded(e)
    OBVIOUS
<1>13. prorated \in Given
  <2>1. CASE StoneWeightHanded(e) = None
      BY <1>12, <2>1 DEF Given
  <2>2. CASE StoneWeightHanded(e) # None
    <3>1. StoneWeightHanded(e) \in Nat
        BY <1>7, <2>2 DEF Given
    <3>2. NonNegative(StoneWeightHanded(e) - SumOf(crumbs)) \in Nat
        BY <1>11, <3>1 DEF NonNegative
    <3>3. ASSUME StonesHanded(e) # None, StonesHanded(e) > 0, set # None
          PROVE  HalfUp(StoneWeightHanded(e) * set, StonesHanded(e)) \in Nat
      <4>1. StonesHanded(e) \in Nat /\ set \in Nat
          BY <1>7, <1>9, <3>3 DEF Given
      <4>2. PICK a \in Nat : a = StoneWeightHanded(e) * set
          BY <3>1, <4>1
      <4>3. PICK n \in Nat : n = StonesHanded(e) /\ n > 0
          BY <3>3, <4>1
      <4>4. HalfUp(a, n) \in Nat
          BY <4>3, HalfUpNat
      <4> QED
          BY <4>2, <4>3, <4>4
    <3> QED
        BY <1>12, <2>2, <3>1, <3>2, <3>3 DEF Given
  <2> QED
      BY <2>1, <2>2
<1>14. PICK setGrams : setGrams = IF typed[2] # None THEN typed[2]
                                  ELSE IF Gram3d # None THEN Gram3d ELSE prorated
    OBVIOUS
<1>15. setGrams \in Given
    BY <1>13, <1>14
<1>16. f = [back |-> back, set |-> set, setGrams |-> setGrams]
  <2>1. told = {k \in {j \in DOMAIN bags : IsHeld(bags[j])} : plan[k].backC # None}
      BY <1>0
  <2> QED
      BY <1>0, <1>5, <1>8, <1>10, <1>12, <1>14, <2>1 DEF StoneFigures, SumWhere
<1> QED
    BY <1>5, <1>6, <1>9, <1>15, <1>16 DEF told, backs

(* What leaves the stock of a bag.                                         *)
LEMMA UsedOfBag ==
    ASSUME ByThePiece \in BOOLEAN, NEW b, Sound(b), b.state = "HELD", NEW back \in Nat, NEW grams \in Given
    PROVE  /\ StoneUsedQty(b, back, grams) \in Nat
           /\ ByThePiece /\ ~(b.weight > 0 /\ grams # None /\ grams >= b.weight) =>
                b.count \in Nat /\ StoneUsedQty(b, back, grams) = b.count - Lesser(back, b.count)
<1> DEFINE whole == b.weight > 0 /\ grams # None /\ grams >= b.weight
           byCount == HalfUp(b.qty * (b.count - Lesser(Or0(back), b.count)), b.count)
           byWeight == HalfUp(b.qty * NonNegative(b.weight - grams), b.weight)
<1>1. /\ b.qty \in Nat /\ b.count \in Given /\ b.weight \in Nat /\ b.qty > 0
      /\ ByThePiece => b.count = b.qty
    BY BagFields DEF Sound
<1>2. back # None /\ Or0(back) = back
    BY DEF None, Or0
<1>3. ASSUME b.count \in Nat, b.count > 0 PROVE byCount \in Nat
  <2>1. b.count - Lesser(Or0(back), b.count) \in Nat
      BY <1>2, <1>3 DEF Lesser
  <2>2. PICK a \in Nat : a = b.qty * (b.count - Lesser(Or0(back), b.count))
      BY <1>1, <2>1
  <2>3. PICK n \in Nat : n = b.count /\ n > 0
      BY <1>3
  <2>4. HalfUp(a, n) \in Nat
      BY <2>3, HalfUpNat
  <2> QED
      BY <2>2, <2>3, <2>4
<1>4. ASSUME b.weight > 0, grams # None PROVE byWeight \in Nat
  <2>1. NonNegative(b.weight - grams) \in Nat
      BY <1>1, <1>4 DEF NonNegative, Given
  <2>2. PICK a \in Nat : a = b.qty * NonNegative(b.weight - grams)
      BY <1>1, <2>1
  <2>3. PICK n \in Nat : n = b.weight /\ n > 0
      BY <1>1, <1>4
  <2>4. HalfUp(a, n) \in Nat
      BY <2>3, HalfUpNat
  <2> QED
      BY <2>2, <2>3, <2>4
<1>5. ByThePiece => byCount = b.count - Lesser(back, b.count) /\ b.count \in Nat /\ b.count > 0
  <2> HAVE ByThePiece
  <2>1. b.count \in Nat /\ b.count > 0
      BY <1>1
  <2>2. PICK n \in Nat : n = b.count /\ n > 0
      BY <2>1
  <2>3. PICK k \in Nat : k = n - Lesser(back, n)
      BY <2>2 DEF Lesser
  <2>4. HalfUp(k * n, n) = k
      BY <2>2, HalfUpWhole
  <2>5. n * k = k * n
      OBVIOUS
  <2>6. byCount = HalfUp(n * k, n)
      BY <1>1, <1>2, <2>2, <2>3
  <2> QED
      BY <2>1, <2>2, <2>3, <2>4, <2>5, <2>6
<1>6. StoneUsedQty(b, back, grams) =
        NonNegative(IF ByThePiece /\ ~whole /\ b.count # None /\ back # None THEN byCount
                    ELSE IF b.weight > 0 /\ grams # None THEN byWeight
                    ELSE IF Or0(b.count) > 0 THEN byCount ELSE b.qty)
    BY DEF StoneUsedQty
<1>7. ~(b.count = None) /\ Or0(b.count) > 0 => b.count \in Nat /\ b.count > 0
    BY <1>1, GivenOrNothing
<1>8. b.count = None => ~(Or0(b.count) > 0)
    BY DEF Or0
<1> HIDE DEF byCount, byWeight
<1>9. StoneUsedQty(b, back, grams) \in Nat
    BY <1>1, <1>3, <1>4, <1>5, <1>6, <1>7, <1>8 DEF NonNegative
<1>10. ByThePiece /\ ~whole => StoneUsedQty(b, back, grams) = b.count - Lesser(back, b.count)
  <2> HAVE ByThePiece /\ ~whole
  <2>1. b.count # None
      BY <1>5 DEF None
  <2>2. StoneUsedQty(b, back, grams) = NonNegative(byCount)
      BY <1>2, <1>6, <2>1
  <2> QED
      BY <1>5, <2>2 DEF NonNegative, Lesser
<1> QED
    BY <1>5, <1>9, <1>10

LEMMA ConsumedFields ==
    ASSUME bags \in Seq(BagValues), \A k \in DOMAIN bags : Sound(bags[k]), ByThePiece \in BOOLEAN,
           NEW e \in EntryValues, NEW plan, plan = ConsumeStoneHolds(e)
    PROVE  /\ plan \in Seq(BagValues) /\ DOMAIN plan = DOMAIN bags
           /\ \A k \in DOMAIN bags :
                /\ Sound(plan[k])
                /\ plan[k].count = bags[k].count /\ plan[k].weight = bags[k].weight
                /\ plan[k].earlyW = bags[k].earlyW /\ plan[k].earlyC = bags[k].earlyC
                /\ plan[k].backW = bags[k].backW
           /\ ByThePiece /\ ~CameBackWhole /\ InHisBags(e) /\ BackInBags(e) /\ GivenCount(e) >= 0 =>
                SumOf([k \in DOMAIN bags |-> plan[k].out]) = GivenCount(e) - Or0(e.back)
<1> DEFINE old == \A k \in DOMAIN bags : IsHeld(bags[k]) => bags[k].backW = None /\ bags[k].backC = None
<1>1. /\ Len(bags) \in Nat /\ DOMAIN bags = 1..Len(bags) /\ IsFiniteSet(DOMAIN bags)
      /\ \A k \in DOMAIN bags : bags[k] \in BagValues
    BY BagSums
<1>2. \A k \in DOMAIN bags : /\ bags[k].backW \in Given /\ Or0(bags[k].backC) \in Nat
                             /\ Or0(bags[k].count) \in Nat /\ bags[k].out \in Nat
    BY <1>1, BagFields
<1>3. Or0(e.back) \in Nat
    BY EntryFields, GivenOrNothing
<1>4. PICK counts : counts = [k \in DOMAIN bags |-> IF IsHeld(bags[k]) THEN Or0(bags[k].count) ELSE 0]
    OBVIOUS
<1>5. DOMAIN counts = DOMAIN bags /\ \A k \in DOMAIN bags : counts[k] \in Nat
    BY <1>2, <1>4
<1>6. PICK split : split = FromTheLast(counts, Or0(e.back))
    OBVIOUS
<1>7. /\ DOMAIN split = DOMAIN bags /\ \A k \in DOMAIN bags : split[k] \in 0..counts[k]
      /\ SumOf(split) = Lesser(SumOf(counts), Or0(e.back))
  <2>1. Len(bags) \in Nat
      BY <1>1
  <2>2. PICK n \in Nat : n = Len(bags)
      BY <2>1
  <2>3. PICK amount \in Nat : amount = Or0(e.back)
      BY <1>3
  <2>4. DOMAIN counts \subseteq 1..n /\ \A x \in DOMAIN counts : counts[x] \in Nat
      BY <1>1, <1>5, <2>2
  <2>5. split = FromTheLast(counts, amount)
      BY <1>6, <2>3
  <2>6. /\ DOMAIN split = DOMAIN counts /\ \A x \in DOMAIN counts : split[x] \in 0..counts[x]
        /\ SumOf(split) = Lesser(SumOf(counts), amount)
      BY <2>4, <2>5, FromTheLastGives
  <2> QED
      BY <1>5, <2>3, <2>6
<1>8. PICK back : back = [k \in DOMAIN bags |-> IF old THEN split[k] ELSE Or0(bags[k].backC)]
    OBVIOUS
<1>9. PICK grams : grams = [k \in DOMAIN bags |-> IF old THEN None ELSE bags[k].backW]
    OBVIOUS
<1>10. DOMAIN back = DOMAIN bags
       /\ \A k \in DOMAIN bags : back[k] \in Nat /\ grams[k] \in Given
    BY <1>2, <1>5, <1>7, <1>8, <1>9 DEF Given
<1>11. PICK used : used = [k \in DOMAIN bags |-> StoneUsedQty(bags[k], back[k], grams[k])]
    BY Zenon
<1>12. plan = [k \in DOMAIN bags |->
            IF IsHeld(bags[k]) THEN Consume(bags[k], used[k]) ELSE bags[k]]
  <2>1. \A k \in DOMAIN bags : used[k] = IF old THEN StoneUsedQty(bags[k], split[k], None)
                                         ELSE StoneUsedQty(bags[k], Or0(bags[k].backC), bags[k].backW)
      BY <1>8, <1>9, <1>11
  <2> QED
      BY <1>4, <1>6, <2>1 DEF ConsumeStoneHolds
<1> HIDE DEF old
<1>13. ASSUME NEW k \in DOMAIN bags
       PROVE  /\ Sound(plan[k])
              /\ plan[k].count = bags[k].count /\ plan[k].weight = bags[k].weight
              /\ plan[k].earlyW = bags[k].earlyW /\ plan[k].earlyC = bags[k].earlyC
              /\ plan[k].backW = bags[k].backW /\ plan[k].out \in Nat
              /\ ~IsHeld(bags[k]) => plan[k].out = bags[k].out
              /\ IsHeld(bags[k]) /\ bags[k].out = 0 => plan[k].out = used[k]
  <2>1. PICK b : b = bags[k]
      OBVIOUS
  <2>2. Sound(b) /\ b \in BagValues /\ b.out \in Nat
      BY <1>1, <1>2, <2>1
  <2>3. CASE ~IsHeld(b)
    <3>1. plan[k] = b
        BY <1>12, <2>1, <2>3
    <3> QED
        BY <2>1, <2>2, <2>3, <3>1
  <2>4. CASE IsHeld(b) /\ used[k] = 0
    <3>1. plan[k] = [b EXCEPT !.state = "RELEASED"]
      <4>1. plan[k] = Consume(b, used[k])
          BY <1>12, <2>1, <2>4
      <4> QED
          BY <2>4, <4>1 DEF Consume
    <3>2. /\ plan[k] \in BagValues /\ plan[k].state = "RELEASED"
          /\ plan[k].count = b.count /\ plan[k].weight = b.weight /\ plan[k].qty = b.qty
          /\ plan[k].earlyW = b.earlyW /\ plan[k].earlyC = b.earlyC /\ plan[k].backW = b.backW
          /\ plan[k].out = b.out
        BY <2>2, <3>1 DEF BagValues
    <3>3. Sound(plan[k])
        BY <2>2, <3>2 DEF Sound
    <3> QED
        BY <2>1, <2>2, <2>4, <3>2, <3>3
  <2>5. CASE IsHeld(b) /\ used[k] # 0
    <3>1. plan[k] = [b EXCEPT !.state = "CONSUMED", !.out = used[k]]
      <4>1. plan[k] = Consume(b, used[k])
          BY <1>12, <2>1, <2>5
      <4> QED
          BY <2>5, <4>1 DEF Consume
    <3>2. used[k] \in Nat
      <4>1. used[k] = StoneUsedQty(b, back[k], grams[k]) /\ back[k] \in Nat /\ grams[k] \in Given
          BY <1>10, <1>11, <2>1
      <4>2. b.state = "HELD"
          BY <2>5 DEF IsHeld
      <4> QED
          BY <2>2, <4>1, <4>2, UsedOfBag
    <3>3. /\ plan[k] \in BagValues /\ plan[k].state = "CONSUMED"
          /\ plan[k].count = b.count /\ plan[k].weight = b.weight /\ plan[k].qty = b.qty
          /\ plan[k].earlyW = b.earlyW /\ plan[k].earlyC = b.earlyC /\ plan[k].backW = b.backW
          /\ plan[k].out = used[k]
        BY <2>2, <3>1, <3>2 DEF BagValues
    <3>4. Sound(plan[k])
        BY <2>2, <3>3 DEF Sound
    <3> QED
        BY <2>1, <2>5, <3>2, <3>3, <3>4
  <2> QED
      BY <2>3, <2>4, <2>5
<1>14. plan \in Seq(BagValues) /\ DOMAIN plan = DOMAIN bags
  <2>1. DOMAIN plan = DOMAIN bags /\ plan = [k \in DOMAIN bags |-> plan[k]]
      BY <1>12
  <2>2. \A k \in DOMAIN bags : plan[k] \in BagValues
      BY <1>13 DEF Sound
  <2> QED
      BY <2>1, <2>2, RowsRewritten
<1>15. ASSUME ByThePiece, ~CameBackWhole, InHisBags(e), BackInBags(e), GivenCount(e) >= 0
       PROVE  SumOf([k \in DOMAIN bags |-> plan[k].out]) = GivenCount(e) - Or0(e.back)
  <2>1. PICK outs : outs = [k \in DOMAIN bags |-> plan[k].out]
      OBVIOUS
  <2>2. PICK backs : backs = [k \in DOMAIN bags |-> IF IsHeld(bags[k]) THEN back[k] ELSE 0]
      OBVIOUS
  <2>3. counts = HeldCounts /\ SumOf(counts) = GivenCount(e)
      BY <1>4, <1>15 DEF HeldCounts, InHisBags
  <2>4. ASSUME NEW k \in DOMAIN bags, IsHeld(bags[k]) PROVE back[k] \in 0..counts[k]
    <3>1. CASE old
        BY <1>7, <1>8, <3>1
    <3>2. CASE ~old
      <4>1. ~Unseen
          BY <3>2 DEF old, Unseen
      <4>2. bags[k].backC \in 0..bags[k].count
          BY <1>15, <2>4, <4>1 DEF BackInBags
      <4>3. bags[k].count = bags[k].qty /\ bags[k].qty \in Nat
          BY <1>1, <1>15, BagFields DEF Sound
      <4>4. counts[k] = bags[k].count
          BY <1>4, <2>4, <4>3 DEF Or0, None
      <4>5. back[k] = bags[k].backC
          BY <1>8, <3>2, <4>2, <4>3 DEF Or0, None
      <4> QED
          BY <4>2, <4>4, <4>5
    <3> QED
        BY <3>1, <3>2
  <2>5. ASSUME NEW k \in DOMAIN bags
        PROVE  outs[k] \in Nat /\ backs[k] \in Nat /\ counts[k] = outs[k] + backs[k]
    <3>1. bags[k].out = 0
        BY <1>15 DEF InHisBags
    <3>2. CASE ~IsHeld(bags[k])
        BY <1>4, <1>13, <2>1, <2>2, <3>1, <3>2
    <3>3. CASE IsHeld(bags[k])
      <4>1. PICK b : b = bags[k]
          OBVIOUS
      <4>2. Sound(b) /\ b.state = "HELD"
          BY <3>3, <4>1 DEF IsHeld
      <4>3. ~(b.weight > 0 /\ grams[k] # None /\ grams[k] >= b.weight)
          BY <1>9, <1>15, <4>1 DEF CameBackWhole
      <4>4. PICK r, g : r = back[k] /\ g = grams[k]
          OBVIOUS
      <4>5. r \in Nat /\ g \in Given /\ ~(b.weight > 0 /\ g # None /\ g >= b.weight)
          BY <1>10, <4>3, <4>4
      <4>6. b.count \in Nat /\ StoneUsedQty(b, r, g) = b.count - Lesser(r, b.count)
          BY <1>15, <4>2, <4>5, UsedOfBag
      <4>7. outs[k] = b.count - Lesser(back[k], b.count)
          BY <1>11, <1>13, <2>1, <3>1, <3>3, <4>1, <4>4, <4>6
      <4>8. counts[k] = b.count
          BY <1>4, <3>3, <4>1, <4>6 DEF Or0, None
      <4>9. back[k] \in 0..counts[k] /\ backs[k] = back[k]
          BY <2>2, <2>4, <3>3
      <4> QED
          BY <4>6, <4>7, <4>8, <4>9 DEF Lesser
    <3> QED
        BY <3>2, <3>3
  <2>6. DOMAIN outs = DOMAIN bags /\ DOMAIN backs = DOMAIN bags
      BY <2>1, <2>2
  <2>7. \A k \in DOMAIN outs : outs[k] \in Int /\ backs[k] \in Int /\ counts[k] = outs[k] + backs[k]
      BY <2>5, <2>6
  <2>8. SumOf(counts) = SumOf(outs) + SumOf(backs)
      BY <1>1, <1>5, <2>6, <2>7, SumRowsBoth
  <2>9. SumOf(backs) = Or0(e.back)
    <3>1. CASE old
      <4>1. Or0(e.back) <= GivenCount(e)
        <5>1. Unseen
            BY <3>1 DEF old, Unseen
        <5>2. CASE Or0(e.back) <= GivenCount(e)
            BY <5>2
        <5>3. CASE (\A k \in DOMAIN bags : IsHeld(bags[k]) => bags[k].backC \in 0..bags[k].count)
                   /\ Or0(e.back) = SumOf(HeldBack)
          <6>1. \A k \in DOMAIN bags : ~IsHeld(bags[k])
              BY <5>1, <5>3 DEF Unseen, None
          <6>2. DOMAIN HeldBack = DOMAIN bags /\ \A k \in DOMAIN HeldBack : HeldBack[k] = 0
              BY <6>1 DEF HeldBack
          <6>3. SumOf(HeldBack) = 0
              BY <1>1, <6>2, SumRows
          <6> QED
              BY <1>15, <5>3, <6>3
        <5> QED
            BY <1>15, <5>2, <5>3 DEF BackInBags
      <4>2. SumOf(split) = Or0(e.back)
        <5>1. GivenCount(e) \in Int
            BY HandedFields
        <5> QED
            BY <1>3, <1>7, <2>3, <4>1, <5>1 DEF Lesser
      <4>3. \A k \in DOMAIN bags : split[k] = backs[k]
        <5> SUFFICES ASSUME NEW k \in DOMAIN bags PROVE split[k] = backs[k]
            OBVIOUS
        <5>1. CASE IsHeld(bags[k])
            BY <1>8, <2>2, <3>1, <5>1
        <5>2. CASE ~IsHeld(bags[k])
          <6>1. counts[k] = 0 /\ split[k] \in 0..counts[k] /\ backs[k] = 0
              BY <1>4, <1>7, <2>2, <5>2
          <6> QED
              BY <6>1
        <5> QED
            BY <5>1, <5>2
      <4>4. SumOf(split) = SumOf(backs)
          BY <1>1, <1>7, <2>6, <4>3, SumRowsSame
      <4> QED
          BY <4>2, <4>4
    <3>2. CASE ~old
      <4>1. Or0(e.back) = SumOf(HeldBack)
          BY <1>15, <3>2 DEF BackInBags, Unseen, old
      <4>2. HeldBack = backs
          BY <1>8, <2>2, <3>2 DEF HeldBack
      <4> QED
          BY <4>1, <4>2
    <3> QED
        BY <3>1, <3>2
  <2>10. SumOf(outs) \in Int
      BY <1>1, <2>6, <2>7, SumRows
  <2> QED
      BY <1>3, <2>1, <2>3, <2>8, <2>9, <2>10
<1> QED
    BY <1>13, <1>14, <1>15

-----------------------------------------------------------------------------
(* The last entry, and what changes when it does.                          *)
LEMMA OrderFields ==
    ASSUME WeightsTypeOK
    PROVE  /\ ByThePiece \in BOOLEAN /\ Gram3d \in Given
           /\ order.route \in Seq(Stages) /\ Len(order.route) \in Nat /\ DOMAIN order.route = 1..Len(order.route)
           /\ \A j \in DOMAIN order.route :
                /\ order.route[j] = "FILING" => j = 1
                /\ \A i \in 1..(j - 1) : order.route[i] # order.route[j]
           /\ order.blank[1] \in Nat /\ order.blank[2] \in Nat
<1>1. order.stones \in Stones /\ order.blank \in Blanks /\ order.route \in Routes \cup {OldRoute, FiledRoute}
    BY DEF WeightsTypeOK
<1>2. ByThePiece \in BOOLEAN /\ Gram3d \in Given
    BY <1>1, TypedAssumption DEF ByThePiece, Gram3d, Given
<1>3. order.blank[1] \in Nat /\ order.blank[2] \in Nat
    BY <1>1, BlanksAssumption
<1>4. /\ order.route \in Seq(Stages)
      /\ \A j \in DOMAIN order.route :
            /\ order.route[j] = "FILING" => j = 1
            /\ \A i \in 1..(j - 1) : order.route[i] # order.route[j]
    BY <1>1, CourseInOrder
<1>5. Len(order.route) \in Nat /\ DOMAIN order.route = 1..Len(order.route)
    BY <1>4, RowsOf
<1> QED
    BY <1>2, <1>3, <1>4, <1>5

LEMMA LastFields ==
    ASSUME WeightsTypeOK, EntriesSound
    PROVE  /\ entries \in Seq(EntryValues) /\ Len(entries) \in Nat /\ DOMAIN entries = 1..Len(entries)
           /\ IsFiniteSet(DOMAIN entries) /\ Len(entries) <= Len(order.route)
           /\ \A i \in DOMAIN entries : entries[i] \in EntryValues
           /\ entries # <<>> <=> Len(entries) > 0
           /\ entries # <<>> => /\ Len(entries) \in DOMAIN entries /\ Last = entries[Len(entries)]
                                /\ Last \in EntryValues /\ Plain(Last) /\ Last.stage = order.route[Len(entries)]
<1>1. entries \in Seq(EntryValues) /\ Len(entries) <= Len(order.route)
    BY DEF WeightsTypeOK
<1>2. /\ Len(entries) \in Nat /\ DOMAIN entries = 1..Len(entries) /\ IsFiniteSet(DOMAIN entries)
      /\ \A i \in DOMAIN entries : entries[i] \in EntryValues
      /\ entries # <<>> <=> Len(entries) > 0
      /\ entries # <<>> => Len(entries) \in DOMAIN entries
    BY <1>1, RowsOf
<1>3. Last = entries[Len(entries)]
    BY DEF Last
<1> QED
    BY <1>1, <1>2, <1>3 DEF EntriesSound

(* No stage comes twice.                                                   *)
LEMMA StagesDiffer ==
    ASSUME WeightsTypeOK, EntriesSound, NEW i \in DOMAIN entries, NEW j \in DOMAIN entries, i # j
    PROVE  entries[i].stage # entries[j].stage
<1>1. /\ i \in 1..Len(entries) /\ j \in 1..Len(entries) /\ Len(entries) \in Nat /\ Len(order.route) \in Nat
      /\ Len(entries) <= Len(order.route) /\ DOMAIN order.route = 1..Len(order.route)
      /\ \A b \in DOMAIN order.route : \A a \in 1..(b - 1) : order.route[a] # order.route[b]
    BY LastFields, OrderFields
<1>2. entries[i].stage = order.route[i] /\ entries[j].stage = order.route[j]
    BY DEF EntriesSound
<1>3. i \in DOMAIN order.route /\ j \in DOMAIN order.route
    BY <1>1
<1>4. i \in 1..(j - 1) \/ j \in 1..(i - 1)
    BY <1>1
<1> QED
    BY <1>1, <1>2, <1>3, <1>4

LEMMA LastReplaced ==
    ASSUME WeightsTypeOK, EntriesSound, entries # <<>>, order' = order, NEW e \in EntryValues, Update(e),
           e.stage = Last.stage, Plain(e), SilverIn(e) = SilverIn(Last) \/ Len(entries) = 1
    PROVE  /\ entries' \in Seq(EntryValues) /\ Len(entries') = Len(entries) /\ DOMAIN entries' = DOMAIN entries
           /\ entries'[Len(entries)] = e /\ Last' = e
           /\ \A i \in DOMAIN entries : i # Len(entries) => entries'[i] = entries[i]
           /\ EntriesSound'
<1>1. /\ entries \in Seq(EntryValues) /\ Len(entries) \in Nat /\ DOMAIN entries = 1..Len(entries)
      /\ Len(entries) \in DOMAIN entries /\ Last = entries[Len(entries)] /\ Last.stage = order.route[Len(entries)]
    BY LastFields
<1>2. PICK n \in DOMAIN entries : n = Len(entries)
    BY <1>1
<1>3. PICK t : t = [entries EXCEPT ![n] = e]
    OBVIOUS
<1>4. entries' = t
    BY <1>2, <1>3 DEF Update
<1>5. /\ t \in Seq(EntryValues) /\ Len(t) = Len(entries) /\ DOMAIN t = DOMAIN entries /\ t[n] = e
      /\ \A j \in DOMAIN entries : j # n => t[j] = entries[j]
    BY <1>1, <1>3, RowChanged
<1>6. EntriesSound'
  <2> SUFFICES ASSUME NEW i \in DOMAIN t
               PROVE  /\ t[i].stage = order.route[i]
                      /\ Plain(t[i])
                      /\ i < Len(t) => t[i].phase = "confirmed" /\ t[i].good
                      /\ i > 1 => SilverIn(t[i]) = CarriedSilver(t[i - 1])
      BY <1>4 DEF EntriesSound
  <2>1. /\ entries[i].stage = order.route[i] /\ Plain(entries[i])
        /\ i < Len(entries) => entries[i].phase = "confirmed" /\ entries[i].good
        /\ i > 1 => SilverIn(entries[i]) = CarriedSilver(entries[i - 1])
      BY <1>5 DEF EntriesSound
  <2>2. i > 1 => i - 1 \in DOMAIN entries /\ t[i - 1] = entries[i - 1]
      BY <1>1, <1>2, <1>5
  <2>3. CASE i = n
      BY <1>1, <1>2, <1>5, <2>1, <2>2, <2>3
  <2>4. CASE i # n
      BY <1>1, <1>2, <1>5, <2>1, <2>2, <2>4
  <2> QED
      BY <2>3, <2>4
<1>7. Last' = e
    BY <1>2, <1>4, <1>5 DEF Last
<1> QED
    BY <1>2, <1>4, <1>5, <1>6, <1>7

(* What is in the store follows the stage that is closed or opened.        *)
StoredOf(e) == IF e.phase = "confirmed" THEN e.btp + e.silver ELSE 0
Stored999Of(e) == IF e.phase = "confirmed" THEN e.s999 ELSE 0
LEMMA StoreFollows ==
    ASSUME entries \in Seq(EntryValues), NEW n \in DOMAIN entries, NEW e \in EntryValues,
           NEW t, t = [entries EXCEPT ![n] = e], entries' = t, StoreSound,
           NEW s925 \in Int, s925 = stock.s925 - StoredOf(entries[n]) + StoredOf(e),
           NEW s999 \in Int, s999 = stock.s999 - Stored999Of(entries[n]) + Stored999Of(e),
           stock' = [s925 |-> s925, s999 |-> s999, scrap |-> stock.scrap]
    PROVE  StoreSound'
<1>1. IsFiniteSet(DOMAIN entries) /\ \A i \in DOMAIN entries : entries[i] \in EntryValues
    BY RowsOf
<1>2. DOMAIN t = DOMAIN entries /\ t[n] = e /\ \A j \in DOMAIN entries : j # n => t[j] = entries[j]
    BY RowChanged
<1>3. \A r \in EntryValues : StoredOf(r) \in Nat /\ Stored999Of(r) \in Nat
  <2> SUFFICES ASSUME NEW r \in EntryValues PROVE StoredOf(r) \in Nat /\ Stored999Of(r) \in Nat
      OBVIOUS
  <2>1. r.btp \in Nat /\ r.silver \in Nat /\ r.s999 \in Nat
      BY EntryFields
  <2> QED
      BY <2>1 DEF StoredOf, Stored999Of
<1>4. PICK f : f = [i \in DOMAIN entries |-> StoredOf(entries[i])]
    OBVIOUS
<1>5. PICK g : g = [i \in DOMAIN entries |-> StoredOf(t[i])]
    OBVIOUS
<1>6. PICK u : u = [i \in DOMAIN entries |-> Stored999Of(entries[i])]
    OBVIOUS
<1>7. PICK v : v = [i \in DOMAIN entries |-> Stored999Of(t[i])]
    OBVIOUS
<1>8. /\ DOMAIN f = DOMAIN entries /\ DOMAIN g = DOMAIN entries
      /\ DOMAIN u = DOMAIN entries /\ DOMAIN v = DOMAIN entries
      /\ \A i \in DOMAIN entries : f[i] \in Nat /\ g[i] \in Nat /\ u[i] \in Nat /\ v[i] \in Nat
      /\ \A i \in DOMAIN entries : i # n => g[i] = f[i] /\ v[i] = u[i]
      /\ f[n] = StoredOf(entries[n]) /\ g[n] = StoredOf(e)
      /\ u[n] = Stored999Of(entries[n]) /\ v[n] = Stored999Of(e)
  <2>1. \A i \in DOMAIN entries : t[i] \in EntryValues
      BY <1>1, <1>2
  <2> QED
      BY <1>1, <1>2, <1>3, <1>4, <1>5, <1>6, <1>7, <2>1
<1>9. SumOf(g) = SumOf(f) - f[n] + g[n]
  <2>1. /\ IsFiniteSet(DOMAIN f) /\ DOMAIN g = DOMAIN f /\ n \in DOMAIN f
        /\ \A i \in DOMAIN f : f[i] \in Int /\ g[i] \in Int
        /\ \A i \in DOMAIN f : i # n => g[i] = f[i]
      BY <1>1, <1>8
  <2> QED
      BY <2>1, SumRowChanges
<1>10. SumOf(v) = SumOf(u) - u[n] + v[n]
  <2>1. /\ IsFiniteSet(DOMAIN u) /\ DOMAIN v = DOMAIN u /\ n \in DOMAIN u
        /\ \A i \in DOMAIN u : u[i] \in Int /\ v[i] \in Int
        /\ \A i \in DOMAIN u : i # n => v[i] = u[i]
      BY <1>1, <1>8
  <2> QED
      BY <2>1, SumRowChanges
<1>11. SumOf(g) \in Nat
    BY <1>1, <1>8, SumRows
<1>12. SumOf(v) \in Nat
    BY <1>1, <1>8, SumRows
<1>13. stock.s925 = SumOf(f) /\ stock.s999 = SumOf(u) /\ stock.scrap \in 0..MaxScrap
    BY <1>4, <1>6 DEF StoreSound, StoredOf, Stored999Of
<1>14. s925 = SumOf(g) /\ s999 = SumOf(v)
    BY <1>8, <1>9, <1>10, <1>13
<1>15. /\ g = [i \in DOMAIN t |-> IF t[i].phase = "confirmed" THEN t[i].btp + t[i].silver ELSE 0]
       /\ v = [i \in DOMAIN t |-> IF t[i].phase = "confirmed" THEN t[i].s999 ELSE 0]
    BY <1>2, <1>5, <1>7 DEF StoredOf, Stored999Of
<1> QED
    BY <1>11, <1>12, <1>13, <1>14, <1>15 DEF StoreSound

(* Nothing about the stones changes with an entry that keeps its figures.  *)
LEMMA SameStones ==
    ASSUME bags' = bags, order' = order, NEW e, NEW f,
           f.stones = e.stones, f.more = e.more, f.stoneGrams = e.stoneGrams, f.moreGrams = e.moreGrams,
           f.set = e.set, f.back = e.back, f.typed = e.typed,
           IsReturned(f) <=> IsReturned(e), f.phase = "returned" <=> e.phase = "returned",
           f.phase = "confirmed" <=> e.phase = "confirmed", StonesOK(e)
    PROVE  StonesOK(f)'
<1>1. EarlyCount' = EarlyCount /\ EarlyGrams' = EarlyGrams
    BY DEF EarlyCount, EarlyGrams
<1>2. HeldCounts' = HeldCounts /\ StoneLine' = StoneLine /\ HeldBack' = HeldBack
    BY DEF HeldCounts, StoneLine, HeldBack, IsHeld
<1>3. (Unseen' <=> Unseen) /\ (CameBackWhole' <=> CameBackWhole) /\ (AllCounted' <=> AllCounted)
      /\ (ByThePiece' <=> ByThePiece)
    BY DEF Unseen, CameBackWhole, AllCounted, ByThePiece, IsHeld
<1>4. GivenCount(f)' = GivenCount(e)
    BY <1>1 DEF GivenCount
<1>5. InHisBags(e) => InHisBags(f)'
    BY <1>1, <1>2, <1>4 DEF InHisBags
<1>6. BackInBags(e) => BackInBags(f)'
    BY <1>2, <1>3, <1>4 DEF BackInBags, IsHeld
<1>7. StonesHanded(f)' = StonesHanded(e)
    BY <1>1 DEF StonesHanded
<1>8. OutIsGiven(e) => OutIsGiven(f)'
    BY <1>7 DEF OutIsGiven
<1>9. IsReturned(f)' <=> IsReturned(e)
    BY DEF IsReturned
<1> QED
    BY <1>3, <1>4, <1>5, <1>6, <1>8, <1>9 DEF StonesOK

LEMMA StonesKept ==
    ASSUME bags' = bags, order' = order, NEW e, StonesOK(e)
    PROVE  StonesOK(e)'
BY SameStones

(* A step that writes no figure down.                                      *)
LEMMA QuietKeeps ==
    ASSUME TicketInv, entries # <<>>, NEW e \in EntryValues, Update(e), UNCHANGED <<order, bags, stock>>,
           e.stage = Last.stage, Plain(e), SilverIn(e) = SilverIn(Last) \/ Len(entries) = 1,
           e.btp = Last.btp, e.silver = Last.silver, e.s999 = Last.s999,
           e.stones = Last.stones, e.more = Last.more, e.stoneGrams = Last.stoneGrams,
           e.moreGrams = Last.moreGrams, e.set = Last.set, e.back = Last.back, e.typed = Last.typed,
           IsReturned(e) <=> IsReturned(Last), e.phase = "returned" <=> Last.phase = "returned",
           e.phase = "confirmed" <=> Last.phase = "confirmed"
    PROVE  TicketInv'
<1>1. WeightsTypeOK /\ EntriesSound /\ BagsSound /\ StonesSound /\ StoreSound
    BY DEF TicketInv
<1>2. /\ entries \in Seq(EntryValues) /\ Len(entries) \in DOMAIN entries /\ Last = entries[Len(entries)]
      /\ Last \in EntryValues
    BY <1>1, LastFields
<1>3. /\ entries' \in Seq(EntryValues) /\ Len(entries') = Len(entries) /\ DOMAIN entries' = DOMAIN entries
      /\ entries'[Len(entries)] = e
      /\ \A i \in DOMAIN entries : i # Len(entries) => entries'[i] = entries[i]
      /\ EntriesSound'
    BY <1>1, LastReplaced
<1>4. WeightsTypeOK'
    BY <1>1, <1>3 DEF WeightsTypeOK
<1>5. BagsSound'
  <2>1. \A i \in DOMAIN entries : entries'[i].stage = entries[i].stage
      BY <1>2, <1>3
  <2>2. (\A k \in DOMAIN bags : Sound(bags[k]))'
    <3>1. ByThePiece' <=> ByThePiece
        BY DEF ByThePiece
    <3> QED
        BY <1>1, <3>1 DEF BagsSound, Sound
  <2> QED
      BY <1>1, <1>3, <2>1, <2>2 DEF BagsSound
<1>6. StonesSound'
  <2> SUFFICES ASSUME NEW i \in DOMAIN entries, entries'[i].stage = "STONE_SETTING"
               PROVE  StonesOK(entries[i])'
      BY <1>3 DEF StonesSound
  <2>1. CASE i = Len(entries)
    <3>1. PICK was : was = Last
        OBVIOUS
    <3>2. StonesOK(was)
        BY <1>1, <1>2, <1>3, <2>1, <3>1 DEF StonesSound
    <3>3. StonesOK(e)'
        BY <3>1, <3>2, SameStones
    <3> QED
        BY <1>3, <2>1, <3>3
  <2>2. CASE i # Len(entries)
    <3>1. PICK r : r = entries[i]
        OBVIOUS
    <3>2. StonesOK(r) /\ entries'[i] = r
        BY <1>1, <1>3, <2>2, <3>1 DEF StonesSound
    <3>3. StonesOK(r)'
        BY <3>2, StonesKept
    <3> QED
        BY <3>2, <3>3
  <2> QED
      BY <2>1, <2>2
<1>7. StoreSound'
  <2>1. /\ stock.s925 \in Nat /\ stock.s999 \in Nat
        /\ stock = [s925 |-> stock.s925, s999 |-> stock.s999, scrap |-> stock.scrap]
      BY <1>1 DEF StoreSound
  <2>2. StoredOf(Last) = StoredOf(e) /\ Stored999Of(Last) = Stored999Of(e)
      BY DEF StoredOf, Stored999Of
  <2>3. StoredOf(e) \in Int /\ Stored999Of(e) \in Int
      BY EntryFields DEF StoredOf, Stored999Of
  <2>4. PICK n \in DOMAIN entries : n = Len(entries)
      BY <1>2
  <2>5. PICK t : t = [entries EXCEPT ![n] = e]
      OBVIOUS
  <2>6. PICK a \in Int : a = stock.s925
      BY <2>1
  <2>7. PICK b \in Int : b = stock.s999
      BY <2>1
  <2>8. /\ entries' = t /\ a = stock.s925 - StoredOf(entries[n]) + StoredOf(e)
        /\ b = stock.s999 - Stored999Of(entries[n]) + Stored999Of(e)
        /\ stock' = [s925 |-> a, s999 |-> b, scrap |-> stock.scrap]
      BY <1>2, <2>1, <2>2, <2>3, <2>4, <2>5, <2>6, <2>7 DEF Update
  <2> QED
      BY <1>1, <1>2, <2>5, <2>8, StoreFollows
<1> QED
    BY <1>3, <1>4, <1>5, <1>6, <1>7 DEF TicketInv

LEMMA QuietSteps ==
    ASSUME TicketInv,
           CreateRequest \/ DropRequest \/ (\E w \in 1..MaxMetal : IssueMetal(w)) \/ Submit \/ Unsubmit
    PROVE  TicketInv'
<1>1. WeightsTypeOK /\ EntriesSound
    BY DEF TicketInv
<1>2. entries # <<>> /\ UNCHANGED <<order, bags, stock>>
    BY Zenon DEF CreateRequest, DropRequest, IssueMetal, Submit, Unsubmit, Open
<1>3. /\ Last \in EntryValues /\ Plain(Last) /\ Last.stage = order.route[Len(entries)]
      /\ Len(entries) \in 1..Len(order.route)
    BY <1>1, <1>2, LastFields, OrderFields
<1>4. PICK was : was = Last
    OBVIOUS
<1>5. was \in EntryValues /\ Plain(was) /\ was.stage = order.route[Len(entries)] /\ was.metal \in Nat
    BY <1>3, <1>4, EntryFields
<1>6. ASSUME NEW asked \in BOOLEAN, Update([Last EXCEPT !.asked = asked]) PROVE TicketInv'
  <2>1. PICK e : e = [was EXCEPT !.asked = asked]
      OBVIOUS
  <2>2. /\ e \in EntryValues /\ e.stage = was.stage /\ e.phase = was.phase /\ e.handed = was.handed
        /\ e.metal = was.metal /\ e.stones = was.stones /\ e.stoneGrams = was.stoneGrams /\ e.more = was.more
        /\ e.moreGrams = was.moreGrams /\ e.good = was.good /\ e.returned = was.returned /\ e.btp = was.btp
        /\ e.silver = was.silver /\ e.s999 = was.s999 /\ e.set = was.set /\ e.setGrams = was.setGrams
        /\ e.back = was.back /\ e.typed = was.typed
      BY <1>5, <2>1 DEF EntryValues
  <2>3. SilverIn(e) = SilverIn(was) /\ Recovered(e) = Recovered(was) /\ (IsReturned(e) <=> IsReturned(was))
      BY <2>2 DEF SilverIn, Recovered, IsReturned
  <2>4. Plain(e)
      BY <1>5, <2>2, <2>3 DEF Plain
  <2>5. Update(e)
      BY <1>4, <1>6, <2>1
  <2> QED
      BY <1>2, <1>4, <2>2, <2>3, <2>4, <2>5, QuietKeeps
<1>7. ASSUME NEW phase \in {"working", "submitted"}, ~IsReturned(Last), Update([Last EXCEPT !.phase = phase])
      PROVE  TicketInv'
  <2>1. PICK e : e = [was EXCEPT !.phase = phase]
      OBVIOUS
  <2>2. /\ e \in EntryValues /\ e.stage = was.stage /\ e.phase = phase /\ e.handed = was.handed
        /\ e.metal = was.metal /\ e.stones = was.stones /\ e.stoneGrams = was.stoneGrams /\ e.more = was.more
        /\ e.moreGrams = was.moreGrams /\ e.good = was.good /\ e.returned = was.returned /\ e.btp = was.btp
        /\ e.silver = was.silver /\ e.s999 = was.s999 /\ e.set = was.set /\ e.setGrams = was.setGrams
        /\ e.back = was.back /\ e.typed = was.typed
      BY <1>5, <2>1 DEF EntryValues
  <2>3. /\ SilverIn(e) = SilverIn(was) /\ Recovered(e) = Recovered(was) /\ ~IsReturned(e) /\ ~IsReturned(was)
        /\ was.phase \notin {"returned", "confirmed"}
      BY <1>4, <1>7, <2>2 DEF SilverIn, Recovered, IsReturned
  <2>4. Plain(e)
      BY <1>5, <2>2, <2>3 DEF Plain
  <2>5. Update(e)
      BY <1>4, <1>7, <2>1
  <2> QED
      BY <1>2, <1>4, <2>2, <2>3, <2>4, <2>5, QuietKeeps
<1>8. ASSUME NEW w \in 1..MaxMetal, IssueMetal(w) PROVE TicketInv'
  <2>1. PICK e : e = [was EXCEPT !.asked = FALSE, !.metal = was.metal + w]
      OBVIOUS
  <2>2. was.metal + w \in Nat
      BY <1>5
  <2>3. /\ e \in EntryValues /\ e.stage = was.stage /\ e.phase = was.phase /\ e.handed = was.handed
        /\ e.stones = was.stones /\ e.stoneGrams = was.stoneGrams /\ e.more = was.more
        /\ e.moreGrams = was.moreGrams /\ e.good = was.good /\ e.returned = was.returned /\ e.btp = was.btp
        /\ e.silver = was.silver /\ e.s999 = was.s999 /\ e.set = was.set /\ e.setGrams = was.setGrams
        /\ e.back = was.back /\ e.typed = was.typed
      BY <1>5, <2>1, <2>2 DEF EntryValues
  <2>4. /\ Recovered(e) = Recovered(was) /\ (IsReturned(e) <=> IsReturned(was)) /\ ~IsReturned(was)
        /\ was.stage = "FILING"
    <3>1. ~IsReturned(Last) /\ Last.stage = "FILING"
        BY <1>8, Zenon DEF IssueMetal, Open
    <3> QED
        BY <1>4, <2>3, <3>1 DEF Recovered, IsReturned
  <2>5. Plain(e)
      BY <1>5, <2>3, <2>4 DEF Plain
  <2>6. Len(entries) = 1
    <3>1. \A j \in 1..Len(order.route) : order.route[j] = "FILING" => j = 1
        BY <1>1, OrderFields
    <3> QED
        BY <1>3, <1>5, <2>4, <3>1
  <2>7. Update(e)
      BY <1>4, <1>8, <2>1, Zenon DEF IssueMetal
  <2> QED
      BY <1>2, <1>4, <2>3, <2>4, <2>5, <2>6, <2>7, QuietKeeps
<1>9. CASE CreateRequest
  <2>1. TRUE \in BOOLEAN /\ Update([Last EXCEPT !.asked = TRUE])
      BY <1>9 DEF CreateRequest
  <2> QED
      BY <1>6, <2>1
<1>10. CASE DropRequest
    BY <1>6, <1>10 DEF DropRequest
<1>11. CASE Submit
    BY <1>7, <1>11 DEF Submit, Open
<1>12. CASE Unsubmit
    BY <1>7, <1>12 DEF Unsubmit, Open
<1> QED
    BY <1>8, <1>9, <1>10, <1>11, <1>12

(* The scrap a worker returns is no figure of the ticket.                  *)
LEMMA ScrapSteps ==
    ASSUME TicketInv, (\E w \in 1..MaxScrap : CreateScrapReturn(w)) \/ RemoveScrapReturn
    PROVE  TicketInv'
<1>1. WeightsTypeOK /\ EntriesSound /\ BagsSound /\ StonesSound /\ StoreSound
    BY DEF TicketInv
<1>2. UNCHANGED <<order, entries, bags>>
    BY DEF CreateScrapReturn, RemoveScrapReturn
<1>3. PICK w \in 0..MaxScrap : stock' = [stock EXCEPT !.scrap = w]
  <2>1. MaxScrap \in Nat
      BY QtyAssumption
  <2> QED
      BY <2>1 DEF CreateScrapReturn, RemoveScrapReturn
<1>4. EntriesSound'
    BY <1>1, <1>2 DEF EntriesSound
<1>5. BagsSound'
  <2>1. ByThePiece' <=> ByThePiece
      BY <1>2 DEF ByThePiece
  <2> QED
      BY <1>1, <1>2, <2>1 DEF BagsSound, Sound
<1>6. StonesSound'
  <2> SUFFICES ASSUME NEW i \in DOMAIN entries, entries[i].stage = "STONE_SETTING"
               PROVE  StonesOK(entries[i])'
      BY <1>2 DEF StonesSound
  <2>1. PICK r : r = entries[i]
      OBVIOUS
  <2>2. StonesOK(r) /\ entries'[i] = r
      BY <1>1, <1>2, <2>1 DEF StonesSound
  <2>3. StonesOK(r)'
      BY <1>2, <2>2, StonesKept
  <2> QED
      BY <2>2, <2>3
<1>7. StoreSound' /\ stock' \in [s925 : Nat, s999 : Nat, scrap : 0..MaxScrap]
  <2>1. stock' \in [s925 : Nat, s999 : Nat, scrap : 0..MaxScrap] /\ stock'.s925 = stock.s925
        /\ stock'.s999 = stock.s999
      BY <1>1, <1>3 DEF StoreSound
  <2> QED
      BY <1>1, <1>2, <2>1 DEF StoreSound
<1>8. WeightsTypeOK'
    BY <1>1, <1>2, <1>7 DEF WeightsTypeOK
<1> QED
    BY <1>4, <1>5, <1>6, <1>7, <1>8 DEF TicketInv

(* A step that writes figures of the last stage down.                      *)
LEMMA StepKeeps ==
    ASSUME TicketInv, entries # <<>>, NEW e \in EntryValues, Update(e), order' = order,
           e.stage = Last.stage, Plain(e), SilverIn(e) = SilverIn(Last),
           bags' \in Seq(BagValues), (\A k \in DOMAIN bags : Sound(bags[k]))',
           e.stage = "STONE_SETTING" => StonesOK(e)', e.stage # "STONE_SETTING" => bags' = bags,
           NEW s925 \in Int, s925 = stock.s925 - StoredOf(Last) + StoredOf(e),
           NEW s999 \in Int, s999 = stock.s999 - Stored999Of(Last) + Stored999Of(e),
           stock' = [s925 |-> s925, s999 |-> s999, scrap |-> stock.scrap]
    PROVE  TicketInv'
<1>1. WeightsTypeOK /\ EntriesSound /\ BagsSound /\ StonesSound /\ StoreSound
    BY DEF TicketInv
<1>2. /\ entries \in Seq(EntryValues) /\ Len(entries) \in DOMAIN entries /\ Last = entries[Len(entries)]
      /\ Last \in EntryValues
    BY <1>1, LastFields
<1>3. /\ entries' \in Seq(EntryValues) /\ Len(entries') = Len(entries) /\ DOMAIN entries' = DOMAIN entries
      /\ entries'[Len(entries)] = e
      /\ \A i \in DOMAIN entries : i # Len(entries) => entries'[i] = entries[i]
      /\ EntriesSound'
    BY <1>1, LastReplaced
<1>4. BagsSound'
  <2>1. (\A i \in DOMAIN entries : entries'[i].stage # "STONE_SETTING") => bags' = <<>>
    <3> HAVE \A i \in DOMAIN entries : entries'[i].stage # "STONE_SETTING"
    <3>1. \A i \in DOMAIN entries : entries[i].stage # "STONE_SETTING"
        BY <1>2, <1>3
    <3>2. bags = <<>> /\ bags' = bags
        BY <1>1, <1>2, <3>1 DEF BagsSound
    <3> QED
        BY <3>2
  <2> QED
      BY <1>3, <2>1 DEF BagsSound
<1>5. StonesSound'
  <2> SUFFICES ASSUME NEW i \in DOMAIN entries, entries'[i].stage = "STONE_SETTING"
               PROVE  StonesOK(entries[i])'
      BY <1>3 DEF StonesSound
  <2>1. CASE i = Len(entries)
    <3>1. StonesOK(e)'
        BY <1>3, <2>1
    <3> QED
        BY <1>3, <2>1, <3>1
  <2>2. CASE i # Len(entries)
    <3>1. PICK r : r = entries[i]
        OBVIOUS
    <3>2. StonesOK(r) /\ entries'[i] = r
        BY <1>1, <1>3, <2>2, <3>1 DEF StonesSound
    <3>3. bags' = bags
      <4>1. entries[i].stage # entries[Len(entries)].stage
          BY <1>1, <1>2, <2>2, StagesDiffer
      <4> QED
          BY <1>2, <1>3, <2>2, <4>1
    <3>4. StonesOK(r)'
        BY <3>2, <3>3, StonesKept
    <3> QED
        BY <3>2, <3>4
  <2> QED
      BY <2>1, <2>2
<1>6. StoreSound'
  <2>1. PICK n \in DOMAIN entries : n = Len(entries)
      BY <1>2
  <2>2. PICK t : t = [entries EXCEPT ![n] = e]
      OBVIOUS
  <2>3. /\ entries' = t /\ s925 = stock.s925 - StoredOf(entries[n]) + StoredOf(e)
        /\ s999 = stock.s999 - Stored999Of(entries[n]) + Stored999Of(e)
      BY <1>2, <2>1, <2>2 DEF Update
  <2> QED
      BY <1>1, <1>2, <2>2, <2>3, StoreFollows
<1>7. stock' \in [s925 : Nat, s999 : Nat, scrap : 0..MaxScrap]
    BY <1>6 DEF StoreSound
<1>8. WeightsTypeOK'
    BY <1>1, <1>3, <1>7 DEF WeightsTypeOK
<1> QED
    BY <1>3, <1>4, <1>5, <1>6, <1>8 DEF TicketInv

LEMMA UndoKeeps ==
    ASSUME TicketInv, UndoReturn
    PROVE  TicketInv'
<1>1. WeightsTypeOK /\ EntriesSound /\ BagsSound /\ StonesSound /\ StoreSound
    BY DEF TicketInv
<1>2. PICK was : was = Last
    OBVIOUS
<1>3. /\ entries # <<>> /\ IsReturned(was) /\ was.stage \notin KEEPER_CONFIRM_STAGES
      /\ order' = order /\ bags' = bags
      /\ stock' = IF was.stage \in QC_STOCK_RECOVERY_STAGES
                  THEN [stock EXCEPT !.s925 = @ - was.btp - was.silver, !.s999 = @ - was.s999]
                  ELSE stock
    BY <1>2, Zenon DEF UndoReturn
<1>4. PICK e : e = [was EXCEPT !.phase = "submitted", !.good = FALSE, !.returned = None, !.btp = 0,
                               !.silver = 0, !.s999 = 0]
    OBVIOUS
<1>5. Update(e)
    BY <1>2, <1>4, Zenon DEF UndoReturn
<1>6. was \in EntryValues /\ Plain(was)
    BY <1>1, <1>2, <1>3, LastFields
<1>7. /\ e \in EntryValues /\ e.stage = was.stage /\ e.phase = "submitted" /\ e.handed = was.handed
      /\ e.metal = was.metal /\ e.stones = was.stones /\ e.stoneGrams = was.stoneGrams /\ e.more = was.more
      /\ e.moreGrams = was.moreGrams /\ e.good = FALSE /\ e.returned = None /\ e.btp = 0
      /\ e.silver = 0 /\ e.s999 = 0 /\ e.set = was.set /\ e.setGrams = was.setGrams
      /\ e.back = was.back /\ e.typed = was.typed
  <2>1. None \in Given /\ 0 \in Nat /\ "submitted" \in {"working", "submitted", "returned", "confirmed"}
        /\ FALSE \in BOOLEAN
      BY DEF Given
  <2> QED
      BY <1>4, <1>6, <2>1 DEF EntryValues
<1>8. was.phase = "confirmed" /\ was.stage # "STONE_SETTING"
    BY <1>3, <1>6 DEF Plain, IsReturned, KEEPER_CONFIRM_STAGES
<1>9. SilverIn(e) = SilverIn(was) /\ Recovered(e) = 0 /\ ~IsReturned(e)
    BY <1>7 DEF SilverIn, Recovered, IsReturned
<1>10. Plain(e)
    BY <1>6, <1>7, <1>8, <1>9 DEF Plain
<1>11. /\ stock.s925 \in Nat /\ stock.s999 \in Nat
       /\ stock = [s925 |-> stock.s925, s999 |-> stock.s999, scrap |-> stock.scrap]
    BY <1>1 DEF StoreSound
<1>12. was.btp \in Nat /\ was.silver \in Nat /\ was.s999 \in Nat /\ was.stage \in Stages
    BY <1>6, EntryFields
<1>13. /\ StoredOf(was) = was.btp + was.silver /\ Stored999Of(was) = was.s999
       /\ StoredOf(e) = 0 /\ Stored999Of(e) = 0
    BY <1>7, <1>8 DEF StoredOf, Stored999Of
<1>14. PICK a \in Int : a = stock.s925 - StoredOf(was) + StoredOf(e)
    BY <1>11, <1>12, <1>13
<1>15. PICK b \in Int : b = stock.s999 - Stored999Of(was) + Stored999Of(e)
    BY <1>11, <1>12, <1>13
<1>16. stock' = [s925 |-> a, s999 |-> b, scrap |-> stock.scrap]
  <2>1. CASE was.stage \in QC_STOCK_RECOVERY_STAGES
    <3>1. stock' = [stock EXCEPT !.s925 = a, !.s999 = b]
      <4>1. a = stock.s925 - was.btp - was.silver /\ b = stock.s999 - was.s999
          BY <1>11, <1>12, <1>13, <1>14, <1>15
      <4> QED
          BY <1>3, <2>1, <4>1, Zenon
    <3> QED
        BY <1>11, <3>1
  <2>2. CASE was.stage \notin QC_STOCK_RECOVERY_STAGES
    <3>1. was.stage \in PHOTO_ONLY_STAGES
        BY <1>3, <1>12, <2>2 DEF Stages
    <3>2. was.btp + was.silver + was.s999 = 0
        BY <1>6, <3>1 DEF Plain, Recovered
    <3>3. was.btp + was.silver = 0 /\ was.s999 = 0
        BY <1>12, <3>2
    <3> QED
        BY <1>3, <1>11, <1>13, <1>14, <1>15, <2>2, <3>3
  <2> QED
      BY <2>1, <2>2
<1>17. bags' \in Seq(BagValues) /\ (\A k \in DOMAIN bags : Sound(bags[k]))'
  <2>1. ByThePiece' <=> ByThePiece
      BY <1>3 DEF ByThePiece
  <2> QED
      BY <1>1, <1>3, <2>1 DEF BagsSound, Sound, WeightsTypeOK
<1> QED
    BY <1>2, <1>3, <1>5, <1>7, <1>8, <1>9, <1>10, <1>14, <1>15, <1>16, <1>17, StepKeeps

(* What the bags tell of stones given, when none of it is rewritten.       *)
LEMMA TellTheSame ==
    ASSUME DOMAIN bags' = DOMAIN bags,
           \A k \in DOMAIN bags :
              /\ bags'[k].count = bags[k].count /\ bags'[k].weight = bags[k].weight
              /\ bags'[k].earlyW = bags[k].earlyW /\ bags'[k].earlyC = bags[k].earlyC
    PROVE  /\ EarlyCount' = EarlyCount /\ EarlyGrams' = EarlyGrams /\ StoneLine' = StoneLine
           /\ AllCounted' <=> AllCounted
           /\ \A e : GivenCount(e)' = GivenCount(e) /\ StonesHanded(e)' = StonesHanded(e)
<1>1. [k \in DOMAIN bags |-> bags[k].earlyC]' = [k \in DOMAIN bags |-> bags[k].earlyC]
    OBVIOUS
<1>2. [k \in DOMAIN bags |-> bags[k].earlyW]' = [k \in DOMAIN bags |-> bags[k].earlyW]
    OBVIOUS
<1>3. EarlyCount' = EarlyCount /\ EarlyGrams' = EarlyGrams
    BY <1>1, <1>2, Zenon DEF EarlyCount, EarlyGrams
<1>4. [k \in DOMAIN bags |-> Or0(bags[k].count)]' = [k \in DOMAIN bags |-> Or0(bags[k].count)]
    OBVIOUS
<1>5. [k \in DOMAIN bags |-> bags[k].weight]' = [k \in DOMAIN bags |-> bags[k].weight]
    OBVIOUS
<1>6. StoneLine' = StoneLine
    BY <1>4, <1>5, Zenon DEF StoneLine
<1>7. AllCounted' <=> AllCounted
    BY DEF AllCounted
<1>8. \A e : GivenCount(e)' = GivenCount(e) /\ StonesHanded(e)' = StonesHanded(e)
    BY <1>3, Zenon DEF GivenCount, StonesHanded
<1> QED
    BY <1>3, <1>6, <1>7, <1>8

(* The keeper closes the stage.                                            *)
LEMMA ConfirmKeeps ==
    ASSUME TicketInv, ConfirmStage
    PROVE  TicketInv'
<1>1. WeightsTypeOK /\ EntriesSound /\ BagsSound /\ StonesSound /\ StoreSound
    BY DEF TicketInv
<1>2. PICK was : was = Last
    OBVIOUS
<1>3. /\ entries # <<>> /\ was.phase = "returned" /\ was.stage \in KEEPER_CONFIRM_STAGES
      /\ order' = order
      /\ bags' = IF was.stage = "STONE_SETTING" THEN ConsumeStoneHolds(was) ELSE bags
      /\ stock' = [stock EXCEPT !.s925 = @ + was.btp + was.silver, !.s999 = @ + was.s999]
    BY <1>2, Zenon DEF ConfirmStage
<1>4. PICK e : e = [was EXCEPT !.phase = "confirmed"]
    OBVIOUS
<1>5. Update(e)
    BY <1>2, <1>4, Zenon DEF ConfirmStage
<1>6. /\ was \in EntryValues /\ Plain(was) /\ Len(entries) \in DOMAIN entries
      /\ was = entries[Len(entries)]
    BY <1>1, <1>2, <1>3, LastFields
<1>7. /\ e \in EntryValues /\ e.stage = was.stage /\ e.phase = "confirmed" /\ e.handed = was.handed
      /\ e.metal = was.metal /\ e.stones = was.stones /\ e.stoneGrams = was.stoneGrams /\ e.more = was.more
      /\ e.moreGrams = was.moreGrams /\ e.good = was.good /\ e.returned = was.returned /\ e.btp = was.btp
      /\ e.silver = was.silver /\ e.s999 = was.s999 /\ e.set = was.set /\ e.setGrams = was.setGrams
      /\ e.back = was.back /\ e.typed = was.typed
    BY <1>4, <1>6 DEF EntryValues
<1>8. SilverIn(e) = SilverIn(was) /\ Recovered(e) = Recovered(was) /\ IsReturned(e) /\ IsReturned(was)
    BY <1>3, <1>7 DEF SilverIn, Recovered, IsReturned
<1>9. Plain(e)
    BY <1>6, <1>7, <1>8 DEF Plain
<1>10. ByThePiece \in BOOLEAN /\ (ByThePiece' <=> ByThePiece)
    BY <1>1, <1>3, OrderFields DEF ByThePiece
<1>11. bags \in Seq(BagValues) /\ \A k \in DOMAIN bags : Sound(bags[k])
    BY <1>1 DEF WeightsTypeOK, BagsSound
<1>12. bags' \in Seq(BagValues) /\ (\A k \in DOMAIN bags : Sound(bags[k]))'
  <2>1. CASE was.stage # "STONE_SETTING"
      BY <1>3, <1>10, <1>11, <2>1 DEF Sound
  <2>2. CASE was.stage = "STONE_SETTING"
    <3>1. PICK plan : plan = ConsumeStoneHolds(was)
        OBVIOUS
    <3>2. plan \in Seq(BagValues) /\ DOMAIN plan = DOMAIN bags /\ \A k \in DOMAIN bags : Sound(plan[k])
        BY <1>6, <1>10, <1>11, <3>1, ConsumedFields
    <3>3. bags' = plan
        BY <1>3, <2>2, <3>1
    <3> QED
        BY <1>10, <3>2, <3>3 DEF Sound
  <2> QED
      BY <2>1, <2>2
<1>13. ASSUME e.stage = "STONE_SETTING" PROVE StonesOK(e)'
  <2>1. PICK plan : plan = ConsumeStoneHolds(was)
      OBVIOUS
  <2>2. bags' = plan
      BY <1>3, <1>7, <1>13, <2>1
  <2>3. StonesOK(was)
      BY <1>1, <1>6, <1>7, <1>13 DEF StonesSound
  <2>4. /\ DOMAIN plan = DOMAIN bags
        /\ \A k \in DOMAIN bags :
              /\ plan[k].count = bags[k].count /\ plan[k].weight = bags[k].weight
              /\ plan[k].earlyW = bags[k].earlyW /\ plan[k].earlyC = bags[k].earlyC
              /\ plan[k].backW = bags[k].backW
        /\ ByThePiece /\ ~CameBackWhole /\ InHisBags(was) /\ BackInBags(was) /\ GivenCount(was) >= 0 =>
              SumOf([k \in DOMAIN bags |-> plan[k].out]) = GivenCount(was) - Or0(was.back)
      BY <1>6, <1>10, <1>11, <2>1, ConsumedFields
  <2>5. /\ EarlyCount' = EarlyCount
        /\ AllCounted' <=> AllCounted
        /\ GivenCount(was)' = GivenCount(was) /\ StonesHanded(was)' = StonesHanded(was)
      BY <2>2, <2>4, TellTheSame
  <2>6. CameBackWhole' <=> CameBackWhole
      BY <2>2, <2>4 DEF CameBackWhole
  <2>7. GivenCount(e)' = GivenCount(was) /\ StonesHanded(e)' = StonesHanded(was)
    <3>1. GivenCount(e)' = GivenCount(was)' /\ StonesHanded(e)' = StonesHanded(was)'
        BY <1>7, Zenon DEF GivenCount, StonesHanded
    <3> QED
        BY <2>5, <3>1
  <2>8. GivenCount(was) >= 0
      BY <1>8, <2>3 DEF StonesOK
  <2>9. ASSUME ByThePiece, ~CameBackWhole PROVE OutIsGiven(e)'
    <3>1. InHisBags(was) /\ BackInBags(was)
        BY <1>3, <2>3, <2>9 DEF StonesOK
    <3>2. SumOf([k \in DOMAIN bags |-> plan[k].out]) = GivenCount(was) - Or0(was.back)
        BY <2>4, <2>8, <2>9, <3>1
    <3>3. Or0(StonesHanded(was)) = GivenCount(was)
      <4>1. /\ StonesHanded(was) \in Given /\ GivenCount(was) \in Int
            /\ StonesHanded(was) # None => StonesHanded(was) = NonNegative(GivenCount(was))
            /\ StonesHanded(was) = None => GivenCount(was) = 0 - EarlyCount
          BY <1>6, <1>11, HandedFields
      <4>2. EarlyCount \in Nat
          BY <1>11, BagSums
      <4> QED
          BY <2>8, <4>1, <4>2 DEF Or0, NonNegative
    <3>4. SumOf([k \in DOMAIN bags |-> bags[k].out])' = SumOf([k \in DOMAIN bags |-> plan[k].out])
        BY <2>2, <2>4, Zenon
    <3> QED
        BY <1>7, <2>7, <3>2, <3>3, <3>4 DEF OutIsGiven
  <2>10. IsReturned(e)' /\ e.phase # "returned"
      BY <1>7 DEF IsReturned
  <2>11. /\ GivenCount(e)' >= 0
         /\ GivenCount(e)' > 0 => Or0(e.set) + Or0(e.back) <= GivenCount(e)'
         /\ e.typed # None /\ AllCounted' => e.back = e.typed
    <3>1. /\ GivenCount(was) > 0 => Or0(was.set) + Or0(was.back) <= GivenCount(was)
          /\ was.typed # None /\ AllCounted => was.back = was.typed
        BY <1>8, <2>3 DEF StonesOK
    <3> QED
        BY <1>7, <2>5, <2>7, <2>8, <3>1
  <2>12. ByThePiece' /\ ~CameBackWhole' => OutIsGiven(e)'
      BY <1>10, <2>6, <2>9
  <2> QED
      BY <1>7, <2>10, <2>11, <2>12 DEF StonesOK
<1>14. /\ stock.s925 \in Nat /\ stock.s999 \in Nat
       /\ stock = [s925 |-> stock.s925, s999 |-> stock.s999, scrap |-> stock.scrap]
    BY <1>1 DEF StoreSound
<1>15. was.btp \in Nat /\ was.silver \in Nat /\ was.s999 \in Nat
    BY <1>6, EntryFields
<1>16. /\ StoredOf(was) = 0 /\ Stored999Of(was) = 0
       /\ StoredOf(e) = was.btp + was.silver /\ Stored999Of(e) = was.s999
    BY <1>3, <1>7 DEF StoredOf, Stored999Of
<1>17. PICK a \in Int : a = stock.s925 - StoredOf(was) + StoredOf(e)
    BY <1>14, <1>15, <1>16
<1>18. PICK b \in Int : b = stock.s999 - Stored999Of(was) + Stored999Of(e)
    BY <1>14, <1>15, <1>16
<1>19. stock' = [s925 |-> a, s999 |-> b, scrap |-> stock.scrap]
  <2>1. stock' = [stock EXCEPT !.s925 = a, !.s999 = b]
    <3>1. a = stock.s925 + was.btp + was.silver /\ b = stock.s999 + was.s999
        BY <1>14, <1>15, <1>16, <1>17, <1>18
    <3> QED
        BY <1>3, <3>1, Zenon
  <2> QED
      BY <1>14, <2>1
<1>20. e.stage # "STONE_SETTING" => bags' = bags
    BY <1>3, <1>7
<1>21. /\ order' = order /\ entries # <<>> /\ e \in EntryValues
       /\ e.stage = Last.stage /\ SilverIn(e) = SilverIn(Last)
       /\ a = stock.s925 - StoredOf(Last) + StoredOf(e)
       /\ b = stock.s999 - Stored999Of(Last) + Stored999Of(e)
    BY <1>2, <1>3, <1>7, <1>8, <1>17, <1>18
<1> QED
    BY <1>5, <1>9, <1>12, <1>13, <1>19, <1>20, <1>21, StepKeeps

(* QC takes stone setting back: what he writes down of the stones.         *)
LEMMA StonesReturned ==
    ASSUME bags \in Seq(BagValues), \A k \in DOMAIN bags : Sound(bags[k]), ByThePiece \in BOOLEAN,
           Gram3d \in Given, ByThePiece' <=> ByThePiece,
           NEW was \in EntryValues, InHisBags(was), NEW ask \in AskValues, StoneAskOK(ask),
           Or0(ask.legacy) <= SumOf(Unweighed), NEW typed, typed[1] \in Given, typed[2] \in Given,
           NEW plan, plan = PlanStoneReturn(ask), NEW f, f = StoneFigures(was, ask, typed, plan),
           StonesWithin(was, f, typed), bags' = plan, NEW e \in EntryValues, e.phase = "returned",
           e.stones = was.stones, e.more = was.more, e.stoneGrams = was.stoneGrams,
           e.moreGrams = was.moreGrams, e.set = f.set, e.back = f.back,
           e.typed = IF AnyHeld THEN ask.typed ELSE None
    PROVE  StonesOK(e)'
<1>1. /\ IsFiniteSet(DOMAIN bags) /\ EarlyCount \in Nat /\ SumOf(HeldCounts) \in Nat
      /\ \A k \in DOMAIN bags : bags[k] \in BagValues
      /\ DOMAIN Weighed = DOMAIN bags /\ DOMAIN Unweighed = DOMAIN bags
      /\ DOMAIN Counted = {k \in DOMAIN bags : Weighed[k] > 0 /\ bags[k].count # None}
    BY BagSums
<1>2. /\ plan \in Seq(BagValues) /\ DOMAIN plan = DOMAIN bags
      /\ \A k \in DOMAIN bags :
           /\ plan[k].state = bags[k].state /\ plan[k].count = bags[k].count
           /\ plan[k].weight = bags[k].weight /\ plan[k].earlyW = bags[k].earlyW
           /\ plan[k].earlyC = bags[k].earlyC /\ plan[k].out = bags[k].out
           /\ IsHeld(bags[k]) /\ bags[k].count # None => plan[k].backC \in 0..bags[k].count
           /\ IsHeld(bags[k]) /\ bags[k].count = None => plan[k].backC = None
      /\ ask.typed # None =>
           SumFunctionOnSet([k \in DOMAIN bags |-> plan[k].backC], DOMAIN Counted) = ask.typed
    BY PlanFields
<1>3. /\ EarlyCount' = EarlyCount /\ EarlyGrams' = EarlyGrams /\ StoneLine' = StoneLine
      /\ AllCounted' <=> AllCounted
      /\ GivenCount(was)' = GivenCount(was)
    BY <1>2, TellTheSame
<1>4. GivenCount(e)' = GivenCount(was)
  <2>1. GivenCount(e)' = GivenCount(was)'
      BY Zenon DEF GivenCount
  <2> QED
      BY <1>3, <2>1
<1>5. InHisBags(e)'
  <2>1. HeldCounts' = HeldCounts
      BY <1>2 DEF HeldCounts, IsHeld
  <2>2. e.stoneGrams # None => e.stoneGrams + Or0(e.moreGrams) - EarlyGrams' = StoneLine.weight'
      BY <1>3 DEF InHisBags
  <2>3. (\A k \in DOMAIN bags : /\ bags[k].state # "CONSUMED" /\ bags[k].out = 0
                                /\ bags[k].state = "RELEASED" => Or0(bags[k].count) = 0)'
      BY <1>2 DEF InHisBags
  <2>4. GivenCount(e)' = SumOf(HeldCounts)'
    <3>1. GivenCount(was) = SumOf(HeldCounts)
        BY DEF InHisBags
    <3>2. SumOf(HeldCounts)' = SumOf(HeldCounts)
        BY <2>1, Zenon
    <3> QED
        BY <1>4, <3>1, <3>2
  <2> QED
      BY <2>2, <2>3, <2>4 DEF InHisBags
<1>6. GivenCount(was) \in Nat /\ GivenCount(was) = SumOf(HeldCounts)
    BY <1>1 DEF InHisBags
<1>7. GivenCount(was) > 0 => Or0(e.set) + Or0(e.back) <= GivenCount(was)
  <2> HAVE GivenCount(was) > 0
  <2>1. /\ StonesHanded(was) \in Given
        /\ StonesHanded(was) # None => StonesHanded(was) = NonNegative(GivenCount(was))
        /\ StonesHanded(was) = None => GivenCount(was) = 0 - EarlyCount
      BY HandedFields
  <2>2. StonesHanded(was) # None /\ StonesHanded(was) = GivenCount(was)
      BY <1>1, <1>6, <2>1 DEF NonNegative
  <2> QED
      BY <2>2 DEF StonesWithin
<1>8. PICK told : told = {k \in DOMAIN bags : IsHeld(bags[k]) /\ plan[k].backC # None}
    OBVIOUS
<1>9. PICK backs : backs = [k \in DOMAIN bags |-> IF k \in told THEN plan[k].backC ELSE 0]
    OBVIOUS
<1>10. /\ told # {} => e.back = SumOf(backs)
       /\ told = {} => e.back = ask.legacy
  <2>1. told = Told(plan) /\ backs = ToldBack(plan)
      BY <1>8, <1>9 DEF Told, ToldBack
  <2>2. /\ Told(plan) # {} => f.back = SumOf(ToldBack(plan))
        /\ Told(plan) = {} => f.back = ask.legacy
      BY FiguresFields
  <2> QED
      BY <2>1, <2>2
<1>11. \A k \in DOMAIN bags : bags[k].count \in Given /\ bags[k].weight \in Nat /\ bags[k].qty \in Nat
    BY <1>1, BagFields
<1>12. ASSUME e.typed # None, AllCounted PROVE e.back = e.typed
  <2>1. e.typed = ask.typed /\ AnyHeld /\ ask.typed # None
      BY <1>12
  <2>2. \A k \in DOMAIN bags : IsHeld(bags[k]) => k \in told /\ backs[k] \in 0..bags[k].count
    <3> SUFFICES ASSUME NEW k \in DOMAIN bags, IsHeld(bags[k])
                 PROVE  k \in told /\ backs[k] \in 0..bags[k].count
        OBVIOUS
    <3>1. bags[k].count # None
        BY <1>12 DEF AllCounted
    <3>2. plan[k].backC \in 0..bags[k].count /\ bags[k].count \in Nat
        BY <1>2, <1>11, <3>1 DEF Given
    <3> QED
        BY <1>8, <1>9, <3>2 DEF None
  <2>3. \A k \in DOMAIN bags : ~IsHeld(bags[k]) => backs[k] = 0 /\ Weighed[k] = 0
      BY <1>8, <1>9 DEF Weighed
  <2>4. \A k \in DOMAIN bags : k \notin DOMAIN Counted => backs[k] = 0
    <3> SUFFICES ASSUME NEW k \in DOMAIN bags, k \notin DOMAIN Counted, IsHeld(bags[k])
                 PROVE  backs[k] = 0
        BY <2>3
    <3>1. Weighed[k] = bags[k].weight
        BY DEF Weighed
    <3>2. bags[k].count # None /\ (bags[k].weight = 0 => bags[k].count = 0)
        BY <1>12 DEF AllCounted
    <3>3. bags[k].weight = 0
        BY <1>1, <1>11, <3>1, <3>2
    <3> QED
        BY <2>2, <3>2, <3>3
  <2>5. DOMAIN backs = DOMAIN bags /\ \A k \in DOMAIN backs : backs[k] \in Nat
    <3>1. \A k \in DOMAIN bags : IsHeld(bags[k]) => backs[k] \in Nat
        BY <2>2
    <3> QED
        BY <1>9, <2>3, <3>1
  <2>6. PICK T : T = DOMAIN Counted
      OBVIOUS
  <2>7. T \in SUBSET DOMAIN backs
      BY <1>1, <2>5, <2>6
  <2>8. backs = [k \in DOMAIN backs |-> IF k \in T THEN backs[k] ELSE 0]
      BY <1>9, <2>4, <2>5, <2>6
  <2>9. SumOf(backs) = SumFunctionOnSet(backs, T)
    <3>1. PICK h : h = [k \in DOMAIN backs |-> IF k \in T THEN backs[k] ELSE 0]
        OBVIOUS
    <3>2. IsFiniteSet(DOMAIN backs)
        BY <1>1, <2>5
    <3>3. SumOf(h) = SumFunctionOnSet(backs, T)
        BY <2>5, <2>7, <3>1, <3>2, SumOfChosen
    <3>4. h = backs
        BY <2>8, <3>1
    <3> QED
        BY <3>3, <3>4
  <2>10. PICK g : g = [k \in DOMAIN bags |-> plan[k].backC]
      OBVIOUS
  <2>11. \A k \in T : backs[k] = g[k]
    <3> SUFFICES ASSUME NEW k \in T PROVE backs[k] = g[k]
        OBVIOUS
    <3>1. k \in DOMAIN bags /\ Weighed[k] > 0
        BY <1>1, <2>6
    <3>2. k \in told
        BY <2>2, <2>3, <3>1
    <3> QED
        BY <1>9, <2>10, <3>1, <3>2
  <2>12. IsFiniteSet(T)
      BY <1>1, <2>5, <2>7, FS_Subset
  <2>13. SumFunctionOnSet(backs, T) = SumFunctionOnSet(g, T)
      BY <2>11, <2>12, SumSame
  <2>14. SumFunctionOnSet(g, T) = ask.typed
      BY <1>2, <2>1, <2>6, <2>10
  <2>15. told # {}
      BY <2>1, <2>2 DEF AnyHeld
  <2> QED
      BY <1>10, <2>1, <2>9, <2>13, <2>14, <2>15
<1>13. ASSUME ByThePiece PROVE BackInBags(e)'
  <2>1. \A k \in DOMAIN bags : IsHeld(bags[k]) =>
            k \in told /\ bags[k].count \in Nat /\ plan[k].backC \in 0..bags[k].count
    <3> SUFFICES ASSUME NEW k \in DOMAIN bags, IsHeld(bags[k])
                 PROVE  k \in told /\ bags[k].count \in Nat /\ plan[k].backC \in 0..bags[k].count
        OBVIOUS
    <3>1. bags[k].count \in Nat
        BY <1>11, <1>13 DEF Sound
    <3>2. plan[k].backC \in 0..bags[k].count
        BY <1>2, <3>1 DEF None
    <3> QED
        BY <1>8, <3>1, <3>2 DEF None
  <2>2. CASE AnyHeld
    <3>1. (\A k \in DOMAIN bags : IsHeld(bags[k]) => bags[k].backC \in 0..bags[k].count)'
        BY <1>2, <2>1 DEF IsHeld
    <3>2. told # {}
        BY <2>1, <2>2 DEF AnyHeld
    <3>3. HeldBack' = backs
      <4>1. \A k \in DOMAIN bags : backs[k] = IF IsHeld(plan[k]) THEN Or0(plan[k].backC) ELSE 0
        <5> SUFFICES ASSUME NEW k \in DOMAIN bags
                     PROVE  backs[k] = IF IsHeld(plan[k]) THEN Or0(plan[k].backC) ELSE 0
            OBVIOUS
        <5>1. IsHeld(plan[k]) <=> IsHeld(bags[k])
            BY <1>2 DEF IsHeld
        <5>2. CASE IsHeld(bags[k])
            BY <1>9, <2>1, <5>1, <5>2 DEF Or0, None
        <5>3. CASE ~IsHeld(bags[k])
            BY <1>8, <1>9, <5>1, <5>3
        <5> QED
            BY <5>2, <5>3
      <4>2. HeldBack' = [k \in DOMAIN bags |-> IF IsHeld(plan[k]) THEN Or0(plan[k].backC) ELSE 0]
          BY <1>2 DEF HeldBack
      <4> QED
          BY <1>9, <4>1, <4>2
    <3>4. SumOf(HeldBack)' = SumOf(backs)
        BY <3>3, Zenon
    <3>5. Or0(e.back) = SumOf(backs)
      <4>1. e.back = SumOf(backs)
          BY <1>10, <3>2
      <4>2. DOMAIN backs = DOMAIN bags /\ \A k \in DOMAIN backs : backs[k] \in Nat
          BY <1>8, <1>9, <2>1
      <4>3. SumOf(backs) \in Nat
          BY <1>1, <4>2, SumRows
      <4> QED
          BY <4>1, <4>3 DEF Or0, None
    <3> QED
        BY <3>1, <3>4, <3>5 DEF BackInBags
  <2>3. CASE ~AnyHeld
    <3>1. \A k \in DOMAIN bags : ~IsHeld(bags[k])
        BY <2>3 DEF AnyHeld
    <3>2. Unseen'
        BY <1>2, <3>1 DEF Unseen, IsHeld
    <3>3. \A k \in DOMAIN Unweighed : Unweighed[k] = 0
        BY <3>1 DEF Unweighed
    <3>4. SumOf(Unweighed) = 0
        BY <1>1, <3>3, SumRows
    <3>5. told = {}
        BY <1>8, <3>1
    <3>6. Or0(e.back) \in Nat
        BY EntryFields, GivenOrNothing
    <3>7. Or0(e.back) <= GivenCount(e)'
        BY <1>4, <1>6, <1>10, <3>4, <3>5, <3>6
    <3> QED
        BY <3>2, <3>7 DEF BackInBags
  <2> QED
      BY <2>2, <2>3
<1>14. IsReturned(e)'
    BY DEF IsReturned
<1>15. /\ GivenCount(e)' >= 0
       /\ GivenCount(e)' > 0 => Or0(e.set) + Or0(e.back) <= GivenCount(e)'
       /\ e.typed # None /\ AllCounted' => e.back = e.typed
    BY <1>3, <1>4, <1>6, <1>7, <1>12
<1>16. ByThePiece' => BackInBags(e)'
    BY <1>13
<1> QED
    BY <1>5, <1>14, <1>15, <1>16 DEF StonesOK

(* What QC may write down of the silver.                                   *)
LEMMA SeenFields ==
    ASSUME NEW stage, NEW seen \in SilverAsks(stage)
    PROVE  /\ seen.good \in BOOLEAN /\ seen.returned \in Given /\ Or0(seen.returned) \in Nat
           /\ seen.lost[1] \in Nat /\ seen.lost[2] \in Nat /\ seen.lost[3] \in Nat
           /\ stage \in PHOTO_ONLY_STAGES =>
                seen.returned = None /\ seen.lost[1] + seen.lost[2] + seen.lost[3] = 0
           /\ stage \notin PHOTO_ONLY_STAGES => seen.returned # None /\ (seen.good => seen.returned > 0)
<1>1. CASE stage \in PHOTO_ONLY_STAGES
  <2>1. seen = [good |-> TRUE, returned |-> None, lost |-> <<0, 0, 0>>]
      BY <1>1 DEF SilverAsks
  <2>2. /\ seen.good = TRUE /\ seen.returned = None /\ seen.lost = <<0, 0, 0>>
      BY <2>1
  <2>3. seen.lost[1] = 0 /\ seen.lost[2] = 0 /\ seen.lost[3] = 0
      BY <2>2
  <2>4. seen.good \in BOOLEAN
      BY <2>2, Zenon
  <2>5. seen.returned \in Given /\ Or0(seen.returned) = 0
      BY <2>2 DEF Given, Or0
  <2>6. seen.lost[1] + seen.lost[2] + seen.lost[3] = 0 /\ 0 \in Nat
      BY <2>3
  <2> QED
      BY <1>1, <2>2, <2>3, <2>4, <2>5, <2>6, Zenon
<1>2. CASE stage \notin PHOTO_ONLY_STAGES
  <2>1. seen \in {x \in [good : BOOLEAN, returned : Weighings \cup {0}, lost : Recoveries] :
            /\ x.good => x.returned > 0
            /\ ~x.good => stage \in DEFECT_REPORT_STAGES}
      BY <1>2, Zenon DEF SilverAsks
  <2>2. /\ seen \in [good : BOOLEAN, returned : Weighings \cup {0}, lost : Recoveries]
        /\ seen.good => seen.returned > 0
      BY <2>1, Zenon
  <2>3. seen.good \in BOOLEAN /\ seen.returned \in Nat /\ seen.lost \in Recoveries
    <3>1. seen.good \in BOOLEAN
        BY <2>2, Zenon
    <3>2. seen.returned \in Weighings \cup {0} /\ seen.lost \in Recoveries
        BY <2>2
    <3>3. Weighings \subseteq Nat
        BY QtyAssumption
    <3>4. \A r \in Weighings \cup {0} : r \in Nat
        BY <3>3
    <3> QED
        BY <3>1, <3>2, <3>4, Zenon
  <2>4. seen.lost[1] \in Nat /\ seen.lost[2] \in Nat /\ seen.lost[3] \in Nat
      BY <2>3, TypedAssumption
  <2> QED
      BY <1>2, <2>2, <2>3, <2>4 DEF Given, Or0, None
<1> QED
    BY <1>1, <1>2

(* What he writes down, and what he leaves alone.                          *)
MayNote(ask, f, seen) ==
    /\ ask.typed \in Given /\ f.back \in Given /\ f.set \in Given /\ f.setGrams \in Given
    /\ seen.good \in BOOLEAN /\ seen.returned \in Given
    /\ seen.lost[1] \in Nat /\ seen.lost[2] \in Nat /\ seen.lost[3] \in Nat
AsNoted(e, was, ask, f, seen) ==
    /\ e \in EntryValues /\ e.stage = was.stage /\ e.handed = was.handed
    /\ e.phase = IF was.stage \in KEEPER_CONFIRM_STAGES THEN "returned" ELSE "confirmed"
    /\ e.metal = was.metal /\ e.stones = was.stones /\ e.stoneGrams = was.stoneGrams
    /\ e.more = was.more /\ e.moreGrams = was.moreGrams /\ e.good = seen.good
    /\ e.returned = seen.returned /\ e.btp = seen.lost[1] /\ e.silver = seen.lost[2]
    /\ e.s999 = seen.lost[3] /\ e.set = f.set /\ e.setGrams = f.setGrams /\ e.back = f.back
    /\ e.typed = IF AnyHeld THEN ask.typed ELSE None
LEMMA NotedFields ==
    ASSUME NEW was \in EntryValues, NEW revise \in BOOLEAN, NEW ask, NEW f, NEW seen, MayNote(ask, f, seen),
           NEW e, e = Noted(was, revise, ask, f, seen)
    PROVE  AsNoted(e, was, ask, f, seen)
<1>0. /\ ask.typed \in Given /\ f.back \in Given /\ f.set \in Given /\ f.setGrams \in Given
      /\ seen.good \in BOOLEAN /\ seen.returned \in Given
      /\ seen.lost[1] \in Nat /\ seen.lost[2] \in Nat /\ seen.lost[3] \in Nat
    BY DEF MayNote
<1>1. PICK phase \in {"working", "submitted", "returned", "confirmed"} :
            phase = IF was.stage \in KEEPER_CONFIRM_STAGES THEN "returned" ELSE "confirmed"
    OBVIOUS
<1>2. PICK counted \in Given : counted = IF AnyHeld THEN ask.typed ELSE None
    BY <1>0 DEF Given
<1>3. was.revisions \in Nat
    BY EntryFields
<1>4. PICK times \in Nat : times = IF revise THEN was.revisions + 1 ELSE was.revisions
    BY <1>3
<1>5. PICK c : c = [was EXCEPT !.phase = phase, !.good = seen.good, !.returned = seen.returned,
                               !.btp = seen.lost[1], !.silver = seen.lost[2]]
    OBVIOUS
<1>6. e = [c EXCEPT !.s999 = seen.lost[3], !.set = f.set, !.setGrams = f.setGrams, !.back = f.back,
                    !.typed = counted, !.revisions = times]
  <2>1. e = [was EXCEPT !.phase = phase, !.good = seen.good, !.returned = seen.returned,
                        !.btp = seen.lost[1], !.silver = seen.lost[2], !.s999 = seen.lost[3],
                        !.set = f.set, !.setGrams = f.setGrams, !.back = f.back,
                        !.typed = counted, !.revisions = times]
      BY <1>1, <1>2, <1>4, Zenon DEF Noted
  <2> QED
      BY <1>5, <2>1, Zenon
<1>7. /\ c \in EntryValues /\ c.stage = was.stage /\ c.handed = was.handed /\ c.phase = phase
      /\ c.metal = was.metal /\ c.stones = was.stones /\ c.stoneGrams = was.stoneGrams
      /\ c.more = was.more /\ c.moreGrams = was.moreGrams /\ c.good = seen.good
      /\ c.returned = seen.returned /\ c.btp = seen.lost[1] /\ c.silver = seen.lost[2]
    BY <1>0, <1>5 DEF EntryValues
<1>8. PICK d : d = [c EXCEPT !.s999 = seen.lost[3], !.set = f.set, !.setGrams = f.setGrams]
    OBVIOUS
<1>9. e = [d EXCEPT !.back = f.back, !.typed = counted, !.revisions = times]
    BY <1>6, <1>8, Zenon
<1>10. /\ d \in EntryValues /\ d.stage = c.stage /\ d.handed = c.handed /\ d.phase = c.phase
       /\ d.metal = c.metal /\ d.stones = c.stones /\ d.stoneGrams = c.stoneGrams
       /\ d.more = c.more /\ d.moreGrams = c.moreGrams /\ d.good = c.good
       /\ d.returned = c.returned /\ d.btp = c.btp /\ d.silver = c.silver /\ d.s999 = seen.lost[3]
       /\ d.set = f.set /\ d.setGrams = f.setGrams
    BY <1>0, <1>7, <1>8 DEF EntryValues
<1>11. /\ e \in EntryValues /\ e.stage = d.stage /\ e.handed = d.handed /\ e.phase = d.phase
       /\ e.metal = d.metal /\ e.stones = d.stones /\ e.stoneGrams = d.stoneGrams
       /\ e.more = d.more /\ e.moreGrams = d.moreGrams /\ e.good = d.good
       /\ e.returned = d.returned /\ e.btp = d.btp /\ e.silver = d.silver /\ e.s999 = d.s999
       /\ e.set = d.set /\ e.setGrams = d.setGrams /\ e.back = f.back /\ e.typed = counted
  <2>1. PICK g : g = [d EXCEPT !.back = f.back, !.typed = counted]
      OBVIOUS
  <2>2. e = [g EXCEPT !.revisions = times]
      BY <1>9, <2>1, Zenon
  <2>3. f.back \in Given
      BY <1>0
  <2>4. /\ g \in EntryValues /\ g.stage = d.stage /\ g.handed = d.handed /\ g.phase = d.phase
        /\ g.metal = d.metal /\ g.stones = d.stones /\ g.stoneGrams = d.stoneGrams
        /\ g.more = d.more /\ g.moreGrams = d.moreGrams /\ g.good = d.good
        /\ g.returned = d.returned /\ g.btp = d.btp /\ g.silver = d.silver /\ g.s999 = d.s999
        /\ g.set = d.set /\ g.setGrams = d.setGrams /\ g.back = f.back /\ g.typed = counted
      BY <1>10, <2>1, <2>3 DEF EntryValues
  <2>5. /\ e \in EntryValues /\ e.stage = g.stage /\ e.handed = g.handed /\ e.phase = g.phase
        /\ e.metal = g.metal /\ e.stones = g.stones /\ e.stoneGrams = g.stoneGrams
        /\ e.more = g.more /\ e.moreGrams = g.moreGrams /\ e.good = g.good
        /\ e.returned = g.returned /\ e.btp = g.btp /\ e.silver = g.silver /\ e.s999 = g.s999
        /\ e.set = g.set /\ e.setGrams = g.setGrams /\ e.back = g.back /\ e.typed = g.typed
      BY <2>2, <2>4 DEF EntryValues
  <2> QED
      BY <2>4, <2>5
<1> QED
    BY <1>1, <1>2, <1>7, <1>10, <1>11 DEF AsNoted

(* What QC may type of the stones, whatever the stage.                     *)
LEMMA AsksTyped ==
    ASSUME bags \in Seq(BagValues), NEW ask \in (IF Last.stage = "STONE_SETTING" THEN StoneAsks ELSE NoStones)
    PROVE  ask \in AskValues /\ ask.typed \in Given /\ Or0(ask.legacy) <= SumOf(Unweighed)
<1>1. SumOf(Weighed) \in Nat /\ SumOf(Counted) \in Nat /\ SumOf(Unweighed) \in Nat
    BY BagSums
<1>2. CASE Last.stage = "STONE_SETTING"
  <2>1. PICK x, y, z : x = SumOf(Weighed) /\ y = SumOf(Counted) /\ z = SumOf(Unweighed)
      OBVIOUS
  <2>2. ask \in [line : {None} \cup 0..x, typed : {None} \cup 0..y, legacy : {None} \cup 0..z]
      BY <1>2, <2>1 DEF StoneAsks
  <2>3. x \in Nat /\ y \in Nat /\ z \in Nat
      BY <1>1, <2>1
  <2> QED
      BY <2>1, <2>2, <2>3 DEF AskValues, Given, Or0
<1>3. CASE Last.stage # "STONE_SETTING"
  <2>1. ask = [line |-> None, typed |-> None, legacy |-> None]
      BY <1>3 DEF NoStones
  <2> QED
      BY <1>1, <2>1 DEF AskValues, Given, Or0
<1> QED
    BY <1>2, <1>3

(* QC takes the stage back, or corrects what he wrote.                     *)
LEMMA ReturnKeeps ==
    ASSUME TicketInv, NEW revise \in BOOLEAN,
           NEW ask \in (IF Last.stage = "STONE_SETTING" THEN StoneAsks ELSE NoStones),
           ReturnStage(revise, ask)
    PROVE  TicketInv'
<1>1. WeightsTypeOK /\ EntriesSound /\ BagsSound /\ StonesSound /\ StoreSound
    BY DEF TicketInv
<1>2. PICK was : was = Last
    OBVIOUS
<1>3. MayReturn(revise) /\ StoneAskOK(ask) /\ order' = order
      /\ bags' = IF was.stage = "STONE_SETTING" THEN PlanStoneReturn(ask) ELSE bags
    BY <1>2, Zenon DEF ReturnStage
<1>4. PICK typed \in IF Last.stage = "STONE_SETTING" THEN SetFigures ELSE {<<None, None>>} :
        \E f \in {IF Last.stage = "STONE_SETTING" THEN StoneFigures(Last, ask, typed, bags') ELSE NoFigures} :
        \E seen \in SilverAsks(Last.stage) :
            /\ StonesWithin(Last, f, typed)
            /\ SilverWithin(Last, f.setGrams,
                    Or0(seen.returned) + seen.lost[1] + seen.lost[2] + seen.lost[3])
            /\ Update(Noted(Last, revise, ask, f, seen))
            /\ stock' = IF Last.stage \in QC_STOCK_RECOVERY_STAGES
                        THEN [stock EXCEPT !.s925 = @ + seen.lost[1] + seen.lost[2], !.s999 = @ + seen.lost[3]]
                        ELSE stock
    BY Zenon DEF ReturnStage
<1>5. PICK f \in {IF was.stage = "STONE_SETTING" THEN StoneFigures(was, ask, typed, bags') ELSE NoFigures},
           seen \in SilverAsks(was.stage) :
            /\ StonesWithin(was, f, typed)
            /\ SilverWithin(was, f.setGrams,
                    Or0(seen.returned) + seen.lost[1] + seen.lost[2] + seen.lost[3])
            /\ Update(Noted(was, revise, ask, f, seen))
            /\ stock' = IF was.stage \in QC_STOCK_RECOVERY_STAGES
                        THEN [stock EXCEPT !.s925 = @ + seen.lost[1] + seen.lost[2], !.s999 = @ + seen.lost[3]]
                        ELSE stock
    BY <1>2, <1>4, Zenon
<1>6. entries # <<>> /\ was.phase \in {"submitted", "returned"}
    BY <1>2, <1>3 DEF MayReturn
<1>7. /\ was \in EntryValues /\ Plain(was) /\ Len(entries) \in DOMAIN entries
      /\ was = entries[Len(entries)] /\ was.revisions \in Nat /\ was.stage \in Stages
    BY <1>1, <1>2, <1>6, LastFields, EntryFields
<1>8. ByThePiece \in BOOLEAN /\ Gram3d \in Given /\ (ByThePiece' <=> ByThePiece)
    BY <1>1, <1>3, OrderFields DEF ByThePiece
<1>9. bags \in Seq(BagValues) /\ \A k \in DOMAIN bags : Sound(bags[k])
    BY <1>1 DEF WeightsTypeOK, BagsSound
<1>10. ask \in AskValues /\ ask.typed \in Given /\ Or0(ask.legacy) <= SumOf(Unweighed)
    BY <1>9, AsksTyped
<1>11. typed[1] \in Given /\ typed[2] \in Given
    BY TypedAssumption DEF Given
<1>12. PICK plan : plan = PlanStoneReturn(ask)
    OBVIOUS
<1>13. was.stage = "STONE_SETTING" => bags' = plan /\ f = StoneFigures(was, ask, typed, plan)
    BY <1>3, <1>12
<1>14. was.stage # "STONE_SETTING" => f = NoFigures
    OBVIOUS
<1>15. f.back \in Given /\ f.set \in Given /\ f.setGrams \in Given
  <2>1. CASE was.stage = "STONE_SETTING"
      BY <1>7, <1>8, <1>9, <1>3, <1>10, <1>11, <1>12, <1>13, <2>1, FiguresFields
  <2>2. CASE was.stage # "STONE_SETTING"
      BY <1>14, <2>2 DEF NoFigures, Given
  <2> QED
      BY <2>1, <2>2
<1>16. /\ seen.good \in BOOLEAN /\ seen.returned \in Given /\ Or0(seen.returned) \in Nat
       /\ seen.lost[1] \in Nat /\ seen.lost[2] \in Nat /\ seen.lost[3] \in Nat
       /\ was.stage \in PHOTO_ONLY_STAGES =>
            seen.returned = None /\ seen.lost[1] + seen.lost[2] + seen.lost[3] = 0
       /\ was.stage \notin PHOTO_ONLY_STAGES => seen.returned # None /\ (seen.good => seen.returned > 0)
    BY SeenFields
<1>17. PICK e : e = Noted(was, revise, ask, f, seen)
    OBVIOUS
<1>21. Update(e)
    BY <1>5, <1>17, Zenon
<1>22. /\ e \in EntryValues /\ e.stage = was.stage /\ e.handed = was.handed
       /\ e.phase = IF was.stage \in KEEPER_CONFIRM_STAGES THEN "returned" ELSE "confirmed"
       /\ e.metal = was.metal /\ e.stones = was.stones /\ e.stoneGrams = was.stoneGrams
       /\ e.more = was.more /\ e.moreGrams = was.moreGrams /\ e.good = seen.good
       /\ e.returned = seen.returned /\ e.btp = seen.lost[1] /\ e.silver = seen.lost[2]
       /\ e.s999 = seen.lost[3] /\ e.set = f.set /\ e.setGrams = f.setGrams /\ e.back = f.back
       /\ e.typed = IF AnyHeld THEN ask.typed ELSE None
  <2>1. MayNote(ask, f, seen)
      BY <1>10, <1>15, <1>16, Zenon DEF MayNote
  <2>2. AsNoted(e, was, ask, f, seen)
      BY <1>7, <1>17, <2>1, NotedFields
  <2> QED
      BY <2>2, Zenon DEF AsNoted
<1>23. SilverIn(e) = SilverIn(was) /\ IsReturned(e)
    BY <1>22 DEF SilverIn, IsReturned
<1>24. Recovered(e) = seen.lost[1] + seen.lost[2] + seen.lost[3]
    BY <1>22 DEF Recovered
<1>25. Plain(e)
  <2>1. e.stage # "STONE_SETTING" =>
            e.stones = None /\ e.more = 0 /\ e.set = None /\ e.setGrams = None /\ e.back = None
      BY <1>7, <1>14, <1>22 DEF Plain, NoFigures
  <2>2. e.stage \in PHOTO_ONLY_STAGES => e.returned = None /\ Recovered(e) = 0
      BY <1>16, <1>22, <1>24
  <2>3. e.stage \notin PHOTO_ONLY_STAGES => e.returned # None /\ (e.good => e.returned > 0)
      BY <1>16, <1>22
  <2>4. e.phase = "returned" => e.stage \in KEEPER_CONFIRM_STAGES
      BY <1>22
  <2>5. e.returned # None /\ SilverIn(e) # None => e.returned + Recovered(e) <= SilverIn(e) + Or0(e.setGrams)
    <3> HAVE e.returned # None /\ SilverIn(e) # None
    <3>1. Or0(seen.returned) + seen.lost[1] + seen.lost[2] + seen.lost[3] <= SilverIn(was) + Or0(f.setGrams)
        BY <1>5, <1>23 DEF SilverWithin
    <3>2. Or0(seen.returned) = e.returned /\ e.returned \in Nat
        BY <1>16, <1>22, GivenOrNothing
    <3> QED
        BY <1>16, <1>22, <1>23, <1>24, <3>1, <3>2
  <2> QED
      BY <1>23, <2>1, <2>2, <2>3, <2>4, <2>5 DEF Plain
<1>26. bags' \in Seq(BagValues) /\ (\A k \in DOMAIN bags : Sound(bags[k]))'
  <2>1. CASE was.stage # "STONE_SETTING"
      BY <1>3, <1>8, <1>9, <2>1 DEF Sound
  <2>2. CASE was.stage = "STONE_SETTING"
    <3>1. plan \in Seq(BagValues) /\ DOMAIN plan = DOMAIN bags /\ \A k \in DOMAIN bags : Sound(plan[k])
        BY <1>3, <1>8, <1>9, <1>10, <1>12, PlanFields
    <3> QED
        BY <1>8, <1>13, <2>2, <3>1 DEF Sound
  <2> QED
      BY <2>1, <2>2
<1>27. ASSUME e.stage = "STONE_SETTING" PROVE StonesOK(e)'
  <2>1. was.stage = "STONE_SETTING" /\ bags' = plan /\ f = StoneFigures(was, ask, typed, plan)
      BY <1>13, <1>22, <1>27
  <2>2. InHisBags(was)
    <3>1. StonesOK(was)
        BY <1>1, <1>7, <2>1 DEF StonesSound
    <3> QED
        BY <1>6, <3>1 DEF StonesOK
  <2>3. e.phase = "returned"
      BY <1>22, <2>1 DEF KEEPER_CONFIRM_STAGES
  <2>4. StonesWithin(was, f, typed) /\ StoneAskOK(ask)
      BY <1>3, <1>5
  <2> QED
      BY <1>7, <1>8, <1>9, <1>10, <1>11, <1>12, <1>22, <2>1, <2>2, <2>3, <2>4, StonesReturned
<1>28. e.stage # "STONE_SETTING" => bags' = bags
    BY <1>3, <1>22
<1>29. /\ stock.s925 \in Nat /\ stock.s999 \in Nat
       /\ stock = [s925 |-> stock.s925, s999 |-> stock.s999, scrap |-> stock.scrap]
    BY <1>1 DEF StoreSound
<1>30. StoredOf(was) = 0 /\ Stored999Of(was) = 0
    BY <1>6 DEF StoredOf, Stored999Of
<1>31. StoredOf(e) \in Nat /\ Stored999Of(e) \in Nat
    BY <1>16, <1>22 DEF StoredOf, Stored999Of
<1>32. PICK a \in Int : a = stock.s925 - StoredOf(was) + StoredOf(e)
    BY <1>29, <1>30, <1>31
<1>33. PICK b \in Int : b = stock.s999 - Stored999Of(was) + Stored999Of(e)
    BY <1>29, <1>30, <1>31
<1>34. stock' = [s925 |-> a, s999 |-> b, scrap |-> stock.scrap]
  <2>1. CASE was.stage \in QC_STOCK_RECOVERY_STAGES
    <3>1. e.phase = "confirmed"
        BY <1>22, <2>1 DEF QC_STOCK_RECOVERY_STAGES, KEEPER_CONFIRM_STAGES
    <3>2. a = stock.s925 + seen.lost[1] + seen.lost[2] /\ b = stock.s999 + seen.lost[3]
        BY <1>16, <1>22, <1>29, <1>30, <1>32, <1>33, <3>1 DEF StoredOf, Stored999Of
    <3>3. stock' = [stock EXCEPT !.s925 = a, !.s999 = b]
        BY <1>5, <2>1, <3>2, Zenon
    <3> QED
        BY <1>29, <3>3
  <2>2. CASE was.stage \notin QC_STOCK_RECOVERY_STAGES
    <3>1. stock' = stock
        BY <1>5, <2>2
    <3>2. StoredOf(e) = 0 /\ Stored999Of(e) = 0
      <4>1. CASE was.stage \in KEEPER_CONFIRM_STAGES
          BY <1>22, <4>1 DEF StoredOf, Stored999Of
      <4>2. CASE was.stage \notin KEEPER_CONFIRM_STAGES
        <5>1. was.stage \in PHOTO_ONLY_STAGES
            BY <1>7, <2>2, <4>2 DEF Stages
        <5>2. seen.lost[1] + seen.lost[2] + seen.lost[3] = 0
            BY <1>16, <5>1
        <5>3. seen.lost[1] + seen.lost[2] = 0 /\ seen.lost[3] = 0
          <6>1. \A x, y, z \in Nat : x + y + z = 0 => x + y = 0 /\ z = 0
              OBVIOUS
          <6> QED
              BY <1>16, <5>2, <6>1, Zenon
        <5> QED
            BY <1>22, <5>3 DEF StoredOf, Stored999Of
      <4> QED
          BY <4>1, <4>2
    <3> QED
        BY <1>29, <1>30, <1>32, <1>33, <3>1, <3>2
  <2> QED
      BY <2>1, <2>2
<1>35. /\ order' = order /\ entries # <<>> /\ e \in EntryValues
       /\ e.stage = Last.stage /\ SilverIn(e) = SilverIn(Last)
       /\ a = stock.s925 - StoredOf(Last) + StoredOf(e)
       /\ b = stock.s999 - Stored999Of(Last) + Stored999Of(e)
    BY <1>2, <1>3, <1>6, <1>22, <1>23, <1>32, <1>33
<1> QED
    BY <1>21, <1>25, <1>26, <1>27, <1>28, <1>34, <1>35, StepKeeps

(* The setter gives stones back early: what leaves his bags is written on   *)
(* them, so that what he was given and what he holds shrink together.        *)
LEMMA GivenBackEarly ==
    ASSUME bags \in Seq(BagValues), \A k \in DOMAIN bags : Sound(bags[k]), ByThePiece \in BOOLEAN,
           ByThePiece' <=> ByThePiece, NEW grams \in Nat, NEW split, split = FromTheLast(Weighed, grams),
           bags' = [i \in DOMAIN bags |-> IF split[i] > 0 THEN ShrinkHold(bags[i], split[i]) ELSE bags[i]],
           NEW e \in EntryValues, InHisBags(e)
    PROVE  bags' \in Seq(BagValues) /\ (\A k \in DOMAIN bags : Sound(bags[k]))' /\ InHisBags(e)'
<1>1. /\ Len(bags) \in Nat /\ DOMAIN bags = 1..Len(bags) /\ IsFiniteSet(DOMAIN bags)
      /\ DOMAIN Weighed = DOMAIN bags /\ (\A k \in DOMAIN bags : Weighed[k] \in Nat)
      /\ \A k \in DOMAIN bags : bags[k] \in BagValues
    BY BagSums
<1>2. DOMAIN split = DOMAIN bags /\ \A k \in DOMAIN bags : split[k] \in 0..Weighed[k]
  <2>0. Len(bags) \in Nat
      BY <1>1
  <2>1. PICK n \in Nat : n = Len(bags)
      BY <2>0
  <2>2. DOMAIN Weighed \subseteq 1..n /\ \A x \in DOMAIN Weighed : Weighed[x] \in Nat
      BY <1>1, <2>1
  <2>3. PICK xs : xs = Weighed
      OBVIOUS
  <2>4. DOMAIN split = DOMAIN xs /\ \A x \in DOMAIN xs : split[x] \in 0..xs[x]
      BY <2>2, <2>3, FromTheLastGives
  <2> QED
      BY <1>1, <2>3, <2>4
<1>3. PICK new : new = [i \in DOMAIN bags |-> IF split[i] > 0 THEN ShrinkHold(bags[i], split[i]) ELSE bags[i]]
    BY Zenon
<1>4. ASSUME NEW k \in DOMAIN bags
      PROVE  /\ Sound(new[k]) /\ new[k].out = bags[k].out
             /\ new[k].weight + new[k].earlyW = bags[k].weight + bags[k].earlyW
             /\ Or0(new[k].count) + new[k].earlyC = Or0(bags[k].count) + bags[k].earlyC
             /\ IsHeld(bags[k]) => new[k].state \in {"HELD", "RELEASED"}
             /\ IsHeld(bags[k]) /\ ~IsHeld(new[k]) => Or0(new[k].count) = 0
             /\ ~IsHeld(bags[k]) => new[k] = bags[k]
  <2>1. PICK b, g, c : b = bags[k] /\ g = split[k] /\ c = new[k]
      OBVIOUS
  <2>2. Sound(b) /\ g \in 0..Weighed[k] /\ Weighed[k] \in Nat
      BY <1>1, <1>2, <2>1
  <2>3. CASE g > 0
    <3>1. b.state = "HELD" /\ g \in Nat /\ g <= b.weight
        BY <2>1, <2>2, <2>3 DEF Weighed, IsHeld
    <3>2. c = ShrinkHold(b, g)
        BY <1>3, <2>1, <2>3
    <3>3. /\ Sound(c) /\ c.state \in {"HELD", "RELEASED"} /\ c.out = b.out
          /\ c.earlyW = b.earlyW + g /\ c.weight + c.earlyW = b.weight + b.earlyW
          /\ Or0(c.count) + c.earlyC = Or0(b.count) + b.earlyC
          /\ c.state = "RELEASED" => Or0(c.count) = 0 /\ 2 * b.qty * c.weight <= b.weight
        BY <2>2, <2>3, <3>1, <3>2, BagShrinks
    <3> QED
        BY <2>1, <3>1, <3>3 DEF IsHeld
  <2>4. CASE ~(g > 0)
    <3>1. c = b
        BY <1>3, <2>1, <2>4
    <3> QED
        BY <2>1, <2>2, <3>1 DEF IsHeld
  <2> QED
      BY <2>3, <2>4
<1>5. bags' = new
    BY <1>3, Zenon
<1>6. DOMAIN new = DOMAIN bags
    BY <1>3
<1>7. \A k \in DOMAIN bags : new[k] \in BagValues
    BY <1>4 DEF Sound
<1>8. new \in Seq(BagValues)
  <2>1. new = [i \in DOMAIN bags |-> new[i]]
      BY <1>3
  <2> QED
      BY <1>6, <1>7, <2>1, RowsRewritten
<1>9. (\A k \in DOMAIN bags : Sound(bags[k]))'
    BY <1>4, <1>5, <1>6 DEF Sound
<1>10. \A k \in DOMAIN bags :
            /\ Or0(new[k].count) \in Nat /\ Or0(bags[k].count) \in Nat
            /\ new[k].earlyC \in Nat /\ bags[k].earlyC \in Nat
            /\ new[k].weight \in Nat /\ bags[k].weight \in Nat
            /\ new[k].earlyW \in Nat /\ bags[k].earlyW \in Nat
    BY <1>1, <1>7, BagFields
<1>11. PICK c0, c1, e0, e1, t : /\ c0 = HeldCounts
                                /\ c1 = [k \in DOMAIN bags |-> IF IsHeld(new[k]) THEN Or0(new[k].count) ELSE 0]
                                /\ e0 = [k \in DOMAIN bags |-> bags[k].earlyC]
                                /\ e1 = [k \in DOMAIN bags |-> new[k].earlyC]
                                /\ t = [k \in DOMAIN bags |-> c0[k] + e0[k]]
    OBVIOUS
<1>12. \A k \in DOMAIN bags : /\ c0[k] \in Int /\ c1[k] \in Int /\ e0[k] \in Int /\ e1[k] \in Int
                              /\ t[k] = c0[k] + e0[k] /\ t[k] = c1[k] + e1[k]
  <2> SUFFICES ASSUME NEW k \in DOMAIN bags
               PROVE  /\ c0[k] \in Int /\ c1[k] \in Int /\ e0[k] \in Int /\ e1[k] \in Int
                      /\ t[k] = c0[k] + e0[k] /\ t[k] = c1[k] + e1[k]
      OBVIOUS
  <2>1. c0[k] \in Int /\ c1[k] \in Int /\ e0[k] \in Int /\ e1[k] \in Int /\ t[k] = c0[k] + e0[k]
      BY <1>10, <1>11 DEF HeldCounts
  <2>2. c1[k] + e1[k] = c0[k] + e0[k]
    <3>1. CASE ~IsHeld(bags[k])
        BY <1>4, <1>11, <3>1 DEF HeldCounts
    <3>2. CASE IsHeld(bags[k])
      <4>1. c0[k] = Or0(bags[k].count) /\ c1[k] = Or0(new[k].count)
          BY <1>4, <1>11, <3>2 DEF HeldCounts
      <4> QED
          BY <1>4, <1>10, <1>11, <4>1
    <3> QED
        BY <3>1, <3>2
  <2> QED
      BY <2>1, <2>2
<1>13. DOMAIN c0 = DOMAIN bags /\ DOMAIN c1 = DOMAIN bags /\ DOMAIN e0 = DOMAIN bags /\ DOMAIN e1 = DOMAIN bags
       /\ DOMAIN t = DOMAIN bags
    BY <1>11 DEF HeldCounts
<1>14. SumOf(t) = SumOf(c0) + SumOf(e0)
    BY <1>1, <1>12, <1>13, SumRowsBoth
<1>15. SumOf(t) = SumOf(c1) + SumOf(e1)
    BY <1>1, <1>12, <1>13, SumRowsBoth
<1>16. SumOf(c0) \in Int /\ SumOf(c1) \in Int /\ SumOf(e0) \in Int /\ SumOf(e1) \in Int
    BY <1>1, <1>12, <1>13, SumRows
<1>17. /\ SumOf(HeldCounts) = SumOf(c0) /\ SumOf(HeldCounts)' = SumOf(c1)
       /\ EarlyCount = SumOf(e0) /\ EarlyCount' = SumOf(e1)
  <2>1. HeldCounts' = c1
      BY <1>5, <1>6, <1>11, Zenon DEF HeldCounts
  <2>2. EarlyCount' = SumOf(e1)
      BY <1>5, <1>6, <1>11, Zenon DEF EarlyCount
  <2> QED
      BY <1>11, <2>1, <2>2, Zenon DEF EarlyCount
<1>18. PICK w0, w1, g0, g1, s : /\ w0 = [k \in DOMAIN bags |-> bags[k].weight]
                                /\ w1 = [k \in DOMAIN bags |-> new[k].weight]
                                /\ g0 = [k \in DOMAIN bags |-> bags[k].earlyW]
                                /\ g1 = [k \in DOMAIN bags |-> new[k].earlyW]
                                /\ s = [k \in DOMAIN bags |-> w0[k] + g0[k]]
    OBVIOUS
<1>19. \A k \in DOMAIN bags : /\ w0[k] \in Int /\ w1[k] \in Int /\ g0[k] \in Int /\ g1[k] \in Int
                              /\ s[k] = w0[k] + g0[k] /\ s[k] = w1[k] + g1[k]
  <2> SUFFICES ASSUME NEW k \in DOMAIN bags
               PROVE  /\ w0[k] \in Int /\ w1[k] \in Int /\ g0[k] \in Int /\ g1[k] \in Int
                      /\ s[k] = w0[k] + g0[k] /\ s[k] = w1[k] + g1[k]
      OBVIOUS
  <2>1. w0[k] = bags[k].weight /\ w1[k] = new[k].weight /\ g0[k] = bags[k].earlyW /\ g1[k] = new[k].earlyW
        /\ s[k] = w0[k] + g0[k]
      BY <1>18
  <2>2. w0[k] \in Nat /\ w1[k] \in Nat /\ g0[k] \in Nat /\ g1[k] \in Nat
      BY <1>10, <2>1
  <2>3. w1[k] + g1[k] = w0[k] + g0[k]
      BY <1>4, <2>1
  <2> QED
      BY <2>1, <2>2, <2>3
<1>20. DOMAIN w0 = DOMAIN bags /\ DOMAIN w1 = DOMAIN bags /\ DOMAIN g0 = DOMAIN bags /\ DOMAIN g1 = DOMAIN bags
       /\ DOMAIN s = DOMAIN bags
    BY <1>18
<1>21. SumOf(s) = SumOf(w0) + SumOf(g0)
    BY <1>1, <1>19, <1>20, SumRowsBoth
<1>22. SumOf(s) = SumOf(w1) + SumOf(g1)
    BY <1>1, <1>19, <1>20, SumRowsBoth
<1>23. SumOf(w0) \in Int /\ SumOf(w1) \in Int /\ SumOf(g0) \in Int /\ SumOf(g1) \in Int
    BY <1>1, <1>19, <1>20, SumRows
<1>24. /\ StoneLine.weight = SumOf(w0) /\ StoneLine.weight' = SumOf(w1)
       /\ EarlyGrams = SumOf(g0) /\ EarlyGrams' = SumOf(g1)
  <2>1. StoneLine.weight = SumOf(w0) /\ EarlyGrams = SumOf(g0)
      BY <1>18 DEF StoneLine, EarlyGrams
  <2>2. StoneLine.weight' = SumOf(w1)
      BY <1>5, <1>6, <1>18 DEF StoneLine
  <2>3. EarlyGrams' = SumOf(g1)
      BY <1>5, <1>6, <1>18, Zenon DEF EarlyGrams
  <2> QED
      BY <2>1, <2>2, <2>3
<1>25. Or0(e.stones) \in Nat /\ e.more \in Nat /\ Or0(e.moreGrams) \in Nat /\ e.stoneGrams \in Given
    BY EntryFields, GivenOrNothing
<1>26. GivenCount(e)' = SumOf(HeldCounts)'
  <2>1. GivenCount(e)' = Or0(e.stones) + e.more - EarlyCount'
      BY DEF GivenCount
  <2>2. Or0(e.stones) + e.more - EarlyCount = SumOf(HeldCounts)
      BY DEF InHisBags, GivenCount
  <2>3. Or0(e.stones) + e.more - SumOf(e0) = SumOf(c0)
      BY <1>17, <2>2
  <2>4. SumOf(c0) + SumOf(e0) = SumOf(c1) + SumOf(e1)
      BY <1>14, <1>15
  <2>5. Or0(e.stones) + e.more - SumOf(e1) = SumOf(c1)
    <3>1. Or0(e.stones) \in Int /\ e.more \in Int
        BY <1>25
    <3>2. PICK x \in Int, y \in Int : x = Or0(e.stones) /\ y = e.more
        BY <3>1
    <3>3. PICK a \in Int, b \in Int : a = SumOf(c0) /\ b = SumOf(e0)
        BY <1>16
    <3>4. PICK c \in Int, d \in Int : c = SumOf(c1) /\ d = SumOf(e1)
        BY <1>16
    <3>5. x + y - b = a /\ a + b = c + d
        BY <2>3, <2>4, <3>2, <3>3, <3>4
    <3>6. x + y - d = c
        BY <3>5
    <3> QED
        BY <3>2, <3>4, <3>6
  <2> QED
      BY <1>17, <2>1, <2>5
<1>27. e.stoneGrams # None => e.stoneGrams + Or0(e.moreGrams) - EarlyGrams' = StoneLine.weight'
  <2> HAVE e.stoneGrams # None
  <2>1. e.stoneGrams + Or0(e.moreGrams) - EarlyGrams = StoneLine.weight /\ e.stoneGrams \in Nat
      BY <1>25 DEF InHisBags, Given
  <2>2. PICK x \in Nat, y \in Nat : x = e.stoneGrams /\ y = Or0(e.moreGrams)
      BY <1>25, <2>1
  <2>3. x + y - SumOf(g0) = SumOf(w0)
      BY <1>24, <2>1, <2>2
  <2>4. SumOf(w0) + SumOf(g0) = SumOf(w1) + SumOf(g1)
      BY <1>21, <1>22
  <2>5. x + y - SumOf(g1) = SumOf(w1)
    <3>1. PICK a \in Int, b \in Int : a = SumOf(w0) /\ b = SumOf(g0)
        BY <1>23
    <3>2. PICK c \in Int, d \in Int : c = SumOf(w1) /\ d = SumOf(g1)
        BY <1>23
    <3>3. x + y - b = a /\ a + b = c + d
        BY <2>3, <2>4, <3>1, <3>2
    <3>4. x + y - d = c
        BY <3>3
    <3> QED
        BY <3>2, <3>4
  <2> QED
      BY <1>24, <2>2, <2>5
<1>28. \A k \in DOMAIN bags : /\ new[k].state # "CONSUMED" /\ new[k].out = 0
                              /\ new[k].state = "RELEASED" => Or0(new[k].count) = 0
  <2> SUFFICES ASSUME NEW k \in DOMAIN bags
               PROVE  /\ new[k].state # "CONSUMED" /\ new[k].out = 0
                      /\ new[k].state = "RELEASED" => Or0(new[k].count) = 0
      OBVIOUS
  <2>1. /\ bags[k].state # "CONSUMED" /\ bags[k].out = 0
        /\ bags[k].state = "RELEASED" => Or0(bags[k].count) = 0
      BY DEF InHisBags
  <2>2. CASE IsHeld(bags[k])
      BY <1>4, <2>1, <2>2 DEF IsHeld
  <2>3. CASE ~IsHeld(bags[k])
      BY <1>4, <2>1, <2>3
  <2> QED
      BY <2>2, <2>3
<1>29. InHisBags(e)'
  <2>1. (\A k \in DOMAIN bags : /\ bags[k].state # "CONSUMED" /\ bags[k].out = 0
                                /\ bags[k].state = "RELEASED" => Or0(bags[k].count) = 0)'
      BY <1>5, <1>6, <1>28
  <2> QED
      BY <1>26, <1>27, <2>1 DEF InHisBags
<1> QED
    BY <1>5, <1>8, <1>9, <1>29

LEMMA EarlyKeeps ==
    ASSUME TicketInv, NEW grams \in 1..MaxEarly, ReturnStoneEarly(grams)
    PROVE  TicketInv'
<1>1. WeightsTypeOK /\ EntriesSound /\ BagsSound /\ StonesSound /\ StoreSound
    BY DEF TicketInv
<1>2. PICK was : was = Last
    OBVIOUS
<1>3. PICK split : split = FromTheLast(Weighed, grams)
    OBVIOUS
<1>4. /\ Open /\ was.stage = "STONE_SETTING" /\ UNCHANGED <<order, entries, stock>>
      /\ bags' = [i \in DOMAIN bags |-> IF split[i] > 0 THEN ShrinkHold(bags[i], split[i]) ELSE bags[i]]
    BY <1>2, <1>3, Zenon DEF ReturnStoneEarly
<1>5. entries # <<>> /\ ~IsReturned(was)
    BY <1>2, <1>4 DEF Open
<1>6. was \in EntryValues /\ Len(entries) \in DOMAIN entries /\ was = entries[Len(entries)]
    BY <1>1, <1>2, <1>5, LastFields
<1>7. was.phase # "confirmed" /\ was.phase # "returned"
    BY <1>5 DEF IsReturned
<1>8. InHisBags(was)
  <2>1. StonesOK(was)
      BY <1>1, <1>4, <1>6 DEF StonesSound
  <2> QED
      BY <1>7, <2>1 DEF StonesOK
<1>9. ByThePiece \in BOOLEAN /\ (ByThePiece' <=> ByThePiece)
    BY <1>1, <1>4, OrderFields DEF ByThePiece
<1>10. bags \in Seq(BagValues) /\ \A k \in DOMAIN bags : Sound(bags[k])
    BY <1>1 DEF WeightsTypeOK, BagsSound
<1>11. grams \in Nat
    BY QtyAssumption
<1>12. bags' \in Seq(BagValues) /\ (\A k \in DOMAIN bags : Sound(bags[k]))' /\ InHisBags(was)'
    BY <1>3, <1>4, <1>6, <1>8, <1>9, <1>10, <1>11, GivenBackEarly
<1>13. BagsSound'
  <2>1. ~(\A i \in DOMAIN entries : entries'[i].stage # "STONE_SETTING")
      BY <1>4, <1>6
  <2> QED
      BY <1>4, <1>12, <2>1 DEF BagsSound
<1>14. StonesSound'
  <2> SUFFICES ASSUME NEW i \in DOMAIN entries, entries[i].stage = "STONE_SETTING"
               PROVE  StonesOK(entries[i])'
      BY <1>4 DEF StonesSound
  <2>1. i = Len(entries)
      BY <1>1, <1>4, <1>6, StagesDiffer
  <2>2. ~IsReturned(was)'
      BY <1>7 DEF IsReturned
  <2>3. StonesOK(was)'
      BY <1>7, <1>12, <2>2 DEF StonesOK
  <2> QED
      BY <1>4, <1>6, <2>1, <2>3
<1>15. EntriesSound' /\ StoreSound'
    BY <1>1, <1>4 DEF EntriesSound, StoreSound
<1>16. WeightsTypeOK'
    BY <1>1, <1>4, <1>12 DEF WeightsTypeOK
<1> QED
    BY <1>13, <1>14, <1>15, <1>16 DEF TicketInv

(* A bag given to the setter.                                              *)
LEMMA LabelFields ==
    ASSUME ByThePiece \in BOOLEAN, NEW b \in Labels
    PROVE  /\ Sound(b) /\ b.state = "HELD" /\ b.out = 0 /\ b.earlyC = 0 /\ b.earlyW = 0
           /\ b.backW = None /\ b.backC = None /\ b.weight > 0
<1>1. PICK label \in BagLabels[ByThePiece] :
            b = NewBag(IF ByThePiece THEN label[1] ELSE label[2], label[1], label[2])
    BY DEF Labels
<1>2. /\ label[1] \in Nat \ {0} \/ (label[1] = None /\ ~ByThePiece)
      /\ label[2] \in Nat \ {0}
    BY BagAssumption
<1>3. PICK qty, count, weight : /\ qty = IF ByThePiece THEN label[1] ELSE label[2]
                                /\ count = label[1] /\ weight = label[2]
    OBVIOUS
<1>4. /\ b = [state |-> "HELD", qty |-> qty, count |-> count, weight |-> weight,
              backW |-> None, backC |-> None, earlyW |-> 0, earlyC |-> 0, out |-> 0]
    BY <1>1, <1>3 DEF NewBag
<1>5. qty \in Nat /\ qty > 0 /\ count \in Given /\ weight \in Nat /\ weight > 0
      /\ (ByThePiece => count = qty) /\ (~ByThePiece => qty = weight)
    BY <1>2, <1>3 DEF Given
<1>6. /\ b.state = "HELD" /\ b.qty = qty /\ b.count = count /\ b.weight = weight /\ b.backW = None
      /\ b.backC = None /\ b.earlyW = 0 /\ b.earlyC = 0 /\ b.out = 0
    BY <1>4
<1>7. b \in BagValues
    BY <1>4, <1>5 DEF BagValues, Given
<1> QED
    BY <1>5, <1>6, <1>7 DEF Sound

LEMMA BagAdded ==
    ASSUME bags \in Seq(BagValues), \A k \in DOMAIN bags : Sound(bags[k]), ByThePiece \in BOOLEAN,
           ByThePiece' <=> ByThePiece, NEW b \in Labels, bags' = Append(bags, b)
    PROVE  /\ bags' \in Seq(BagValues) /\ (\A k \in DOMAIN bags : Sound(bags[k]))'
           /\ EarlyCount' = EarlyCount /\ EarlyGrams' = EarlyGrams
           /\ SumOf(HeldCounts)' = SumOf(HeldCounts) + Or0(b.count)
           /\ StoneLine.weight' = StoneLine.weight + b.weight
           /\ \A k \in DOMAIN bags' : bags'[k] = b \/ \E j \in DOMAIN bags : bags'[k] = bags[j]
<1>1. /\ Sound(b) /\ b \in BagValues /\ b.state = "HELD" /\ b.earlyC = 0 /\ b.earlyW = 0
      /\ Or0(b.count) \in Nat /\ b.weight \in Nat
    BY LabelFields, BagFields DEF Sound
<1>2. IsFiniteSet(DOMAIN bags) /\ \A k \in DOMAIN bags : bags[k] \in BagValues
    BY BagSums
<1>3. \A k \in DOMAIN bags : /\ Or0(bags[k].count) \in Nat /\ bags[k].weight \in Nat
                             /\ bags[k].earlyC \in Nat /\ bags[k].earlyW \in Nat
    BY <1>2, BagFields
<1>4. PICK n, new : n = Len(bags) + 1 /\ new = Append(bags, b)
    OBVIOUS
<1>5. /\ new \in Seq(BagValues) /\ DOMAIN new = DOMAIN bags \cup {n} /\ n \notin DOMAIN bags
      /\ new[n] = b /\ \A j \in DOMAIN bags : new[j] = bags[j]
    BY <1>1, <1>4, RowAdded
<1>6. bags' = new
    BY <1>4
<1>7. EarlyCount' = EarlyCount
  <2>1. PICK f, g : /\ f = [k \in DOMAIN bags |-> bags[k].earlyC]
                    /\ g = [k \in DOMAIN new |-> new[k].earlyC]
      OBVIOUS
  <2>2. DOMAIN f = DOMAIN bags /\ DOMAIN g = DOMAIN f \cup {n} /\ n \notin DOMAIN f
        /\ (\A y \in DOMAIN f : f[y] \in Int /\ g[y] = f[y]) /\ g[n] = 0
      BY <1>1, <1>3, <1>5, <2>1
  <2>3. SumOf(g) = SumOf(f) + g[n]
      BY <1>2, <2>2, SumRowAdded
  <2>4. SumOf(f) \in Int
      BY <1>2, <2>2, SumRows
  <2>5. EarlyCount = SumOf(f) /\ EarlyCount' = SumOf(g)
      BY <1>6, <2>1, Zenon DEF EarlyCount
  <2> QED
      BY <2>2, <2>3, <2>4, <2>5
<1>8. EarlyGrams' = EarlyGrams
  <2>1. PICK f, g : /\ f = [k \in DOMAIN bags |-> bags[k].earlyW]
                    /\ g = [k \in DOMAIN new |-> new[k].earlyW]
      OBVIOUS
  <2>2. DOMAIN f = DOMAIN bags /\ DOMAIN g = DOMAIN f \cup {n} /\ n \notin DOMAIN f
        /\ (\A y \in DOMAIN f : f[y] \in Int /\ g[y] = f[y]) /\ g[n] = 0
      BY <1>1, <1>3, <1>5, <2>1
  <2>3. SumOf(g) = SumOf(f) + g[n]
      BY <1>2, <2>2, SumRowAdded
  <2>4. SumOf(f) \in Int
      BY <1>2, <2>2, SumRows
  <2>5. EarlyGrams = SumOf(f) /\ EarlyGrams' = SumOf(g)
      BY <1>6, <2>1, Zenon DEF EarlyGrams
  <2> QED
      BY <2>2, <2>3, <2>4, <2>5
<1>9. SumOf(HeldCounts)' = SumOf(HeldCounts) + Or0(b.count)
  <2>1. PICK f, g : /\ f = HeldCounts
                    /\ g = [k \in DOMAIN new |-> IF IsHeld(new[k]) THEN Or0(new[k].count) ELSE 0]
      OBVIOUS
  <2>2. DOMAIN f = DOMAIN bags /\ DOMAIN g = DOMAIN f \cup {n} /\ n \notin DOMAIN f
        /\ (\A y \in DOMAIN f : f[y] \in Int /\ g[y] = f[y]) /\ g[n] = Or0(b.count)
      BY <1>1, <1>3, <1>5, <2>1 DEF HeldCounts, IsHeld
  <2>3. SumOf(g) = SumOf(f) + g[n]
      BY <1>1, <1>2, <2>2, SumRowAdded
  <2>4. HeldCounts' = g
      BY <1>6, <2>1, Zenon DEF HeldCounts
  <2>5. SumOf(HeldCounts)' = SumOf(g)
      BY <2>4, Zenon
  <2> QED
      BY <2>1, <2>2, <2>3, <2>5
<1>10. StoneLine.weight' = StoneLine.weight + b.weight
  <2>1. PICK f, g : /\ f = [k \in DOMAIN bags |-> bags[k].weight]
                    /\ g = [k \in DOMAIN new |-> new[k].weight]
      OBVIOUS
  <2>2. DOMAIN f = DOMAIN bags /\ DOMAIN g = DOMAIN f \cup {n} /\ n \notin DOMAIN f
        /\ (\A y \in DOMAIN f : f[y] \in Int /\ g[y] = f[y]) /\ g[n] = b.weight
      BY <1>1, <1>3, <1>5, <2>1
  <2>3. SumOf(g) = SumOf(f) + g[n]
      BY <1>1, <1>2, <2>2, SumRowAdded
  <2>4. StoneLine.weight = SumOf(f)
      BY <2>1 DEF StoneLine
  <2>5. StoneLine.weight' = SumOf(g)
      BY <1>6, <2>1 DEF StoneLine
  <2> QED
      BY <2>2, <2>3, <2>4, <2>5
<1>11. \A k \in DOMAIN new : new[k] = b \/ \E j \in DOMAIN bags : new[k] = bags[j]
    BY <1>5
<1>12. (\A k \in DOMAIN bags : Sound(bags[k]))'
  <2>1. \A k \in DOMAIN new : Sound(new[k])
      BY <1>1, <1>11
  <2> QED
      BY <1>6, <2>1 DEF Sound
<1> QED
    BY <1>5, <1>6, <1>7, <1>8, <1>9, <1>10, <1>11, <1>12

LEMMA IssueKeeps ==
    ASSUME TicketInv, NEW b \in Labels, IssueStones(b)
    PROVE  TicketInv'
<1>1. WeightsTypeOK /\ EntriesSound /\ BagsSound /\ StonesSound /\ StoreSound
    BY DEF TicketInv
<1>2. PICK was : was = Last
    OBVIOUS
<1>3. Open /\ was.stage = "STONE_SETTING" /\ bags' = Append(bags, b) /\ UNCHANGED <<order, stock>>
    BY <1>2, Zenon DEF IssueStones
<1>4. PICK e : e = [was EXCEPT !.asked = FALSE, !.more = @ + Or0(b.count),
                               !.moreGrams = Or0(@) + b.weight]
    OBVIOUS
<1>5. Update(e)
    BY <1>2, <1>4, Zenon DEF IssueStones
<1>6. entries # <<>> /\ ~IsReturned(was)
    BY <1>2, <1>3 DEF Open
<1>7. was \in EntryValues /\ Plain(was) /\ Len(entries) \in DOMAIN entries /\ was = entries[Len(entries)]
    BY <1>1, <1>2, <1>6, LastFields
<1>8. was.phase # "confirmed" /\ was.phase # "returned"
    BY <1>6 DEF IsReturned
<1>9. ByThePiece \in BOOLEAN /\ (ByThePiece' <=> ByThePiece)
    BY <1>1, <1>3, OrderFields DEF ByThePiece
<1>10. bags \in Seq(BagValues) /\ \A k \in DOMAIN bags : Sound(bags[k])
    BY <1>1 DEF WeightsTypeOK, BagsSound
<1>11. b \in BagValues /\ b.state = "HELD" /\ b.out = 0 /\ Or0(b.count) \in Nat /\ b.weight \in Nat
    BY <1>9, LabelFields, BagFields DEF Sound
<1>12. was.more \in Nat /\ was.moreGrams \in Given /\ Or0(was.moreGrams) \in Nat
       /\ Or0(was.stones) \in Nat /\ was.stoneGrams \in Given
    BY <1>7, EntryFields, GivenOrNothing
<1>13. PICK more, grams : more = was.more + Or0(b.count) /\ grams = Or0(was.moreGrams) + b.weight
    OBVIOUS
<1>14. more \in Nat /\ grams \in Nat /\ grams \in Given /\ FALSE \in BOOLEAN
    BY <1>11, <1>12, <1>13 DEF Given
<1>15. e = [was EXCEPT !.asked = FALSE, !.more = more, !.moreGrams = grams]
    BY <1>4, <1>13, Zenon
<1>16. /\ e \in EntryValues /\ e.stage = was.stage /\ e.phase = was.phase /\ e.handed = was.handed
       /\ e.metal = was.metal /\ e.stones = was.stones /\ e.stoneGrams = was.stoneGrams /\ e.more = more
       /\ e.moreGrams = grams /\ e.good = was.good /\ e.returned = was.returned /\ e.btp = was.btp
       /\ e.silver = was.silver /\ e.s999 = was.s999 /\ e.set = was.set /\ e.setGrams = was.setGrams
       /\ e.back = was.back /\ e.typed = was.typed
    BY <1>7, <1>14, <1>15 DEF EntryValues
<1>17. SilverIn(e) = SilverIn(was) /\ Recovered(e) = Recovered(was) /\ ~IsReturned(e)
    BY <1>6, <1>16 DEF SilverIn, Recovered, IsReturned
<1>18. Plain(e)
    BY <1>3, <1>6, <1>7, <1>16, <1>17 DEF Plain
<1>19. /\ bags' \in Seq(BagValues) /\ (\A k \in DOMAIN bags : Sound(bags[k]))'
       /\ EarlyCount' = EarlyCount /\ EarlyGrams' = EarlyGrams
       /\ SumOf(HeldCounts)' = SumOf(HeldCounts) + Or0(b.count)
       /\ StoneLine.weight' = StoneLine.weight + b.weight
       /\ \A k \in DOMAIN bags' : bags'[k] = b \/ \E j \in DOMAIN bags : bags'[k] = bags[j]
    BY <1>3, <1>9, <1>10, BagAdded
<1>20. EarlyCount \in Nat /\ EarlyGrams \in Nat /\ SumOf(HeldCounts) \in Nat
    BY <1>10, BagSums
<1>21. InHisBags(was)
  <2>1. StonesOK(was)
      BY <1>1, <1>3, <1>7 DEF StonesSound
  <2> QED
      BY <1>8, <2>1 DEF StonesOK
<1>22. StonesOK(e)'
  <2>1. GivenCount(e)' = SumOf(HeldCounts)'
    <3>1. Or0(was.stones) + was.more - EarlyCount = SumOf(HeldCounts)
        BY <1>21 DEF InHisBags, GivenCount
    <3>2. GivenCount(e)' = Or0(was.stones) + more - EarlyCount
        BY <1>16, <1>19 DEF GivenCount
    <3> QED
        BY <1>11, <1>12, <1>13, <1>19, <1>20, <3>1, <3>2
  <2>2. e.stoneGrams # None => e.stoneGrams + Or0(e.moreGrams) - EarlyGrams' = StoneLine.weight'
    <3> HAVE e.stoneGrams # None
    <3>1. was.stoneGrams + Or0(was.moreGrams) - EarlyGrams = StoneLine.weight /\ was.stoneGrams \in Nat
        BY <1>12, <1>16, <1>21 DEF InHisBags, Given
    <3>2. Or0(e.moreGrams) = grams
        BY <1>14, <1>16 DEF Or0, None
    <3> QED
        BY <1>11, <1>12, <1>13, <1>16, <1>19, <1>20, <3>1, <3>2
  <2>3. (\A k \in DOMAIN bags : /\ bags[k].state # "CONSUMED" /\ bags[k].out = 0
                                /\ bags[k].state = "RELEASED" => Or0(bags[k].count) = 0)'
      BY <1>11, <1>19, <1>21 DEF InHisBags
  <2>4. InHisBags(e)'
      BY <2>1, <2>2, <2>3 DEF InHisBags
  <2>5. ~IsReturned(e)' /\ e.phase # "confirmed" /\ e.phase # "returned"
      BY <1>8, <1>16 DEF IsReturned
  <2> QED
      BY <2>4, <2>5 DEF StonesOK
<1>23. /\ stock.s925 \in Nat /\ stock.s999 \in Nat
       /\ stock = [s925 |-> stock.s925, s999 |-> stock.s999, scrap |-> stock.scrap]
    BY <1>1 DEF StoreSound
<1>24. StoredOf(was) = 0 /\ Stored999Of(was) = 0 /\ StoredOf(e) = 0 /\ Stored999Of(e) = 0
    BY <1>8, <1>16 DEF StoredOf, Stored999Of
<1>25. PICK x \in Int, y \in Int : x = stock.s925 /\ y = stock.s999
    BY <1>23
<1>26. /\ x = stock.s925 - StoredOf(Last) + StoredOf(e)
       /\ y = stock.s999 - Stored999Of(Last) + Stored999Of(e)
       /\ stock' = [s925 |-> x, s999 |-> y, scrap |-> stock.scrap]
    BY <1>2, <1>3, <1>23, <1>24, <1>25
<1>27. e.stage = "STONE_SETTING" /\ e.stage = Last.stage /\ SilverIn(e) = SilverIn(Last) /\ order' = order
    BY <1>2, <1>3, <1>16, <1>17
<1> QED
    BY <1>5, <1>6, <1>16, <1>18, <1>19, <1>22, <1>26, <1>27, StepKeeps

-----------------------------------------------------------------------------
(* A stage begun.                                                          *)
LEMMA SumOneRow ==
    ASSUME NEW f, DOMAIN f = {1}, f[1] \in Int
    PROVE  SumOf(f) = f[1]
<1>1. SumFunctionOnSet(f, {} \cup {1}) = f[1] + SumFunctionOnSet(f, {})
  <2>1. IsFiniteSet({}) /\ 1 \notin {} /\ \A y \in {} \cup {1} : f[y] \in Int
      BY FS_EmptySet
  <2> QED
      BY <2>1, SumPutIn
<1>2. SumFunctionOnSet(f, {}) = 0
    BY SumOfNone
<1>3. {} \cup {1} = {1}
    OBVIOUS
<1> QED
    BY <1>1, <1>2, <1>3 DEF SumOf

LEMMA NewEntryFields ==
    ASSUME NEW stage \in Stages, NEW handed \in Given, NEW metal \in Nat, NEW stones \in Given, NEW grams \in Given,
           stage # "STONE_SETTING" => stones = None,
           NEW e, e = NewEntry(stage, handed, metal, stones, grams)
    PROVE  /\ e \in EntryValues /\ e.stage = stage /\ e.phase = "working" /\ e.handed = handed
           /\ e.metal = metal /\ e.stones = stones /\ e.stoneGrams = grams /\ e.more = 0
           /\ e.moreGrams = None /\ e.btp = 0 /\ e.silver = 0 /\ e.s999 = 0 /\ Plain(e)
<1>1. /\ e.stage = stage /\ e.phase = "working" /\ e.handed = handed /\ e.metal = metal
      /\ e.stones = stones /\ e.stoneGrams = grams /\ e.more = 0 /\ e.moreGrams = None
      /\ e.btp = 0 /\ e.silver = 0 /\ e.s999 = 0 /\ e.returned = None /\ e.set = None
      /\ e.setGrams = None /\ e.back = None
    BY DEF NewEntry
<1>2. e \in EntryValues
  <2>1. None \in Given /\ 0 \in Nat /\ FALSE \in BOOLEAN
        /\ "working" \in {"working", "submitted", "returned", "confirmed"}
      BY DEF Given
  <2> QED
      BY <2>1 DEF NewEntry, EntryValues
<1>3. Plain(e)
  <2>1. Recovered(e) = 0 /\ ~IsReturned(e)
      BY <1>1 DEF Recovered, IsReturned
  <2> QED
      BY <1>1, <2>1 DEF Plain
<1> QED
    BY <1>1, <1>2, <1>3

LEMMA BeginKeeps ==
    ASSUME TicketInv, NEW stage, Len(entries) < Len(order.route), stage = order.route[Len(entries) + 1],
           entries # <<>> => Last.phase = "confirmed" /\ Last.good,
           NEW e \in EntryValues, e.stage = stage, e.phase = "working", Plain(e),
           entries # <<>> => SilverIn(e) = CarriedSilver(Last),
           entries' = Append(entries, e), UNCHANGED <<order, stock>>,
           bags' \in Seq(BagValues), (\A k \in DOMAIN bags : Sound(bags[k]))',
           stage # "STONE_SETTING" => bags' = bags, stage = "STONE_SETTING" => StonesOK(e)'
    PROVE  TicketInv'
<1>1. WeightsTypeOK /\ EntriesSound /\ BagsSound /\ StonesSound /\ StoreSound
    BY DEF TicketInv
<1>2. /\ entries \in Seq(EntryValues) /\ Len(entries) \in Nat /\ DOMAIN entries = 1..Len(entries)
      /\ IsFiniteSet(DOMAIN entries) /\ \A i \in DOMAIN entries : entries[i] \in EntryValues
      /\ entries # <<>> => Last = entries[Len(entries)]
      /\ entries # <<>> <=> Len(entries) > 0
    BY <1>1, LastFields
<1>3. PICK n, t : n = Len(entries) + 1 /\ t = Append(entries, e)
    OBVIOUS
<1>4. /\ t \in Seq(EntryValues) /\ Len(t) = n /\ DOMAIN t = DOMAIN entries \cup {n} /\ n \notin DOMAIN entries
      /\ t[n] = e /\ \A j \in DOMAIN entries : t[j] = entries[j]
    BY <1>2, <1>3, RowAdded
<1>5. entries' = t /\ order' = order /\ stock' = stock
    BY <1>3
<1>6. WeightsTypeOK'
  <2>1. Len(t) <= Len(order.route)
    <3>1. Len(order.route) \in Nat
        BY <1>1, OrderFields
    <3> QED
        BY <1>2, <1>3, <1>4, <3>1
  <2> QED
      BY <1>1, <1>4, <1>5, <2>1 DEF WeightsTypeOK
<1>7. EntriesSound'
  <2> SUFFICES ASSUME NEW i \in DOMAIN t
               PROVE  /\ t[i].stage = order.route[i]
                      /\ Plain(t[i])
                      /\ i < Len(t) => t[i].phase = "confirmed" /\ t[i].good
                      /\ i > 1 => SilverIn(t[i]) = CarriedSilver(t[i - 1])
      BY <1>5 DEF EntriesSound
  <2>1. CASE i = n
    <3>1. t[i] = e /\ t[i].stage = order.route[i] /\ ~(i < Len(t))
        BY <1>2, <1>3, <1>4, <2>1
    <3>2. i > 1 => SilverIn(t[i]) = CarriedSilver(t[i - 1])
      <4> HAVE i > 1
      <4>1. i - 1 = Len(entries) /\ entries # <<>> /\ i - 1 \in DOMAIN entries
          BY <1>2, <1>3, <2>1
      <4>2. t[i - 1] = Last
          BY <1>2, <1>4, <4>1
      <4> QED
          BY <3>1, <4>1, <4>2
    <3> QED
        BY <3>1, <3>2
  <2>2. CASE i \in DOMAIN entries
    <3>1. /\ entries[i].stage = order.route[i] /\ Plain(entries[i]) /\ t[i] = entries[i]
          /\ i < Len(entries) => entries[i].phase = "confirmed" /\ entries[i].good
          /\ i > 1 => SilverIn(entries[i]) = CarriedSilver(entries[i - 1])
        BY <1>1, <1>4, <2>2 DEF EntriesSound
    <3>2. entries[i].phase = "confirmed" /\ entries[i].good
      <4>1. CASE i = Len(entries)
        <5>1. entries # <<>>
            BY <1>2, <2>2
        <5> QED
            BY <1>2, <4>1, <5>1
      <4>2. CASE i # Len(entries)
        <5>1. i < Len(entries)
            BY <1>2, <2>2, <4>2
        <5> QED
            BY <3>1, <5>1
      <4> QED
          BY <4>1, <4>2
    <3>3. i > 1 => t[i - 1] = entries[i - 1]
      <4> HAVE i > 1
      <4>1. i - 1 \in DOMAIN entries
          BY <1>2, <2>2
      <4> QED
          BY <1>4, <4>1
    <3> QED
        BY <3>1, <3>2, <3>3
  <2> QED
      BY <1>4, <2>1, <2>2
<1>8. BagsSound'
  <2>1. (\A i \in DOMAIN t : t[i].stage # "STONE_SETTING") => bags' = <<>>
    <3> HAVE \A i \in DOMAIN t : t[i].stage # "STONE_SETTING"
    <3>1. stage # "STONE_SETTING" /\ \A i \in DOMAIN entries : entries[i].stage # "STONE_SETTING"
        BY <1>4
    <3> QED
        BY <1>1, <3>1 DEF BagsSound
  <2> QED
      BY <1>5, <2>1 DEF BagsSound
<1>9. StonesSound'
  <2> SUFFICES ASSUME NEW i \in DOMAIN t, t[i].stage = "STONE_SETTING"
               PROVE  StonesOK(entries[i])'
      BY <1>5 DEF StonesSound
  <2>1. CASE i = n
    <3>1. entries'[i] = e /\ StonesOK(e)'
        BY <1>4, <1>5, <2>1
    <3> QED
        BY <3>1
  <2>2. CASE i \in DOMAIN entries
    <3>1. PICK r : r = entries[i]
        OBVIOUS
    <3>2. entries'[i] = r /\ r.stage = "STONE_SETTING" /\ StonesOK(r)
        BY <1>1, <1>4, <1>5, <2>2, <3>1 DEF StonesSound
    <3>3. stage # "STONE_SETTING"
      <4>1. r.stage = order.route[i]
          BY <1>1, <2>2, <3>1 DEF EntriesSound
      <4>2. n \in DOMAIN order.route /\ i \in 1..(n - 1)
        <5>1. DOMAIN order.route = 1..Len(order.route) /\ Len(order.route) \in Nat
            BY <1>1, OrderFields
        <5> QED
            BY <1>2, <1>3, <2>2, <5>1
      <4>3. order.route[i] # order.route[n]
          BY <1>1, <4>2, OrderFields
      <4> QED
          BY <1>3, <3>2, <4>1, <4>3
    <3>4. StonesOK(r)'
        BY <1>5, <3>2, <3>3, StonesKept
    <3> QED
        BY <3>2, <3>4
  <2> QED
      BY <1>4, <2>1, <2>2
<1>10. StoreSound'
  <2>1. \A i \in DOMAIN entries : entries[i].btp \in Nat /\ entries[i].silver \in Nat /\ entries[i].s999 \in Nat
      BY <1>2, EntryFields
  <2>2. PICK f, g : /\ f = [i \in DOMAIN entries |-> IF entries[i].phase = "confirmed" THEN entries[i].btp + entries[i].silver ELSE 0]
                    /\ g = [i \in DOMAIN t |-> IF t[i].phase = "confirmed" THEN t[i].btp + t[i].silver ELSE 0]
      OBVIOUS
  <2>3. DOMAIN f = DOMAIN entries /\ DOMAIN g = DOMAIN f \cup {n} /\ n \notin DOMAIN f
        /\ (\A y \in DOMAIN f : f[y] \in Int /\ g[y] = f[y]) /\ g[n] = 0
      BY <1>4, <2>1, <2>2
  <2>4. SumOf(g) = SumOf(f) + g[n]
    <3>1. IsFiniteSet(DOMAIN f) /\ g[n] \in Int
        BY <1>2, <2>3
    <3> QED
        BY <2>3, <3>1, SumRowAdded
  <2>5. PICK u, v : /\ u = [i \in DOMAIN entries |-> IF entries[i].phase = "confirmed" THEN entries[i].s999 ELSE 0]
                    /\ v = [i \in DOMAIN t |-> IF t[i].phase = "confirmed" THEN t[i].s999 ELSE 0]
      OBVIOUS
  <2>6. DOMAIN u = DOMAIN entries /\ DOMAIN v = DOMAIN u \cup {n} /\ n \notin DOMAIN u
        /\ (\A y \in DOMAIN u : u[y] \in Int /\ v[y] = u[y]) /\ v[n] = 0
      BY <1>4, <2>1, <2>5
  <2>7. SumOf(v) = SumOf(u) + v[n]
    <3>1. IsFiniteSet(DOMAIN u) /\ v[n] \in Int
        BY <1>2, <2>6
    <3> QED
        BY <2>6, <3>1, SumRowAdded
  <2>8. stock.s925 = SumOf(f) /\ stock.s999 = SumOf(u) /\ stock.s925 \in Nat /\ stock.s999 \in Nat
      BY <1>1, <2>2, <2>5 DEF StoreSound
  <2>9. stock.s925 = SumOf(g) /\ stock.s999 = SumOf(v)
      BY <2>3, <2>4, <2>6, <2>7, <2>8
  <2> QED
      BY <1>1, <1>5, <2>2, <2>5, <2>9 DEF StoreSound
<1> QED
    BY <1>6, <1>7, <1>8, <1>9, <1>10 DEF TicketInv

LEMMA CarriedFields ==
    ASSUME NEW e \in EntryValues
    PROVE  CarriedSilver(e) \in Given /\ SilverIn(e) \in Given
<1>1. e.handed \in Given /\ e.metal \in Nat /\ e.returned \in Given /\ Or0(e.handed) \in Nat
    BY EntryFields, GivenOrNothing
<1>2. SilverIn(e) \in Given
    BY <1>1 DEF SilverIn, Given
<1> QED
    BY <1>1, <1>2 DEF CarriedSilver, Given

(* No bags yet: nothing is held and nothing was given back.                *)
LEMMA NoBagsYet ==
    ASSUME bags = <<>>
    PROVE  /\ EarlyCount = 0 /\ EarlyGrams = 0 /\ SumOf(HeldCounts) = 0 /\ StoneLine.weight = 0
           /\ bags \in Seq(BagValues) /\ \A k \in DOMAIN bags : Sound(bags[k])
<1>1. bags \in Seq(BagValues) /\ DOMAIN bags = {}
    BY EmptySeq
<1>2. ASSUME NEW f, DOMAIN f = {} PROVE SumOf(f) = 0
    BY <1>2, SumOfNone DEF SumOf
<1>3. PICK a, b, c, d : /\ a = [k \in DOMAIN bags |-> bags[k].earlyC]
                        /\ b = [k \in DOMAIN bags |-> bags[k].earlyW]
                        /\ c = HeldCounts
                        /\ d = [k \in DOMAIN bags |-> bags[k].weight]
    OBVIOUS
<1>4. DOMAIN a = {} /\ DOMAIN b = {} /\ DOMAIN c = {} /\ DOMAIN d = {}
    BY <1>1, <1>3 DEF HeldCounts
<1>5. SumOf(a) = 0 /\ SumOf(b) = 0 /\ SumOf(c) = 0 /\ SumOf(d) = 0
    BY <1>2, <1>4
<1>6. EarlyCount = SumOf(a) /\ EarlyGrams = SumOf(b)
    BY <1>3, Zenon DEF EarlyCount, EarlyGrams
<1>7. StoneLine.weight = SumOf(d)
    BY <1>3 DEF StoneLine
<1> QED
    BY <1>1, <1>3, <1>5, <1>6, <1>7

(* A stage without stones begun.                                           *)
LEMMA BeginWithout ==
    ASSUME TicketInv, NEW stage, Len(entries) < Len(order.route), stage = order.route[Len(entries) + 1],
           stage # "STONE_SETTING", entries # <<>> => Last.phase = "confirmed" /\ Last.good,
           NEW handed \in Given, NEW metal \in Nat,
           entries # <<>> => (IF handed = None /\ metal = 0 THEN None ELSE Or0(handed) + metal) = CarriedSilver(Last),
           Begin(stage, handed, metal, None, None), UNCHANGED <<order, bags, stock>>
    PROVE  TicketInv'
<1>1. WeightsTypeOK /\ EntriesSound /\ BagsSound
    BY DEF TicketInv
<1>2. stage \in Stages
  <2>1. order.route \in Seq(Stages) /\ DOMAIN order.route = 1..Len(order.route) /\ Len(order.route) \in Nat
        /\ Len(entries) \in Nat
      BY <1>1, OrderFields, LastFields
  <2>2. Len(entries) + 1 \in DOMAIN order.route
      BY <2>1
  <2> QED
      BY <2>1, <2>2, RowsOf
<1>3. PICK e : e = NewEntry(stage, handed, metal, None, None)
    OBVIOUS
<1>4. None \in Given
    BY DEF Given
<1>5. e \in EntryValues /\ e.stage = stage /\ e.phase = "working" /\ e.handed = handed /\ e.metal = metal /\ Plain(e)
    BY <1>2, <1>3, <1>4, NewEntryFields
<1>6. entries' = Append(entries, e)
    BY <1>3 DEF Begin
<1>7. entries # <<>> => SilverIn(e) = CarriedSilver(Last)
    BY <1>5 DEF SilverIn
<1>8. bags' \in Seq(BagValues) /\ (\A k \in DOMAIN bags : Sound(bags[k]))'
  <2>1. ByThePiece' <=> ByThePiece
      BY DEF ByThePiece
  <2> QED
      BY <1>1, <2>1 DEF BagsSound, Sound, WeightsTypeOK
<1> QED
    BY <1>5, <1>6, <1>7, <1>8, BeginKeeps

(* The first bag given with the piece.                                     *)
LEMMA BeginSetting ==
    ASSUME TicketInv, Len(entries) < Len(order.route), "STONE_SETTING" = order.route[Len(entries) + 1],
           entries # <<>> => Last.phase = "confirmed" /\ Last.good, NEW b \in Labels,
           NEW handed \in Given, NEW metal \in Nat,
           entries # <<>> => (IF handed = None /\ metal = 0 THEN None ELSE Or0(handed) + metal) = CarriedSilver(Last),
           Begin("STONE_SETTING", handed, metal, b.count, b.weight), UNCHANGED <<order, stock>>,
           bags' = bags \o <<b>>
    PROVE  TicketInv'
<1>1. WeightsTypeOK /\ EntriesSound /\ BagsSound
    BY DEF TicketInv
<1>2. bags = <<>>
  <2>1. order.route \in Seq(Stages) /\ DOMAIN order.route = 1..Len(order.route) /\ Len(order.route) \in Nat
        /\ Len(entries) \in Nat /\ DOMAIN entries = 1..Len(entries)
      BY <1>1, OrderFields, LastFields
  <2>2. \A i \in DOMAIN entries : entries[i].stage # "STONE_SETTING"
    <3> SUFFICES ASSUME NEW i \in DOMAIN entries PROVE entries[i].stage # "STONE_SETTING"
        OBVIOUS
    <3>1. PICK n : n = Len(entries) + 1
        OBVIOUS
    <3>2. n \in DOMAIN order.route /\ i \in 1..(n - 1)
        BY <2>1, <3>1
    <3>3. order.route[i] # order.route[n]
        BY <1>1, <3>2, OrderFields
    <3> QED
        BY <1>1, <3>1, <3>3 DEF EntriesSound
  <2> QED
      BY <1>1, <2>2 DEF BagsSound
<1>3. ByThePiece \in BOOLEAN /\ (ByThePiece' <=> ByThePiece)
    BY <1>1, OrderFields DEF ByThePiece
<1>4. /\ EarlyCount = 0 /\ EarlyGrams = 0 /\ SumOf(HeldCounts) = 0 /\ StoneLine.weight = 0
      /\ bags \in Seq(BagValues) /\ \A k \in DOMAIN bags : Sound(bags[k])
    BY <1>2, NoBagsYet
<1>5. b \in BagValues /\ b.state = "HELD" /\ b.out = 0
    BY <1>3, LabelFields DEF Sound
<1>6. b.count \in Given /\ b.weight \in Nat /\ b.weight \in Given /\ Or0(b.count) \in Nat
    BY <1>5, BagFields DEF Given
<1>7. bags' = Append(bags, b)
    BY <1>2, <1>4, <1>5
<1>8. /\ bags' \in Seq(BagValues) /\ (\A k \in DOMAIN bags : Sound(bags[k]))'
      /\ EarlyCount' = EarlyCount /\ EarlyGrams' = EarlyGrams
      /\ SumOf(HeldCounts)' = SumOf(HeldCounts) + Or0(b.count)
      /\ StoneLine.weight' = StoneLine.weight + b.weight
      /\ \A k \in DOMAIN bags' : bags'[k] = b \/ \E j \in DOMAIN bags : bags'[k] = bags[j]
    BY <1>3, <1>4, <1>7, BagAdded
<1>9. PICK e : e = NewEntry("STONE_SETTING", handed, metal, b.count, b.weight)
    OBVIOUS
<1>10. /\ e \in EntryValues /\ e.stage = "STONE_SETTING" /\ e.phase = "working" /\ e.handed = handed
       /\ e.metal = metal /\ e.stones = b.count /\ e.stoneGrams = b.weight /\ e.more = 0
       /\ e.moreGrams = None /\ Plain(e)
  <2>1. "STONE_SETTING" \in Stages
      BY DEF Stages, KEEPER_CONFIRM_STAGES
  <2> QED
      BY <1>6, <1>9, <2>1, NewEntryFields
<1>11. entries' = Append(entries, e)
    BY <1>9 DEF Begin
<1>12. entries # <<>> => SilverIn(e) = CarriedSilver(Last)
    BY <1>10 DEF SilverIn
<1>13. StonesOK(e)'
  <2>1. GivenCount(e)' = SumOf(HeldCounts)'
    <3>1. GivenCount(e)' = Or0(e.stones) + e.more - EarlyCount'
        BY DEF GivenCount
    <3> QED
        BY <1>4, <1>6, <1>8, <1>10, <3>1
  <2>2. e.stoneGrams # None => e.stoneGrams + Or0(e.moreGrams) - EarlyGrams' = StoneLine.weight'
    <3>1. Or0(e.moreGrams) = 0
        BY <1>10 DEF Or0
    <3> QED
        BY <1>4, <1>6, <1>8, <1>10, <3>1
  <2>3. (\A k \in DOMAIN bags : /\ bags[k].state # "CONSUMED" /\ bags[k].out = 0
                                /\ bags[k].state = "RELEASED" => Or0(bags[k].count) = 0)'
    <3>1. \A k \in DOMAIN bags' : bags'[k] = b
        BY <1>2, <1>8
    <3> QED
        BY <1>5, <3>1
  <2>4. InHisBags(e)'
      BY <2>1, <2>2, <2>3 DEF InHisBags
  <2>5. ~IsReturned(e)' /\ e.phase # "confirmed" /\ e.phase # "returned"
      BY <1>10 DEF IsReturned
  <2> QED
      BY <2>4, <2>5 DEF StonesOK
<1> QED
    BY <1>8, <1>10, <1>11, <1>12, <1>13, BeginKeeps

(* A stage begun takes over what the one before gave back.                 *)
LEMMA HandOverKeeps ==
    ASSUME TicketInv, NEW bs \in {<<>>} \cup {<<b>> : b \in Labels}, HandOver(bs)
    PROVE  TicketInv'
<1>1. WeightsTypeOK /\ EntriesSound /\ BagsSound
    BY DEF TicketInv
<1>2. PICK stage, weight : stage = order.route[Len(entries) + 1] /\ weight = CarriedSilver(Last)
    OBVIOUS
<1>3. PICK given, grams :
        /\ given = IF {i \in DOMAIN bs : bs[i].count # None} = {} THEN None
                   ELSE SumOf([i \in DOMAIN bs |-> Or0(bs[i].count)])
        /\ grams = IF bs = <<>> THEN None ELSE SumOf([i \in DOMAIN bs |-> bs[i].weight])
    OBVIOUS
<1>4. /\ Len(entries) < Len(order.route)
      /\ entries # <<>> => Last.phase = "confirmed" /\ Last.good
      /\ (stage = "STONE_SETTING") = (bs # <<>>) /\ bags' = bags \o bs /\ UNCHANGED <<order, stock>>
      /\ \/ /\ stage = "FILING" /\ order.blank[1] >= TicketQty
            /\ Begin(stage, None, FilingBtpLine, None, None)
         \/ /\ stage # "FILING" /\ entries # <<>>
            /\ stage \notin SELF_TAKE_STAGES => weight > 0
            /\ Begin(stage, IF Last.stage \in KEEPER_CONFIRM_STAGES THEN None ELSE weight,
                     IF Last.stage \in KEEPER_CONFIRM_STAGES THEN weight ELSE 0, given, grams)
         \/ /\ stage \notin KEEPER_CONFIRM_STAGES /\ entries = <<>>
            /\ Begin(stage, None, 0, None, None)
    BY <1>2, <1>3, Zenon DEF HandOver
<1>5. bs = <<>> => given = None /\ grams = None /\ bags' = bags
  <2> HAVE bs = <<>>
  <2>1. {i \in DOMAIN bs : bs[i].count # None} = {}
      OBVIOUS
  <2>2. bags \in Seq(BagValues)
      BY <1>1 DEF WeightsTypeOK
  <2>3. bags \o <<>> = bags
      BY <2>2
  <2> QED
      BY <1>3, <1>4, <2>1, <2>3
<1>6. ASSUME NEW b \in Labels, bs = <<b>> PROVE given = b.count /\ grams = b.weight
  <2>1. ByThePiece \in BOOLEAN
      BY <1>1, OrderFields
  <2>2. b \in BagValues
      BY <2>1, LabelFields DEF Sound
  <2>3. b.count \in Given /\ Or0(b.count) \in Nat /\ b.weight \in Nat
      BY <2>2, BagFields
  <2>4. DOMAIN bs = {1} /\ bs[1] = b /\ bs # <<>>
      BY <1>6
  <2>5. SumOf([i \in DOMAIN bs |-> Or0(bs[i].count)]) = Or0(b.count)
    <3>1. PICK f : f = [i \in DOMAIN bs |-> Or0(bs[i].count)]
        OBVIOUS
    <3>2. DOMAIN f = {1} /\ f[1] = Or0(b.count)
        BY <2>4, <3>1
    <3> QED
        BY <2>3, <3>1, <3>2, SumOneRow
  <2>6. SumOf([i \in DOMAIN bs |-> bs[i].weight]) = b.weight
    <3>1. PICK f : f = [i \in DOMAIN bs |-> bs[i].weight]
        OBVIOUS
    <3>2. DOMAIN f = {1} /\ f[1] = b.weight
        BY <2>4, <3>1
    <3> QED
        BY <2>3, <3>1, <3>2, SumOneRow
  <2>7. {i \in DOMAIN bs : bs[i].count # None} = {} <=> b.count = None
      BY <2>4
  <2> QED
      BY <1>3, <2>4, <2>5, <2>6, <2>7 DEF Or0
<1>7. CASE stage = "FILING" /\ order.blank[1] >= TicketQty /\ Begin(stage, None, FilingBtpLine, None, None)
  <2>1. entries = <<>>
    <3>1. order.route \in Seq(Stages) /\ DOMAIN order.route = 1..Len(order.route) /\ Len(order.route) \in Nat
          /\ Len(entries) \in Nat
        BY <1>1, OrderFields, LastFields
    <3>2. PICK n : n = Len(entries) + 1
        OBVIOUS
    <3>3. n \in DOMAIN order.route /\ order.route[n] = "FILING"
      <4>1. Len(entries) < Len(order.route)
          BY <1>4
      <4>2. n \in DOMAIN order.route
          BY <3>1, <3>2, <4>1
      <4>3. order.route[n] = "FILING"
          BY <1>2, <1>7, <3>2
      <4> QED
          BY <4>2, <4>3
    <3>4. n = 1
        BY <1>1, <3>3, OrderFields
    <3> QED
        BY <1>1, <3>1, <3>2, <3>4, LastFields
  <2>2. FilingBtpLine \in Nat
    <3>1. order.blank[1] \in Nat /\ order.blank[2] \in Nat
        BY <1>1, OrderFields
    <3>2. TicketQty \in Nat /\ TicketQty > 0
        BY QtyAssumption
    <3>3. PICK a \in Nat : a = order.blank[2] * TicketQty
        BY <3>1, <3>2
    <3>4. order.blank[1] > 0
        BY <1>7, <3>1, <3>2
    <3>5. HalfUp(a, order.blank[1]) \in Nat
        BY <3>1, <3>4, HalfUpNat
    <3> QED
        BY <3>1, <3>3, <3>5 DEF FilingBtpLine
  <2>3. bs = <<>>
      BY <1>4, <1>7
  <2>4. None \in Given /\ stage # "STONE_SETTING"
      BY <1>7 DEF Given
  <2> QED
      BY <1>2, <1>4, <1>5, <1>7, <2>1, <2>2, <2>3, <2>4, BeginWithout
<1>8. CASE /\ stage # "FILING" /\ entries # <<>>
           /\ Begin(stage, IF Last.stage \in KEEPER_CONFIRM_STAGES THEN None ELSE weight,
                    IF Last.stage \in KEEPER_CONFIRM_STAGES THEN weight ELSE 0, given, grams)
  <2>1. Last \in EntryValues /\ Plain(Last)
      BY <1>1, <1>8, LastFields
  <2>2. weight \in Given
      BY <1>2, <2>1, CarriedFields
  <2>3. PICK handed, metal : /\ handed = IF Last.stage \in KEEPER_CONFIRM_STAGES THEN None ELSE weight
                             /\ metal = IF Last.stage \in KEEPER_CONFIRM_STAGES THEN weight ELSE 0
      OBVIOUS
  <2>4. /\ handed \in Given /\ metal \in Nat
        /\ (IF handed = None /\ metal = 0 THEN None ELSE Or0(handed) + metal) = CarriedSilver(Last)
    <3>1. CASE Last.stage \in KEEPER_CONFIRM_STAGES
      <4>1. Last.returned # None /\ Last.returned > 0
          BY <1>4, <1>8, <2>1, <3>1 DEF Plain, IsReturned, KEEPER_CONFIRM_STAGES, PHOTO_ONLY_STAGES
      <4>2. weight = Last.returned
          BY <1>2, <4>1 DEF CarriedSilver
      <4>3. weight \in Nat /\ weight > 0
          BY <2>2, <4>1, <4>2 DEF Given
      <4> QED
          BY <1>2, <2>3, <3>1, <4>3 DEF Or0, Given
    <3>2. CASE Last.stage \notin KEEPER_CONFIRM_STAGES
      <4>1. handed = weight /\ metal = 0
          BY <2>3, <3>2
      <4>2. CASE weight = None
          BY <1>2, <2>2, <4>1, <4>2
      <4>3. CASE weight # None
        <5>1. weight \in Nat
            BY <2>2, <4>3 DEF Given
        <5> QED
            BY <1>2, <2>2, <4>1, <4>3, <5>1 DEF Or0
      <4> QED
          BY <4>2, <4>3
    <3> QED
        BY <3>1, <3>2
  <2>5. CASE bs = <<>>
    <3>1. stage # "STONE_SETTING" /\ given = None /\ grams = None /\ bags' = bags
        BY <1>4, <1>5, <2>5
    <3>2. Begin(stage, handed, metal, None, None)
        BY <1>8, <2>3, <3>1
    <3> QED
        BY <1>2, <1>4, <2>4, <3>1, <3>2, BeginWithout
  <2>6. CASE bs # <<>>
    <3>1. PICK b \in Labels : bs = <<b>>
        BY <2>6
    <3>2. stage = "STONE_SETTING" /\ given = b.count /\ grams = b.weight /\ bags' = bags \o <<b>>
        BY <1>4, <1>6, <2>6, <3>1
    <3>3. Begin("STONE_SETTING", handed, metal, b.count, b.weight)
        BY <1>8, <2>3, <3>2
    <3> QED
        BY <1>2, <1>4, <2>4, <3>2, <3>3, BeginSetting
  <2> QED
      BY <2>5, <2>6
<1>9. CASE stage \notin KEEPER_CONFIRM_STAGES /\ entries = <<>> /\ Begin(stage, None, 0, None, None)
  <2>1. None \in Given /\ 0 \in Nat /\ stage # "STONE_SETTING"
      BY <1>9 DEF Given, KEEPER_CONFIRM_STAGES
  <2>2. bs = <<>>
      BY <1>4, <2>1
  <2> QED
      BY <1>2, <1>4, <1>5, <1>9, <2>1, <2>2, BeginWithout
<1> QED
    BY <1>4, <1>7, <1>8, <1>9

LEMMA TicketUnmoved ==
    ASSUME TicketInv, UNCHANGED <<order, entries, bags, stock>>
    PROVE  TicketInv'
<1>1. WeightsTypeOK /\ EntriesSound /\ BagsSound /\ StonesSound /\ StoreSound
    BY DEF TicketInv
<1>2. WeightsTypeOK' /\ EntriesSound' /\ StoreSound'
    BY <1>1 DEF WeightsTypeOK, EntriesSound, StoreSound
<1>3. BagsSound'
  <2>1. ByThePiece' <=> ByThePiece
      BY DEF ByThePiece
  <2> QED
      BY <1>1, <2>1 DEF BagsSound, Sound
<1>4. StonesSound'
  <2> SUFFICES ASSUME NEW i \in DOMAIN entries, entries[i].stage = "STONE_SETTING"
               PROVE  StonesOK(entries[i])'
      BY DEF StonesSound
  <2>1. PICK r : r = entries[i]
      OBVIOUS
  <2>2. StonesOK(r) /\ entries'[i] = r
      BY <1>1, <2>1 DEF StonesSound
  <2>3. StonesOK(r)'
      BY <2>2, StonesKept
  <2> QED
      BY <2>2, <2>3
<1> QED
    BY <1>2, <1>3, <1>4 DEF TicketInv

-----------------------------------------------------------------------------
(* How a ticket begins.                                                    *)
LEMMA NothingStored ==
    ASSUME stock = Nothing, IsFiniteSet(DOMAIN entries),
           \A i \in DOMAIN entries : entries[i].btp = 0 /\ entries[i].silver = 0 /\ entries[i].s999 = 0
    PROVE  StoreSound
<1>1. PICK f, g : /\ f = [i \in DOMAIN entries |->
                            IF entries[i].phase = "confirmed" THEN entries[i].btp + entries[i].silver ELSE 0]
                  /\ g = [i \in DOMAIN entries |-> IF entries[i].phase = "confirmed" THEN entries[i].s999 ELSE 0]
    OBVIOUS
<1>2. DOMAIN f = DOMAIN entries /\ DOMAIN g = DOMAIN entries
      /\ (\A y \in DOMAIN f : f[y] = 0) /\ (\A y \in DOMAIN g : g[y] = 0)
    BY <1>1
<1>3. SumOf(f) = 0
    BY <1>2, SumRows
<1>4. SumOf(g) = 0
    BY <1>2, SumRows
<1>5. stock \in [s925 : Nat, s999 : Nat, scrap : 0..MaxScrap] /\ stock.s925 = 0 /\ stock.s999 = 0
  <2>1. MaxScrap \in Nat
      BY QtyAssumption
  <2> QED
      BY <2>1 DEF Nothing
<1> QED
    BY <1>1, <1>3, <1>4, <1>5 DEF StoreSound

LEMMA OneEntry ==
    ASSUME NEW e \in EntryValues, entries = <<e>>, order \in [route : Routes \cup {OldRoute, FiledRoute}, blank : Blanks, stones : Stones],
           Len(order.route) > 0, e.stage = order.route[1], Plain(e), e.btp = 0, e.silver = 0, e.s999 = 0,
           stock = Nothing, bags \in Seq(BagValues)
    PROVE  WeightsTypeOK /\ EntriesSound /\ StoreSound
<1>1. entries \in Seq(EntryValues) /\ Len(entries) = 1 /\ DOMAIN entries = {1} /\ entries[1] = e
    OBVIOUS
<1>2. StoreSound
  <2>1. IsFiniteSet(DOMAIN entries)
      BY <1>1, RowsOf
  <2> QED
      BY <1>1, <2>1, NothingStored
<1>3. WeightsTypeOK
  <2>1. Len(order.route) \in Nat
    <3>1. order.route \in Seq(Stages)
        BY CourseInOrder
    <3> QED
        BY <3>1, RowsOf
  <2>2. Len(entries) <= Len(order.route)
      BY <1>1, <2>1
  <2> QED
      BY <1>1, <1>2, <2>2 DEF WeightsTypeOK, StoreSound
<1>4. EntriesSound
    BY <1>1 DEF EntriesSound
<1> QED
    BY <1>2, <1>3, <1>4

LEMMA NewSound ==
    ASSUME InitNew
    PROVE  TicketInv
<1>1. order \in [route : Routes, blank : Blanks, stones : Stones] /\ entries = <<>> /\ bags = <<>> /\ stock = Nothing
    BY DEF InitNew
<1>2. bags \in Seq(BagValues) /\ entries \in Seq(EntryValues) /\ DOMAIN bags = {} /\ DOMAIN entries = {}
      /\ Len(entries) = 0
    BY <1>1
<1>3. StoreSound
  <2>1. IsFiniteSet(DOMAIN entries)
      BY <1>2, RowsOf
  <2> QED
      BY <1>1, <1>2, <2>1, NothingStored
<1>4. order \in [route : Routes \cup {OldRoute, FiledRoute}, blank : Blanks, stones : Stones]
    BY <1>1
<1>5. Len(order.route) \in Nat
  <2>1. order.route \in Seq(Stages)
      BY <1>4, CourseInOrder
  <2> QED
      BY <2>1, RowsOf
<1>6. WeightsTypeOK
    BY <1>2, <1>3, <1>4, <1>5 DEF WeightsTypeOK, StoreSound
<1>7. EntriesSound /\ BagsSound /\ StonesSound
    BY <1>1, <1>2 DEF EntriesSound, BagsSound, StonesSound
<1> QED
    BY <1>3, <1>6, <1>7 DEF TicketInv

LEMMA FiledSound ==
    ASSUME InitFiled
    PROVE  TicketInv
<1>1. order \in [route : {FiledRoute}, blank : Blanks, stones : Stones] /\ bags = <<>> /\ stock = Nothing
    BY DEF InitFiled
<1>2. PICK w \in Weighings \ {0} : entries =
        << [NewEntry("FILING", None, w, None, None) EXCEPT !.phase = "confirmed", !.good = TRUE, !.returned = w] >>
    BY Zenon DEF InitFiled
<1>3. w \in Nat /\ w > 0 /\ w \in Given
  <2>1. Weighings \subseteq Nat
      BY QtyAssumption
  <2> QED
      BY <2>1 DEF Given
<1>4. PICK was : was = NewEntry("FILING", None, w, None, None)
    OBVIOUS
<1>5. PICK e : e = [was EXCEPT !.phase = "confirmed", !.good = TRUE, !.returned = w]
    OBVIOUS
<1>6. entries = <<e>>
    BY <1>2, <1>4, <1>5, Zenon
<1>7. /\ was \in EntryValues /\ was.stage = "FILING" /\ was.handed = None /\ was.metal = w /\ Plain(was)
      /\ was.phase = "working" /\ was.btp = 0 /\ was.silver = 0 /\ was.s999 = 0
  <2>1. "FILING" \in Stages /\ None \in Given
      BY DEF Stages, KEEPER_CONFIRM_STAGES, Given
  <2> QED
      BY <1>3, <1>4, <2>1, NewEntryFields
<1>8. /\ e \in EntryValues /\ e.stage = "FILING" /\ e.phase = "confirmed" /\ e.good = TRUE
      /\ e.returned = w /\ e.handed = None /\ e.metal = w /\ e.stones = was.stones /\ e.more = was.more
      /\ e.set = was.set /\ e.setGrams = was.setGrams /\ e.back = was.back
      /\ e.btp = 0 /\ e.silver = 0 /\ e.s999 = 0
  <2>1. "confirmed" \in {"working", "submitted", "returned", "confirmed"} /\ TRUE \in BOOLEAN
      OBVIOUS
  <2> QED
      BY <1>3, <1>5, <1>7, <2>1 DEF EntryValues
<1>9. Plain(e)
  <2>1. /\ SilverIn(e) = w /\ Recovered(e) = 0 /\ IsReturned(e) /\ ~IsReturned(was)
        /\ e.returned # None
      BY <1>3, <1>7, <1>8 DEF SilverIn, Recovered, IsReturned, Or0, None
  <2>2. e.set = None /\ e.setGrams = None /\ e.back = None /\ e.stones = None /\ e.more = 0
      BY <1>7, <1>8, <2>1 DEF Plain
  <2>3. Or0(e.setGrams) = 0
      BY <2>2 DEF Or0
  <2> QED
      BY <1>3, <1>8, <2>1, <2>2, <2>3 DEF Plain, PHOTO_ONLY_STAGES
<1>10. order.route = FiledRoute /\ Len(order.route) = 2 /\ order.route[1] = "FILING"
    BY <1>1 DEF FiledRoute
<1>11. order \in [route : Routes \cup {OldRoute, FiledRoute}, blank : Blanks, stones : Stones]
    BY <1>1
<1>12. bags \in Seq(BagValues) /\ DOMAIN bags = {}
    BY <1>1
<1>13. WeightsTypeOK /\ EntriesSound /\ StoreSound
    BY <1>1, <1>6, <1>8, <1>9, <1>10, <1>11, <1>12, OneEntry
<1>14. DOMAIN entries = {1} /\ entries[1].stage = "FILING"
    BY <1>6, <1>8
<1>15. BagsSound /\ StonesSound
    BY <1>1, <1>12, <1>14 DEF BagsSound, StonesSound
<1> QED
    BY <1>13, <1>15 DEF TicketInv

(* Two bags of stones counted but not weighed.                             *)
LEMMA OldBags ==
    ASSUME ByThePiece = TRUE, NEW n \in Nat \ {0}, NEW m \in Nat \ {0},
           bags = <<NewBag(n, n, 0), NewBag(m, m, 0)>>
    PROVE  /\ bags \in Seq(BagValues) /\ DOMAIN bags = 1..2 /\ \A k \in DOMAIN bags : Sound(bags[k])
           /\ EarlyCount = 0 /\ SumOf(HeldCounts) = n + m
           /\ \A k \in DOMAIN bags : /\ bags[k].state = "HELD" /\ bags[k].out = 0
                                     /\ bags[k].backW = None /\ bags[k].backC = None
<1>1. PICK b, c : b = NewBag(n, n, 0) /\ c = NewBag(m, m, 0)
    OBVIOUS
<1>2. bags = <<b, c>>
    BY <1>1
<1>3. /\ b \in BagValues /\ b.state = "HELD" /\ b.out = 0 /\ b.backW = None /\ b.backC = None /\ b.earlyC = 0
      /\ b.count = n /\ b.qty = n
    BY <1>1 DEF NewBag, BagValues, Given
<1>4. /\ c \in BagValues /\ c.state = "HELD" /\ c.out = 0 /\ c.backW = None /\ c.backC = None /\ c.earlyC = 0
      /\ c.count = m /\ c.qty = m
    BY <1>1 DEF NewBag, BagValues, Given
<1>5. Sound(b) /\ Sound(c)
    BY <1>3, <1>4 DEF Sound
<1>6. bags \in Seq(BagValues) /\ DOMAIN bags = 1..2 /\ bags[1] = b /\ bags[2] = c
    BY <1>2, <1>3, <1>4
<1>7. \A k \in DOMAIN bags : bags[k] = b \/ bags[k] = c
    BY <1>6
<1>8. IsFiniteSet(DOMAIN bags)
    BY <1>6, RowsOf
<1>9. EarlyCount = 0
  <2>1. PICK f : f = [k \in DOMAIN bags |-> bags[k].earlyC]
      OBVIOUS
  <2>2. DOMAIN f = DOMAIN bags /\ \A y \in DOMAIN f : f[y] = 0
      BY <1>3, <1>4, <1>7, <2>1
  <2>3. SumOf(f) = 0
      BY <1>8, <2>2, SumRows
  <2> QED
      BY <2>1, <2>3, Zenon DEF EarlyCount
<1>10. SumOf(HeldCounts) = n + m
  <2>1. PICK f, g : f = [k \in {1} |-> n] /\ g = HeldCounts
      OBVIOUS
  <2>2. DOMAIN g = {1} \cup {2} /\ g[1] = n /\ g[2] = m
      BY <1>3, <1>4, <1>6, <2>1 DEF HeldCounts, IsHeld, Or0, None
  <2>3. SumOf(f) = n
    <3>1. DOMAIN f = {1} /\ f[1] = n /\ n \in Int
        BY <2>1
    <3> QED
        BY <3>1, SumOneRow
  <2>4. SumOf(g) = SumOf(f) + g[2]
    <3>1. DOMAIN f = {1}
        BY <2>1
    <3>2. IsFiniteSet({1})
        BY FS_Singleton
    <3>3. IsFiniteSet(DOMAIN f) /\ 2 \notin DOMAIN f /\ DOMAIN g = DOMAIN f \cup {2}
        BY <2>2, <3>1, <3>2
    <3>4. (\A y \in DOMAIN f : f[y] \in Int /\ g[y] = f[y]) /\ g[2] \in Int
        BY <2>1, <2>2
    <3> QED
        BY <3>3, <3>4, SumRowAdded
  <2> QED
      BY <2>1, <2>2, <2>3, <2>4
<1> QED
    BY <1>3, <1>4, <1>5, <1>6, <1>7, <1>9, <1>10

LEMMA OldSound ==
    ASSUME InitOld
    PROVE  TicketInv
<1>1. order \in [route : {OldRoute}, blank : Blanks, stones : Stones \cap {<<TRUE, None>>}] /\ stock = Nothing
    BY DEF InitOld
<1>2. PICK n \in {l[1] : l \in BagLabels[TRUE]}, k \in {1}, silver \in Weighings \ {0}, old \in BOOLEAN :
        /\ bags = <<NewBag(n, n, 0), NewBag(k, k, 0)>>
        /\ entries = << IF ~old THEN NewEntry("STONE_SETTING", silver, 0, n + k, None)
                        ELSE [NewEntry("STONE_SETTING", silver, 0, n + k, None) EXCEPT
                                !.phase = "returned", !.good = TRUE, !.returned = silver,
                                !.back = n, !.set = k] >>
    BY Zenon DEF InitOld
<1>3. n \in Nat \ {0} /\ k \in Nat \ {0}
  <2>1. PICK l \in BagLabels[TRUE] : n = l[1]
      OBVIOUS
  <2>2. l[1] \in Nat \ {0}
    <3>1. l[1] \in Nat \ {0} \/ (l[1] = None /\ ~TRUE)
        BY BagAssumption, Zenon
    <3> QED
        BY <3>1
  <2> QED
      BY <2>1, <2>2
<1>4. silver \in Nat /\ silver > 0 /\ silver \in Given
  <2>1. Weighings \subseteq Nat
      BY QtyAssumption
  <2> QED
      BY <2>1 DEF Given
<1>5. ByThePiece = TRUE
  <2>1. order.stones \in {<<TRUE, None>>}
      BY <1>1, Zenon
  <2>2. order.stones = <<TRUE, None>>
      BY <2>1
  <2> QED
      BY <2>2 DEF ByThePiece
<1>6. /\ bags \in Seq(BagValues) /\ DOMAIN bags = 1..2 /\ (\A j \in DOMAIN bags : Sound(bags[j]))
      /\ EarlyCount = 0 /\ SumOf(HeldCounts) = n + k
      /\ \A j \in DOMAIN bags : /\ bags[j].state = "HELD" /\ bags[j].out = 0
                                /\ bags[j].backW = None /\ bags[j].backC = None
    BY <1>2, <1>3, <1>5, OldBags
<1>7. PICK was : was = NewEntry("STONE_SETTING", silver, 0, n + k, None)
    OBVIOUS
<1>8. /\ was \in EntryValues /\ was.stage = "STONE_SETTING" /\ was.phase = "working" /\ was.handed = silver
      /\ was.metal = 0 /\ was.stones = n + k /\ was.stoneGrams = None /\ was.more = 0
      /\ was.btp = 0 /\ was.silver = 0 /\ was.s999 = 0 /\ was.typed = None /\ Plain(was)
  <2>1. "STONE_SETTING" \in Stages /\ None \in Given /\ 0 \in Nat /\ n + k \in Given
      BY <1>3 DEF Stages, KEEPER_CONFIRM_STAGES, Given
  <2>2. was.typed = None
      BY <1>7 DEF NewEntry
  <2>3. PICK m, stage, metal, grams : m = n + k /\ stage = "STONE_SETTING" /\ metal = 0 /\ grams = None
      OBVIOUS
  <2>4. /\ was = NewEntry(stage, silver, metal, m, grams)
        /\ stage \in Stages /\ silver \in Given /\ metal \in Nat /\ m \in Given /\ grams \in Given
        /\ stage # "STONE_SETTING" => m = None
      BY <1>4, <1>7, <2>1, <2>3
  <2>5. /\ was \in EntryValues /\ was.stage = stage /\ was.phase = "working" /\ was.handed = silver
        /\ was.metal = metal /\ was.stones = m /\ was.stoneGrams = grams /\ was.more = 0
        /\ was.btp = 0 /\ was.silver = 0 /\ was.s999 = 0 /\ Plain(was)
      BY <2>4, NewEntryFields
  <2> QED
      BY <2>2, <2>3, <2>5
<1>9. PICK e : e = IF ~old THEN was
                   ELSE [was EXCEPT !.phase = "returned", !.good = TRUE, !.returned = silver,
                                    !.back = n, !.set = k]
    OBVIOUS
<1>10. entries = <<e>>
    BY <1>2, <1>7, <1>9, Zenon
<1>11. /\ e \in EntryValues /\ e.stage = "STONE_SETTING" /\ e.handed = silver
       /\ e.metal = 0 /\ e.stones = n + k /\ e.stoneGrams = None /\ e.more = 0
       /\ e.btp = 0 /\ e.silver = 0 /\ e.s999 = 0 /\ e.typed = None
       /\ ~old => e = was
       /\ old => /\ e.phase = "returned" /\ e.good = TRUE /\ e.returned = silver /\ e.back = n /\ e.set = k
                 /\ e.setGrams = was.setGrams
  <2>1. CASE ~old
      BY <1>8, <1>9, <2>1
  <2>2. CASE old
    <3>1. "returned" \in {"working", "submitted", "returned", "confirmed"} /\ TRUE \in BOOLEAN
          /\ n \in Given /\ k \in Given
        BY <1>3 DEF Given
    <3>2. e = [was EXCEPT !.phase = "returned", !.good = TRUE, !.returned = silver, !.back = n, !.set = k]
        BY <1>9, <2>2
    <3> QED
        BY <1>4, <1>8, <2>2, <3>1, <3>2 DEF EntryValues
  <2> QED
      BY <2>1, <2>2
<1>12. Plain(e)
  <2>1. CASE ~old
      BY <1>8, <1>11, <2>1
  <2>2. CASE old
    <3>1. SilverIn(e) = silver /\ Recovered(e) = 0 /\ IsReturned(e) /\ e.returned # None
        BY <1>4, <1>11, <2>2 DEF SilverIn, Recovered, IsReturned, Or0, None
    <3>2. Or0(e.setGrams) \in Nat
        BY <1>11, EntryFields, GivenOrNothing
    <3> QED
        BY <1>4, <1>11, <2>2, <3>1, <3>2 DEF Plain, PHOTO_ONLY_STAGES, KEEPER_CONFIRM_STAGES
  <2> QED
      BY <2>1, <2>2
<1>13. order.route = OldRoute /\ Len(order.route) = 1 /\ order.route[1] = "STONE_SETTING"
    BY <1>1 DEF OldRoute
<1>14. order \in [route : Routes \cup {OldRoute, FiledRoute}, blank : Blanks, stones : Stones]
    BY <1>1
<1>15. WeightsTypeOK /\ EntriesSound /\ StoreSound
    BY <1>1, <1>6, <1>10, <1>11, <1>12, <1>13, <1>14, OneEntry
<1>16. DOMAIN entries = {1} /\ entries[1] = e
    BY <1>10
<1>17. StonesOK(e)
  <2>1. GivenCount(e) = n + k
      BY <1>3, <1>6, <1>11 DEF GivenCount, Or0, None
  <2>2. InHisBags(e)
      BY <1>6, <1>11, <2>1 DEF InHisBags
  <2>3. CASE ~old
      BY <1>8, <1>11, <2>2, <2>3 DEF StonesOK, IsReturned
  <2>4. CASE old
    <3>1. Or0(e.set) = k /\ Or0(e.back) = n
        BY <1>3, <1>11, <2>4 DEF Or0, None
    <3>2. Unseen
        BY <1>6 DEF Unseen
    <3>3. BackInBags(e)
        BY <1>3, <2>1, <3>1, <3>2 DEF BackInBags
    <3>4. e.phase = "returned" /\ e.typed = None
        BY <1>11, <2>4
    <3> QED
        BY <1>3, <2>1, <2>2, <3>1, <3>3, <3>4 DEF StonesOK
  <2> QED
      BY <2>3, <2>4
<1>18. BagsSound /\ StonesSound
    BY <1>6, <1>11, <1>16, <1>17 DEF BagsSound, StonesSound
<1> QED
    BY <1>15, <1>18 DEF TicketInv

(* The figures are sound whatever happens to the ticket.                   *)
LEMMA TicketStays ==
    WeightsSpec => []TicketInv
<1>1. WeightsInit => TicketInv
    BY NewSound, FiledSound, OldSound DEF WeightsInit
<1>2. TicketInv /\ [WeightsNext]_weights => TicketInv'
  <2> SUFFICES ASSUME TicketInv, [WeightsNext]_weights PROVE TicketInv'
      OBVIOUS
  <2>1. ASSUME NEW bs \in {<<>>} \cup {<<b>> : b \in Labels}, HandOver(bs) PROVE TicketInv'
      BY <2>1, HandOverKeeps
  <2>2. CASE CreateRequest \/ DropRequest \/ (\E w \in 1..MaxMetal : IssueMetal(w)) \/ Submit \/ Unsubmit
      BY <2>2, QuietSteps
  <2>3. ASSUME NEW b \in Labels, IssueStones(b) PROVE TicketInv'
      BY <2>3, IssueKeeps
  <2>4. ASSUME NEW grams \in 1..MaxEarly, ReturnStoneEarly(grams) PROVE TicketInv'
      BY <2>4, EarlyKeeps
  <2>5. ASSUME NEW revise \in BOOLEAN,
               NEW ask \in (IF Last.stage = "STONE_SETTING" THEN StoneAsks ELSE NoStones),
               ReturnStage(revise, ask)
        PROVE  TicketInv'
      BY <2>5, ReturnKeeps
  <2>6. CASE ConfirmStage
      BY <2>6, ConfirmKeeps
  <2>7. CASE UndoReturn
      BY <2>7, UndoKeeps
  <2>8. CASE (\E w \in 1..MaxScrap : CreateScrapReturn(w)) \/ RemoveScrapReturn
      BY <2>8, ScrapSteps
  <2>9. CASE UNCHANGED weights
    <3>1. order' = order /\ entries' = entries /\ bags' = bags /\ stock' = stock
        BY <2>9 DEF weights
    <3>2. TicketInv
        OBVIOUS
    <3> QED
        BY <3>1, <3>2, TicketUnmoved
  <2> QED
      BY <2>1, <2>2, <2>3, <2>4, <2>5, <2>6, <2>7, <2>8, <2>9, Zenon DEF WeightsNext
<1> QED
    BY <1>1, <1>2, PTL DEF WeightsSpec

(* No stage ever shows a negative loss, of silver or of stones: what QC may  *)
(* write down is bounded by what was handed over, issued and set, and what   *)
(* the setter was given by what is still in his bags.                        *)
LEMMA SilverLossOf ==
    ASSUME NEW e \in EntryValues, Plain(e)
    PROVE  /\ SilverLoss(e) \in Given
           /\ SilverIn(e) # None /\ e.returned # None =>
                SilverLoss(e) = SilverIn(e) + Or0(e.setGrams) - e.returned - Recovered(e)
           /\ SilverIn(e) = None \/ e.returned = None => SilverLoss(e) = None
<1>1. /\ SilverIn(e) \in Given /\ e.returned \in Given /\ Or0(e.setGrams) \in Nat
      /\ e.btp \in Nat /\ e.silver \in Nat /\ e.s999 \in Nat
    BY CarriedFields, EntryFields, GivenOrNothing
<1>2. Recovered(e) \in Nat
    BY <1>1 DEF Recovered
<1>3. SilverIn(e) # None /\ e.returned # None =>
        /\ SilverIn(e) \in Nat /\ e.returned \in Nat
        /\ e.returned + Recovered(e) <= SilverIn(e) + Or0(e.setGrams)
    BY <1>1, GivenOrNothing DEF Plain
<1> QED
    BY <1>1, <1>2, <1>3 DEF SilverLoss, Given

LEMMA LossIsNever ==
    ASSUME TicketInv
    PROVE  LossNeverNegative
<1>1. WeightsTypeOK /\ EntriesSound /\ StonesSound
    BY DEF TicketInv
<1> SUFFICES ASSUME NEW i \in DOMAIN entries
             PROVE  Or0(ToStage(entries[i]).silverLoss) >= 0 /\ Or0(ToStage(entries[i]).stoneLoss) >= 0
    BY DEF LossNeverNegative
<1>2. PICK e : e = entries[i]
    OBVIOUS
<1>3. e \in EntryValues /\ Plain(e) /\ (e.stage = "STONE_SETTING" => StonesOK(e))
  <2>1. entries[i] \in EntryValues
      BY <1>1, RowsOf DEF WeightsTypeOK
  <2> QED
      BY <1>1, <1>2, <2>1 DEF EntriesSound, StonesSound
<1>4. Or0(SilverLoss(e)) \in Nat
    BY <1>3, SilverLossOf, GivenOrNothing
<1>5. e.stage = "STONE_SETTING" => Or0(StoneLoss(e)) \in Nat
  <2> HAVE e.stage = "STONE_SETTING"
  <2>1. CASE ~IsReturned(e) \/ GivenCount(e) = 0
    <3>1. StoneLoss(e) = None
        BY <2>1, Zenon DEF StoneLoss, GivenCount
    <3> QED
        BY <3>1 DEF Or0
  <2>2. CASE IsReturned(e) /\ GivenCount(e) # 0
    <3>1. StoneLoss(e) = GivenCount(e) - Or0(e.set) - Or0(e.back)
        BY <2>2, Zenon DEF StoneLoss, GivenCount
    <3>2. GivenCount(e) \in Int /\ GivenCount(e) > 0 /\ Or0(e.set) + Or0(e.back) <= GivenCount(e)
      <4>1. GivenCount(e) \in Int
          BY <1>1, <1>3, HandedFields DEF WeightsTypeOK
      <4> QED
          BY <1>3, <2>2, <4>1 DEF StonesOK
    <3>3. Or0(e.set) \in Nat /\ Or0(e.back) \in Nat
        BY <1>3, EntryFields, GivenOrNothing
    <3>4. StoneLoss(e) \in Nat
        BY <3>1, <3>2, <3>3
    <3> QED
        BY <3>4 DEF Or0, None
  <2> QED
      BY <2>1, <2>2
<1> QED
    BY <1>2, <1>4, <1>5 DEF ToStage, Or0, None

THEOREM NoLossIsNegative ==
    WeightsSpec => []LossNeverNegative
BY TicketStays, LossIsNever, PTL

(* The ticket's order, entries, bags and recovered stock have their types in *)
(* every reachable state, whatever the scale shows and QC types.             *)
THEOREM FiguresTypeCorrect ==
    WeightsSpec => []WeightsTypeOK
<1>1. TicketInv => WeightsTypeOK
    BY DEF TicketInv
<1> QED
    BY <1>1, TicketStays, PTL

(* Stones counted in the bags still held, of weighed bags and of the others. *)
LEMMA CountsSplit ==
    ASSUME WeightsTypeOK, NEW e, InHisBags(e)
    PROVE  StoneLine.count = SumOf(Counted) + SumOf(Unweighed)
<1>1. /\ IsFiniteSet(DOMAIN bags) /\ \A k \in DOMAIN bags : bags[k] \in BagValues
      /\ DOMAIN Unweighed = DOMAIN bags /\ \A k \in DOMAIN bags : Unweighed[k] \in Nat
      /\ DOMAIN Weighed = DOMAIN bags /\ \A k \in DOMAIN bags : Weighed[k] \in Nat
      /\ DOMAIN Counted = {k \in DOMAIN bags : Weighed[k] > 0 /\ bags[k].count # None}
      /\ \A k \in DOMAIN Counted : Counted[k] = bags[k].count /\ Counted[k] \in Nat
    BY BagSums DEF WeightsTypeOK
<1>2. PICK all : all = [k \in DOMAIN bags |-> Or0(bags[k].count)]
    OBVIOUS
<1>3. PICK some : some = [k \in DOMAIN bags |-> IF k \in DOMAIN Counted THEN all[k] ELSE 0]
    OBVIOUS
<1>4. DOMAIN all = DOMAIN bags /\ \A k \in DOMAIN all : all[k] \in Nat
    BY <1>1, <1>2, BagFields
<1>5. DOMAIN some = DOMAIN bags /\ \A k \in DOMAIN bags : some[k] \in Int /\ Unweighed[k] \in Int /\ all[k] \in Int
    BY <1>1, <1>3, <1>4
<1>6. \A k \in DOMAIN bags : all[k] = some[k] + Unweighed[k]
  <2> SUFFICES ASSUME NEW k \in DOMAIN bags PROVE all[k] = some[k] + Unweighed[k]
      OBVIOUS
  <2>1. all[k] = Or0(bags[k].count) /\ all[k] \in Nat
      BY <1>2, <1>4
  <2>2. bags[k].state # "CONSUMED" /\ (bags[k].state = "RELEASED" => Or0(bags[k].count) = 0)
      BY DEF InHisBags
  <2>3. bags[k].state \in {"HELD", "RELEASED", "CONSUMED"} /\ bags[k].weight \in Nat
      BY <1>1, BagFields
  <2>4. CASE IsHeld(bags[k]) /\ bags[k].weight > 0 /\ bags[k].count # None
    <3>1. k \in DOMAIN Counted /\ Unweighed[k] = 0
        BY <1>1, <2>4 DEF Weighed, Unweighed
    <3> QED
        BY <1>3, <2>1, <3>1
  <2>5. CASE IsHeld(bags[k]) /\ bags[k].weight > 0 /\ bags[k].count = None
    <3>1. k \notin DOMAIN Counted /\ Unweighed[k] = 0 /\ all[k] = 0
        BY <1>1, <2>1, <2>5 DEF Weighed, Unweighed, Or0
    <3> QED
        BY <1>3, <3>1
  <2>6. CASE IsHeld(bags[k]) /\ bags[k].weight = 0
    <3>1. k \notin DOMAIN Counted /\ Unweighed[k] = all[k]
        BY <1>1, <2>1, <2>6 DEF Weighed, Unweighed
    <3> QED
        BY <1>3, <2>1, <3>1
  <2>7. CASE ~IsHeld(bags[k])
    <3>1. k \notin DOMAIN Counted /\ Unweighed[k] = 0
        BY <1>1, <2>7 DEF Weighed, Unweighed
    <3>2. all[k] = 0
        BY <2>1, <2>2, <2>3, <2>7 DEF IsHeld
    <3> QED
        BY <1>3, <3>1, <3>2
  <2> QED
      BY <2>3, <2>4, <2>5, <2>6, <2>7
<1>7. SumOf(all) = SumOf(some) + SumOf(Unweighed)
  <2>1. PICK f, g : f = some /\ g = Unweighed
      OBVIOUS
  <2>2. /\ IsFiniteSet(DOMAIN f) /\ DOMAIN g = DOMAIN f /\ DOMAIN all = DOMAIN f
        /\ \A y \in DOMAIN f : f[y] \in Int /\ g[y] \in Int /\ all[y] = f[y] + g[y]
      BY <1>1, <1>4, <1>5, <1>6, <2>1
  <2>3. SumOf(all) = SumOf(f) + SumOf(g)
      BY <2>2, SumRowsBoth
  <2> QED
      BY <2>1, <2>3
<1>8. SumOf(some) = SumOf(Counted)
  <2>1. PICK T : T = DOMAIN Counted
      OBVIOUS
  <2>2. T \in SUBSET (DOMAIN all) /\ IsFiniteSet(DOMAIN all)
      BY <1>1, <1>4, <2>1
  <2>3. some = [y \in DOMAIN all |-> IF y \in T THEN all[y] ELSE 0]
      BY <1>3, <1>4, <2>1
  <2>4. SumOf(some) = SumFunctionOnSet(all, T)
      BY <1>4, <2>2, <2>3, SumOfChosen
  <2>5. PICK c : c = Counted
      OBVIOUS
  <2>6. IsFiniteSet(T) /\ DOMAIN c = T
      BY <2>1, <2>2, <2>5, FS_Subset
  <2>7. \A x \in T : c[x] = all[x]
    <3> SUFFICES ASSUME NEW x \in T PROVE c[x] = all[x]
        OBVIOUS
    <3>1. x \in DOMAIN bags /\ bags[x].count # None /\ c[x] = bags[x].count
        BY <1>1, <2>1, <2>5
    <3> QED
        BY <1>2, <3>1 DEF Or0
  <2>8. SumFunctionOnSet(c, T) = SumFunctionOnSet(all, T)
      BY <2>6, <2>7, SumSame
  <2>9. SumOf(c) = SumFunctionOnSet(c, T)
      BY <2>6 DEF SumOf
  <2> QED
      BY <2>4, <2>5, <2>8, <2>9
<1>9. StoneLine.count = SumOf(all)
    BY <1>2 DEF StoneLine
<1> QED
    BY <1>7, <1>8, <1>9

LEMMA StonesAgree ==
    ASSUME TicketInv
    PROVE  StonesAddUp
<1>1. WeightsTypeOK /\ StonesSound
    BY DEF TicketInv
<1>2. HandedIsHeld
  <2> SUFFICES ASSUME NEW i \in DOMAIN entries, NEW e, e = entries[i],
                      e.stage = "STONE_SETTING", e.phase # "confirmed"
               PROVE  /\ Or0(e.stones) + e.more - EarlyCount =
                            SumWhere([k \in DOMAIN bags |-> Or0(bags[k].count)], LAMBDA k : IsHeld(bags[k]))
                      /\ StoneLine.count = SumOf(Counted) + SumOf(Unweighed)
                      /\ e.stoneGrams # None =>
                            e.stoneGrams + Or0(e.moreGrams) - EarlyGrams = StoneLine.weight
      BY Zenon DEF HandedIsHeld
  <2>1. InHisBags(e)
      BY <1>1 DEF StonesSound, StonesOK
  <2>2. StoneLine.count = SumOf(Counted) + SumOf(Unweighed)
      BY <1>1, <2>1, CountsSplit
  <2>3. SumWhere([k \in DOMAIN bags |-> Or0(bags[k].count)], LAMBDA k : IsHeld(bags[k])) = SumOf(HeldCounts)
    <3>1. HeldCounts = [j \in DOMAIN [k \in DOMAIN bags |-> Or0(bags[k].count)] |->
                IF IsHeld(bags[j]) THEN [k \in DOMAIN bags |-> Or0(bags[k].count)][j] ELSE 0]
        BY DEF HeldCounts
    <3> QED
        BY <3>1 DEF SumWhere
  <2>4. GivenCount(e) = SumOf(HeldCounts)
        /\ (e.stoneGrams # None => e.stoneGrams + Or0(e.moreGrams) - EarlyGrams = StoneLine.weight)
      BY <2>1 DEF InHisBags
  <2> QED
      BY <2>2, <2>3, <2>4, Zenon DEF GivenCount
<1>3. StockOutMatches
  <2> SUFFICES ASSUME NEW i \in DOMAIN entries, NEW e, e = entries[i],
                      e.stage = "STONE_SETTING", IsReturned(e)
               PROVE  /\ e.typed # None /\ AllCounted => e.back = e.typed
                      /\ e.phase = "confirmed" /\ ByThePiece /\ ~CameBackWhole => OutIsGiven(e)
      BY Zenon DEF StockOutMatches, AllCounted, CameBackWhole, OutIsGiven
  <2> QED
      BY <1>1, Zenon DEF StonesSound, StonesOK
<1> QED
    BY <1>2, <1>3 DEF StonesAddUp

(* The stones written down as given to the setter are those in his bags      *)
(* until the stage is closed, and those issued from stock once it is,        *)
(* whatever he was issued, gave back early, and whatever QC typed.           *)
THEOREM StonesAlwaysAddUp ==
    WeightsSpec => []StonesAddUp
BY TicketStays, StonesAgree, PTL

(* Silver passes from stage to stage: a closed stage gives on what it was    *)
(* weighed at, or what came in if it is not weighed.                         *)
PassedOn(e) == IF IsReturned(e) THEN CarriedSilver(e) ELSE SilverIn(e)
LEMMA StageBalances ==
    ASSUME NEW e \in EntryValues, Plain(e), SilverIn(e) # None
    PROVE  /\ SilverIn(e) \in Nat /\ PassedOn(e) \in Nat
           /\ SilverIn(e) + (IF IsReturned(e) THEN Or0(e.setGrams) ELSE 0) =
                Or0(SilverLoss(e)) + (IF IsReturned(e) THEN Recovered(e) ELSE 0) + PassedOn(e)
<1>1. /\ SilverIn(e) \in Nat /\ e.returned \in Given /\ Or0(e.setGrams) \in Nat
      /\ e.btp \in Nat /\ e.silver \in Nat /\ e.s999 \in Nat /\ SilverLoss(e) \in Given
    BY CarriedFields, EntryFields, GivenOrNothing, SilverLossOf
<1>2. Recovered(e) \in Nat
    BY <1>1 DEF Recovered
<1>3. CASE ~IsReturned(e)
  <2>1. e.returned = None
      BY <1>3 DEF Plain
  <2>2. Or0(SilverLoss(e)) = 0 /\ PassedOn(e) = SilverIn(e)
      BY <1>3, <2>1, SilverLossOf DEF Or0, PassedOn
  <2> QED
      BY <1>1, <1>3, <2>2
<1>4. CASE IsReturned(e) /\ e.stage \in PHOTO_ONLY_STAGES
  <2>1. e.returned = None /\ Recovered(e) = 0 /\ e.setGrams = None
      BY <1>4 DEF Plain, PHOTO_ONLY_STAGES
  <2>2. Or0(SilverLoss(e)) = 0 /\ Or0(e.setGrams) = 0
      BY <2>1, SilverLossOf DEF Or0
  <2>3. PassedOn(e) = SilverIn(e)
      BY <1>4, <2>1 DEF PassedOn, CarriedSilver, PHOTO_ONLY_STAGES, UNWEIGHED_CARRY_STAGES
  <2> QED
      BY <1>1, <1>4, <2>1, <2>2, <2>3
<1>5. CASE IsReturned(e) /\ e.stage \notin PHOTO_ONLY_STAGES
  <2>1. e.returned # None /\ e.returned \in Nat
      BY <1>1, <1>5, GivenOrNothing DEF Plain
  <2>2. PassedOn(e) = e.returned
      BY <1>5, <2>1 DEF PassedOn, CarriedSilver
  <2>3. SilverLoss(e) = SilverIn(e) + Or0(e.setGrams) - e.returned - Recovered(e)
      BY <2>1, SilverLossOf
  <2>4. Or0(SilverLoss(e)) = SilverLoss(e)
    <3>1. SilverLoss(e) \in Nat
      <4>1. e.returned + Recovered(e) <= SilverIn(e) + Or0(e.setGrams)
          BY <2>1 DEF Plain
      <4> QED
          BY <1>1, <1>2, <2>1, <2>3, <4>1
    <3> QED
        BY <3>1 DEF Or0, None
  <2> QED
      BY <1>1, <1>2, <1>5, <2>1, <2>2, <2>3, <2>4
<1> QED
    BY <1>3, <1>4, <1>5

(* A ticket that begins with silver knows the silver of each of its stages.  *)
LEMMA SilverStaysKnown ==
    ASSUME TicketInv, entries # <<>>, SilverIn(entries[1]) # None
    PROVE  \A i \in DOMAIN entries :
                /\ entries[i] \in EntryValues /\ Plain(entries[i]) /\ SilverIn(entries[i]) # None
                /\ i < Len(entries) => SilverIn(entries[i + 1]) = PassedOn(entries[i])
<1>1. WeightsTypeOK /\ EntriesSound
    BY DEF TicketInv
<1>2. PICK n \in Nat : n = Len(entries)
    BY <1>1, RowsOf DEF WeightsTypeOK
<1>3. DOMAIN entries = 1..n /\ n > 0
    BY <1>1, <1>2, RowsOf DEF WeightsTypeOK
<1>4. \A i \in 1..n : entries[i] \in EntryValues /\ Plain(entries[i])
    BY <1>1, <1>3, RowsOf DEF WeightsTypeOK, EntriesSound
<1>5. ASSUME NEW i \in 1..n, i < n
      PROVE  SilverIn(entries[i + 1]) = PassedOn(entries[i])
  <2>1. entries[i].phase = "confirmed"
      BY <1>1, <1>2, <1>3, <1>5 DEF EntriesSound
  <2>2. IsReturned(entries[i])
      BY <2>1 DEF IsReturned
  <2>3. SilverIn(entries[i + 1]) = CarriedSilver(entries[(i + 1) - 1])
      BY <1>1, <1>2, <1>3, <1>5 DEF EntriesSound
  <2>4. (i + 1) - 1 = i
      BY <1>5
  <2> QED
      BY <2>2, <2>3, <2>4 DEF PassedOn
<1>6. PICK B : B = {0} \cup {i \in 1..n : SilverIn(entries[i]) # None}
    OBVIOUS
<1>7. \A k \in 0..(n - 1) : k \in B => k + 1 \in B
  <2> SUFFICES ASSUME NEW k \in 0..(n - 1), k \in B PROVE k + 1 \in B
      OBVIOUS
  <2>1. CASE k = 0
    <3>1. k + 1 = 1 /\ 1 \in 1..n
        BY <1>2, <1>3, <2>1
    <3> QED
        BY <1>6, <3>1
  <2>2. CASE k # 0
    <3>1. k \in 1..n /\ k < n /\ k + 1 \in 1..n
        BY <1>2, <2>2
    <3>2. SilverIn(entries[k]) # None
        BY <1>6, <2>2
    <3>3. PassedOn(entries[k]) \in Nat
        BY <1>4, <3>1, <3>2, StageBalances
    <3>4. SilverIn(entries[k + 1]) # None
        BY <1>5, <3>1, <3>3 DEF None
    <3> QED
        BY <1>6, <3>1, <3>4
  <2> QED
      BY <2>1, <2>2
<1>8. \A k \in 0..n : k \in B
  <2>1. 0 \in B
      BY <1>6
  <2> QED
      BY <1>2, <1>7, <2>1, Upward
<1>9. \A i \in 1..n : SilverIn(entries[i]) # None
  <2> SUFFICES ASSUME NEW i \in 1..n PROVE SilverIn(entries[i]) # None
      OBVIOUS
  <2>1. i \in B /\ i # 0
      BY <1>2, <1>8
  <2> QED
      BY <1>6, <2>1
<1> QED
    BY <1>2, <1>3, <1>4, <1>5, <1>9

LEMMA ChainIsBalanced ==
    ASSUME TicketInv
    PROVE  ChainBalances
<1> SUFFICES ASSUME entries # <<>>, SilverIn(entries[1]) # None
             PROVE  TicketSilverIn
                        + SumWhere([i \in DOMAIN entries |-> Or0(entries[i].setGrams)],
                                   LAMBDA i : IsReturned(entries[i])) =
                    TicketLoss
                        + SumWhere([i \in DOMAIN entries |-> Recovered(entries[i])],
                                   LAMBDA i : IsReturned(entries[i]))
                        + (IF IsReturned(Last) THEN CarriedSilver(Last) ELSE SilverIn(Last))
    BY DEF ChainBalances
<1>1. PICK n \in Nat : n = Len(entries)
    BY RowsOf DEF TicketInv, WeightsTypeOK
<1>2. DOMAIN entries = 1..n /\ n > 0 /\ IsFiniteSet(1..n)
    BY <1>1, RowsOf DEF TicketInv, WeightsTypeOK
<1>3. \A i \in 1..n : /\ entries[i] \in EntryValues /\ Plain(entries[i]) /\ SilverIn(entries[i]) # None
                      /\ i < n => SilverIn(entries[i + 1]) = PassedOn(entries[i])
    BY <1>1, <1>2, SilverStaysKnown
<1>4. PICK ins, outs : /\ ins = [i \in 1..n |-> SilverIn(entries[i])]
                       /\ outs = [i \in 1..n |-> PassedOn(entries[i])]
    OBVIOUS
<1>5. PICK sets, losses, recs :
        /\ sets = [i \in 1..n |-> IF IsReturned(entries[i]) THEN Or0(entries[i].setGrams) ELSE 0]
        /\ losses = [i \in 1..n |-> Or0(SilverLoss(entries[i]))]
        /\ recs = [i \in 1..n |-> IF IsReturned(entries[i]) THEN Recovered(entries[i]) ELSE 0]
    OBVIOUS
<1>6. \A i \in 1..n :
        /\ ins[i] \in Int /\ outs[i] \in Int /\ sets[i] \in Int /\ losses[i] \in Int /\ recs[i] \in Int
        /\ ins[i] + sets[i] = losses[i] + recs[i] + outs[i]
  <2> SUFFICES ASSUME NEW i \in 1..n
               PROVE  /\ ins[i] \in Int /\ outs[i] \in Int /\ sets[i] \in Int /\ losses[i] \in Int /\ recs[i] \in Int
                      /\ ins[i] + sets[i] = losses[i] + recs[i] + outs[i]
      OBVIOUS
  <2>1. PICK e : e = entries[i]
      OBVIOUS
  <2>2. e \in EntryValues /\ Plain(e) /\ SilverIn(e) # None
      BY <1>3, <2>1
  <2>3. /\ Or0(e.setGrams) \in Nat /\ Or0(SilverLoss(e)) \in Nat /\ Recovered(e) \in Nat
    <3>1. e.setGrams \in Given /\ SilverLoss(e) \in Given
        BY <2>2, EntryFields, SilverLossOf
    <3>2. e.btp \in Nat /\ e.silver \in Nat /\ e.s999 \in Nat
        BY <2>2, EntryFields
    <3>3. Recovered(e) \in Nat
        BY <3>2 DEF Recovered
    <3> QED
        BY <3>1, <3>3, GivenOrNothing
  <2>4. /\ SilverIn(e) \in Nat /\ PassedOn(e) \in Nat
        /\ SilverIn(e) + (IF IsReturned(e) THEN Or0(e.setGrams) ELSE 0) =
                Or0(SilverLoss(e)) + (IF IsReturned(e) THEN Recovered(e) ELSE 0) + PassedOn(e)
      BY <2>2, StageBalances
  <2>5. /\ ins[i] = SilverIn(e) /\ outs[i] = PassedOn(e) /\ losses[i] = Or0(SilverLoss(e))
        /\ sets[i] = (IF IsReturned(e) THEN Or0(e.setGrams) ELSE 0)
        /\ recs[i] = (IF IsReturned(e) THEN Recovered(e) ELSE 0)
      BY <1>4, <1>5, <2>1, Zenon
  <2> QED
      BY <2>3, <2>4, <2>5
<1>7. DOMAIN ins = 1..n /\ DOMAIN outs = 1..n /\ DOMAIN sets = 1..n /\ DOMAIN losses = 1..n /\ DOMAIN recs = 1..n
    BY <1>4, <1>5
<1>8. PICK h, k : /\ h = [i \in 1..n |-> ins[i] + sets[i]]
                  /\ k = [i \in 1..n |-> losses[i] + recs[i]]
    OBVIOUS
<1>9. DOMAIN h = 1..n /\ DOMAIN k = 1..n /\ \A i \in 1..n : k[i] \in Int /\ h[i] = k[i] + outs[i]
    BY <1>6, <1>8
<1>10. SumOf(h) = SumOf(ins) + SumOf(sets)
  <2>1. \A y \in DOMAIN ins : ins[y] \in Int /\ sets[y] \in Int /\ h[y] = ins[y] + sets[y]
      BY <1>6, <1>7, <1>8
  <2> QED
      BY <1>2, <1>7, <1>9, <2>1, SumRowsBoth
<1>11. SumOf(k) = SumOf(losses) + SumOf(recs)
  <2>1. \A y \in DOMAIN losses : losses[y] \in Int /\ recs[y] \in Int /\ k[y] = losses[y] + recs[y]
      BY <1>6, <1>7, <1>8
  <2> QED
      BY <1>2, <1>7, <1>9, <2>1, SumRowsBoth
<1>12. SumOf(h) = SumOf(k) + SumOf(outs)
  <2>1. \A y \in DOMAIN k : k[y] \in Int /\ outs[y] \in Int /\ h[y] = k[y] + outs[y]
      BY <1>6, <1>9
  <2> QED
      BY <1>2, <1>7, <1>9, <2>1, SumRowsBoth
<1>13. SumOf(ins) - SumOf(outs) = ins[1] - outs[n]
  <2>1. \A i \in 1..n : ins[i] \in Int /\ outs[i] \in Int
      BY <1>6
  <2>2. \A i \in 1..(n - 1) : ins[i + 1] = outs[i]
    <3> SUFFICES ASSUME NEW i \in 1..(n - 1) PROVE ins[i + 1] = outs[i]
        OBVIOUS
    <3>1. i \in 1..n /\ i < n /\ i + 1 \in 1..n
        BY <1>1
    <3> QED
        BY <1>3, <1>4, <3>1
  <2>3. SumFunctionOnSet(ins, 1..n) - SumFunctionOnSet(outs, 1..n) = ins[1] - outs[n]
      BY <1>2, <2>1, <2>2, ChainSums
  <2> QED
      BY <1>7, <2>3 DEF SumOf
<1>14. SumOf(ins) \in Int /\ SumOf(outs) \in Int /\ SumOf(sets) \in Int /\ SumOf(losses) \in Int /\ SumOf(recs) \in Int
  <2>1. SumOf(ins) \in Int
      BY <1>2, <1>6, <1>7, SumRows
  <2>2. SumOf(outs) \in Int
      BY <1>2, <1>6, <1>7, SumRows
  <2>3. SumOf(sets) \in Int
      BY <1>2, <1>6, <1>7, SumRows
  <2>4. SumOf(losses) \in Int
      BY <1>2, <1>6, <1>7, SumRows
  <2>5. SumOf(recs) \in Int
      BY <1>2, <1>6, <1>7, SumRows
  <2> QED
      BY <2>1, <2>2, <2>3, <2>4, <2>5
<1>15. ins[1] + SumOf(sets) = SumOf(losses) + SumOf(recs) + outs[n]
  <2>1. ins[1] \in Int /\ outs[n] \in Int
      BY <1>2, <1>6
  <2>2. PICK a, b, c, d, e : a = SumOf(ins) /\ b = SumOf(outs) /\ c = SumOf(sets) /\ d = SumOf(losses) /\ e = SumOf(recs)
      OBVIOUS
  <2>3. a \in Int /\ b \in Int /\ c \in Int /\ d \in Int /\ e \in Int
      BY <1>14, <2>2
  <2>4. a + c = (d + e) + b /\ a - b = ins[1] - outs[n]
      BY <1>10, <1>11, <1>12, <1>13, <2>2
  <2>5. ins[1] + c = d + e + outs[n]
      BY <2>1, <2>3, <2>4
  <2> QED
      BY <2>2, <2>5
<1>16. TicketSilverIn = ins[1]
  <2>1. ins[1] = SilverIn(entries[1]) /\ SilverIn(entries[1]) # None
      BY <1>2, <1>4
  <2> QED
      BY <2>1 DEF TicketSilverIn, Or0
<1>17. TicketLoss = SumOf(losses)
    BY <1>2, <1>5 DEF TicketLoss
<1>18. SumWhere([i \in DOMAIN entries |-> Or0(entries[i].setGrams)], LAMBDA i : IsReturned(entries[i])) = SumOf(sets)
  <2>1. sets = [j \in DOMAIN [i \in DOMAIN entries |-> Or0(entries[i].setGrams)] |->
            IF IsReturned(entries[j]) THEN [i \in DOMAIN entries |-> Or0(entries[i].setGrams)][j] ELSE 0]
      BY <1>2, <1>5
  <2> QED
      BY <2>1 DEF SumWhere
<1>19. SumWhere([i \in DOMAIN entries |-> Recovered(entries[i])], LAMBDA i : IsReturned(entries[i])) = SumOf(recs)
  <2>1. recs = [j \in DOMAIN [i \in DOMAIN entries |-> Recovered(entries[i])] |->
            IF IsReturned(entries[j]) THEN [i \in DOMAIN entries |-> Recovered(entries[i])][j] ELSE 0]
      BY <1>2, <1>5
  <2> QED
      BY <2>1 DEF SumWhere
<1>20. outs[n] = IF IsReturned(Last) THEN CarriedSilver(Last) ELSE SilverIn(Last)
  <2>1. outs[n] = PassedOn(entries[n])
      BY <1>2, <1>4
  <2>2. Last = entries[n]
      BY <1>1 DEF Last
  <2> QED
      BY <2>1, <2>2, Zenon DEF PassedOn
<1> QED
    BY <1>15, <1>16, <1>17, <1>18, <1>19, <1>20

(* The silver that went into a ticket and the stones set in it are what it   *)
(* weighs now, what was recovered and what its stages lost, wherever the      *)
(* ticket stands and whatever was issued, corrected or taken back.           *)
THEOREM SilverIsNeverLostTwice ==
    WeightsSpec => []ChainBalances
BY TicketStays, ChainIsBalanced, PTL

(* Adding up by stage first is adding up all rows.                         *)
ByKey(h, K, f, key, S) ==
    \A k \in K : h[k] = SumFunctionOnSet([x \in S |-> IF key[x] = k THEN f[x] ELSE 0], S)
LEMMA SumByKey ==
    ASSUME NEW S, IsFiniteSet(S), NEW K, IsFiniteSet(K), NEW f, \A x \in S : f[x] \in Int,
           NEW key, \A x \in S : key[x] \in K,
           NEW h, ByKey(h, K, f, key, S)
    PROVE  SumFunctionOnSet(h, K) = SumFunctionOnSet(f, S)
<1> DEFINE part == [k \in K |-> [x \in S |-> IF key[x] = k THEN f[x] ELSE 0]]
           sums(T) == [k \in K |-> SumFunctionOnSet(part[k], T)]
           B == {T \in SUBSET S : SumFunctionOnSet(sums(T), K) = SumFunctionOnSet(f, T)}
<1>1. \A k \in K : \A x \in S : /\ part[k][x] = IF key[x] = k THEN f[x] ELSE 0
                                /\ part[k][x] \in Int
    OBVIOUS
<1>2. \A k \in K : part[k] = [x \in S |-> IF key[x] = k THEN f[x] ELSE 0]
    OBVIOUS
<1> HIDE DEF part
<1>3. ASSUME NEW T \in SUBSET S, \A x \in T : T \ {x} \in B
      PROVE  T \in B
  <2>1. IsFiniteSet(T)
      BY FS_Subset
  <2>2. CASE T = {}
    <3>1. \A k \in K : sums(T)[k] = 0
        BY <2>2, SumOfNone
    <3>2. PICK s : s = sums(T)
        OBVIOUS
    <3>3. SumFunctionOnSet(s, K) = 0
        BY <3>1, <3>2, SumOfZeros
    <3>4. SumFunctionOnSet(f, T) = 0
        BY <2>2, SumOfNone
    <3> QED
        BY <3>2, <3>3, <3>4
  <2>3. CASE T # {}
    <3>1. PICK x : x \in T
        BY <2>3
    <3>2. PICK R, s, r : R = T \ {x} /\ s = sums(T) /\ r = sums(R)
        OBVIOUS
    <3>3. R \in SUBSET S /\ IsFiniteSet(R) /\ x \in S /\ key[x] \in K /\ f[x] \in Int
        BY <2>1, <3>1, <3>2, FS_Subset
    <3>4. SumFunctionOnSet(r, K) = SumFunctionOnSet(f, R)
        BY <1>3, <3>1, <3>2
    <3>5. SumFunctionOnSet(f, T) = f[x] + SumFunctionOnSet(f, R)
        BY <2>1, <3>1, <3>2, SumTakeOut
    <3>6. \A k \in K : /\ s[k] = part[k][x] + r[k] /\ s[k] \in Int /\ r[k] \in Int
                       /\ part[k][x] = IF key[x] = k THEN f[x] ELSE 0
      <4> SUFFICES ASSUME NEW k \in K
                   PROVE  /\ s[k] = part[k][x] + r[k] /\ s[k] \in Int /\ r[k] \in Int
                          /\ part[k][x] = IF key[x] = k THEN f[x] ELSE 0
          OBVIOUS
      <4>1. s[k] = SumFunctionOnSet(part[k], T) /\ r[k] = SumFunctionOnSet(part[k], R)
          BY <3>2
      <4>2. PICK g : g = part[k]
          OBVIOUS
      <4>3. (\A y \in T : g[y] \in Int) /\ (\A y \in R : g[y] \in Int) /\ g[x] = IF key[x] = k THEN f[x] ELSE 0
          BY <1>1, <3>3, <4>2
      <4>4. SumFunctionOnSet(g, T) = g[x] + SumFunctionOnSet(g, T \ {x})
          BY <2>1, <3>1, <4>3, SumTakeOut
      <4>5. SumFunctionOnSet(g, T) \in Int
          BY <2>1, <4>3, SumIsInt
      <4>6. SumFunctionOnSet(g, R) \in Int
          BY <3>3, <4>3, SumIsInt
      <4> QED
          BY <3>2, <4>1, <4>2, <4>3, <4>4, <4>5, <4>6
    <3>7. PICK z : z = key[x]
        OBVIOUS
    <3>8. z \in K /\ s[z] = f[x] + r[z]
        BY <3>3, <3>6, <3>7
    <3>9. \A k \in K : k # z => s[k] = r[k]
        BY <3>6, <3>7
    <3>10. SumFunctionOnSet(s, K) = SumFunctionOnSet(r, K) - r[z] + s[z]
      <4>1. \A y \in K : r[y] \in Int /\ s[y] \in Int
          BY <3>6
      <4>2. PICK L : L = K \ {z}
          OBVIOUS
      <4>3. IsFiniteSet(L) /\ \A y \in L : r[y] \in Int /\ s[y] = r[y]
          BY <3>9, <4>1, <4>2, FS_Subset
      <4>4. SumFunctionOnSet(s, L) = SumFunctionOnSet(r, L)
          BY <4>3, SumSame
      <4>5. SumFunctionOnSet(s, K) = s[z] + SumFunctionOnSet(s, K \ {z})
          BY <3>8, <4>1, SumTakeOut
      <4>6. SumFunctionOnSet(r, K) = r[z] + SumFunctionOnSet(r, K \ {z})
          BY <3>8, <4>1, SumTakeOut
      <4>7. SumFunctionOnSet(r, L) \in Int
          BY <4>3, SumIsInt
      <4> QED
          BY <3>8, <4>1, <4>2, <4>4, <4>5, <4>6, <4>7
    <3>11. SumFunctionOnSet(f, R) \in Int /\ r[z] \in Int
      <4>1. \A y \in R : f[y] \in Int
          BY <3>3
      <4> QED
          BY <3>3, <3>6, <3>8, <4>1, SumIsInt
    <3>12. SumFunctionOnSet(s, K) = SumFunctionOnSet(f, T)
        BY <3>3, <3>4, <3>5, <3>8, <3>10, <3>11
    <3> QED
        BY <3>2, <3>12
  <2> QED
      BY <2>2, <2>3
<1> HIDE DEF B
<1>4. S \in B
    BY <1>3, OneByOne
<1>5. SumFunctionOnSet(sums(S), K) = SumFunctionOnSet(f, S)
    BY <1>4 DEF B
<1>6. PICK s : s = sums(S)
    OBVIOUS
<1>7. \A k \in K : h[k] = s[k]
  <2> SUFFICES ASSUME NEW k \in K PROVE h[k] = s[k]
      OBVIOUS
  <2>1. h[k] = SumFunctionOnSet([x \in S |-> IF key[x] = k THEN f[x] ELSE 0], S)
      BY DEF ByKey
  <2> QED
      BY <1>2, <1>6, <2>1
<1>8. SumFunctionOnSet(h, K) = SumFunctionOnSet(s, K)
    BY <1>7, SumSame
<1> QED
    BY <1>5, <1>6, <1>8

(* What the report counts of a stage is what the stage shows as its loss.   *)
LEMMA ReportedLoss ==
    ASSUME WeightsTypeOK, EntriesSound, NEW i \in DOMAIN entries
    PROVE  /\ LossItem(i).in \in Given /\ LossItem(i).product \in Int /\ LossItem(i).btp \in Nat /\ LossItem(i).nvl \in Nat
           /\ Reported(i) => /\ LossItem(i).in \in Nat /\ Or0(SilverIn(entries[i])) = LossItem(i).in
                             /\ LossOf(LossItem(i)) = Or0(SilverLoss(entries[i]))
           /\ entries[i].phase = "confirmed" /\ ~Reported(i) => Or0(SilverLoss(entries[i])) = 0
           /\ Or0(SilverIn(entries[i])) \in Nat /\ Recovered(entries[i]) \in Nat
<1>1. PICK e : e = entries[i]
    OBVIOUS
<1>2. e \in EntryValues /\ Plain(e)
  <2>1. entries[i] \in EntryValues
      BY RowsOf DEF WeightsTypeOK
  <2> QED
      BY <1>1, <2>1 DEF EntriesSound
<1>3. /\ SilverIn(e) \in Given /\ Or0(SilverIn(e)) \in Nat /\ e.returned \in Given /\ Or0(e.setGrams) \in Nat
      /\ e.btp \in Nat /\ e.silver \in Nat /\ e.s999 \in Nat /\ SilverLoss(e) \in Given
    BY <1>2, CarriedFields, EntryFields, GivenOrNothing, SilverLossOf
<1>4. PICK item : item = LossItem(i)
    OBVIOUS
<1>5. /\ item.in = SilverIn(e) /\ item.product = e.returned - Or0(e.setGrams) /\ item.btp = e.btp
      /\ item.nvl = e.silver + e.s999
    BY <1>1, <1>4 DEF LossItem
<1>6. Recovered(e) = e.btp + e.silver + e.s999 /\ Recovered(e) \in Nat
    BY <1>3 DEF Recovered
<1>7. item.in \in Given /\ item.product \in Int /\ item.btp \in Nat /\ item.nvl \in Nat
    BY <1>3, <1>5 DEF Given, None
<1>8. Reported(i) => /\ item.in \in Nat /\ Or0(SilverIn(e)) = item.in
                     /\ LossOf(item) = Or0(SilverLoss(e))
  <2> HAVE Reported(i)
  <2>1. e.returned # None /\ SilverIn(e) # None
      BY <1>1 DEF Reported
  <2>2. e.returned \in Nat /\ SilverIn(e) \in Nat /\ Or0(SilverIn(e)) = SilverIn(e)
      BY <1>3, <2>1, GivenOrNothing
  <2>3. SilverLoss(e) = SilverIn(e) + Or0(e.setGrams) - e.returned - Recovered(e)
      BY <1>2, <2>1, SilverLossOf
  <2>4. e.returned + Recovered(e) <= SilverIn(e) + Or0(e.setGrams)
      BY <1>2, <2>1 DEF Plain
  <2>5. SilverLoss(e) \in Nat
      BY <1>3, <1>6, <2>2, <2>3, <2>4
  <2>6. Or0(SilverLoss(e)) = SilverLoss(e)
      BY <2>5 DEF Or0, None
  <2>7. LossOf(item) = item.in - (item.product + item.btp + item.nvl)
      BY DEF LossOf
  <2> QED
      BY <1>3, <1>5, <1>6, <2>2, <2>3, <2>6, <2>7
<1>9. e.phase = "confirmed" /\ ~Reported(i) => Or0(SilverLoss(e)) = 0
  <2> HAVE e.phase = "confirmed" /\ ~Reported(i)
  <2>1. e.returned = None \/ SilverIn(e) = None
      BY <1>1 DEF Reported
  <2>2. SilverLoss(e) = None
      BY <1>2, <2>1, SilverLossOf
  <2> QED
      BY <2>2 DEF Or0
<1> QED
    BY <1>1, <1>3, <1>4, <1>6, <1>7, <1>8, <1>9

LEMMA ReportIsRight ==
    ASSUME TicketInv
    PROVE  ReportAgrees
<1>1. WeightsTypeOK /\ EntriesSound /\ StoreSound
    BY DEF TicketInv
<1>2. PICK D : D = DOMAIN entries
    OBVIOUS
<1>3. IsFiniteSet(D) /\ \A i \in D : entries[i] \in EntryValues
    BY <1>1, <1>2, RowsOf DEF WeightsTypeOK
<1>4. PICK ins, outs, rows :
        /\ ins = [i \in D |-> IF Reported(i) THEN Or0(SilverIn(entries[i])) ELSE 0]
        /\ outs = [i \in D |-> IF Reported(i) THEN LossItem(i).product + LossItem(i).btp + LossItem(i).nvl ELSE 0]
        /\ rows = [i \in D |-> IF entries[i].phase = "confirmed" THEN Or0(SilverLoss(entries[i])) ELSE 0]
    OBVIOUS
<1>5. DOMAIN ins = D /\ DOMAIN outs = D /\ DOMAIN rows = D
    BY <1>4
<1>6. \A i \in D : /\ ins[i] \in Int /\ outs[i] \in Int /\ rows[i] \in Int /\ ins[i] = rows[i] + outs[i]
                   /\ rows[i] = IF Reported(i) THEN LossOf(LossItem(i)) ELSE 0
  <2> SUFFICES ASSUME NEW i \in D
               PROVE  /\ ins[i] \in Int /\ outs[i] \in Int /\ rows[i] \in Int /\ ins[i] = rows[i] + outs[i]
                      /\ rows[i] = IF Reported(i) THEN LossOf(LossItem(i)) ELSE 0
      OBVIOUS
  <2>1. PICK item : item = LossItem(i)
      OBVIOUS
  <2>2. /\ item.product \in Int /\ item.btp \in Nat /\ item.nvl \in Nat
        /\ Reported(i) => /\ item.in \in Nat /\ Or0(SilverIn(entries[i])) = item.in
                          /\ LossOf(item) = Or0(SilverLoss(entries[i]))
        /\ entries[i].phase = "confirmed" /\ ~Reported(i) => Or0(SilverLoss(entries[i])) = 0
      BY <1>1, <1>2, <2>1, ReportedLoss
  <2>3. CASE Reported(i)
    <3>1. entries[i].phase = "confirmed"
        BY <2>3 DEF Reported
    <3>2. ins[i] = item.in /\ outs[i] = item.product + item.btp + item.nvl /\ rows[i] = LossOf(item)
        BY <1>4, <2>1, <2>2, <2>3, <3>1
    <3>3. LossOf(item) = item.in - (item.product + item.btp + item.nvl)
        BY DEF LossOf
    <3>4. item.in \in Nat
        BY <2>2, <2>3
    <3> QED
        BY <2>1, <2>2, <2>3, <3>2, <3>3, <3>4
  <2>4. CASE ~Reported(i)
    <3>1. ins[i] = 0 /\ outs[i] = 0
        BY <1>4, <2>4
    <3>2. rows[i] = 0
        BY <1>4, <2>2, <2>4
    <3> QED
        BY <2>4, <3>1, <3>2
  <2> QED
      BY <2>3, <2>4
<1>7. SumOf(ins) = SumOf(rows) + SumOf(outs)
    BY <1>3, <1>5, <1>6, SumRowsBoth
<1>8. SumOf(rows) \in Int /\ SumOf(outs) \in Int
  <2>1. SumOf(rows) \in Int
      BY <1>3, <1>5, <1>6, SumRows
  <2>2. SumOf(outs) \in Int
      BY <1>3, <1>5, <1>6, SumRows
  <2> QED
      BY <2>1, <2>2
<1>9. SumWhere([i \in DOMAIN entries |-> Or0(SilverIn(entries[i]))], Reported) = SumOf(ins)
  <2>1. ins = [j \in DOMAIN [i \in DOMAIN entries |-> Or0(SilverIn(entries[i]))] |->
            IF Reported(j) THEN [i \in DOMAIN entries |-> Or0(SilverIn(entries[i]))][j] ELSE 0]
      BY <1>2, <1>4
  <2> QED
      BY <2>1 DEF SumWhere
<1>10. SumWhere([i \in DOMAIN entries |-> LossItem(i).product + LossItem(i).btp + LossItem(i).nvl], Reported)
            = SumOf(outs)
  <2>1. outs = [j \in DOMAIN [i \in DOMAIN entries |-> LossItem(i).product + LossItem(i).btp + LossItem(i).nvl] |->
            IF Reported(j) THEN [i \in DOMAIN entries |->
                LossItem(i).product + LossItem(i).btp + LossItem(i).nvl][j] ELSE 0]
      BY <1>2, <1>4
  <2> QED
      BY <2>1 DEF SumWhere
<1>11. WorkerLoss + stock.scrap = SumOf(rows)
  <2>1. WorkerLoss = SumOf(ins) - SumOf(outs) - stock.scrap
      BY <1>9, <1>10, Zenon DEF WorkerLoss
  <2>2. stock.scrap \in Int
      BY <1>1, QtyAssumption DEF StoreSound
  <2> QED
      BY <1>7, <1>8, <2>1, <2>2
<1>12. SumWhere([i \in DOMAIN entries |-> Or0(SilverLoss(entries[i]))],
                LAMBDA i : entries[i].phase = "confirmed") = SumOf(rows)
  <2>1. rows = [j \in DOMAIN [i \in DOMAIN entries |-> Or0(SilverLoss(entries[i]))] |->
            IF entries[j].phase = "confirmed" THEN [i \in DOMAIN entries |-> Or0(SilverLoss(entries[i]))][j] ELSE 0]
      BY <1>2, <1>4
  <2> QED
      BY <2>1 DEF SumWhere
<1>13. SumOf([stage \in Stages |-> ReportRow(stage)]) = SumOf(rows)
  <2>1. PICK key, h : key = [i \in D |-> entries[i].stage] /\ h = [stage \in Stages |-> ReportRow(stage)]
      OBVIOUS
  <2>2. IsFiniteSet(Stages)
    <3>1. Stages = {"FILING"} \cup {"STONE_SETTING"} \cup {"ENGRAVING"} \cup {"POLISHING"} \cup {"PLATING"}
        BY DEF Stages, KEEPER_CONFIRM_STAGES, PHOTO_ONLY_STAGES, QC_STOCK_RECOVERY_STAGES
    <3> QED
        BY <3>1, FS_Singleton, FS_Union
  <2>3. \A x \in D : rows[x] \in Int /\ key[x] \in Stages
      BY <1>3, <1>6, <2>1, EntryFields
  <2>4. \A k \in Stages : h[k] = SumFunctionOnSet([x \in D |-> IF key[x] = k THEN rows[x] ELSE 0], D)
    <3> SUFFICES ASSUME NEW k \in Stages
                 PROVE  h[k] = SumFunctionOnSet([x \in D |-> IF key[x] = k THEN rows[x] ELSE 0], D)
        OBVIOUS
    <3>1. PICK f, g : /\ f = [i \in D |-> IF Reported(i) /\ entries[i].stage = k THEN LossOf(LossItem(i)) ELSE 0]
                      /\ g = [x \in D |-> IF key[x] = k THEN rows[x] ELSE 0]
        OBVIOUS
    <3>2. \A x \in D : g[x] = f[x]
      <4> SUFFICES ASSUME NEW x \in D PROVE g[x] = f[x]
          OBVIOUS
      <4>1. g[x] = IF entries[x].stage = k THEN rows[x] ELSE 0
          BY <2>1, <3>1
      <4>2. f[x] = IF Reported(x) /\ entries[x].stage = k THEN LossOf(LossItem(x)) ELSE 0
          BY <3>1
      <4>3. rows[x] = IF Reported(x) THEN LossOf(LossItem(x)) ELSE 0
          BY <1>6
      <4> QED
          BY <4>1, <4>2, <4>3, Zenon
    <3>3. SumFunctionOnSet(g, D) = SumFunctionOnSet(f, D)
        BY <1>3, <3>2, SumSame
    <3>4. h[k] = ReportRow(k) /\ ReportRow(k) = SumOf(f)
        BY <1>2, <2>1, <3>1 DEF ReportRow
    <3>5. SumOf(f) = SumFunctionOnSet(f, D)
        BY <3>1 DEF SumOf
    <3> QED
        BY <3>1, <3>3, <3>4, <3>5
  <2>5. SumFunctionOnSet(h, Stages) = SumFunctionOnSet(rows, D)
    <3>1. ByKey(h, Stages, rows, key, D)
        BY <2>4 DEF ByKey
    <3> QED
        BY <1>3, <2>2, <2>3, <3>1, SumByKey
  <2>6. SumOf(h) = SumFunctionOnSet(h, Stages) /\ SumOf(rows) = SumFunctionOnSet(rows, D)
      BY <1>5, <2>1 DEF SumOf
  <2> QED
      BY <2>1, <2>5, <2>6
<1>14. stock.s925 + stock.s999 = SumWhere([i \in DOMAIN entries |-> Recovered(entries[i])],
                                          LAMBDA i : entries[i].phase = "confirmed")
  <2>1. PICK a, b, c :
            /\ a = [i \in DOMAIN entries |->
                    IF entries[i].phase = "confirmed" THEN entries[i].btp + entries[i].silver ELSE 0]
            /\ b = [i \in DOMAIN entries |-> IF entries[i].phase = "confirmed" THEN entries[i].s999 ELSE 0]
            /\ c = [i \in DOMAIN entries |-> IF entries[i].phase = "confirmed" THEN Recovered(entries[i]) ELSE 0]
      OBVIOUS
  <2>2. stock.s925 = SumOf(a) /\ stock.s999 = SumOf(b)
      BY <1>1, <2>1 DEF StoreSound
  <2>3. DOMAIN a = D /\ DOMAIN b = D /\ DOMAIN c = D
      BY <1>2, <2>1
  <2>4. \A y \in D : a[y] \in Int /\ b[y] \in Int /\ c[y] = a[y] + b[y]
    <3> SUFFICES ASSUME NEW y \in D PROVE a[y] \in Int /\ b[y] \in Int /\ c[y] = a[y] + b[y]
        OBVIOUS
    <3>1. entries[y].btp \in Nat /\ entries[y].silver \in Nat /\ entries[y].s999 \in Nat
        BY <1>3, EntryFields
    <3>2. Recovered(entries[y]) = entries[y].btp + entries[y].silver + entries[y].s999
        BY DEF Recovered
    <3> QED
        BY <1>2, <2>1, <3>1, <3>2
  <2>5. SumOf(c) = SumOf(a) + SumOf(b)
      BY <1>3, <2>3, <2>4, SumRowsBoth
  <2>6. c = [j \in DOMAIN [i \in DOMAIN entries |-> Recovered(entries[i])] |->
            IF entries[j].phase = "confirmed" THEN [i \in DOMAIN entries |-> Recovered(entries[i])][j] ELSE 0]
      BY <2>1
  <2>7. SumWhere([i \in DOMAIN entries |-> Recovered(entries[i])],
                 LAMBDA i : entries[i].phase = "confirmed") = SumOf(c)
      BY <2>6 DEF SumWhere
  <2> QED
      BY <2>2, <2>5, <2>7
<1> QED
    BY <1>11, <1>12, <1>13, <1>14 DEF ReportAgrees

(* The weekly report adds up to the same whether by worker or by stage, to   *)
(* the losses the closed stages show, and what it counts as recovered is in  *)
(* the store.                                                               *)
THEOREM ReportIsTrue ==
    WeightsSpec => []ReportAgrees
BY TicketStays, ReportIsRight, PTL

(* What the report reads of a stage.                                       *)
SameFigures(d, e) ==
    /\ e.stage = d.stage /\ e.phase = d.phase /\ e.handed = d.handed /\ e.metal = d.metal
    /\ e.returned = d.returned /\ e.setGrams = d.setGrams
    /\ e.btp = d.btp /\ e.silver = d.silver /\ e.s999 = d.s999

LEMMA OtherRows ==
    ASSUME WeightsTypeOK, entries # <<>>, NEW e, Update(e), NEW i \in DOMAIN entries
    PROVE  /\ i # Len(entries) => entries'[i] = entries[i]
           /\ i = Len(entries) => entries'[i] = e /\ entries[i] = Last
BY DEF WeightsTypeOK, Update, Last

(* Once the keeper has closed a stage, nothing rewrites its figures: the     *)
(* later steps are about the stage after it, or ask for an open one.         *)
LEMMA ClosedStays ==
    ASSUME WeightsTypeOK, [WeightsNext]_weights, NEW i \in DOMAIN entries,
           entries[i].phase = "confirmed", entries[i].stage \in KEEPER_CONFIRM_STAGES
    PROVE  SameFigures(entries[i], entries'[i])
<1>1. /\ entries \in Seq(EntryValues) /\ i \in 1..Len(entries) /\ Len(entries) \in Nat /\ entries # <<>>
      /\ entries[i] \in EntryValues
    BY RowsOf DEF WeightsTypeOK
<1>2. i = Len(entries) => Last.phase = "confirmed" /\ Last.stage \in KEEPER_CONFIRM_STAGES
    BY DEF Last
<1>3. i = Len(entries) => ~Open /\ IsReturned(Last) /\ Last.phase \notin {"working", "submitted", "returned"}
    BY <1>2 DEF Open, IsReturned
<1>4. entries'[i] = entries[i] => SameFigures(entries[i], entries'[i])
    BY Zenon DEF SameFigures
<1>5. ASSUME NEW e, Update(e), i # Len(entries) PROVE SameFigures(entries[i], entries'[i])
    BY <1>1, <1>4, <1>5, OtherRows
<1>6. ASSUME NEW bs \in {<<>>} \cup {<<b>> : b \in Labels}, HandOver(bs)
      PROVE  SameFigures(entries[i], entries'[i])
  <2>1. PICK e : entries' = Append(entries, e)
      BY <1>6, Zenon DEF HandOver, Begin
  <2>2. entries \in Seq(EntryValues \cup {e}) /\ e \in EntryValues \cup {e}
      BY <1>1
  <2>3. entries'[i] = entries[i]
      BY <2>1, <2>2, RowAdded
  <2> QED
      BY <1>4, <2>3
<1>7. CASE DropRequest
  <2>1. PICK e : e = [Last EXCEPT !.asked = FALSE]
      OBVIOUS
  <2>2. Update(e)
      BY <1>7, <2>1, Zenon DEF DropRequest
  <2>3. CASE i = Len(entries)
    <3>1. entries'[i] = e /\ entries[i] = Last
        BY <1>1, <2>2, <2>3, OtherRows
    <3>2. SameFigures(Last, e)
        BY <1>1, <2>1, <3>1 DEF SameFigures, EntryValues
    <3> QED
        BY <3>1, <3>2
  <2> QED
      BY <1>5, <2>2, <2>3
<1>8. CASE CreateRequest \/ (\E w \in 1..MaxMetal : IssueMetal(w)) \/ (\E b \in Labels : IssueStones(b))
            \/ Submit \/ Unsubmit
  <2>1. Open /\ \E e : Update(e)
      BY <1>8, Zenon DEF CreateRequest, IssueMetal, IssueStones, Submit, Unsubmit
  <2> QED
      BY <1>3, <1>5, <2>1
<1>9. CASE ConfirmStage
  <2>1. Last.phase = "returned" /\ \E e : Update(e)
      BY <1>9, Zenon DEF ConfirmStage
  <2> QED
      BY <1>3, <1>5, <2>1
<1>10. CASE UndoReturn
  <2>1. Last.stage \notin KEEPER_CONFIRM_STAGES /\ \E e : Update(e)
      BY <1>10, Zenon DEF UndoReturn
  <2> QED
      BY <1>2, <1>5, <2>1
<1>11. ASSUME NEW revise \in BOOLEAN, NEW ask, ReturnStage(revise, ask)
       PROVE  SameFigures(entries[i], entries'[i])
  <2>1. MayReturn(revise) /\ \E e : Update(e)
      BY <1>11, Zenon DEF ReturnStage
  <2>2. Last.phase = "returned" \/ Last.phase = "submitted"
      BY <2>1, Zenon DEF MayReturn
  <2> QED
      BY <1>3, <1>5, <2>1, <2>2
<1>12. CASE (\E grams \in 1..MaxEarly : ReturnStoneEarly(grams))
            \/ (\E w \in 1..MaxScrap : CreateScrapReturn(w)) \/ RemoveScrapReturn \/ UNCHANGED weights
  <2>1. entries' = entries
      BY <1>12, Zenon DEF ReturnStoneEarly, CreateScrapReturn, RemoveScrapReturn, weights
  <2> QED
      BY <1>4, <2>1
<1> QED
    BY <1>6, <1>7, <1>8, <1>9, <1>10, <1>11, <1>12, Zenon DEF WeightsNext

LEMMA SameReport ==
    ASSUME WeightsTypeOK, NEW i \in DOMAIN entries, SameFigures(entries[i], entries'[i]), Reported(i)
    PROVE  Reported(i)' /\ LossItem(i)' = LossItem(i)
<1>1. PICK d, e : d = entries[i] /\ e = entries'[i]
    OBVIOUS
<1>2. /\ e.stage = d.stage /\ e.phase = d.phase /\ e.handed = d.handed /\ e.metal = d.metal
      /\ e.returned = d.returned /\ e.setGrams = d.setGrams
      /\ e.btp = d.btp /\ e.silver = d.silver /\ e.s999 = d.s999
    BY <1>1, Zenon DEF SameFigures
<1>3. SilverIn(e) = SilverIn(d)
    BY <1>2, Zenon DEF SilverIn
<1>4. d.phase = "confirmed" /\ d.returned # None /\ SilverIn(d) # None
    BY <1>1 DEF Reported
<1>5. Reported(i)'
  <2>1. e.phase = "confirmed" /\ e.returned # None /\ SilverIn(e) # None
      BY <1>2, <1>3, <1>4
  <2>2. Reported(i)' <=> e.phase = "confirmed" /\ e.returned # None /\ SilverIn(e) # None
      BY <1>1, Zenon DEF Reported, SilverIn
  <2> QED
      BY <2>1, <2>2
<1>6. LossItem(i) = [stage |-> d.stage, in |-> SilverIn(d), product |-> d.returned - Or0(d.setGrams),
                     btp |-> d.btp, nvl |-> d.silver + d.s999]
    BY <1>1, Zenon DEF LossItem
<1>7. LossItem(i)' = [stage |-> e.stage, in |-> SilverIn(e), product |-> e.returned - Or0(e.setGrams),
                      btp |-> e.btp, nvl |-> e.silver + e.s999]
    BY <1>1, Zenon DEF LossItem, SilverIn
<1> QED
    BY <1>2, <1>3, <1>5, <1>6, <1>7

(* The report of filing and stone setting a week has shown never changes.    *)
THEOREM ReportIsFinal ==
    WeightsSpec => ReportedStays
<1>1. TicketInv /\ [WeightsNext]_weights =>
        [\A i \in DOMAIN entries :
            Reported(i) /\ entries[i].stage \in KEEPER_CONFIRM_STAGES =>
                Reported(i)' /\ LossItem(i)' = LossItem(i)]_weights
  <2> SUFFICES ASSUME TicketInv, [WeightsNext]_weights, NEW i \in DOMAIN entries,
                      Reported(i), entries[i].stage \in KEEPER_CONFIRM_STAGES
               PROVE  Reported(i)' /\ LossItem(i)' = LossItem(i)
      OBVIOUS
  <2>1. WeightsTypeOK /\ entries[i].phase = "confirmed"
      BY DEF TicketInv, Reported
  <2>2. SameFigures(entries[i], entries'[i])
      BY <2>1, ClosedStays
  <2> QED
      BY <2>1, <2>2, SameReport
<1> QED
    BY <1>1, TicketStays, PTL DEF WeightsSpec, ReportedStays

(* A step that strikes off a bag given back early leaves little in it.       *)
LEMMA BagsEmptied ==
    ASSUME TicketInv, [WeightsNext]_weights, NEW i \in DOMAIN bags, IsHeld(bags[i]),
           bags'[i].state = "RELEASED", bags'[i].earlyW > bags[i].earlyW
    PROVE  2 * bags[i].qty * bags'[i].weight <= bags[i].weight
<1>1. WeightsTypeOK /\ BagsSound /\ EntriesSound
    BY DEF TicketInv
<1>2. /\ bags \in Seq(BagValues) /\ (\A k \in DOMAIN bags : Sound(bags[k])) /\ ByThePiece \in BOOLEAN
      /\ i \in 1..Len(bags) /\ Len(bags) \in Nat /\ bags[i].earlyW \in Nat
  <2>1. bags \in Seq(BagValues) /\ ByThePiece \in BOOLEAN /\ (\A k \in DOMAIN bags : Sound(bags[k]))
      BY <1>1, OrderFields DEF WeightsTypeOK, BagsSound, ByThePiece
  <2>2. bags[i] \in BagValues /\ i \in 1..Len(bags) /\ Len(bags) \in Nat
      BY <2>1, RowsOf
  <2> QED
      BY <2>1, <2>2, BagFields
<1>3. bags'[i].earlyW # bags[i].earlyW /\ bags'[i] # bags[i]
    BY <1>2
<1>4. ASSUME NEW grams \in 1..MaxEarly, ReturnStoneEarly(grams)
      PROVE  2 * bags[i].qty * bags'[i].weight <= bags[i].weight
  <2>1. PICK split : split = FromTheLast(Weighed, grams)
      OBVIOUS
  <2>2. bags' = [k \in DOMAIN bags |-> IF split[k] > 0 THEN ShrinkHold(bags[k], split[k]) ELSE bags[k]]
      BY <1>4, <2>1, Zenon DEF ReturnStoneEarly
  <2>3. split[i] > 0 /\ bags'[i] = ShrinkHold(bags[i], split[i])
      BY <1>3, <2>2
  <2>4. split[i] \in 0..Weighed[i] /\ Weighed[i] = bags[i].weight /\ bags[i].weight \in Nat
    <3>1. PICK xs : xs = Weighed
        OBVIOUS
    <3>2. PICK n \in Nat : n = Len(bags)
        BY <1>2
    <3>3. DOMAIN xs = DOMAIN bags /\ \A k \in DOMAIN xs : xs[k] \in Nat
        BY <1>2, <3>1, BagSums
    <3>4. DOMAIN xs \subseteq 1..n /\ grams \in Nat /\ split = FromTheLast(xs, grams)
        BY <1>2, <2>1, <3>1, <3>2, <3>3, QtyAssumption
    <3>5. split[i] \in 0..xs[i]
        BY <3>2, <3>3, <3>4, FromTheLastGives
    <3>6. xs[i] = bags[i].weight
        BY <3>1 DEF Weighed
    <3> QED
        BY <3>1, <3>3, <3>5, <3>6
  <2>5. PICK b, g, c : b = bags[i] /\ g = split[i] /\ c = bags'[i]
      OBVIOUS
  <2>6. Sound(b) /\ b.state = "HELD" /\ g \in Nat /\ g > 0 /\ g <= b.weight /\ c = ShrinkHold(b, g)
      BY <1>2, <2>3, <2>4, <2>5 DEF IsHeld
  <2>7. c.state = "RELEASED" => 2 * b.qty * c.weight <= b.weight
      BY <1>2, <2>6, BagShrinks
  <2> QED
      BY <2>5, <2>7
<1>5. ASSUME NEW bs \in {<<>>} \cup {<<b>> : b \in Labels}, HandOver(bs) PROVE FALSE
  <2>1. bags' = bags \o bs
      BY <1>5, Zenon DEF HandOver
  <2>2. CASE bs = <<>>
      BY <1>2, <1>3, <2>1, <2>2
  <2>3. CASE bs # <<>>
    <3>1. PICK b \in Labels : bs = <<b>>
        BY <2>3
    <3>2. b \in BagValues
        BY <1>2, LabelFields DEF Sound
    <3> QED
        BY <1>2, <1>3, <2>1, <3>1, <3>2
  <2> QED
      BY <2>2, <2>3
<1>6. ASSUME NEW b \in Labels, IssueStones(b) PROVE FALSE
  <2>1. bags' = Append(bags, b)
      BY <1>6, Zenon DEF IssueStones
  <2>2. b \in BagValues
      BY <1>2, LabelFields DEF Sound
  <2> QED
      BY <1>2, <1>3, <2>1, <2>2
<1>7. ASSUME NEW revise \in BOOLEAN,
             NEW ask \in (IF Last.stage = "STONE_SETTING" THEN StoneAsks ELSE NoStones),
             ReturnStage(revise, ask)
      PROVE  FALSE
  <2>1. /\ StoneAskOK(ask)
        /\ bags' = IF Last.stage = "STONE_SETTING" THEN PlanStoneReturn(ask) ELSE bags
      BY <1>7, Zenon DEF ReturnStage
  <2>2. Last.stage = "STONE_SETTING" /\ bags' = PlanStoneReturn(ask)
      BY <1>3, <2>1
  <2>3. ask \in AskValues
      BY <1>2, <2>2, AsksTyped
  <2>4. bags'[i].earlyW = bags[i].earlyW
      BY <1>2, <2>1, <2>2, <2>3, PlanFields
  <2> QED
      BY <1>3, <2>4
<1>8. CASE ConfirmStage
  <2>1. /\ entries # <<>>
        /\ bags' = IF Last.stage = "STONE_SETTING" THEN ConsumeStoneHolds(Last) ELSE bags
      BY <1>8, Zenon DEF ConfirmStage
  <2>2. bags' = ConsumeStoneHolds(Last)
      BY <1>3, <2>1
  <2>3. Last \in EntryValues
      BY <1>1, <2>1, LastFields
  <2>4. bags'[i].earlyW = bags[i].earlyW
      BY <1>2, <2>2, <2>3, ConsumedFields
  <2> QED
      BY <1>3, <2>4
<1>9. CASE CreateRequest \/ DropRequest \/ (\E w \in 1..MaxMetal : IssueMetal(w)) \/ Submit \/ Unsubmit
            \/ UndoReturn \/ (\E w \in 1..MaxScrap : CreateScrapReturn(w)) \/ RemoveScrapReturn \/ UNCHANGED weights
  <2>1. bags' = bags
      BY <1>9, Zenon DEF CreateRequest, DropRequest, IssueMetal, Submit, Unsubmit, UndoReturn,
            CreateScrapReturn, RemoveScrapReturn, weights
  <2> QED
      BY <1>3, <2>1
<1> QED
    BY <1>4, <1>5, <1>6, <1>7, <1>8, <1>9, Zenon DEF WeightsNext

(* A bag is struck off only when less than half a stone's weight is left.    *)
THEOREM EmptiedBagsAreEmpty ==
    WeightsSpec => EmptiedBagWeighsLittle
<1>1. TicketInv /\ [WeightsNext]_weights =>
        [\A i \in DOMAIN bags :
            IsHeld(bags[i]) /\ bags'[i].state = "RELEASED" /\ bags'[i].earlyW > bags[i].earlyW =>
                2 * bags[i].qty * bags'[i].weight <= bags[i].weight]_weights
    BY BagsEmptied
<1> QED
    BY <1>1, TicketStays, PTL DEF WeightsSpec, EmptiedBagWeighsLittle

-----------------------------------------------------------------------------
(* Layers of price, of any store.                                          *)
Piled(L) ==
    /\ IsFiniteSet(DOMAIN L) /\ DOMAIN L \subseteq Nat
    /\ \A i \in DOMAIN L : /\ L[i] = Layer(L[i].day, L[i].unitPrice, L[i].remaining)
                           /\ L[i].day \in Int /\ L[i].unitPrice \in Nat /\ L[i].remaining \in Nat
Height(L) == SumOf([i \in DOMAIN L |-> L[i].remaining])
Below(L, i) == SumOf([k \in Older(L, i) |-> L[k].remaining])
Worth(L, qty) == SumOf([i \in DOMAIN L |-> Takes(L, qty)[i] * L[i].unitPrice])

(* The layers lie in a row, one on the other.                               *)
LEMMA LayersInRow ==
    ASSUME NEW L, Piled(L)
    PROVE  /\ \A i \in DOMAIN L : Older(L, i) \subseteq DOMAIN L /\ i \notin Older(L, i)
           /\ \A i, k \in DOMAIN L : k \in Older(L, i) => Older(L, k) \subseteq Older(L, i) /\ i \notin Older(L, k)
           /\ \A i, k \in DOMAIN L : k = i \/ k \in Older(L, i) \/ i \in Older(L, k)
BY DEF Piled, Older

(* Of several layers one lies on top.                                       *)
LEMMA TopLayer ==
    ASSUME NEW L, Piled(L), NEW S \in SUBSET (DOMAIN L), S # {}
    PROVE  \E m \in S : S \ {m} \subseteq Older(L, m)
<1>1. IsFiniteSet(S)
    BY FS_Subset DEF Piled
<1> DEFINE B == {T \in SUBSET S : T = {} \/ \E m \in T : T \ {m} \subseteq Older(L, m)}
<1>2. ASSUME NEW T \in SUBSET S, \A x \in T : T \ {x} \in B
      PROVE  T \in B
  <2>1. CASE T = {}
      BY <2>1
  <2>2. CASE T # {}
    <3>1. PICK x \in T : T \ {x} \in B
        BY <1>2, <2>2
    <3>2. CASE T \ {x} = {}
        BY <3>1, <3>2
    <3>3. CASE T \ {x} # {}
      <4>1. PICK m \in T \ {x} : (T \ {x}) \ {m} \subseteq Older(L, m)
          BY <3>1, <3>3
      <4>2. CASE x \in Older(L, m)
          BY <4>1, <4>2
      <4>3. CASE x \notin Older(L, m)
        <5>1. m \in DOMAIN L /\ x \in DOMAIN L /\ m # x
            OBVIOUS
        <5>2. m \in Older(L, x)
            BY <4>3, <5>1, LayersInRow
        <5>3. Older(L, m) \subseteq Older(L, x)
            BY <5>1, <5>2, LayersInRow
        <5>4. T \ {x} \subseteq Older(L, x)
            BY <4>1, <5>2, <5>3
        <5> QED
            BY <3>1, <5>4
      <4> QED
          BY <4>2, <4>3
    <3> QED
        BY <3>2, <3>3
  <2> QED
      BY <2>1, <2>2
<1> HIDE DEF B
<1>3. S \in B
    BY <1>1, <1>2, OneByOne
<1> QED
    BY <1>3 DEF B

(* What is taken off the layers below any one is what they hold, or all.    *)
LEMMA TakesGive ==
    ASSUME NEW L, Piled(L), NEW qty \in Nat, NEW take, take = Takes(L, qty),
           NEW rem, rem = [i \in DOMAIN L |-> L[i].remaining]
    PROVE  /\ DOMAIN take = DOMAIN L
           /\ \A i \in DOMAIN L : take[i] \in 0..L[i].remaining
           /\ \A i \in DOMAIN L : Below(L, i) \in Nat /\ Below(L, i) = SumFunctionOnSet(rem, Older(L, i))
           /\ \A i \in DOMAIN L : take[i] = Lesser(L[i].remaining, NonNegative(qty - Below(L, i)))
           /\ \A S \in SUBSET (DOMAIN L) : (\A i \in S : Older(L, i) \subseteq S) =>
                  SumFunctionOnSet(take, S) = Lesser(SumFunctionOnSet(rem, S), qty)
<1>1. ASSUME NEW i \in DOMAIN L
      PROVE  Below(L, i) \in Nat /\ Below(L, i) = SumFunctionOnSet(rem, Older(L, i))
  <2>1. PICK S \in SUBSET (DOMAIN L) : S = Older(L, i)
      BY LayersInRow
  <2>2. IsFiniteSet(S)
      BY FS_Subset DEF Piled
  <2>3. PICK f : f = [k \in S |-> L[k].remaining]
      OBVIOUS
  <2>4. Below(L, i) = SumFunctionOnSet(f, S)
      BY <2>1, <2>3 DEF Below, SumOf
  <2>5. \A k \in S : f[k] \in Nat /\ rem[k] = f[k]
      BY <2>3 DEF Piled
  <2>6. SumFunctionOnSet(f, S) \in Nat
      BY <2>2, <2>5, SumIsNat
  <2>7. SumFunctionOnSet(rem, S) = SumFunctionOnSet(f, S)
      BY <2>2, <2>5, SumSame
  <2> QED
      BY <2>1, <2>4, <2>6, <2>7
<1>2. DOMAIN take = DOMAIN L
    BY DEF Takes
<1>3. \A i \in DOMAIN L : take[i] = Lesser(L[i].remaining, NonNegative(qty - Below(L, i)))
    BY DEF Takes, Below
<1>4. \A i \in DOMAIN L : take[i] \in 0..L[i].remaining /\ rem[i] \in Nat /\ take[i] \in Int /\ rem[i] \in Int
  <2> SUFFICES ASSUME NEW i \in DOMAIN L PROVE take[i] \in 0..L[i].remaining /\ rem[i] \in Nat
      OBVIOUS
  <2>1. PICK a \in Nat : a = L[i].remaining
      BY DEF Piled
  <2>2. PICK b \in Nat : b = Below(L, i)
      BY <1>1
  <2>3. take[i] = Lesser(a, NonNegative(qty - b))
      BY <1>3, <2>1, <2>2
  <2>4. Lesser(a, NonNegative(qty - b)) \in 0..a
      BY DEF Lesser, NonNegative
  <2> QED
      BY <2>1, <2>3, <2>4
<1>5. ASSUME NEW U \in SUBSET (DOMAIN L), \A i \in U : Older(L, i) \subseteq U
      PROVE  SumFunctionOnSet(take, U) = Lesser(SumFunctionOnSet(rem, U), qty)
  <2> DEFINE B == {S \in SUBSET U : (\A i \in S : Older(L, i) \subseteq S) =>
                      SumFunctionOnSet(take, S) = Lesser(SumFunctionOnSet(rem, S), qty)}
  <2>1. ASSUME NEW S \in SUBSET U, \A x \in S : S \ {x} \in B
        PROVE  S \in B
    <3>1. IsFiniteSet(S) /\ IsFiniteSet(U)
        BY FS_Subset DEF Piled
    <3>2. CASE S = {}
      <4>1. SumFunctionOnSet(take, {}) = 0 /\ SumFunctionOnSet(rem, {}) = 0
          BY SumOfNone
      <4> QED
          BY <3>2, <4>1 DEF Lesser
    <3>3. CASE S # {}
      <4> SUFFICES ASSUME \A i \in S : Older(L, i) \subseteq S
                   PROVE  SumFunctionOnSet(take, S) = Lesser(SumFunctionOnSet(rem, S), qty)
          OBVIOUS
      <4>1. PICK m \in S : S \ {m} \subseteq Older(L, m)
          BY <3>3, TopLayer
      <4>2. Older(L, m) = S \ {m}
          BY <4>1, LayersInRow
      <4>3. \A i \in S \ {m} : Older(L, i) \subseteq S \ {m}
          BY <4>2, LayersInRow
      <4>4. SumFunctionOnSet(take, S \ {m}) = Lesser(SumFunctionOnSet(rem, S \ {m}), qty)
          BY <2>1, <4>3
      <4>5. \A i \in S : rem[i] \in Int /\ take[i] \in Int
          BY <1>4
      <4>6. SumFunctionOnSet(take, S) = take[m] + SumFunctionOnSet(take, S \ {m})
          BY <3>1, <4>5, SumTakeOut
      <4>7. SumFunctionOnSet(rem, S) = rem[m] + SumFunctionOnSet(rem, S \ {m})
          BY <3>1, <4>5, SumTakeOut
      <4>8. PICK b \in Nat : b = SumFunctionOnSet(rem, S \ {m}) /\ b = Below(L, m)
          BY <1>1, <4>2
      <4>9. PICK a \in Nat : a = rem[m] /\ a = L[m].remaining
          BY <1>4
      <4>10. take[m] = Lesser(a, NonNegative(qty - b))
          BY <1>3, <4>8, <4>9
      <4>11. Lesser(a, NonNegative(qty - b)) + Lesser(b, qty) = Lesser(a + b, qty)
          BY DEF Lesser, NonNegative
      <4> QED
          BY <4>4, <4>6, <4>7, <4>8, <4>9, <4>10, <4>11
    <3> QED
        BY <3>2, <3>3
  <2> HIDE DEF B
  <2>2. IsFiniteSet(U)
      BY FS_Subset DEF Piled
  <2>3. U \in B
      BY <2>1, <2>2, OneByOne
  <2> QED
      BY <1>5, <2>3 DEF B
<1> QED
    BY <1>1, <1>2, <1>3, <1>4, <1>5

LEMMA HeightNat ==
    ASSUME NEW L, Piled(L)
    PROVE  Height(L) \in Nat
<1>1. PICK rem : rem = [i \in DOMAIN L |-> L[i].remaining]
    OBVIOUS
<1>2. DOMAIN rem = DOMAIN L /\ IsFiniteSet(DOMAIN rem) /\ \A i \in DOMAIN rem : rem[i] \in Nat
    BY <1>1 DEF Piled
<1>3. SumOf(rem) \in Nat
    BY <1>2, SumRows
<1> QED
    BY <1>1, <1>3 DEF Height

(* Taking some off and then more is taking both at once.                    *)
InTurn(L, M, used, qty) ==
    /\ Piled(M) /\ DOMAIN M = DOMAIN L
    /\ Height(M) = NonNegative(Height(L) - used)
    /\ \A i \in DOMAIN L : /\ M[i].unitPrice = L[i].unitPrice
                           /\ M[i].remaining = L[i].remaining - Takes(L, used)[i]
                           /\ Takes(M, qty)[i] = Takes(L, used + qty)[i] - Takes(L, used)[i]
LEMMA TakesInTurn ==
    ASSUME NEW L, Piled(L), NEW used \in Nat, NEW qty \in Nat,
           NEW M, M = ConsumeLayers(L, used)
    PROVE  InTurn(L, M, used, qty)
<1>1. PICK take : take = Takes(L, used)
    OBVIOUS
<1>2. PICK rem : rem = [i \in DOMAIN L |-> L[i].remaining]
    OBVIOUS
<1>3. \A i \in DOMAIN L : take[i] \in 0..L[i].remaining
    BY <1>1, <1>2, TakesGive
<1>4. /\ DOMAIN M = DOMAIN L
      /\ \A i \in DOMAIN L : M[i] = Layer(L[i].day, L[i].unitPrice, L[i].remaining - take[i])
  <2>1. DOMAIN M = DOMAIN L /\ \A i \in DOMAIN L : M[i] = [L[i] EXCEPT !.remaining = @ - take[i]]
      BY <1>1 DEF ConsumeLayers
  <2>2. \A i \in DOMAIN L : L[i] = Layer(L[i].day, L[i].unitPrice, L[i].remaining)
      BY DEF Piled
  <2>3. ASSUME NEW d, NEW p, NEW r, NEW t
        PROVE  [Layer(d, p, r) EXCEPT !.remaining = @ - t] = Layer(d, p, r - t)
      BY DEF Layer
  <2> QED
      BY <2>1, <2>2, <2>3
<1>5. \A i \in DOMAIN L : /\ M[i].day = L[i].day /\ M[i].unitPrice = L[i].unitPrice
                          /\ M[i].remaining = L[i].remaining - take[i] /\ M[i].remaining \in Nat
  <2>1. \A i \in DOMAIN L : /\ M[i].day = L[i].day /\ M[i].unitPrice = L[i].unitPrice
                            /\ M[i].remaining = L[i].remaining - take[i]
      BY <1>4 DEF Layer
  <2>2. \A i \in DOMAIN L : L[i].remaining \in Nat
      BY DEF Piled
  <2> QED
      BY <1>3, <2>1, <2>2
<1>6. Piled(M)
    BY <1>4, <1>5 DEF Piled
<1>7. ASSUME NEW i \in DOMAIN L PROVE Older(M, i) = Older(L, i)
    BY <1>4, <1>5 DEF Older
<1>8. PICK left : left = [i \in DOMAIN M |-> M[i].remaining]
    OBVIOUS
<1>9. ASSUME NEW S \in SUBSET (DOMAIN L), \A i \in S : Older(L, i) \subseteq S
      PROVE  SumFunctionOnSet(left, S) = NonNegative(SumFunctionOnSet(rem, S) - used)
  <2>1. IsFiniteSet(S)
      BY FS_Subset DEF Piled
  <2>2. SumFunctionOnSet(take, S) = Lesser(SumFunctionOnSet(rem, S), used)
      BY <1>1, <1>2, <1>9, TakesGive
  <2>3. \A i \in S : left[i] \in Int /\ take[i] \in Int /\ rem[i] = left[i] + take[i] /\ rem[i] \in Nat
      BY <1>2, <1>3, <1>4, <1>5, <1>8 DEF Piled
  <2>4. SumFunctionOnSet(rem, S) = SumFunctionOnSet(left, S) + SumFunctionOnSet(take, S)
      BY <2>1, <2>3, SumOfBoth
  <2>5. SumFunctionOnSet(rem, S) \in Nat
      BY <2>1, <2>3, SumIsNat
  <2>6. SumFunctionOnSet(left, S) \in Int
      BY <2>1, <2>3, SumIsInt
  <2> QED
      BY <2>2, <2>4, <2>5, <2>6 DEF Lesser, NonNegative
<1>10. Height(M) = NonNegative(Height(L) - used)
  <2>1. SumFunctionOnSet(left, DOMAIN L) = NonNegative(SumFunctionOnSet(rem, DOMAIN L) - used)
      BY <1>9, LayersInRow
  <2>2. Height(M) = SumFunctionOnSet(left, DOMAIN L) /\ Height(L) = SumFunctionOnSet(rem, DOMAIN L)
      BY <1>2, <1>4, <1>8 DEF Height, SumOf
  <2> QED
      BY <2>1, <2>2
<1>11. ASSUME NEW i \in DOMAIN L
       PROVE  Takes(M, qty)[i] = Takes(L, used + qty)[i] - Takes(L, used)[i]
  <2>1. PICK a \in Nat : a = L[i].remaining
      BY DEF Piled
  <2>2. PICK b \in Nat : b = Below(L, i) /\ b = SumFunctionOnSet(rem, Older(L, i))
      BY <1>1, <1>2, TakesGive
  <2>3. Takes(L, used)[i] = Lesser(a, NonNegative(used - b))
      BY <1>2, <2>1, <2>2, TakesGive
  <2>4. Takes(L, used + qty)[i] = Lesser(a, NonNegative(used + qty - b))
    <3>1. PICK all \in Nat : all = used + qty
        OBVIOUS
    <3>2. Takes(L, all)[i] = Lesser(a, NonNegative(all - b))
        BY <1>2, <2>1, <2>2, TakesGive
    <3> QED
        BY <3>1, <3>2
  <2>5. Below(M, i) = SumFunctionOnSet(left, Older(M, i)) /\ i \in DOMAIN M
      BY <1>4, <1>6, <1>8, TakesGive
  <2>6. SumFunctionOnSet(left, Older(L, i)) = NonNegative(b - used)
    <3>1. PICK S \in SUBSET (DOMAIN L) : S = Older(L, i)
        BY LayersInRow
    <3>2. \A k \in S : Older(L, k) \subseteq S
        BY <3>1, LayersInRow
    <3> QED
        BY <1>9, <2>2, <3>1, <3>2
  <2>7. Below(M, i) = NonNegative(b - used)
      BY <1>7, <2>5, <2>6
  <2>8. Takes(M, qty)[i] = Lesser(M[i].remaining, NonNegative(qty - Below(M, i)))
      BY <1>6, <1>8, <2>5, TakesGive
  <2>9. M[i].remaining = a - Lesser(a, NonNegative(used - b))
      BY <1>1, <1>5, <2>1, <2>3
  <2>10. Lesser(a - Lesser(a, NonNegative(used - b)), NonNegative(qty - NonNegative(b - used))) =
             Lesser(a, NonNegative(used + qty - b)) - Lesser(a, NonNegative(used - b))
      BY DEF Lesser, NonNegative
  <2> QED
      BY <2>3, <2>4, <2>7, <2>8, <2>9, <2>10
<1> QED
    BY <1>1, <1>4, <1>5, <1>6, <1>10, <1>11 DEF InTurn

(* What is taken off costs what the layers lose of their value.             *)
LEMMA WorthInTurn ==
    ASSUME NEW L, Piled(L), NEW used \in Nat, NEW qty \in Nat,
           NEW M, M = ConsumeLayers(L, used)
    PROVE  /\ Worth(L, used) \in Nat
           /\ Worth(M, qty) = Worth(L, used + qty) - Worth(L, used)
           /\ LayersValue(M) = LayersValue(L) - Worth(L, used)
<1>1. PICK t : t = Takes(L, used)
    OBVIOUS
<1>2. PICK all \in Nat : all = used + qty
    OBVIOUS
<1>3. PICK u : u = Takes(L, all)
    OBVIOUS
<1>4. PICK v : v = Takes(M, qty)
    OBVIOUS
<1>5. /\ Piled(M) /\ DOMAIN M = DOMAIN L /\ IsFiniteSet(DOMAIN L)
      /\ \A i \in DOMAIN L : /\ M[i].unitPrice = L[i].unitPrice
                             /\ M[i].remaining = L[i].remaining - t[i] /\ v[i] = u[i] - t[i]
  <2>1. InTurn(L, M, used, qty)
      BY TakesInTurn
  <2>2. IsFiniteSet(DOMAIN L)
      BY DEF Piled
  <2> QED
      BY <1>1, <1>2, <1>3, <1>4, <2>1, <2>2 DEF InTurn
<1>6. PICK f : f = [i \in DOMAIN L |-> t[i] * L[i].unitPrice]
    OBVIOUS
<1>7. PICK g : g = [i \in DOMAIN L |-> u[i] * L[i].unitPrice]
    OBVIOUS
<1>8. PICK h : h = [i \in DOMAIN M |-> v[i] * M[i].unitPrice]
    OBVIOUS
<1>9. PICK a : a = [i \in DOMAIN L |-> L[i].remaining * L[i].unitPrice]
    OBVIOUS
<1>10. PICK b : b = [i \in DOMAIN M |-> M[i].remaining * M[i].unitPrice]
    OBVIOUS
<1>11. \A i \in DOMAIN L : t[i] \in Nat /\ u[i] \in Nat /\ v[i] \in Nat
  <2>1. PICK rem : rem = [i \in DOMAIN L |-> L[i].remaining]
      OBVIOUS
  <2>2. PICK left : left = [i \in DOMAIN M |-> M[i].remaining]
      OBVIOUS
  <2>3. \A i \in DOMAIN L : t[i] \in 0..L[i].remaining /\ L[i].remaining \in Nat
      BY <1>1, <2>1, TakesGive DEF Piled
  <2>4. \A i \in DOMAIN L : u[i] \in 0..L[i].remaining
      BY <1>2, <1>3, <2>1, TakesGive
  <2>5. \A i \in DOMAIN M : v[i] \in 0..M[i].remaining /\ M[i].remaining \in Nat
      BY <1>4, <1>5, <2>2, TakesGive DEF Piled
  <2> QED
      BY <1>5, <2>3, <2>4, <2>5
<1>12. \A i \in DOMAIN L : /\ f[i] \in Nat /\ g[i] \in Nat /\ h[i] \in Int
                           /\ a[i] \in Int /\ b[i] \in Int
                           /\ g[i] = h[i] + f[i] /\ a[i] = b[i] + f[i]
  <2> SUFFICES ASSUME NEW i \in DOMAIN L
               PROVE  /\ f[i] \in Nat /\ g[i] \in Nat /\ h[i] \in Int
                      /\ a[i] \in Int /\ b[i] \in Int
                      /\ g[i] = h[i] + f[i] /\ a[i] = b[i] + f[i]
      OBVIOUS
  <2>1. M[i].unitPrice = L[i].unitPrice /\ M[i].remaining = L[i].remaining - t[i] /\ v[i] = u[i] - t[i]
      BY <1>5
  <2>2. PICK p \in Nat : p = L[i].unitPrice
      BY DEF Piled
  <2>3. PICK r \in Nat : r = L[i].remaining
      BY DEF Piled
  <2>4. PICK x \in Nat, y \in Nat : x = t[i] /\ y = u[i]
      BY <1>11
  <2>5. f[i] = x * p /\ g[i] = y * p /\ h[i] = (y - x) * p /\ a[i] = r * p /\ b[i] = (r - x) * p
      BY <1>5, <1>6, <1>7, <1>8, <1>9, <1>10, <2>1, <2>2, <2>3, <2>4
  <2>6. /\ x * p \in Nat /\ y * p \in Nat /\ r * p \in Nat
        /\ (y - x) * p \in Int /\ (r - x) * p \in Int
        /\ y * p = (y - x) * p + x * p /\ r * p = (r - x) * p + x * p
      OBVIOUS
  <2> QED
      BY <2>5, <2>6
<1>13. SumFunctionOnSet(g, DOMAIN L) = SumFunctionOnSet(h, DOMAIN L) + SumFunctionOnSet(f, DOMAIN L)
  <2>1. \A i \in DOMAIN L : h[i] \in Int /\ f[i] \in Int /\ g[i] = h[i] + f[i]
      BY <1>12
  <2> QED
      BY <1>5, <2>1, SumOfBoth
<1>14. SumFunctionOnSet(a, DOMAIN L) = SumFunctionOnSet(b, DOMAIN L) + SumFunctionOnSet(f, DOMAIN L)
  <2>1. \A i \in DOMAIN L : b[i] \in Int /\ f[i] \in Int /\ a[i] = b[i] + f[i]
      BY <1>12
  <2> QED
      BY <1>5, <2>1, SumOfBoth
<1>15. SumFunctionOnSet(f, DOMAIN L) \in Nat
    BY <1>5, <1>12, SumIsNat
<1>16. SumFunctionOnSet(h, DOMAIN L) \in Int /\ SumFunctionOnSet(b, DOMAIN L) \in Int
    BY <1>5, <1>12, SumIsInt
<1>17. /\ Worth(L, used) = SumFunctionOnSet(f, DOMAIN L)
       /\ Worth(L, used + qty) = SumFunctionOnSet(g, DOMAIN L)
       /\ Worth(M, qty) = SumFunctionOnSet(h, DOMAIN L)
  <2>1. DOMAIN f = DOMAIN L /\ DOMAIN g = DOMAIN L /\ DOMAIN h = DOMAIN L
      BY <1>5, <1>6, <1>7, <1>8
  <2>2. Worth(L, used) = SumOf(f)
      BY <1>1, <1>6 DEF Worth
  <2>3. Worth(L, used + qty) = SumOf(g)
      BY <1>2, <1>3, <1>7 DEF Worth
  <2>4. Worth(M, qty) = SumOf(h)
      BY <1>4, <1>8 DEF Worth
  <2> QED
      BY <2>1, <2>2, <2>3, <2>4 DEF SumOf
<1>18. LayersValue(L) = SumFunctionOnSet(a, DOMAIN L) /\ LayersValue(M) = SumFunctionOnSet(b, DOMAIN L)
    BY <1>5, <1>9, <1>10 DEF LayersValue, SumOf
<1> QED
    BY <1>13, <1>14, <1>15, <1>16, <1>17, <1>18

LEMMA NothingIsFree ==
    ASSUME NEW L, Piled(L)
    PROVE  Worth(L, 0) = 0
<1>1. PICK t : t = Takes(L, 0)
    OBVIOUS
<1>2. PICK rem : rem = [i \in DOMAIN L |-> L[i].remaining]
    OBVIOUS
<1>3. \A i \in DOMAIN L : t[i] = 0
  <2> SUFFICES ASSUME NEW i \in DOMAIN L PROVE t[i] = 0
      OBVIOUS
  <2>1. PICK n \in Nat : n = 0
      OBVIOUS
  <2>2. t = Takes(L, n)
      BY <1>1, <2>1
  <2>3. Below(L, i) \in Nat /\ t[i] = Lesser(L[i].remaining, NonNegative(n - Below(L, i)))
      BY <1>2, <2>2, TakesGive
  <2>4. L[i].remaining \in Nat
      BY DEF Piled
  <2> QED
      BY <2>1, <2>3, <2>4 DEF Lesser, NonNegative
<1>4. PICK f : f = [i \in DOMAIN L |-> t[i] * L[i].unitPrice]
    OBVIOUS
<1>5. DOMAIN f = DOMAIN L /\ IsFiniteSet(DOMAIN f)
    BY <1>4 DEF Piled
<1>6. \A i \in DOMAIN f : f[i] = 0
    BY <1>3, <1>4 DEF Piled
<1>7. SumOf(f) = 0
    BY <1>5, <1>6, SumRows
<1> QED
    BY <1>1, <1>4, <1>7 DEF Worth

(* A layer on top of all others leaves the worth of what is below it.       *)
LEMMA NewTopLayer ==
    ASSUME NEW L, NEW M, Piled(L), Piled(M), NEW m, m \notin DOMAIN L, DOMAIN M = DOMAIN L \cup {m},
           \A i \in DOMAIN L : M[i] = L[i] /\ i \in Older(M, m),
           NEW qty \in Nat, qty <= Height(L)
    PROVE  Worth(M, qty) = Worth(L, qty)
<1>1. PICK t : t = Takes(L, qty)
    OBVIOUS
<1>2. PICK u : u = Takes(M, qty)
    OBVIOUS
<1>3. PICK rem : rem = [i \in DOMAIN L |-> L[i].remaining]
    OBVIOUS
<1>4. PICK rom : rom = [i \in DOMAIN M |-> M[i].remaining]
    OBVIOUS
<1>5. Older(M, m) = DOMAIN L
    BY LayersInRow
<1>6. ASSUME NEW i \in DOMAIN L PROVE Older(M, i) = Older(L, i)
  <2>1. m \notin Older(M, i) /\ i \in DOMAIN M /\ m \in DOMAIN M
      BY LayersInRow
  <2> QED
      BY <2>1 DEF Older
<1>7. ASSUME NEW S \in SUBSET (DOMAIN L)
      PROVE  SumFunctionOnSet(rom, S) = SumFunctionOnSet(rem, S)
  <2>1. IsFiniteSet(S)
      BY FS_Subset DEF Piled
  <2>2. \A i \in S : rom[i] = rem[i]
      BY <1>3, <1>4
  <2> QED
      BY <2>1, <2>2, SumSame
<1>8. ASSUME NEW i \in DOMAIN L PROVE u[i] = t[i]
  <2>1. Older(L, i) \in SUBSET (DOMAIN L) /\ i \in DOMAIN M
      BY LayersInRow
  <2>2. Below(M, i) = SumFunctionOnSet(rom, Older(M, i)) /\ u[i] = Lesser(M[i].remaining, NonNegative(qty - Below(M, i)))
      BY <1>2, <1>4, <2>1, TakesGive
  <2>3. Below(L, i) = SumFunctionOnSet(rem, Older(L, i)) /\ t[i] = Lesser(L[i].remaining, NonNegative(qty - Below(L, i)))
      BY <1>1, <1>3, TakesGive
  <2>4. Below(M, i) = Below(L, i)
      BY <1>6, <1>7, <2>1, <2>2, <2>3
  <2> QED
      BY <2>2, <2>3, <2>4
<1>9. u[m] = 0
  <2>1. m \in DOMAIN M
      OBVIOUS
  <2>2. Below(M, m) = SumFunctionOnSet(rom, Older(M, m)) /\ u[m] = Lesser(M[m].remaining, NonNegative(qty - Below(M, m)))
      BY <1>2, <1>4, <2>1, TakesGive
  <2>3. SumFunctionOnSet(rom, DOMAIN L) = SumFunctionOnSet(rem, DOMAIN L)
      BY <1>7
  <2>4. Height(L) = SumFunctionOnSet(rem, DOMAIN L)
      BY <1>3 DEF Height, SumOf
  <2>5. Below(M, m) = Height(L) /\ Height(L) \in Nat
      BY <1>5, <2>2, <2>3, <2>4, HeightNat
  <2>6. M[m].remaining \in Nat
      BY DEF Piled
  <2> QED
      BY <2>2, <2>5, <2>6 DEF Lesser, NonNegative
<1>10. PICK f : f = [i \in DOMAIN L |-> t[i] * L[i].unitPrice]
    OBVIOUS
<1>11. PICK g : g = [i \in DOMAIN M |-> u[i] * M[i].unitPrice]
    OBVIOUS
<1>12. \A i \in DOMAIN L : f[i] \in Int
  <2> SUFFICES ASSUME NEW i \in DOMAIN L PROVE f[i] \in Int
      OBVIOUS
  <2>1. t[i] \in 0..L[i].remaining /\ L[i].remaining \in Nat
      BY <1>1, <1>3, TakesGive DEF Piled
  <2>2. PICK x \in Nat : x = t[i]
      BY <2>1
  <2>3. PICK p \in Nat : p = L[i].unitPrice
      BY DEF Piled
  <2>4. f[i] = x * p
      BY <1>10, <2>2, <2>3
  <2>5. x * p \in Int
      OBVIOUS
  <2> QED
      BY <2>4, <2>5
<1>13. \A i \in DOMAIN L : g[i] = f[i]
    BY <1>8, <1>10, <1>11
<1>14. g[m] = 0
  <2>1. PICK p \in Nat : p = M[m].unitPrice
      BY DEF Piled
  <2>2. g[m] = 0 * p
      BY <1>9, <1>11, <2>1
  <2> QED
      BY <2>2
<1>15. DOMAIN f = DOMAIN L /\ DOMAIN g = DOMAIN f \cup {m} /\ IsFiniteSet(DOMAIN f)
    BY <1>10, <1>11 DEF Piled
<1>16. SumOf(g) = SumOf(f) + g[m]
  <2>1. \A y \in DOMAIN f : f[y] \in Int /\ g[y] = f[y]
      BY <1>12, <1>13, <1>15
  <2>2. g[m] \in Int
      BY <1>14
  <2> QED
      BY <1>15, <2>1, <2>2, SumRowAdded
<1>17. SumOf(f) \in Int
    BY <1>12, <1>15, SumRows
<1>18. Worth(L, qty) = SumOf(f) /\ Worth(M, qty) = SumOf(g)
    BY <1>1, <1>2, <1>10, <1>11 DEF Worth
<1> QED
    BY <1>14, <1>16, <1>17, <1>18

-----------------------------------------------------------------------------
(* The store's rows and their layers.                                      *)
LayersOf(open, ins) ==
    [i \in {0} \cup Booked(ins) |->
        IF i = 0 THEN Layer(-1, open.price, open.qty)
        ELSE Layer(ins[i].day, ins[i].unitPrice, ins[i].qty)]
Openable == [qty : Nat, price : Nat]
InRows == Seq(InboundValues \cup {Gone})
OutRows == Seq(OutboundValues \cup {Gone})
BookedQty(table) == QtyOf(table, Booked(table))

LEMMA BookedRows ==
    ASSUME NEW V, NEW table \in Seq(V \cup {Gone}), \A v \in V : v.qty \in Nat
    PROVE  /\ Booked(table) \subseteq DOMAIN table /\ Booked(table) \subseteq Nat \ {0}
           /\ IsFiniteSet(DOMAIN table) /\ IsFiniteSet(Booked(table))
           /\ \A i \in Booked(table) : table[i] \in V
           /\ BookedQty(table) \in Nat
<1>1. DOMAIN table = 1..Len(table) /\ Len(table) \in Nat /\ \A i \in DOMAIN table : table[i] \in V \cup {Gone}
    BY RowsOf
<1>2. Booked(table) \subseteq DOMAIN table /\ DOMAIN table \subseteq Nat \ {0}
    BY <1>1 DEF Booked
<1>3. IsFiniteSet(DOMAIN table)
    BY <1>1, FS_Interval
<1>4. IsFiniteSet(Booked(table))
    BY <1>2, <1>3, FS_Subset
<1>5. \A i \in Booked(table) : table[i] \in V
    BY <1>1 DEF Booked, Gone
<1>6. PICK f : f = [i \in Booked(table) |-> table[i].qty]
    OBVIOUS
<1>7. DOMAIN f = Booked(table) /\ \A i \in DOMAIN f : f[i] \in Nat
    BY <1>5, <1>6
<1>8. SumOf(f) \in Nat
    BY <1>4, <1>7, SumRows
<1> QED
    BY <1>2, <1>3, <1>4, <1>5, <1>6, <1>8 DEF BookedQty, QtyOf

LEMMA LayersPiled ==
    ASSUME NEW open \in Openable, NEW ins \in InRows, NEW L, L = LayersOf(open, ins)
    PROVE  /\ Piled(L) /\ DOMAIN L = {0} \cup Booked(ins)
           /\ Height(L) = open.qty + BookedQty(ins)
           /\ LayersValue(L) = open.qty * open.price
                  + SumOf([i \in Booked(ins) |-> ins[i].qty * ins[i].unitPrice])
<1>1. /\ Booked(ins) \subseteq Nat \ {0} /\ IsFiniteSet(Booked(ins))
      /\ \A i \in Booked(ins) : ins[i] \in InboundValues
  <2>1. ins \in Seq(InboundValues \cup {Gone}) /\ \A v \in InboundValues : v.qty \in Nat
      BY DEF InRows, InboundValues
  <2> QED
      BY <2>1, BookedRows
<1>2. PICK S : S = Booked(ins)
    OBVIOUS
<1>3. /\ DOMAIN L = S \cup {0} /\ 0 \notin S
      /\ L[0] = Layer(-1, open.price, open.qty)
      /\ \A i \in S : L[i] = Layer(ins[i].day, ins[i].unitPrice, ins[i].qty)
  <2>1. L = [i \in {0} \cup S |->
                IF i = 0 THEN Layer(-1, open.price, open.qty)
                ELSE Layer(ins[i].day, ins[i].unitPrice, ins[i].qty)]
      BY <1>2 DEF LayersOf
  <2>2. 0 \notin S
      BY <1>1, <1>2
  <2> QED
      BY <2>1, <2>2
<1>4. /\ L[0].day = -1 /\ L[0].unitPrice = open.price /\ L[0].remaining = open.qty
      /\ \A i \in S : L[i].day = ins[i].day /\ L[i].unitPrice = ins[i].unitPrice /\ L[i].remaining = ins[i].qty
    BY <1>3 DEF Layer
<1>5. \A i \in S : ins[i].day \in Int /\ ins[i].unitPrice \in Nat /\ ins[i].qty \in Nat
    BY <1>1, <1>2, DaysAssumption DEF InboundValues, Days
<1>6. open.price \in Nat /\ open.qty \in Nat
    BY DEF Openable
<1>7. IsFiniteSet(S \cup {0})
  <2>1. IsFiniteSet(S)
      BY <1>1, <1>2
  <2> QED
      BY <2>1, FS_AddElement
<1>8. Piled(L)
    BY <1>1, <1>2, <1>3, <1>4, <1>5, <1>6, <1>7 DEF Piled
<1>9. Height(L) = open.qty + BookedQty(ins)
  <2>1. PICK f : f = [i \in S |-> ins[i].qty]
      OBVIOUS
  <2>2. PICK g : g = [i \in DOMAIN L |-> L[i].remaining]
      OBVIOUS
  <2>3. DOMAIN f = S /\ DOMAIN g = DOMAIN f \cup {0} /\ IsFiniteSet(DOMAIN f) /\ 0 \notin DOMAIN f
      BY <1>1, <1>2, <1>3, <2>1, <2>2
  <2>4. \A y \in DOMAIN f : f[y] \in Int /\ g[y] = f[y]
      BY <1>3, <1>4, <1>5, <2>1, <2>2
  <2>5. g[0] = open.qty /\ g[0] \in Int
      BY <1>3, <1>4, <1>6, <2>2
  <2>6. SumOf(g) = SumOf(f) + g[0]
      BY <2>3, <2>4, <2>5, SumRowAdded
  <2>7. SumOf(f) \in Int
      BY <2>3, <2>4, SumRows
  <2>8. Height(L) = SumOf(g) /\ BookedQty(ins) = SumOf(f)
      BY <1>2, <2>1, <2>2 DEF Height, BookedQty, QtyOf
  <2> QED
      BY <2>5, <2>6, <2>7, <2>8
<1>10. LayersValue(L) = open.qty * open.price + SumOf([i \in Booked(ins) |-> ins[i].qty * ins[i].unitPrice])
  <2>1. PICK f : f = [i \in S |-> ins[i].qty * ins[i].unitPrice]
      OBVIOUS
  <2>2. PICK g : g = [i \in DOMAIN L |-> L[i].remaining * L[i].unitPrice]
      OBVIOUS
  <2>3. DOMAIN f = S /\ DOMAIN g = DOMAIN f \cup {0} /\ IsFiniteSet(DOMAIN f) /\ 0 \notin DOMAIN f
      BY <1>1, <1>2, <1>3, <2>1, <2>2
  <2>4. \A y \in DOMAIN f : f[y] \in Int /\ g[y] = f[y]
    <3> SUFFICES ASSUME NEW y \in S PROVE f[y] \in Int /\ g[y] = f[y]
        BY <2>3
    <3>1. PICK q \in Nat, p \in Nat : q = ins[y].qty /\ p = ins[y].unitPrice
        BY <1>5
    <3>2. f[y] = q * p /\ g[y] = q * p
        BY <1>3, <1>4, <2>1, <2>2, <3>1
    <3>3. q * p \in Int
        OBVIOUS
    <3> QED
        BY <3>2, <3>3
  <2>5. g[0] = open.qty * open.price /\ g[0] \in Int
    <3>1. PICK q \in Nat, p \in Nat : q = open.qty /\ p = open.price
        BY <1>6
    <3>2. g[0] = q * p
        BY <1>3, <1>4, <2>2, <3>1
    <3>3. q * p \in Int
        OBVIOUS
    <3> QED
        BY <3>1, <3>2, <3>3
  <2>6. SumOf(g) = SumOf(f) + g[0]
      BY <2>3, <2>4, <2>5, SumRowAdded
  <2>7. SumOf(f) \in Int
      BY <2>3, <2>4, SumRows
  <2>8. LayersValue(L) = SumOf(g)
      BY <2>2 DEF LayersValue
  <2>9. LayersValue(L) = open.qty * open.price + SumOf(f)
      BY <2>5, <2>6, <2>7, <2>8
  <2> QED
      BY <1>2, <2>1, <2>9
<1> QED
    BY <1>2, <1>3, <1>8, <1>9, <1>10

(* What the first issues have taken, and what they were quoted.             *)
UpTo(outs, n) == {i \in Booked(outs) : i <= n}
TakenBy(outs, n) == QtyOf(outs, UpTo(outs, n))
PaidBy(outs, n) == SumOf([i \in UpTo(outs, n) |-> outs[i].amount])

LEMMA IssuesSummed ==
    ASSUME NEW outs \in OutRows, NEW n \in Nat
    PROVE  /\ TakenBy(outs, n) \in Nat /\ PaidBy(outs, n) \in Nat
           /\ TakenBy(outs, n) <= BookedQty(outs)
           /\ (\A k \in Booked(outs) : k <= n) =>
                  /\ UpTo(outs, n) = Booked(outs) /\ TakenBy(outs, n) = BookedQty(outs)
                  /\ PaidBy(outs, n) = SumOf([i \in Booked(outs) |-> outs[i].amount])
<1>1. /\ IsFiniteSet(Booked(outs))
      /\ \A i \in Booked(outs) : outs[i] \in OutboundValues
  <2>1. outs \in Seq(OutboundValues \cup {Gone}) /\ \A v \in OutboundValues : v.qty \in Nat
      BY DEF OutRows, OutboundValues
  <2> QED
      BY <2>1, BookedRows
<1>2. PICK T : T = UpTo(outs, n)
    OBVIOUS
<1>3. PICK S : S = Booked(outs)
    OBVIOUS
<1>4. T \in SUBSET S /\ IsFiniteSet(S)
    BY <1>1, <1>2, <1>3 DEF UpTo
<1>5. IsFiniteSet(T)
    BY <1>4, FS_Subset
<1>6. \A i \in S : outs[i].qty \in Nat /\ outs[i].amount \in Nat
    BY <1>1, <1>3 DEF OutboundValues
<1>7. PICK f : f = [i \in T |-> outs[i].qty]
    OBVIOUS
<1>8. PICK g : g = [i \in T |-> outs[i].amount]
    OBVIOUS
<1>9. PICK h : h = [i \in S |-> outs[i].qty]
    OBVIOUS
<1>10. SumOf(f) \in Nat
  <2>1. IsFiniteSet(DOMAIN f) /\ \A i \in DOMAIN f : f[i] \in Nat
      BY <1>4, <1>5, <1>6, <1>7
  <2> QED
      BY <2>1, SumRows
<1>11. SumOf(g) \in Nat
  <2>1. IsFiniteSet(DOMAIN g) /\ \A i \in DOMAIN g : g[i] \in Nat
      BY <1>4, <1>5, <1>6, <1>8
  <2> QED
      BY <2>1, SumRows
<1>12. SumOf(f) <= SumOf(h)
  <2>1. \A i \in S : h[i] \in Nat
      BY <1>6, <1>9
  <2>2. SumFunctionOnSet(h, T) <= SumFunctionOnSet(h, S)
      BY <1>4, <2>1, SumOfPart
  <2>3. \A i \in T : f[i] = h[i]
      BY <1>4, <1>7, <1>9
  <2>4. SumFunctionOnSet(f, T) = SumFunctionOnSet(h, T)
      BY <1>5, <2>3, SumSame
  <2>5. DOMAIN f = T /\ DOMAIN h = S
      BY <1>7, <1>9
  <2> QED
      BY <2>2, <2>4, <2>5 DEF SumOf
<1>13. TakenBy(outs, n) = SumOf(f) /\ PaidBy(outs, n) = SumOf(g) /\ BookedQty(outs) = SumOf(h)
    BY <1>2, <1>3, <1>7, <1>8, <1>9 DEF TakenBy, PaidBy, BookedQty, QtyOf
<1>14. ASSUME \A k \in Booked(outs) : k <= n
       PROVE  /\ UpTo(outs, n) = Booked(outs) /\ TakenBy(outs, n) = BookedQty(outs)
              /\ PaidBy(outs, n) = SumOf([i \in Booked(outs) |-> outs[i].amount])
  <2>1. UpTo(outs, n) = Booked(outs)
      BY <1>14 DEF UpTo
  <2> QED
      BY <2>1 DEF TakenBy, PaidBy, BookedQty
<1> QED
    BY <1>10, <1>11, <1>12, <1>13, <1>14

(* In a tidy store receipts lie in the order of their dates, none is priced  *)
(* otherwise than bought, no more is taken than there is, and each issue     *)
(* paid for what lay under it when it was the last.                          *)
FifoPaid(open, ins, outs) ==
    /\ \A i \in Booked(ins) : AmountOf(ins[i]) = ins[i].qty * ins[i].unitPrice
    /\ \A i, k \in Booked(ins) : i < k => ins[i].day <= ins[k].day
    /\ BookedQty(outs) <= open.qty + BookedQty(ins)
    /\ \A n \in Nat : PaidBy(outs, n) = Worth(LayersOf(open, ins), TakenBy(outs, n))

(* Rows that are not booked change nothing.                                 *)
Alike(table, other) ==
    Booked(other) = Booked(table) /\ \A i \in Booked(table) : other[i] = table[i]

LEMMA AlikeLayers ==
    ASSUME NEW open, NEW ins, NEW other, Alike(ins, other)
    PROVE  LayersOf(open, other) = LayersOf(open, ins) /\ BookedQty(other) = BookedQty(ins)
<1>1. PICK S : S = Booked(ins) /\ S = Booked(other)
    BY DEF Alike
<1>2. \A i \in S : other[i] = ins[i]
    BY <1>1 DEF Alike
<1>3. [i \in {0} \cup S |-> IF i = 0 THEN Layer(-1, open.price, open.qty)
                            ELSE Layer(other[i].day, other[i].unitPrice, other[i].qty)] =
      [i \in {0} \cup S |-> IF i = 0 THEN Layer(-1, open.price, open.qty)
                            ELSE Layer(ins[i].day, ins[i].unitPrice, ins[i].qty)]
    BY <1>2
<1>4. [i \in S |-> other[i].qty] = [i \in S |-> ins[i].qty]
    BY <1>2
<1> QED
    BY <1>1, <1>3, <1>4 DEF LayersOf, BookedQty, QtyOf

LEMMA AlikeIssues ==
    ASSUME NEW outs, NEW other, NEW n, NEW m, UpTo(other, m) = UpTo(outs, n),
           \A i \in UpTo(outs, n) : other[i] = outs[i]
    PROVE  TakenBy(other, m) = TakenBy(outs, n) /\ PaidBy(other, m) = PaidBy(outs, n)
<1>1. PICK S : S = UpTo(outs, n)
    OBVIOUS
<1>2. \A i \in S : other[i] = outs[i]
    BY <1>1
<1>3. [i \in S |-> other[i].qty] = [i \in S |-> outs[i].qty]
    BY <1>2
<1>4. [i \in S |-> other[i].amount] = [i \in S |-> outs[i].amount]
    BY <1>2
<1>5. TakenBy(other, m) = TakenBy(outs, n)
    BY <1>1, <1>3 DEF TakenBy, QtyOf
<1> QED
    BY <1>1, <1>4, <1>5 DEF PaidBy

LEMMA FifoKept ==
    ASSUME NEW open, NEW ins, NEW outs, FifoPaid(open, ins, outs),
           NEW ins2, NEW outs2, Alike(ins, ins2), Alike(outs, outs2)
    PROVE  FifoPaid(open, ins2, outs2)
<1>1. LayersOf(open, ins2) = LayersOf(open, ins) /\ BookedQty(ins2) = BookedQty(ins)
    BY AlikeLayers
<1>2. BookedQty(outs2) = BookedQty(outs)
    BY AlikeLayers
<1>3. ASSUME NEW n \in Nat
      PROVE  TakenBy(outs2, n) = TakenBy(outs, n) /\ PaidBy(outs2, n) = PaidBy(outs, n)
  <2>1. UpTo(outs2, n) = UpTo(outs, n) /\ \A i \in UpTo(outs, n) : outs2[i] = outs[i]
      BY DEF UpTo, Alike
  <2> QED
      BY <2>1, AlikeIssues
<1>4. \A n \in Nat : PaidBy(outs2, n) = Worth(LayersOf(open, ins2), TakenBy(outs2, n))
    BY <1>1, <1>3 DEF FifoPaid
<1>5. Booked(ins2) = Booked(ins) /\ \A i \in Booked(ins) : ins2[i] = ins[i]
    BY DEF Alike
<1>6. BookedQty(outs2) <= open.qty + BookedQty(ins2)
    BY <1>1, <1>2 DEF FifoPaid
<1>7. \A i \in Booked(ins2) : AmountOf(ins2[i]) = ins2[i].qty * ins2[i].unitPrice
    BY <1>5 DEF FifoPaid
<1>8. \A i, k \in Booked(ins2) : i < k => ins2[i].day <= ins2[k].day
    BY <1>5 DEF FifoPaid
<1> QED
    BY <1>4, <1>6, <1>7, <1>8 DEF FifoPaid

(* A receipt entered at its own price, not before any other.                *)
LEMMA FifoReceipt ==
    ASSUME NEW open \in Openable, NEW ins \in InRows, NEW outs \in OutRows, FifoPaid(open, ins, outs),
           NEW r \in InboundValues, NEW ins2, ins2 = Append(ins, r), r.booked, r.qty > 0,
           AmountOf(r) = r.qty * r.unitPrice, \A i \in Booked(ins) : ins[i].day <= r.day
    PROVE  FifoPaid(open, ins2, outs)
<1>1. PICK m \in Nat : m = Len(ins) + 1
    BY RowsOf DEF InRows
<1>2. /\ ins2 \in InRows /\ DOMAIN ins2 = DOMAIN ins \cup {m} /\ m \notin DOMAIN ins
      /\ ins2[m] = r /\ (\A i \in DOMAIN ins : ins2[i] = ins[i] /\ i < m) /\ m # 0
  <2>1. ins \in Seq(InboundValues \cup {Gone}) /\ r \in InboundValues \cup {Gone}
      BY DEF InRows
  <2>2. DOMAIN ins = 1..Len(ins) /\ Len(ins) \in Nat
      BY <2>1, RowsOf
  <2>3. /\ ins2 \in Seq(InboundValues \cup {Gone})
        /\ DOMAIN ins2 = DOMAIN ins \cup {Len(ins) + 1} /\ Len(ins) + 1 \notin DOMAIN ins
        /\ ins2[Len(ins) + 1] = r /\ \A i \in DOMAIN ins : ins2[i] = ins[i]
      BY <2>1, RowAdded
  <2> QED
      BY <1>1, <2>2, <2>3 DEF InRows
<1>3. /\ Booked(ins2) = Booked(ins) \cup {m} /\ m \notin Booked(ins)
      /\ \A i \in Booked(ins) : ins2[i] = ins[i] /\ i < m
    BY <1>2 DEF Booked
<1>4. \A i \in Booked(ins2) : AmountOf(ins2[i]) = ins2[i].qty * ins2[i].unitPrice
  <2>1. \A i \in Booked(ins) : AmountOf(ins[i]) = ins[i].qty * ins[i].unitPrice
      BY DEF FifoPaid
  <2> QED
      BY <1>2, <1>3, <2>1
<1>5. Booked(ins) \subseteq Nat \ {0} /\ \A i \in Booked(ins) : ins[i] \in InboundValues
  <2>1. ins \in Seq(InboundValues \cup {Gone}) /\ \A v \in InboundValues : v.qty \in Nat
      BY DEF InRows, InboundValues
  <2> QED
      BY <2>1, BookedRows
<1>6. \A i, k \in Booked(ins2) : i < k => ins2[i].day <= ins2[k].day
  <2>1. \A i, k \in Booked(ins) : i < k => ins[i].day <= ins[k].day
      BY DEF FifoPaid
  <2> SUFFICES ASSUME NEW i \in Booked(ins2), NEW k \in Booked(ins2), i < k
               PROVE  ins2[i].day <= ins2[k].day
      OBVIOUS
  <2>2. i # m
      BY <1>1, <1>3, <1>5
  <2>3. i \in Booked(ins) /\ ins2[i] = ins[i]
      BY <1>3, <2>2
  <2>4. CASE k = m
      BY <1>2, <2>3, <2>4
  <2>5. CASE k \in Booked(ins)
      BY <1>3, <2>1, <2>3, <2>5
  <2> QED
      BY <1>3, <2>4, <2>5
<1>7. PICK L : L = LayersOf(open, ins)
    OBVIOUS
<1>8. PICK M : M = LayersOf(open, ins2)
    OBVIOUS
<1>9. /\ Piled(L) /\ DOMAIN L = {0} \cup Booked(ins) /\ Height(L) = open.qty + BookedQty(ins)
    BY <1>7, LayersPiled
<1>10. /\ Piled(M) /\ DOMAIN M = {0} \cup Booked(ins2) /\ Height(M) = open.qty + BookedQty(ins2)
  <2>1. ins2 \in InRows
      BY <1>2
  <2> QED
      BY <1>8, <2>1, LayersPiled
<1>11. m \notin DOMAIN L /\ DOMAIN M = DOMAIN L \cup {m}
    BY <1>2, <1>3, <1>9, <1>10
<1>12. \A i \in DOMAIN L : M[i] = L[i]
    BY <1>3, <1>7, <1>8, <1>9, <1>11 DEF LayersOf
<1>13. M[m].day = r.day /\ r.day \in Nat
  <2>1. M[m] = Layer(r.day, r.unitPrice, r.qty)
      BY <1>2, <1>3, <1>8 DEF LayersOf
  <2> QED
      BY <2>1, DaysAssumption DEF Layer, InboundValues, Days
<1>14. \A i \in DOMAIN L : i \in Older(M, m)
  <2> SUFFICES ASSUME NEW i \in DOMAIN L PROVE i \in Older(M, m)
      OBVIOUS
  <2>1. i \in DOMAIN M
      BY <1>11
  <2>2. CASE i = 0
    <3>1. M[i] = Layer(-1, open.price, open.qty)
        BY <1>8, <2>2 DEF LayersOf
    <3>2. M[i].day = -1
        BY <3>1 DEF Layer
    <3> QED
        BY <1>13, <2>1, <3>2 DEF Older
  <2>3. CASE i \in Booked(ins)
    <3>1. M[i] = Layer(ins[i].day, ins[i].unitPrice, ins[i].qty)
      <4>1. i # 0 /\ i \in {0} \cup Booked(ins2) /\ ins2[i] = ins[i]
          BY <1>3, <1>5, <2>3
      <4> QED
          BY <1>8, <4>1 DEF LayersOf
    <3>2. M[i].day = ins[i].day /\ ins[i].day \in Nat
        BY <1>5, <2>3, <3>1, DaysAssumption DEF Layer, InboundValues, Days
    <3>3. ins[i].day <= r.day /\ i < m
        BY <1>3, <2>3
    <3>4. M[i].day < M[m].day \/ (M[i].day = M[m].day /\ i < m)
        BY <1>13, <3>2, <3>3
    <3> QED
        BY <2>1, <3>4 DEF Older
  <2> QED
      BY <1>9, <2>2, <2>3
<1>15. BookedQty(outs) <= Height(L) /\ BookedQty(outs) \in Nat
  <2>1. outs \in Seq(OutboundValues \cup {Gone}) /\ \A v \in OutboundValues : v.qty \in Nat
      BY DEF OutRows, OutboundValues
  <2>2. BookedQty(outs) \in Nat
      BY <2>1, BookedRows
  <2> QED
      BY <1>9, <2>2 DEF FifoPaid
<1>16. ASSUME NEW n \in Nat
       PROVE  PaidBy(outs, n) = Worth(M, TakenBy(outs, n))
  <2>1. TakenBy(outs, n) \in Nat /\ TakenBy(outs, n) <= BookedQty(outs)
      BY IssuesSummed
  <2>2. PICK q \in Nat : q = TakenBy(outs, n)
      BY <2>1
  <2>3. q <= Height(L)
      BY <1>9, <1>15, <2>1, <2>2, HeightNat
  <2>4. Worth(M, q) = Worth(L, q)
      BY <1>9, <1>10, <1>11, <1>12, <1>14, <2>3, NewTopLayer
  <2>5. PaidBy(outs, n) = Worth(L, TakenBy(outs, n))
      BY <1>7 DEF FifoPaid
  <2> QED
      BY <2>2, <2>4, <2>5
<1>17. Height(M) >= Height(L)
  <2>1. PICK f : f = [i \in DOMAIN L |-> L[i].remaining]
      OBVIOUS
  <2>2. PICK g : g = [i \in DOMAIN M |-> M[i].remaining]
      OBVIOUS
  <2>3. DOMAIN f = DOMAIN L /\ DOMAIN g = DOMAIN f \cup {m} /\ IsFiniteSet(DOMAIN f) /\ m \notin DOMAIN f
      BY <1>9, <1>11, <2>1, <2>2 DEF Piled
  <2>4. \A y \in DOMAIN f : f[y] \in Int /\ g[y] = f[y]
      BY <1>9, <1>11, <1>12, <2>1, <2>2 DEF Piled
  <2>5. g[m] \in Nat
      BY <1>10, <1>11, <2>2 DEF Piled
  <2>6. SumOf(g) = SumOf(f) + g[m]
      BY <2>3, <2>4, <2>5, SumRowAdded
  <2>7. SumOf(f) \in Int
      BY <2>3, <2>4, SumRows
  <2>8. Height(L) = SumOf(f) /\ Height(M) = SumOf(g)
      BY <2>1, <2>2 DEF Height
  <2> QED
      BY <2>5, <2>6, <2>7, <2>8
<1>18. BookedQty(outs) <= open.qty + BookedQty(ins2)
    BY <1>9, <1>10, <1>15, <1>17, HeightNat
<1> QED
    BY <1>4, <1>6, <1>8, <1>16, <1>18 DEF FifoPaid

(* An issue entered last, quoted from what the others leave.                *)
LEMMA FifoIssue ==
    ASSUME NEW open \in Openable, NEW ins \in InRows, NEW outs \in OutRows, FifoPaid(open, ins, outs),
           NEW outs2 \in OutRows, NEW i \in Nat \ {0}, i \notin Booked(outs), Booked(outs2) = Booked(outs) \cup {i},
           \A k \in Booked(outs) : k <= i /\ outs2[k] = outs[k],
           NEW qty \in Nat, outs2[i].qty = qty, BookedQty(outs) + qty <= open.qty + BookedQty(ins),
           outs2[i].amount = Worth(ConsumeLayers(LayersOf(open, ins), BookedQty(outs)), qty)
    PROVE  FifoPaid(open, ins, outs2)
<1>1. PICK L : L = LayersOf(open, ins)
    OBVIOUS
<1>2. Piled(L)
    BY <1>1, LayersPiled
<1>3. /\ Booked(outs) \subseteq Nat \ {0} /\ IsFiniteSet(Booked(outs)) /\ BookedQty(outs) \in Nat
      /\ \A k \in Booked(outs) : outs[k] \in OutboundValues
  <2>1. outs \in Seq(OutboundValues \cup {Gone}) /\ \A v \in OutboundValues : v.qty \in Nat
      BY DEF OutRows, OutboundValues
  <2> QED
      BY <2>1, BookedRows
<1>4. PICK used \in Nat : used = BookedQty(outs)
    BY <1>3
<1>5. PICK M : M = ConsumeLayers(L, used)
    OBVIOUS
<1>6. Worth(M, qty) = Worth(L, used + qty) - Worth(L, used) /\ Worth(L, used) \in Nat
    BY <1>2, <1>5, WorthInTurn
<1>7. PICK S : S = Booked(outs)
    OBVIOUS
<1>8. PICK f : f = [k \in S |-> outs[k].qty]
    OBVIOUS
<1>9. PICK g : g = [k \in S \cup {i} |-> outs2[k].qty]
    OBVIOUS
<1>10. PICK a : a = [k \in S |-> outs[k].amount]
    OBVIOUS
<1>11. PICK b : b = [k \in S \cup {i} |-> outs2[k].amount]
    OBVIOUS
<1>12. /\ DOMAIN f = S /\ DOMAIN a = S /\ DOMAIN g = S \cup {i} /\ DOMAIN b = S \cup {i}
       /\ i \notin S /\ IsFiniteSet(S)
    BY <1>3, <1>7, <1>8, <1>9, <1>10, <1>11
<1>13. \A k \in S : f[k] \in Int /\ g[k] = f[k] /\ a[k] \in Int /\ b[k] = a[k]
    BY <1>3, <1>7, <1>8, <1>9, <1>10, <1>11 DEF OutboundValues
<1>14. i \in Booked(outs2) /\ outs2[i] \in OutboundValues
  <2>1. outs2 \in Seq(OutboundValues \cup {Gone}) /\ \A v \in OutboundValues : v.qty \in Nat
      BY DEF OutRows, OutboundValues
  <2> QED
      BY <2>1, BookedRows
<1>15. g[i] = qty /\ g[i] \in Int /\ b[i] = outs2[i].amount /\ b[i] \in Int
    BY <1>9, <1>11, <1>14 DEF OutboundValues
<1>16. SumOf(g) = SumOf(f) + qty
  <2>1. SumOf(g) = SumOf(f) + g[i]
      BY <1>12, <1>13, <1>15, SumRowAdded
  <2> QED
      BY <1>15, <2>1
<1>17. SumOf(b) = SumOf(a) + outs2[i].amount
  <2>1. SumOf(b) = SumOf(a) + b[i]
      BY <1>12, <1>13, <1>15, SumRowAdded
  <2> QED
      BY <1>15, <2>1
<1>18. BookedQty(outs) = SumOf(f) /\ BookedQty(outs2) = SumOf(g)
    BY <1>7, <1>8, <1>9 DEF BookedQty, QtyOf
<1>19. BookedQty(outs2) = used + qty
    BY <1>4, <1>16, <1>18
<1>20. SumOf(a) = Worth(L, used)
  <2>1. PICK n \in Nat : n = i
      OBVIOUS
  <2>2. \A k \in Booked(outs) : k <= n
      BY <2>1
  <2>3. TakenBy(outs, n) = BookedQty(outs) /\ PaidBy(outs, n) = SumOf([k \in Booked(outs) |-> outs[k].amount])
      BY <2>2, IssuesSummed
  <2>4. PaidBy(outs, n) = Worth(L, TakenBy(outs, n))
      BY <1>1 DEF FifoPaid
  <2> QED
      BY <1>4, <1>7, <1>10, <2>3, <2>4
<1>21. ASSUME NEW n \in Nat
       PROVE  PaidBy(outs2, n) = Worth(L, TakenBy(outs2, n))
  <2>1. CASE n < i
    <3>1. UpTo(outs2, n) = UpTo(outs, n) /\ \A k \in UpTo(outs, n) : outs2[k] = outs[k]
        BY <1>3, <2>1 DEF UpTo
    <3>2. TakenBy(outs2, n) = TakenBy(outs, n) /\ PaidBy(outs2, n) = PaidBy(outs, n)
        BY <3>1, AlikeIssues
    <3> QED
        BY <1>1, <3>2 DEF FifoPaid
  <2>2. CASE i <= n
    <3>1. \A k \in Booked(outs2) : k <= n
        BY <1>3, <2>2
    <3>2. TakenBy(outs2, n) = BookedQty(outs2) /\ PaidBy(outs2, n) = SumOf([k \in Booked(outs2) |-> outs2[k].amount])
        BY <3>1, IssuesSummed
    <3>3. PaidBy(outs2, n) = SumOf(b)
        BY <1>7, <1>11, <3>2
    <3>4. outs2[i].amount = Worth(M, qty)
        BY <1>1, <1>4, <1>5
    <3>5. PICK w \in Nat, x \in Int : w = Worth(L, used) /\ x = Worth(M, qty)
      <4>1. outs2[i].amount \in Int
          BY <1>14 DEF OutboundValues
      <4> QED
          BY <1>6, <3>4, <4>1
    <3>6. x = Worth(L, used + qty) - w
        BY <1>6, <3>5
    <3>7. PICK all \in Nat : all = used + qty
        OBVIOUS
    <3>8. Worth(L, all) \in Nat
      <4>1. PICK N : N = ConsumeLayers(L, all)
          OBVIOUS
      <4> QED
          BY <1>2, <4>1, WorthInTurn
    <3>9. Worth(L, used + qty) = w + x
        BY <3>6, <3>7, <3>8
    <3> QED
        BY <1>17, <1>19, <1>20, <3>2, <3>3, <3>4, <3>5, <3>9
  <2> QED
      BY <2>1, <2>2
<1>22. BookedQty(outs2) <= open.qty + BookedQty(ins)
    BY <1>4, <1>19
<1> QED
    BY <1>1, <1>21, <1>22 DEF FifoPaid

(* The last issue taken back.                                              *)
LEMMA FifoTakenBack ==
    ASSUME NEW open \in Openable, NEW ins \in InRows, NEW outs \in OutRows, FifoPaid(open, ins, outs),
           NEW outs2 \in OutRows, NEW i \in Booked(outs), Booked(outs2) = Booked(outs) \ {i},
           \A k \in Booked(outs) : k <= i, \A k \in Booked(outs2) : outs2[k] = outs[k]
    PROVE  FifoPaid(open, ins, outs2)
<1>1. /\ Booked(outs) \subseteq Nat \ {0} /\ BookedQty(outs) \in Nat
  <2>1. outs \in Seq(OutboundValues \cup {Gone}) /\ \A v \in OutboundValues : v.qty \in Nat
      BY DEF OutRows, OutboundValues
  <2> QED
      BY <2>1, BookedRows
<1>2. PICK m \in Nat : m = i - 1
    BY <1>1
<1>3. ASSUME NEW n \in Nat
      PROVE  \E k \in Nat : TakenBy(outs2, n) = TakenBy(outs, k) /\ PaidBy(outs2, n) = PaidBy(outs, k)
  <2>1. CASE n < i
    <3>1. UpTo(outs2, n) = UpTo(outs, n) /\ \A k \in UpTo(outs, n) : outs2[k] = outs[k]
        BY <1>1, <2>1 DEF UpTo
    <3> QED
        BY <3>1, AlikeIssues
  <2>2. CASE i <= n
    <3>1. UpTo(outs2, n) = UpTo(outs, m) /\ \A k \in UpTo(outs, m) : outs2[k] = outs[k]
        BY <1>1, <1>2, <2>2 DEF UpTo
    <3> QED
        BY <3>1, AlikeIssues
  <2> QED
      BY <1>1, <2>1, <2>2
<1>4. ASSUME NEW n \in Nat
      PROVE  PaidBy(outs2, n) = Worth(LayersOf(open, ins), TakenBy(outs2, n))
    BY <1>3 DEF FifoPaid
<1>5. BookedQty(outs2) <= BookedQty(outs) /\ BookedQty(outs2) \in Nat
  <2>1. PICK n \in Nat : n = i
      BY <1>1
  <2>2. \A k \in Booked(outs2) : k <= n
      BY <2>1
  <2>3. TakenBy(outs2, n) = BookedQty(outs2) /\ TakenBy(outs2, n) \in Nat
      BY <2>2, IssuesSummed
  <2>4. PICK k \in Nat : TakenBy(outs2, n) = TakenBy(outs, k)
      BY <1>3
  <2>5. TakenBy(outs, k) <= BookedQty(outs)
      BY IssuesSummed
  <2> QED
      BY <2>3, <2>4, <2>5
<1>6. open.qty + BookedQty(ins) \in Nat
  <2>1. PICK L : L = LayersOf(open, ins)
      OBVIOUS
  <2>2. Piled(L) /\ Height(L) = open.qty + BookedQty(ins)
      BY <2>1, LayersPiled
  <2> QED
      BY <2>2, HeightNat
<1>7. BookedQty(outs2) <= open.qty + BookedQty(ins)
    BY <1>1, <1>5, <1>6 DEF FifoPaid
<1> QED
    BY <1>4, <1>7 DEF FifoPaid

-----------------------------------------------------------------------------
(* The steps of the store.                                                 *)
PriceInv == PricesTypeOK /\ (tidy => FifoPaid(opening, inbounds, outbounds))

(* Only a row that is not booked changes.                                   *)
LEMMA OneRowUnbooked ==
    ASSUME NEW table, NEW other, NEW i, i \notin Booked(table), i \notin Booked(other),
           DOMAIN other \subseteq DOMAIN table \cup {i}, DOMAIN table \subseteq DOMAIN other,
           \A j \in DOMAIN table : j # i => other[j] = table[j]
    PROVE  Alike(table, other)
BY DEF Alike, Booked

LEMMA PriceRows ==
    ASSUME PricesTypeOK
    PROVE  opening \in Openable /\ inbounds \in InRows /\ outbounds \in OutRows
BY DEF PricesTypeOK, Openable, InRows, OutRows

(* Quoting an issue: what it says it costs is what the layers are worth.     *)
LEMMA QuoteGiven ==
    ASSUME PricesTypeOK, NEW outs \in OutRows, NEW qty \in Nat, NEW booked \in BOOLEAN,
           NEW o, o = Quoted(outs, qty, booked)
    PROVE  /\ o \in OutboundValues /\ o.qty = qty /\ o.booked = booked
           /\ o.amount = Worth(ConsumeLayers(LayersOf(opening, inbounds), BookedQty(outs)), qty)
<1>1. PICK L : L = LayersOf(opening, inbounds)
    OBVIOUS
<1>2. Piled(L)
    BY <1>1, PriceRows, LayersPiled
<1>3. PICK used \in Nat : used = BookedQty(outs)
  <2>1. outs \in Seq(OutboundValues \cup {Gone}) /\ \A v \in OutboundValues : v.qty \in Nat
      BY DEF OutRows, OutboundValues
  <2>2. BookedQty(outs) \in Nat
      BY <2>1, BookedRows
  <2> QED
      BY <2>2
<1>4. PICK M : M = ConsumeLayers(L, used)
    OBVIOUS
<1>5. Piled(M)
  <2>1. InTurn(L, M, used, qty)
      BY <1>2, <1>4, TakesInTurn
  <2> QED
      BY <2>1 DEF InTurn
<1>6. Worth(M, qty) \in Nat
  <2>1. PICK N : N = ConsumeLayers(M, qty)
      OBVIOUS
  <2> QED
      BY <1>5, <2>1, WorthInTurn
<1>7. M = ListPriceLayers(outs)
    BY <1>1, <1>3, <1>4 DEF ListPriceLayers, BuildPriceLayers, LayersOf, BookedQty
<1>8. TakeFifo(M, qty).amount = Worth(M, qty)
    BY DEF TakeFifo, Worth
<1>9. TakeFifo(M, qty).unitPrice \in Nat
  <2>1. PICK ps : ps = {M[i].unitPrice : i \in {k \in DOMAIN M : Takes(M, qty)[k] > 0}}
      OBVIOUS
  <2>2. TakeFifo(M, qty).unitPrice = IF Cardinality(ps) = 1 THEN CHOOSE p \in ps : TRUE ELSE 0
      BY <2>1 DEF TakeFifo
  <2>3. \A p \in ps : p \in Nat
      BY <1>5, <2>1 DEF Piled
  <2>4. CASE Cardinality(ps) = 1
    <3>1. ps # {}
      <4>1. Cardinality({}) = 0
          BY FS_EmptySet
      <4> QED
          BY <2>4, <4>1
    <3>2. (CHOOSE p \in ps : TRUE) \in ps
        BY <3>1
    <3> QED
        BY <2>2, <2>3, <2>4, <3>2
  <2>5. CASE Cardinality(ps) # 1
      BY <2>2, <2>5
  <2> QED
      BY <2>4, <2>5
<1>10. o = [qty |-> qty, amount |-> TakeFifo(M, qty).amount,
            unitPrice |-> TakeFifo(M, qty).unitPrice, booked |-> booked]
    BY <1>7 DEF Quoted
<1>11. PICK a \in Nat, p \in Nat : a = TakeFifo(M, qty).amount /\ p = TakeFifo(M, qty).unitPrice
    BY <1>6, <1>8, <1>9
<1>12. o = [qty |-> qty, amount |-> a, unitPrice |-> p, booked |-> booked]
    BY <1>10, <1>11
<1>13. o \in OutboundValues /\ o.qty = qty /\ o.booked = booked /\ o.amount = a
    BY <1>12 DEF OutboundValues
<1> QED
    BY <1>1, <1>3, <1>4, <1>8, <1>11, <1>13

(* With nothing issued nothing was paid.                                    *)
LEMMA NothingIssued ==
    ASSUME NEW open \in Openable, NEW ins \in InRows, NEW outs \in OutRows, Booked(outs) = {},
           \A i \in Booked(ins) : AmountOf(ins[i]) = ins[i].qty * ins[i].unitPrice,
           \A i, k \in Booked(ins) : i < k => ins[i].day <= ins[k].day
    PROVE  FifoPaid(open, ins, outs)
<1>1. PICK L : L = LayersOf(open, ins)
    OBVIOUS
<1>2. Piled(L) /\ Height(L) = open.qty + BookedQty(ins)
    BY <1>1, LayersPiled
<1>3. PICK f : f = [i \in {} |-> outs[i].qty]
    OBVIOUS
<1>4. PICK a : a = [i \in {} |-> outs[i].amount]
    OBVIOUS
<1>5. SumOf(f) = 0 /\ SumOf(a) = 0
  <2>1. DOMAIN f = {} /\ DOMAIN a = {}
      BY <1>3, <1>4
  <2> QED
      BY <2>1, SumOfNone DEF SumOf
<1>6. BookedQty(outs) = 0
    BY <1>3, <1>5 DEF BookedQty, QtyOf
<1>7. ASSUME NEW n \in Nat
      PROVE  PaidBy(outs, n) = Worth(L, TakenBy(outs, n))
  <2>1. UpTo(outs, n) = {}
      BY DEF UpTo
  <2>2. TakenBy(outs, n) = 0 /\ PaidBy(outs, n) = 0
      BY <1>3, <1>4, <1>5, <2>1 DEF TakenBy, PaidBy, QtyOf
  <2>3. Worth(L, 0) = 0
      BY <1>2, NothingIsFree
  <2> QED
      BY <2>2, <2>3
<1>8. BookedQty(outs) <= open.qty + BookedQty(ins)
    BY <1>2, <1>6, HeightNat
<1> QED
    BY <1>1, <1>7, <1>8 DEF FifoPaid

LEMMA PricesStart == InitPrices => PriceInv
<1> SUFFICES ASSUME InitPrices PROVE PriceInv
    OBVIOUS
<1>1. PICK x \in Openings : opening = [qty |-> x[1], price |-> x[2]]
    BY DEF InitPrices
<1>2. inbounds = <<>> /\ outbounds = <<>> /\ tidy = TRUE
    BY DEF InitPrices
<1>3. x[1] \in Nat /\ x[2] \in Nat
    BY RowsAssumption
<1>4. PricesTypeOK
  <2>1. Len(inbounds) = 0 /\ Len(outbounds) = 0
      BY <1>2
  <2>2. inbounds \in Seq(InboundValues \cup {Gone}) /\ outbounds \in Seq(OutboundValues \cup {Gone})
      BY <1>2
  <2>3. opening \in [qty : Nat, price : Nat]
      BY <1>1, <1>3
  <2> QED
      BY <1>2, <2>1, <2>2, <2>3, DaysAssumption DEF PricesTypeOK
<1>5. Booked(inbounds) = {} /\ Booked(outbounds) = {}
    BY <1>2 DEF Booked
<1>6. FifoPaid(opening, inbounds, outbounds)
  <2>1. opening \in Openable /\ inbounds \in InRows /\ outbounds \in OutRows
      BY <1>4, PriceRows
  <2> QED
      BY <1>5, <2>1, NothingIssued
<1> QED
    BY <1>4, <1>6 DEF PriceInv

LEMMA StockSetAnew ==
    ASSUME PriceInv, NEW o \in Openings, UpdateStock(o)
    PROVE  PriceInv'
<1>1. PricesTypeOK
    BY DEF PriceInv
<1>2. inbounds' = inbounds /\ outbounds' = outbounds
    BY DEF UpdateStock
<1>3. opening' = [qty |-> o[1], price |-> o[2]] /\ o[1] \in Nat /\ o[2] \in Nat
    BY RowsAssumption DEF UpdateStock
<1>4. tidy' = (tidy /\ Booked(outbounds) = {})
    BY DEF UpdateStock
<1>5. PricesTypeOK'
  <2>1. opening' \in [qty : Nat, price : Nat]
      BY <1>3
  <2>2. tidy' \in BOOLEAN
      BY <1>4
  <2> QED
      BY <1>1, <1>2, <2>1, <2>2 DEF PricesTypeOK
<1>6. ASSUME tidy' PROVE FifoPaid(opening, inbounds, outbounds)'
  <2>1. tidy /\ Booked(outbounds) = {}
      BY <1>4, <1>6
  <2>2. PICK open : open = opening'
      OBVIOUS
  <2>3. open \in Openable /\ inbounds \in InRows /\ outbounds \in OutRows
      BY <1>1, <1>3, <2>2, PriceRows DEF Openable
  <2>4. /\ \A i \in Booked(inbounds) : AmountOf(inbounds[i]) = inbounds[i].qty * inbounds[i].unitPrice
        /\ \A i, k \in Booked(inbounds) : i < k => inbounds[i].day <= inbounds[k].day
      BY <2>1 DEF PriceInv, FifoPaid
  <2>5. FifoPaid(open, inbounds, outbounds)
      BY <2>1, <2>3, <2>4, NothingIssued
  <2> QED
      BY <1>2, <2>2, <2>5
<1> QED
    BY <1>5, <1>6 DEF PriceInv

(* Receipts.                                                               *)
LEMMA PricedRow ==
    ASSUME NEW in \in InboundValues, NEW price \in Nat, NEW ofStock \in BOOLEAN,
           NEW r, r = Priced(in, price, ofStock)
    PROVE  /\ r \in InboundValues /\ r.day = in.day /\ r.qty = in.qty /\ r.booked = in.booked
           /\ (ofStock => price = 0) => AmountOf(r) = r.qty * r.unitPrice
<1>1. PICK p \in Nat : p = IF ofStock THEN 0 ELSE price
    OBVIOUS
<1>2. PICK s \in Nat : s = IF ofStock THEN price ELSE 0
    OBVIOUS
<1>3. r = [in EXCEPT !.unitPrice = p, !.stockPrice = s]
    BY <1>1, <1>2 DEF Priced
<1>4. /\ r \in InboundValues /\ r.day = in.day /\ r.qty = in.qty /\ r.booked = in.booked
      /\ r.unitPrice = p /\ r.stockPrice = s
    BY <1>3 DEF InboundValues
<1>5. (ofStock => price = 0) => s = 0
    BY <1>2
<1>6. (ofStock => price = 0) => AmountOf(r) = r.qty * r.unitPrice
    BY <1>4, <1>5 DEF AmountOf
<1> QED
    BY <1>4, <1>6

LEMMA ReceiptEntered ==
    ASSUME PriceInv, NEW day \in Days, NEW r \in Receipts, NEW ofStock \in BOOLEAN,
           CreateInbound(day, r, ofStock)
    PROVE  PriceInv'
<1>1. PricesTypeOK
    BY DEF PriceInv
<1>2. opening' = opening /\ outbounds' = outbounds
    BY DEF CreateInbound
<1>3. r[1] \in Nat /\ r[2] \in Nat /\ r[3] \in BOOLEAN
    BY RowsAssumption
<1>4. PICK new : new = NewInbound(day, r, ofStock)
    OBVIOUS
<1>5. inbounds' = Append(inbounds, new) /\ Len(inbounds) < MaxInbounds
    BY <1>4 DEF CreateInbound
<1>6. tidy' = (tidy /\ (~r[3] \/ (Dated(day) /\ (ofStock => r[2] = 0))))
    BY DEF CreateInbound
<1>7. /\ new \in InboundValues /\ new.day = day /\ new.qty = r[1] /\ new.booked = r[3]
      /\ (ofStock => r[2] = 0) => AmountOf(new) = new.qty * new.unitPrice
  <2>1. PICK in : in = [day |-> day, qty |-> r[1], unitPrice |-> 0, stockPrice |-> 0, booked |-> r[3]]
      OBVIOUS
  <2>2. in \in InboundValues /\ in.day = day /\ in.qty = r[1] /\ in.booked = r[3]
      BY <1>3, <2>1 DEF InboundValues
  <2>3. PICK price \in Nat : price = r[2]
      BY <1>3
  <2>4. new = Priced(in, price, ofStock)
      BY <1>4, <2>1, <2>3 DEF NewInbound
  <2> QED
      BY <2>2, <2>3, <2>4, PricedRow
<1>8. PICK ins2 : ins2 = inbounds'
    OBVIOUS
<1>9. /\ ins2 \in Seq(InboundValues \cup {Gone}) /\ Len(ins2) = Len(inbounds) + 1
      /\ DOMAIN ins2 = DOMAIN inbounds \cup {Len(inbounds) + 1} /\ Len(inbounds) + 1 \notin DOMAIN inbounds
      /\ ins2[Len(inbounds) + 1] = new
      /\ \A j \in DOMAIN inbounds : ins2[j] = inbounds[j]
  <2>1. inbounds \in Seq(InboundValues \cup {Gone}) /\ new \in InboundValues \cup {Gone}
      BY <1>1, <1>7 DEF PricesTypeOK
  <2> QED
      BY <1>5, <1>8, <2>1, RowAdded
<1>10. PricesTypeOK'
  <2>1. Len(ins2) <= MaxInbounds
    <3>1. Len(inbounds) \in Nat
        BY <1>1, RowsOf DEF PricesTypeOK
    <3> QED
        BY <1>5, <1>9, <3>1, DaysAssumption
  <2>2. tidy' \in BOOLEAN
      BY <1>6
  <2> QED
      BY <1>1, <1>2, <1>8, <1>9, <2>1, <2>2 DEF PricesTypeOK
<1>11. ASSUME tidy' PROVE FifoPaid(opening, inbounds, outbounds)'
  <2>1. tidy /\ (~r[3] \/ (Dated(day) /\ (ofStock => r[2] = 0)))
      BY <1>6, <1>11
  <2>2. FifoPaid(opening, inbounds, outbounds)
      BY <2>1 DEF PriceInv
  <2>3. CASE r[3] /\ r[1] > 0
    <3>1. new.booked /\ new.qty > 0 /\ AmountOf(new) = new.qty * new.unitPrice
        BY <1>7, <2>1, <2>3
    <3>2. \A i \in Booked(inbounds) : inbounds[i].day <= new.day
        BY <1>7, <2>1, <2>3 DEF Dated
    <3>3. opening \in Openable /\ inbounds \in InRows /\ outbounds \in OutRows
        BY <1>1, PriceRows
    <3>4. ins2 = Append(inbounds, new)
        BY <1>5, <1>8
    <3>5. FifoPaid(opening, ins2, outbounds)
        BY <1>7, <2>2, <3>1, <3>2, <3>3, <3>4, FifoReceipt
    <3> QED
        BY <1>2, <1>8, <3>5
  <2>4. CASE ~(r[3] /\ r[1] > 0)
    <3>1. PICK m : m = Len(inbounds) + 1
        OBVIOUS
    <3>2. m \notin Booked(inbounds) /\ m \notin Booked(ins2)
        BY <1>7, <1>9, <2>4, <3>1 DEF Booked
    <3>3. Alike(inbounds, ins2)
        BY <1>9, <3>1, <3>2, OneRowUnbooked
    <3>4. Alike(outbounds, outbounds)
        BY DEF Alike
    <3>5. FifoPaid(opening, ins2, outbounds)
        BY <2>2, <3>3, <3>4, FifoKept
    <3> QED
        BY <1>2, <1>8, <3>5
  <2> QED
      BY <2>3, <2>4
<1> QED
    BY <1>10, <1>11 DEF PriceInv

LEMMA ReceiptCorrected ==
    ASSUME PriceInv, NEW day \in Days, NEW r \in Receipts, NEW ofStock \in BOOLEAN,
           NEW i \in Rows(inbounds), UpdateInbound(i, day, r, ofStock)
    PROVE  PriceInv'
<1>1. PricesTypeOK
    BY DEF PriceInv
<1>2. opening' = opening /\ outbounds' = outbounds
    BY DEF UpdateInbound
<1>3. r[1] \in Nat /\ r[2] \in Nat
    BY RowsAssumption
<1>4. i \in DOMAIN inbounds /\ inbounds[i] \in InboundValues
  <2>1. i \in DOMAIN inbounds /\ inbounds[i] # Gone
      BY DEF Rows
  <2>2. inbounds \in Seq(InboundValues \cup {Gone})
      BY <1>1 DEF PricesTypeOK
  <2>3. inbounds[i] \in InboundValues \cup {Gone}
      BY <2>1, <2>2, RowsOf
  <2> QED
      BY <2>1, <2>3
<1>5. PICK new : new = Priced([inbounds[i] EXCEPT !.day = day, !.qty = r[1]], r[2], ofStock)
    OBVIOUS
<1>6. inbounds' = [inbounds EXCEPT ![i] = new]
    BY <1>5 DEF UpdateInbound
<1>7. tidy' = (tidy /\ ~inbounds[i].booked)
    BY DEF UpdateInbound
<1>8. new \in InboundValues /\ new.booked = inbounds[i].booked
  <2>1. PICK in : in = [inbounds[i] EXCEPT !.day = day, !.qty = r[1]]
      OBVIOUS
  <2>2. in \in InboundValues /\ in.booked = inbounds[i].booked
      BY <1>3, <1>4, <2>1 DEF InboundValues
  <2>3. PICK price \in Nat : price = r[2]
      BY <1>3
  <2>4. new = Priced(in, price, ofStock)
      BY <1>5, <2>1, <2>3
  <2> QED
      BY <2>2, <2>4, PricedRow
<1>9. PICK ins2 : ins2 = inbounds'
    OBVIOUS
<1>10. /\ ins2 \in Seq(InboundValues \cup {Gone}) /\ Len(ins2) = Len(inbounds)
       /\ DOMAIN ins2 = DOMAIN inbounds /\ ins2[i] = new
       /\ \A j \in DOMAIN inbounds : j # i => ins2[j] = inbounds[j]
  <2>1. inbounds \in Seq(InboundValues \cup {Gone}) /\ new \in InboundValues \cup {Gone}
      BY <1>1, <1>8 DEF PricesTypeOK
  <2> QED
      BY <1>4, <1>6, <1>9, <2>1, RowChanged
<1>11. PricesTypeOK'
  <2>1. tidy' \in BOOLEAN
      BY <1>7
  <2> QED
      BY <1>1, <1>2, <1>9, <1>10, <2>1 DEF PricesTypeOK
<1>12. ASSUME tidy' PROVE FifoPaid(opening, inbounds, outbounds)'
  <2>1. tidy /\ ~inbounds[i].booked
      BY <1>7, <1>12
  <2>2. i \notin Booked(inbounds) /\ i \notin Booked(ins2)
      BY <1>8, <1>10, <2>1 DEF Booked
  <2>3. Alike(inbounds, ins2)
      BY <1>4, <1>10, <2>2, OneRowUnbooked
  <2>4. Alike(outbounds, outbounds)
      BY DEF Alike
  <2>5. FifoPaid(opening, inbounds, outbounds)
      BY <2>1 DEF PriceInv
  <2>6. FifoPaid(opening, ins2, outbounds)
      BY <2>3, <2>4, <2>5, FifoKept
  <2> QED
      BY <1>2, <1>9, <2>6
<1> QED
    BY <1>11, <1>12 DEF PriceInv

LEMMA ReceiptDeleted ==
    ASSUME PriceInv, NEW i \in Rows(inbounds), DeleteInbound(i)
    PROVE  PriceInv'
<1>1. PricesTypeOK
    BY DEF PriceInv
<1>2. opening' = opening /\ inbounds' = Without(inbounds, i) /\ tidy' = (tidy /\ ~inbounds[i].booked)
    BY DEF DeleteInbound
<1>3. PICK outs2 : outs2 = outbounds'
    OBVIOUS
<1>4. /\ DOMAIN outs2 = DOMAIN outbounds /\ outs2 = [k \in DOMAIN outbounds |-> outs2[k]]
      /\ \A k \in DOMAIN outbounds :
            outs2[k] = outbounds[k] \/ (outs2[k] = Gone /\ (~outbounds[k].booked \/ outbounds[k].qty = 0))
  <2>1. PICK last : outs2 = IF last
            THEN [k \in DOMAIN outbounds |->
                    IF k \in Rows(outbounds) /\ outbounds[k].unitPrice = inbounds[i].unitPrice
                        /\ (~outbounds[k].booked \/ outbounds[k].qty = 0)
                    THEN Gone ELSE outbounds[k]]
            ELSE outbounds
      BY <1>3 DEF DeleteInbound
  <2>2. CASE last
      BY <2>1, <2>2
  <2>3. CASE ~last
    <3>1. outs2 = outbounds
        BY <2>1, <2>3
    <3>2. outbounds = [k \in DOMAIN outbounds |-> outbounds[k]]
        BY <1>1 DEF PricesTypeOK
    <3> QED
        BY <3>1, <3>2
  <2> QED
      BY <2>2, <2>3
<1>5. outs2 \in Seq(OutboundValues \cup {Gone}) /\ Len(outs2) = Len(outbounds)
  <2>1. outbounds \in Seq(OutboundValues \cup {Gone})
      BY <1>1 DEF PricesTypeOK
  <2>2. \A k \in DOMAIN outbounds : outs2[k] \in OutboundValues \cup {Gone}
      BY <1>4, <2>1, RowsOf
  <2>3. PICK R : R = OutboundValues \cup {Gone}
      OBVIOUS
  <2> QED
      BY <1>4, <2>1, <2>2, <2>3, RowsRewritten
<1>6. PICK ins2 : ins2 = inbounds'
    OBVIOUS
<1>7. /\ ins2 \in Seq(InboundValues \cup {Gone}) /\ Len(ins2) = Len(inbounds)
      /\ DOMAIN ins2 = DOMAIN inbounds /\ ins2[i] = Gone /\ i \in DOMAIN inbounds
      /\ \A j \in DOMAIN inbounds : j # i => ins2[j] = inbounds[j]
  <2>1. inbounds \in Seq(InboundValues \cup {Gone}) /\ Gone \in InboundValues \cup {Gone}
      BY <1>1 DEF PricesTypeOK
  <2>2. i \in DOMAIN inbounds
      BY DEF Rows
  <2>3. ins2 = [inbounds EXCEPT ![i] = Gone]
      BY <1>2, <1>6 DEF Without
  <2> QED
      BY <2>1, <2>2, <2>3, RowChanged
<1>8. PricesTypeOK'
  <2>1. tidy' \in BOOLEAN
      BY <1>2
  <2> QED
      BY <1>1, <1>2, <1>3, <1>5, <1>6, <1>7, <2>1 DEF PricesTypeOK
<1>9. ASSUME tidy' PROVE FifoPaid(opening, inbounds, outbounds)'
  <2>1. tidy /\ ~inbounds[i].booked
      BY <1>2, <1>9
  <2>2. i \notin Booked(inbounds) /\ i \notin Booked(ins2)
      BY <1>7, <2>1 DEF Booked, Gone
  <2>3. Alike(inbounds, ins2)
      BY <1>7, <2>2, OneRowUnbooked
  <2>4. Alike(outbounds, outs2)
      BY <1>4 DEF Alike, Booked, Gone
  <2>5. FifoPaid(opening, inbounds, outbounds)
      BY <2>1 DEF PriceInv
  <2>6. FifoPaid(opening, ins2, outs2)
      BY <2>3, <2>4, <2>5, FifoKept
  <2> QED
      BY <1>2, <1>3, <1>6, <2>6
<1> QED
    BY <1>8, <1>9 DEF PriceInv

(* Issues.                                                                 *)
LEMMA EnoughStock ==
    ASSUME PricesTypeOK, NEW outs \in OutRows, NEW qty \in Nat, EnoughFor(outs, qty)
    PROVE  BookedQty(outs) + qty <= opening.qty + BookedQty(inbounds)
<1>1. qty <= opening.qty + BookedQty(inbounds) - BookedQty(outs)
    BY DEF EnoughFor, OnHand, BookedQty
<1>2. BookedQty(outs) \in Nat
  <2>1. outs \in Seq(OutboundValues \cup {Gone}) /\ \A v \in OutboundValues : v.qty \in Nat
      BY DEF OutRows, OutboundValues
  <2> QED
      BY <2>1, BookedRows
<1>3. BookedQty(inbounds) \in Nat
  <2>1. inbounds \in Seq(InboundValues \cup {Gone}) /\ \A v \in InboundValues : v.qty \in Nat
      BY DEF PricesTypeOK, InboundValues
  <2> QED
      BY <2>1, BookedRows
<1>4. opening.qty \in Nat
    BY DEF PricesTypeOK
<1> QED
    BY <1>1, <1>2, <1>3, <1>4

LEMMA IssueEntered ==
    ASSUME PriceInv, NEW qty \in IssueQtys, NEW booked \in BOOLEAN, ApplyFifoOutbound(qty, booked)
    PROVE  PriceInv'
<1>1. PricesTypeOK /\ outbounds \in OutRows /\ qty \in Nat /\ qty > 0
    BY PriceRows, RowsAssumption DEF PriceInv
<1>2. opening' = opening /\ inbounds' = inbounds /\ tidy' = tidy
    BY DEF ApplyFifoOutbound
<1>3. PICK new : new = Quoted(outbounds, qty, booked)
    OBVIOUS
<1>4. outbounds' = Append(outbounds, new) /\ Len(outbounds) < MaxOutbounds /\ EnoughFor(outbounds, qty)
    BY <1>3 DEF ApplyFifoOutbound
<1>5. /\ new \in OutboundValues /\ new.qty = qty /\ new.booked = booked
      /\ new.amount = Worth(ConsumeLayers(LayersOf(opening, inbounds), BookedQty(outbounds)), qty)
    BY <1>1, <1>3, QuoteGiven
<1>6. PICK outs2 : outs2 = outbounds'
    OBVIOUS
<1>7. PICK m : m = Len(outbounds) + 1
    OBVIOUS
<1>8. /\ outs2 \in OutRows /\ Len(outs2) = m
      /\ DOMAIN outs2 = DOMAIN outbounds \cup {m} /\ m \notin DOMAIN outbounds
      /\ outs2[m] = new
      /\ \A j \in DOMAIN outbounds : outs2[j] = outbounds[j]
  <2>1. outbounds \in Seq(OutboundValues \cup {Gone}) /\ new \in OutboundValues \cup {Gone}
      BY <1>1, <1>5 DEF PricesTypeOK
  <2>2. /\ outs2 \in Seq(OutboundValues \cup {Gone}) /\ Len(outs2) = Len(outbounds) + 1
        /\ DOMAIN outs2 = DOMAIN outbounds \cup {Len(outbounds) + 1}
        /\ Len(outbounds) + 1 \notin DOMAIN outbounds
        /\ outs2[Len(outbounds) + 1] = new
        /\ \A j \in DOMAIN outbounds : outs2[j] = outbounds[j]
      BY <1>4, <1>6, <2>1, RowAdded
  <2> QED
      BY <1>7, <2>2 DEF OutRows
<1>9. Len(outbounds) \in Nat /\ DOMAIN outbounds = 1..Len(outbounds)
    BY <1>1, RowsOf DEF PricesTypeOK
<1>10. PricesTypeOK'
  <2>1. Len(outs2) <= MaxOutbounds
      BY <1>4, <1>7, <1>8, <1>9, DaysAssumption
  <2> QED
      BY <1>1, <1>2, <1>6, <1>8, <2>1 DEF PricesTypeOK, OutRows
<1>11. ASSUME tidy' PROVE FifoPaid(opening, inbounds, outbounds)'
  <2>1. FifoPaid(opening, inbounds, outbounds)
      BY <1>2, <1>11 DEF PriceInv
  <2>2. CASE booked
    <3>1. opening \in Openable /\ inbounds \in InRows
        BY <1>1, PriceRows
    <3>2. m \in Nat \ {0}
        BY <1>7, <1>9
    <3>3. m \notin Booked(outbounds) /\ Booked(outs2) = Booked(outbounds) \cup {m}
        BY <1>1, <1>5, <1>8, <2>2 DEF Booked
    <3>4. \A k \in Booked(outbounds) : k <= m /\ outs2[k] = outbounds[k]
        BY <1>7, <1>8, <1>9 DEF Booked
    <3>5. BookedQty(outbounds) + qty <= opening.qty + BookedQty(inbounds)
        BY <1>1, <1>4, EnoughStock
    <3>6. outs2[m].qty = qty
          /\ outs2[m].amount = Worth(ConsumeLayers(LayersOf(opening, inbounds), BookedQty(outbounds)), qty)
        BY <1>5, <1>8
    <3>7. outs2 \in OutRows
        BY <1>8
    <3>8. FifoPaid(opening, inbounds, outs2)
        BY <1>1, <2>1, <3>1, <3>2, <3>3, <3>4, <3>5, <3>6, <3>7, FifoIssue
    <3> QED
        BY <1>2, <1>6, <3>8
  <2>3. CASE ~booked
    <3>1. m \notin Booked(outbounds) /\ m \notin Booked(outs2)
        BY <1>5, <1>8, <2>3 DEF Booked
    <3>2. Alike(outbounds, outs2)
        BY <1>8, <3>1, OneRowUnbooked
    <3>3. Alike(inbounds, inbounds)
        BY DEF Alike
    <3>4. FifoPaid(opening, inbounds, outs2)
        BY <2>1, <3>2, <3>3, FifoKept
    <3> QED
        BY <1>2, <1>6, <3>4
  <2> QED
      BY <2>2, <2>3
<1> QED
    BY <1>10, <1>11 DEF PriceInv

(* A row struck out: what was the last issue leaves the others as they were. *)
LEMMA IssueTakenOut ==
    ASSUME PriceInv, NEW i \in Rows(outbounds), NEW outs2, outs2 = Without(outbounds, i)
    PROVE  /\ outs2 \in OutRows /\ Len(outs2) = Len(outbounds) /\ DOMAIN outs2 = DOMAIN outbounds
           /\ i \in DOMAIN outbounds /\ i \notin Booked(outs2)
           /\ \A j \in DOMAIN outbounds : j # i => outs2[j] = outbounds[j]
           /\ outbounds[i] \in OutboundValues
           /\ (tidy /\ (Latest(i) \/ ~outbounds[i].booked)) => FifoPaid(opening, inbounds, outs2)
<1>1. PricesTypeOK
    BY DEF PriceInv
<1>2. opening \in Openable /\ inbounds \in InRows /\ outbounds \in OutRows
    BY <1>1, PriceRows
<1>3. i \in DOMAIN outbounds /\ outbounds[i] \in OutboundValues
  <2>1. i \in DOMAIN outbounds /\ outbounds[i] # Gone
      BY DEF Rows
  <2>2. outbounds \in Seq(OutboundValues \cup {Gone})
      BY <1>1 DEF PricesTypeOK
  <2>3. outbounds[i] \in OutboundValues \cup {Gone}
      BY <2>1, <2>2, RowsOf
  <2> QED
      BY <2>1, <2>3
<1>4. /\ outs2 \in OutRows /\ Len(outs2) = Len(outbounds)
      /\ DOMAIN outs2 = DOMAIN outbounds /\ outs2[i] = Gone
      /\ \A j \in DOMAIN outbounds : j # i => outs2[j] = outbounds[j]
  <2>1. outbounds \in Seq(OutboundValues \cup {Gone}) /\ Gone \in OutboundValues \cup {Gone}
      BY <1>1 DEF PricesTypeOK
  <2>2. outs2 = [outbounds EXCEPT ![i] = Gone]
      BY DEF Without
  <2>3. /\ outs2 \in Seq(OutboundValues \cup {Gone}) /\ Len(outs2) = Len(outbounds)
        /\ DOMAIN outs2 = DOMAIN outbounds /\ outs2[i] = Gone
        /\ \A j \in DOMAIN outbounds : j # i => outs2[j] = outbounds[j]
      BY <1>3, <2>1, <2>2, RowChanged
  <2> QED
      BY <2>3 DEF OutRows
<1>5. i \notin Booked(outs2)
    BY <1>4 DEF Booked, Gone
<1>6. ASSUME tidy, Latest(i) \/ ~outbounds[i].booked
      PROVE  FifoPaid(opening, inbounds, outs2)
  <2>1. FifoPaid(opening, inbounds, outbounds)
      BY <1>6 DEF PriceInv
  <2>2. CASE i \in Booked(outbounds)
    <3>1. \A k \in Booked(outbounds) : k <= i
        BY <1>6, <2>2 DEF Latest, Booked
    <3>2. Booked(outs2) = Booked(outbounds) \ {i} /\ \A k \in Booked(outs2) : outs2[k] = outbounds[k]
        BY <1>4, <1>5 DEF Booked
    <3>3. outs2 \in OutRows
        BY <1>4
    <3> QED
        BY <1>2, <2>1, <2>2, <3>1, <3>2, <3>3, FifoTakenBack
  <2>3. CASE i \notin Booked(outbounds)
    <3>1. Alike(outbounds, outs2)
        BY <1>3, <1>4, <1>5, <2>3, OneRowUnbooked
    <3>2. Alike(inbounds, inbounds)
        BY DEF Alike
    <3> QED
        BY <2>1, <3>1, <3>2, FifoKept
  <2> QED
      BY <2>2, <2>3
<1> QED
    BY <1>3, <1>4, <1>5, <1>6

LEMMA IssueDeleted ==
    ASSUME PriceInv, NEW i \in Rows(outbounds), DeleteOutbound(i)
    PROVE  PriceInv'
<1>1. PricesTypeOK
    BY DEF PriceInv
<1>2. opening' = opening /\ inbounds' = inbounds /\ tidy' = (tidy /\ (Latest(i) \/ ~outbounds[i].booked))
    BY DEF DeleteOutbound
<1>3. PICK outs2 : outs2 = outbounds' /\ outs2 = Without(outbounds, i)
    BY DEF DeleteOutbound
<1>4. /\ outs2 \in OutRows /\ Len(outs2) = Len(outbounds)
      /\ (tidy /\ (Latest(i) \/ ~outbounds[i].booked)) => FifoPaid(opening, inbounds, outs2)
    BY <1>3, IssueTakenOut
<1>5. PricesTypeOK'
  <2>1. tidy' \in BOOLEAN
      BY <1>2
  <2> QED
      BY <1>1, <1>2, <1>3, <1>4, <2>1 DEF PricesTypeOK, OutRows
<1>6. ASSUME tidy' PROVE FifoPaid(opening, inbounds, outbounds)'
    BY <1>2, <1>3, <1>4, <1>6
<1> QED
    BY <1>5, <1>6 DEF PriceInv

LEMMA IssueQuotedAgain ==
    ASSUME PriceInv, NEW i \in Rows(outbounds), NEW qty \in IssueQtys, UpdateOutbound(i, qty)
    PROVE  PriceInv'
<1>1. PricesTypeOK /\ outbounds \in OutRows /\ qty \in Nat /\ qty > 0
    BY PriceRows, RowsAssumption DEF PriceInv
<1>2. opening' = opening /\ inbounds' = inbounds /\ tidy' = (tidy /\ (Latest(i) \/ ~outbounds[i].booked))
    BY DEF UpdateOutbound
<1>3. PICK rest : rest = Without(outbounds, i)
    OBVIOUS
<1>4. /\ rest \in OutRows /\ Len(rest) = Len(outbounds) /\ DOMAIN rest = DOMAIN outbounds
      /\ i \in DOMAIN outbounds /\ i \notin Booked(rest)
      /\ \A j \in DOMAIN outbounds : j # i => rest[j] = outbounds[j]
      /\ outbounds[i] \in OutboundValues
      /\ (tidy /\ (Latest(i) \/ ~outbounds[i].booked)) => FifoPaid(opening, inbounds, rest)
    BY <1>3, IssueTakenOut
<1>5. PICK booked \in BOOLEAN : booked = outbounds[i].booked
    BY <1>4 DEF OutboundValues
<1>6. PICK new : new = Quoted(rest, qty, booked)
    OBVIOUS
<1>7. /\ new \in OutboundValues /\ new.qty = qty /\ new.booked = booked
      /\ new.amount = Worth(ConsumeLayers(LayersOf(opening, inbounds), BookedQty(rest)), qty)
    BY <1>1, <1>4, <1>6, QuoteGiven
<1>8. outbounds' = [outbounds EXCEPT ![i] = new] /\ EnoughFor(rest, qty)
    BY <1>3, <1>5, <1>6 DEF UpdateOutbound
<1>9. PICK outs2 : outs2 = outbounds'
    OBVIOUS
<1>10. /\ outs2 \in OutRows /\ Len(outs2) = Len(outbounds)
       /\ DOMAIN outs2 = DOMAIN outbounds /\ outs2[i] = new
       /\ \A j \in DOMAIN outbounds : j # i => outs2[j] = outbounds[j]
  <2>1. outbounds \in Seq(OutboundValues \cup {Gone}) /\ new \in OutboundValues \cup {Gone}
      BY <1>1, <1>7 DEF PricesTypeOK
  <2>2. /\ outs2 \in Seq(OutboundValues \cup {Gone}) /\ Len(outs2) = Len(outbounds)
        /\ DOMAIN outs2 = DOMAIN outbounds /\ outs2[i] = new
        /\ \A j \in DOMAIN outbounds : j # i => outs2[j] = outbounds[j]
      BY <1>4, <1>8, <1>9, <2>1, RowChanged
  <2> QED
      BY <2>2 DEF OutRows
<1>11. PricesTypeOK'
  <2>1. tidy' \in BOOLEAN
      BY <1>2
  <2> QED
      BY <1>1, <1>2, <1>9, <1>10, <2>1 DEF PricesTypeOK, OutRows
<1>12. ASSUME tidy' PROVE FifoPaid(opening, inbounds, outbounds)'
  <2>1. FifoPaid(opening, inbounds, rest) /\ (Latest(i) \/ ~booked)
      BY <1>2, <1>4, <1>5, <1>12
  <2>2. CASE booked
    <3>1. opening \in Openable /\ inbounds \in InRows
        BY <1>1, PriceRows
    <3>2. i \in Nat \ {0}
      <4>1. DOMAIN outbounds = 1..Len(outbounds) /\ Len(outbounds) \in Nat
          BY <1>1, RowsOf DEF PricesTypeOK
      <4> QED
          BY <1>4, <4>1
    <3>3. Booked(outs2) = Booked(rest) \cup {i}
        BY <1>1, <1>4, <1>7, <1>10, <2>2 DEF Booked
    <3>4. \A k \in Booked(rest) : k <= i /\ outs2[k] = rest[k]
        BY <1>4, <1>10, <2>1, <2>2 DEF Booked, Latest
    <3>5. BookedQty(rest) + qty <= opening.qty + BookedQty(inbounds)
        BY <1>1, <1>4, <1>8, EnoughStock
    <3>6. /\ outs2[i].qty = qty
          /\ outs2[i].amount = Worth(ConsumeLayers(LayersOf(opening, inbounds), BookedQty(rest)), qty)
        BY <1>7, <1>10
    <3>7. outs2 \in OutRows /\ rest \in OutRows /\ i \notin Booked(rest)
        BY <1>4, <1>10
    <3>8. FifoPaid(opening, inbounds, outs2)
        BY <1>1, <2>1, <3>1, <3>2, <3>3, <3>4, <3>5, <3>6, <3>7, FifoIssue
    <3> QED
        BY <1>2, <1>9, <3>8
  <2>3. CASE ~booked
    <3>1. i \notin Booked(outs2)
        BY <1>7, <1>10, <2>3 DEF Booked
    <3>2. Alike(rest, outs2)
        BY <1>4, <1>10, <3>1, OneRowUnbooked
    <3>3. Alike(inbounds, inbounds)
        BY DEF Alike
    <3>4. FifoPaid(opening, inbounds, outs2)
        BY <2>1, <3>2, <3>3, FifoKept
    <3> QED
        BY <1>2, <1>9, <3>4
  <2> QED
      BY <2>2, <2>3
<1> QED
    BY <1>11, <1>12 DEF PriceInv

(* Whatever is entered, the layers left hold the stock on hand.              *)
LEMMA LayersHold ==
    ASSUME PricesTypeOK
    PROVE  LayersMatchStock
<1>1. PICK L : L = LayersOf(opening, inbounds)
    OBVIOUS
<1>2. opening \in Openable /\ inbounds \in InRows /\ outbounds \in OutRows
    BY PriceRows
<1>3. Piled(L) /\ Height(L) = opening.qty + BookedQty(inbounds)
    BY <1>1, <1>2, LayersPiled
<1>4. PICK used \in Nat : used = BookedQty(outbounds)
  <2>1. outbounds \in Seq(OutboundValues \cup {Gone}) /\ \A v \in OutboundValues : v.qty \in Nat
      BY <1>2 DEF OutRows, OutboundValues
  <2>2. BookedQty(outbounds) \in Nat
      BY <2>1, BookedRows
  <2> QED
      BY <2>2
<1>5. PICK M : M = ConsumeLayers(L, used)
    OBVIOUS
<1>6. Height(M) = NonNegative(Height(L) - used)
  <2>1. PICK qty \in Nat : qty = 0
      OBVIOUS
  <2>2. InTurn(L, M, used, qty)
      BY <1>3, <1>5, TakesInTurn
  <2> QED
      BY <2>2 DEF InTurn
<1>7. M = ListPriceLayers(outbounds)
    BY <1>1, <1>4, <1>5 DEF ListPriceLayers, BuildPriceLayers, LayersOf, BookedQty
<1>8. LayersQty(M) = Height(M)
    BY DEF LayersQty, Height
<1>9. OnHand(outbounds) = Height(L) - used
  <2>1. PICK open \in Nat : open = opening.qty
      BY <1>2 DEF Openable
  <2>2. PICK bought \in Nat : bought = BookedQty(inbounds)
    <3>1. inbounds \in Seq(InboundValues \cup {Gone}) /\ \A v \in InboundValues : v.qty \in Nat
        BY <1>2 DEF InRows, InboundValues
    <3>2. BookedQty(inbounds) \in Nat
        BY <3>1, BookedRows
    <3> QED
        BY <3>2
  <2>3. OnHand(outbounds) = open + bought - used
      BY <1>4, <2>1, <2>2 DEF OnHand, BookedQty
  <2>4. Height(L) = open + bought
      BY <1>3, <2>1, <2>2
  <2> QED
      BY <2>3, <2>4
<1> QED
    BY <1>6, <1>7, <1>8, <1>9 DEF LayersMatchStock

(* In a tidy store they are worth what the balance says.                     *)
LEMMA LayersWorth ==
    ASSUME PriceInv
    PROVE  ValueKept
<1> SUFFICES ASSUME tidy
             PROVE  Amount = LayersValue(ListPriceLayers(outbounds))
    BY DEF ValueKept
<1>1. PICK L : L = LayersOf(opening, inbounds)
    OBVIOUS
<1>2. opening \in Openable /\ inbounds \in InRows /\ outbounds \in OutRows
    BY PriceRows DEF PriceInv
<1>3. FifoPaid(opening, inbounds, outbounds)
    BY DEF PriceInv
<1>4. Piled(L)
      /\ LayersValue(L) = opening.qty * opening.price
             + SumOf([i \in Booked(inbounds) |-> inbounds[i].qty * inbounds[i].unitPrice])
    BY <1>1, <1>2, LayersPiled
<1>5. PICK used \in Nat : used = BookedQty(outbounds)
  <2>1. outbounds \in Seq(OutboundValues \cup {Gone}) /\ \A v \in OutboundValues : v.qty \in Nat
      BY <1>2 DEF OutRows, OutboundValues
  <2>2. BookedQty(outbounds) \in Nat
      BY <2>1, BookedRows
  <2> QED
      BY <2>2
<1>6. PICK M : M = ConsumeLayers(L, used)
    OBVIOUS
<1>7. LayersValue(M) = LayersValue(L) - Worth(L, used)
  <2>1. PICK qty \in Nat : qty = 0
      OBVIOUS
  <2> QED
      BY <1>4, <1>6, <2>1, WorthInTurn
<1>8. M = ListPriceLayers(outbounds)
    BY <1>1, <1>5, <1>6 DEF ListPriceLayers, BuildPriceLayers, LayersOf, BookedQty
<1>9. SumOf([i \in Booked(outbounds) |-> outbounds[i].amount]) = Worth(L, used)
  <2>1. PICK n \in Nat : n = Len(outbounds)
      BY <1>2, RowsOf DEF OutRows
  <2>2. \A k \in Booked(outbounds) : k <= n
    <3>1. DOMAIN outbounds = 1..Len(outbounds)
        BY <1>2, RowsOf DEF OutRows
    <3> QED
        BY <2>1, <3>1 DEF Booked
  <2>3. /\ TakenBy(outbounds, n) = BookedQty(outbounds)
        /\ PaidBy(outbounds, n) = SumOf([i \in Booked(outbounds) |-> outbounds[i].amount])
      BY <1>2, <2>2, IssuesSummed
  <2>4. PaidBy(outbounds, n) = Worth(L, TakenBy(outbounds, n))
      BY <1>1, <1>3 DEF FifoPaid
  <2> QED
      BY <1>5, <2>3, <2>4
<1>10. [i \in Booked(inbounds) |-> AmountOf(inbounds[i])] =
       [i \in Booked(inbounds) |-> inbounds[i].qty * inbounds[i].unitPrice]
    BY <1>3 DEF FifoPaid
<1>11. PICK open \in Int : open = opening.qty * opening.price
  <2>1. PICK q \in Nat, p \in Nat : q = opening.qty /\ p = opening.price
      BY <1>2 DEF Openable
  <2>2. q * p \in Int
      OBVIOUS
  <2> QED
      BY <2>1, <2>2
<1>12. PICK bought \in Int : bought = SumOf([i \in Booked(inbounds) |-> AmountOf(inbounds[i])])
  <2>1. PICK f : f = [i \in Booked(inbounds) |-> inbounds[i].qty * inbounds[i].unitPrice]
      OBVIOUS
  <2>2. IsFiniteSet(Booked(inbounds)) /\ \A i \in Booked(inbounds) : inbounds[i] \in InboundValues
    <3>1. inbounds \in Seq(InboundValues \cup {Gone}) /\ \A v \in InboundValues : v.qty \in Nat
        BY <1>2 DEF InRows, InboundValues
    <3> QED
        BY <3>1, BookedRows
  <2>3. \A i \in Booked(inbounds) : f[i] \in Int
    <3> SUFFICES ASSUME NEW i \in Booked(inbounds) PROVE f[i] \in Int
        OBVIOUS
    <3>1. PICK q \in Nat, p \in Nat : q = inbounds[i].qty /\ p = inbounds[i].unitPrice
        BY <2>2 DEF InboundValues
    <3>2. f[i] = q * p /\ q * p \in Int
        BY <2>1, <3>1
    <3> QED
        BY <3>2
  <2>4. DOMAIN f = Booked(inbounds)
      BY <2>1
  <2>5. SumOf(f) \in Int
      BY <2>2, <2>3, <2>4, SumRows
  <2> QED
      BY <1>10, <2>1, <2>5
<1>13. PICK paid \in Nat : paid = Worth(L, used)
    BY <1>4, <1>6, WorthInTurn
<1>14. Amount = open + bought - paid
    BY <1>9, <1>11, <1>12, <1>13 DEF Amount
<1>15. LayersValue(L) = open + bought
    BY <1>4, <1>10, <1>11, <1>12
<1> QED
    BY <1>7, <1>8, <1>13, <1>14, <1>15

LEMMA PriceStep ==
    ASSUME PriceInv, [PricesNext]_prices
    PROVE  PriceInv'
<1>1. ASSUME NEW day \in Days, NEW r \in Receipts, NEW ofStock \in BOOLEAN, CreateInbound(day, r, ofStock)
      PROVE  PriceInv'
    BY <1>1, ReceiptEntered
<1>2. ASSUME NEW day \in Days, NEW r \in Receipts, NEW ofStock \in BOOLEAN, NEW i \in Rows(inbounds),
             UpdateInbound(i, day, r, ofStock)
      PROVE  PriceInv'
    BY <1>2, ReceiptCorrected
<1>3. ASSUME NEW i \in Rows(inbounds), DeleteInbound(i)
      PROVE  PriceInv'
    BY <1>3, ReceiptDeleted
<1>4. ASSUME NEW qty \in IssueQtys, NEW booked \in BOOLEAN, ApplyFifoOutbound(qty, booked)
      PROVE  PriceInv'
    BY <1>4, IssueEntered
<1>5. ASSUME NEW i \in Rows(outbounds), NEW qty \in IssueQtys, UpdateOutbound(i, qty)
      PROVE  PriceInv'
    BY <1>5, IssueQuotedAgain
<1>6. ASSUME NEW i \in Rows(outbounds), DeleteOutbound(i)
      PROVE  PriceInv'
    BY <1>6, IssueDeleted
<1>7. ASSUME NEW o \in Openings, UpdateStock(o)
      PROVE  PriceInv'
    BY <1>7, StockSetAnew
<1>8. CASE UNCHANGED prices
  <2>1. opening' = opening /\ inbounds' = inbounds /\ outbounds' = outbounds /\ tidy' = tidy
      BY <1>8 DEF prices
  <2>2. PricesTypeOK'
      BY <2>1 DEF PriceInv, PricesTypeOK
  <2>3. ASSUME tidy' PROVE FifoPaid(opening, inbounds, outbounds)'
      BY <2>1, <2>3 DEF PriceInv
  <2> QED
      BY <2>2, <2>3 DEF PriceInv
<1> QED
    BY <1>1, <1>2, <1>3, <1>4, <1>5, <1>6, <1>7, <1>8 DEF PricesNext

(* The rows and the balance keep their shape: every quote is an amount and,  *)
(* where it is one for all, a price.                                        *)
THEOREM PricesTypeCorrect == PricesSpec => []PricesTypeOK
<1>1. InitPrices => PriceInv
    BY PricesStart
<1>2. PriceInv /\ [PricesNext]_prices => PriceInv'
    BY PriceStep
<1>3. PriceInv => PricesTypeOK
    BY DEF PriceInv
<1> QED
    BY <1>1, <1>2, <1>3, PTL DEF PricesSpec

(* The layers the next issue is quoted from hold what is on hand, after any  *)
(* entries and corrections, and in a tidy store they are worth the balance.  *)
THEOREM LayersHoldTheStock == PricesSpec => []LayersAreTheStock
<1>1. InitPrices => PriceInv
    BY PricesStart
<1>2. PriceInv /\ [PricesNext]_prices => PriceInv'
    BY PriceStep
<1>3. PriceInv => LayersAreTheStock
  <2>1. PriceInv => LayersMatchStock
      BY LayersHold DEF PriceInv
  <2>2. PriceInv => ValueKept
      BY LayersWorth
  <2> QED
      BY <2>1, <2>2 DEF LayersAreTheStock
<1> QED
    BY <1>1, <1>2, <1>3, PTL DEF PricesSpec
=============================================================================
