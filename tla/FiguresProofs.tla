--------------------------- MODULE FiguresProofs ---------------------------
(***************************************************************************)
(* What the figures of the books come to, for any cashiers, sales, materials,*)
(* discounts and calls: sums over finite sets, the profit share, the member's*)
(* points, the stock and its cost, and the price of a cart.                  *)
(***************************************************************************)
EXTENDS ProfitShare, MemberPoints, Inventory, Pricing, FiniteSetTheorems,
        SequenceTheorems, WellFoundedInduction, TLAPS

-----------------------------------------------------------------------------
(* Induction and sums *)

LEMMA LeastNumber == ASSUME NEW T \in SUBSET Nat, T # {} PROVE \E x \in T : \A y \in T : x <= y
<1> DEFINE R == OpToRel(<, Nat)
<1>1. IsWellFoundedOn(R, Nat)
    BY NatLessThanWellFounded, Zenon
<1>2. \A x, y \in Nat : x < y => <<x, y>> \in R
    BY DEF OpToRel
<1> HIDE DEF R
<1>3. PICK x \in T : \A y \in T : ~ (<<y, x>> \in R)
    BY <1>1, WFMin
<1>4. \A y \in T : ~ (y < x)
    BY <1>2, <1>3
<1>5. \A y \in T : x <= y
  <2> SUFFICES ASSUME NEW y \in T PROVE x <= y
    OBVIOUS
  <2>1. x \in Nat /\ y \in Nat
    OBVIOUS
  <2> QED
    BY <1>4, <2>1
<1> QED
    BY <1>5

\* Induction over the numbers, of a set instead of a predicate.
LEMMA UpFromZero ==
    ASSUME NEW G, 0 \in G, \A n \in Nat : n \in G => n + 1 \in G PROVE Nat \subseteq G
<1> SUFFICES ASSUME Nat \ G # {} PROVE FALSE
    OBVIOUS
<1>1. PICK n \in Nat \ G : \A k \in Nat \ G : n <= k
  <2>1. Nat \ G \in SUBSET Nat
    OBVIOUS
  <2> QED
    BY <2>1, LeastNumber
<1>2. n # 0 /\ n - 1 \in Nat /\ ~ (n <= n - 1) /\ (n - 1) + 1 = n
    OBVIOUS
<1>3. n - 1 \in G
    BY <1>1, <1>2
<1> QED
    BY <1>2, <1>3

\* Induction over the parts of a finite set.
LEMMA UpFromEmpty ==
    ASSUME NEW S, IsFiniteSet(S), NEW G, {} \in G,
           \A t \in SUBSET S : \A x \in S \ t : t \in G => t \cup {x} \in G
    PROVE  SUBSET S \subseteq G
<1> DEFINE H == {n \in Nat : \A t \in SUBSET S : Cardinality(t) = n => t \in G}
<1>1. \A t \in SUBSET S : IsFiniteSet(t) /\ Cardinality(t) \in Nat
    BY FS_Subset, FS_CardinalityType
<1>2. 0 \in H
  <2>1. \A t \in SUBSET S : Cardinality(t) = 0 => t = {}
    BY <1>1, FS_EmptySet
  <2> QED
    BY <2>1
<1>3. ASSUME NEW n \in Nat, n \in H PROVE n + 1 \in H
  <2> SUFFICES ASSUME NEW t \in SUBSET S, Cardinality(t) = n + 1 PROVE t \in G
    OBVIOUS
  <2>1. t # {}
    BY FS_EmptySet
  <2>2. PICK x : x \in t
    BY <2>1
  <2>3. Cardinality(t \ {x}) = n
    <3>1. IsFiniteSet(t)
      BY <1>1
    <3>2. Cardinality(t \ {x}) = Cardinality(t) - 1
      BY <3>1, <2>2, FS_RemoveElement
    <3> QED
      BY <3>2
  <2>4. t \ {x} \in G
    BY <2>3, <1>3
  <2>5. (t \ {x}) \cup {x} = t /\ x \in S \ (t \ {x}) /\ t \ {x} \in SUBSET S
    BY <2>2
  <2> QED
    BY <2>4, <2>5
<1> HIDE DEF H
<1>4. Nat \subseteq H
    BY <1>2, <1>3, UpFromZero
<1> QED
    BY <1>1, <1>4 DEF H

SumIter(f, S) ==
    CHOOSE iter : iter = [s \in SUBSET S |->
        IF s = {} THEN 0
        ELSE f[CHOOSE x \in s : TRUE] + iter[s \ {CHOOSE x \in s : TRUE}]]

LEMMA SumByIter == \A f, S : SumFunctionOnSet(f, S) = SumIter(f, S)[S]
BY DEF SumFunctionOnSet, FoldFunctionOnSet, MapThenFoldSet, SumIter

\* The same function, on the parts with n elements at most.
IterUpTo(f, S, n, g) ==
    g = [s \in {u \in SUBSET S : Cardinality(u) <= n} |->
            IF s = {} THEN 0
            ELSE f[CHOOSE x \in s : TRUE] + g[s \ {CHOOSE x \in s : TRUE}]]

LEMMA IterUpToExists ==
    ASSUME NEW S, IsFiniteSet(S), NEW f PROVE \A n \in Nat : \E g : IterUpTo(f, S, n, g)
<1>1. \A t \in SUBSET S : IsFiniteSet(t) /\ Cardinality(t) \in Nat
    BY FS_Subset, FS_CardinalityType
<1> DEFINE G == {n \in Nat : \E g : IterUpTo(f, S, n, g)}
<1>2. 0 \in G
  <2> DEFINE g == [s \in {u \in SUBSET S : Cardinality(u) <= 0} |-> 0]
  <2>1. \A s \in SUBSET S : Cardinality(s) <= 0 => s = {}
    BY <1>1, FS_EmptySet
  <2>2. IterUpTo(f, S, 0, g)
    BY <2>1 DEF IterUpTo
  <2> QED
    BY <2>2
<1>3. ASSUME NEW n \in Nat, n \in G PROVE n + 1 \in G
  <2>1. PICK g : IterUpTo(f, S, n, g)
    BY <1>3
  <2> DEFINE Small == {u \in SUBSET S : Cardinality(u) <= n}
             Large == {u \in SUBSET S : Cardinality(u) <= n + 1}
             c(s) == CHOOSE x \in s : TRUE
             h == [s \in Large |-> IF s = {} THEN 0 ELSE f[c(s)] + g[s \ {c(s)}]]
  <2>2. \A s \in Large : s # {} => s \ {c(s)} \in Small
    <3> SUFFICES ASSUME NEW s \in Large, s # {} PROVE s \ {c(s)} \in Small
      OBVIOUS
    <3>1. c(s) \in s
      OBVIOUS
    <3>2. IsFiniteSet(s) /\ Cardinality(s) \in Nat /\ Cardinality(s) <= n + 1
      BY <1>1
    <3> HIDE DEF c
    <3>3. Cardinality(s \ {c(s)}) = Cardinality(s) - 1
      BY <3>1, <3>2, FS_RemoveElement
    <3> QED
      BY <3>2, <3>3
  <2>3. \A s \in Small : h[s] = g[s] /\ s \in Large
    <3> SUFFICES ASSUME NEW s \in Small PROVE h[s] = g[s] /\ s \in Large
      OBVIOUS
    <3>1. s \in Large
      BY <1>1
    <3>2. g[s] = IF s = {} THEN 0 ELSE f[c(s)] + g[s \ {c(s)}]
      BY <2>1 DEF IterUpTo
    <3> QED
      BY <3>1, <3>2
  <2>4. h = [s \in Large |-> IF s = {} THEN 0 ELSE f[c(s)] + h[s \ {c(s)}]]
    <3> HIDE DEF h, c, Small
    <3>1. \A s \in Large : s # {} => h[s \ {c(s)}] = g[s \ {c(s)}]
      BY <2>2, <2>3
    <3> QED
      BY <3>1 DEF h
  <2>5. IterUpTo(f, S, n + 1, h)
    BY <2>4 DEF IterUpTo
  <2> QED
    BY <2>5
<1> HIDE DEF G
<1>4. Nat \subseteq G
    BY <1>2, <1>3, UpFromZero
<1> QED
    BY <1>4 DEF G

LEMMA SumIterIs ==
    ASSUME NEW S, IsFiniteSet(S), NEW f
    PROVE  /\ SumIter(f, S)[{}] = 0
           /\ \A s \in SUBSET S : s # {} =>
                 SumIter(f, S)[s] = f[CHOOSE x \in s : TRUE]
                                      + SumIter(f, S)[s \ {CHOOSE x \in s : TRUE}]
<1>1. \A t \in SUBSET S : Cardinality(t) <= Cardinality(S)
    BY FS_Subset
<1>2. PICK g : IterUpTo(f, S, Cardinality(S), g)
    BY IterUpToExists, FS_CardinalityType
<1>3. g = [s \in SUBSET S |-> IF s = {} THEN 0
              ELSE f[CHOOSE x \in s : TRUE] + g[s \ {CHOOSE x \in s : TRUE}]]
  <2>1. {u \in SUBSET S : Cardinality(u) <= Cardinality(S)} = SUBSET S
    BY <1>1
  <2> QED
    BY <1>2, <2>1 DEF IterUpTo
<1>4. SumIter(f, S) = [s \in SUBSET S |-> IF s = {} THEN 0
              ELSE f[CHOOSE x \in s : TRUE] + SumIter(f, S)[s \ {CHOOSE x \in s : TRUE}]]
    BY <1>3 DEF SumIter
<1> QED
    BY <1>4

\* Of parts of a finite set, one has none of the others in it.
LEMMA SmallestPart ==
    ASSUME NEW S, IsFiniteSet(S), NEW B \in SUBSET (SUBSET S), B # {}
    PROVE  \E s \in B : \A t \in SUBSET s : t # s => t \notin B
<1> DEFINE sizes == {Cardinality(s) : s \in B}
<1>1. \A s \in SUBSET S : IsFiniteSet(s) /\ Cardinality(s) \in Nat
    BY FS_Subset, FS_CardinalityType
<1>2. sizes \in SUBSET Nat /\ sizes # {}
    BY <1>1
<1> HIDE DEF sizes
<1>3. PICK n \in sizes : \A k \in sizes : n <= k
    BY <1>2, LeastNumber
<1> USE DEF sizes
<1>4. PICK s \in B : Cardinality(s) = n
    BY <1>3
<1>5. ASSUME NEW t \in SUBSET s, t # s, t \in B PROVE FALSE
  <2>1. IsFiniteSet(s) /\ Cardinality(s) \in Nat /\ Cardinality(t) \in Nat
    BY <1>1
  <2>2. Cardinality(t) <= Cardinality(s) /\ Cardinality(t) # Cardinality(s)
    BY <2>1, <1>5, FS_Subset
  <2>3. n <= Cardinality(t)
    BY <1>3, <1>5
  <2> QED
    BY <2>1, <2>2, <2>3, <1>4
<1> QED
    BY <1>5

\* The sum does not depend on the order, nor on what else the function has.
LEMMA SumIterSum ==
    ASSUME NEW S, IsFiniteSet(S), NEW f, \A x \in S : f[x] \in Int
    PROVE  \A s \in SUBSET S :
              /\ SumIter(f, S)[s] \in Int
              /\ \A x \in s : SumIter(f, S)[s] = f[x] + SumIter(f, S)[s \ {x}]
<1> DEFINE I == SumIter(f, S)
           Good(s) == I[s] \in Int /\ \A x \in s : I[s] = f[x] + I[s \ {x}]
           B == {s \in SUBSET S : ~Good(s)}
           c(s) == CHOOSE x \in s : TRUE
<1>1. I[{}] = 0 /\ \A s \in SUBSET S : s # {} => I[s] = f[c(s)] + I[s \ {c(s)}]
    BY SumIterIs
<1>2. \A s : s # {} => c(s) \in s
    OBVIOUS
<1> HIDE DEF I, c
<1>3. Good({})
    BY <1>1
<1>4. SUFFICES ASSUME B # {} PROVE FALSE
    BY DEF I
<1> HIDE DEF B
<1>5. PICK s \in B : \A t \in SUBSET s : t # s => t \notin B
  <2>1. B \in SUBSET (SUBSET S)
    BY DEF B
  <2> QED
    BY <1>4, <2>1, SmallestPart
<1> USE DEF B
<1>6. s # {} /\ s \in SUBSET S /\ c(s) \in s
    BY <1>3, <1>2
<1>7. \A t \in SUBSET s : t # s => Good(t)
    BY <1>5
<1>8. I[s] = f[c(s)] + I[s \ {c(s)}] /\ f[c(s)] \in Int /\ I[s \ {c(s)}] \in Int
  <2>1. Good(s \ {c(s)})
    BY <1>6, <1>7
  <2> QED
    BY <1>1, <1>6, <2>1
<1>9. ASSUME NEW x \in s PROVE I[s] = f[x] + I[s \ {x}]
  <2>1. CASE x = c(s)
    BY <2>1, <1>8
  <2>2. CASE x # c(s)
    <3>1. /\ Good(s \ {c(s)}) /\ Good(s \ {x}) /\ Good((s \ {c(s)}) \ {x})
          /\ x \in s \ {c(s)} /\ c(s) \in s \ {x}
      BY <1>6, <1>7, <2>2
    <3>2. I[s \ {c(s)}] = f[x] + I[(s \ {c(s)}) \ {x}]
      BY <3>1
    <3>3. I[s \ {x}] = f[c(s)] + I[(s \ {x}) \ {c(s)}]
      BY <3>1
    <3>4. (s \ {x}) \ {c(s)} = (s \ {c(s)}) \ {x}
      OBVIOUS
    <3> DEFINE rest == I[(s \ {c(s)}) \ {x}]
    <3>5. f[x] \in Int /\ f[c(s)] \in Int /\ rest \in Int
      BY <3>1, <1>6
    <3>6. I[s] = f[c(s)] + (f[x] + rest) /\ f[x] + I[s \ {x}] = f[x] + (f[c(s)] + rest)
      BY <3>2, <3>3, <3>4, <1>8
    <3> HIDE DEF rest
    <3> QED
      BY <3>5, <3>6
  <2> QED
    BY <2>1, <2>2
<1>10. Good(s)
  <2>1. I[s] \in Int
    BY <1>8
  <2> QED
    BY <2>1, <1>9
<1> QED
    BY <1>10, <1>5

LEMMA SumItersAgree ==
    ASSUME NEW S, IsFiniteSet(S), NEW f, NEW T, IsFiniteSet(T), NEW g,
           NEW U \in SUBSET (S \cap T), \A x \in U : f[x] = g[x]
    PROVE  SumIter(f, S)[U] = SumIter(g, T)[U]
<1> DEFINE I == SumIter(f, S)
           J == SumIter(g, T)
           B == {s \in SUBSET U : I[s] # J[s]}
           c(s) == CHOOSE x \in s : TRUE
<1>1. I[{}] = 0 /\ \A s \in SUBSET S : s # {} => I[s] = f[c(s)] + I[s \ {c(s)}]
    BY SumIterIs
<1>2. J[{}] = 0 /\ \A s \in SUBSET T : s # {} => J[s] = g[c(s)] + J[s \ {c(s)}]
    BY SumIterIs
<1>3. \A s : s # {} => c(s) \in s
    OBVIOUS
<1> HIDE DEF I, J, c
<1>4. SUFFICES ASSUME B # {} PROVE FALSE
    BY DEF I, J
<1>5. IsFiniteSet(U) /\ B \in SUBSET (SUBSET U)
    BY FS_Subset
<1> HIDE DEF B
<1>6. PICK s \in B : \A t \in SUBSET s : t # s => t \notin B
    BY <1>4, <1>5, SmallestPart
<1>7. s \in SUBSET U /\ I[s] # J[s] /\ s # {}
    BY <1>1, <1>2 DEF B
<1>8. c(s) \in s /\ s \ {c(s)} \in SUBSET s /\ s \ {c(s)} # s /\ s \ {c(s)} \in SUBSET U
    BY <1>3, <1>7
<1>9. I[s \ {c(s)}] = J[s \ {c(s)}]
    BY <1>6, <1>8 DEF B
<1>10. f[c(s)] = g[c(s)]
    BY <1>7, <1>8
<1> QED
    BY <1>1, <1>2, <1>7, <1>9, <1>10

-----------------------------------------------------------------------------
(* What the proofs use of a sum. *)

LEMMA SumOfNothing == \A f : SumFunctionOnSet(f, {}) = 0
BY SumByIter, SumIterIs, FS_EmptySet

LEMMA SumOfNumbers ==
    ASSUME NEW S, IsFiniteSet(S), NEW f, \A x \in S : f[x] \in Int
    PROVE  /\ SumFunctionOnSet(f, S) \in Int
           /\ \A x \in S : SumFunctionOnSet(f, S) = f[x] + SumFunctionOnSet(f, S \ {x})
<1>1. SumFunctionOnSet(f, S) \in Int
    BY SumByIter, SumIterSum
<1>2. ASSUME NEW x \in S PROVE SumFunctionOnSet(f, S) = f[x] + SumFunctionOnSet(f, S \ {x})
  <2>1. SumIter(f, S)[S] = f[x] + SumIter(f, S)[S \ {x}]
    BY SumIterSum
  <2>2. IsFiniteSet(S \ {x})
    BY FS_Subset
  <2>3. SumIter(f, S)[S \ {x}] = SumIter(f, S \ {x})[S \ {x}]
    BY <2>2, SumItersAgree
  <2> QED
    BY <2>1, <2>3, SumByIter
<1> QED
    BY <1>1, <1>2

LEMMA SumsAgree ==
    ASSUME NEW S, IsFiniteSet(S), NEW f, NEW g, \A x \in S : f[x] = g[x]
    PROVE  SumFunctionOnSet(f, S) = SumFunctionOnSet(g, S)
BY SumByIter, SumItersAgree

LEMMA SumOfOneOther ==
    ASSUME NEW S, IsFiniteSet(S), NEW f, \A x \in S : f[x] \in Int, NEW y \in S, NEW g, g[y] \in Int,
           \A x \in S \ {y} : g[x] = f[x]
    PROVE  SumFunctionOnSet(g, S) = SumFunctionOnSet(f, S) - f[y] + g[y]
<1>1. IsFiniteSet(S \ {y})
    BY FS_Subset
<1>2. SumFunctionOnSet(g, S \ {y}) = SumFunctionOnSet(f, S \ {y})
    BY <1>1, SumsAgree
<1>3. SumFunctionOnSet(f, S \ {y}) \in Int
    BY <1>1, SumOfNumbers
<1>4. SumFunctionOnSet(f, S) = f[y] + SumFunctionOnSet(f, S \ {y})
    BY SumOfNumbers
<1>5. \A x \in S : g[x] \in Int
    OBVIOUS
<1>6. SumFunctionOnSet(g, S) = g[y] + SumFunctionOnSet(g, S \ {y})
    BY <1>5, SumOfNumbers
<1>7. f[y] \in Int
    OBVIOUS
<1> QED
    BY <1>2, <1>3, <1>4, <1>6, <1>7

LEMMA SumOverMore ==
    ASSUME NEW S, IsFiniteSet(S), NEW f, \A x \in S : f[x] \in Int, NEW t \in SUBSET S, NEW x \in S \ t
    PROVE  /\ SumFunctionOnSet(f, t) \in Int /\ f[x] \in Int
           /\ SumFunctionOnSet(f, t \cup {x}) = f[x] + SumFunctionOnSet(f, t)
<1>1. IsFiniteSet(t) /\ IsFiniteSet(t \cup {x})
    BY FS_Subset
<1>2. SumFunctionOnSet(f, t) \in Int
    BY <1>1, SumOfNumbers
<1>3. (t \cup {x}) \ {x} = t /\ x \in t \cup {x} /\ \A y \in t \cup {x} : f[y] \in Int
    OBVIOUS
<1>4. SumFunctionOnSet(f, t \cup {x}) = f[x] + SumFunctionOnSet(f, (t \cup {x}) \ {x})
    BY <1>1, <1>3, SumOfNumbers
<1> QED
    BY <1>2, <1>3, <1>4

LEMMA SumLeavesOutNothing ==
    ASSUME NEW S, IsFiniteSet(S), NEW f, \A x \in S : f[x] \in Int, NEW T \in SUBSET S,
           \A x \in S \ T : f[x] = 0
    PROVE  SumFunctionOnSet(f, S) = SumFunctionOnSet(f, T)
<1> DEFINE G == {t \in SUBSET S : SumFunctionOnSet(f, t) = SumFunctionOnSet(f, t \cap T)}
<1>1. {} \in G
  <2>1. {} \cap T = {}
    OBVIOUS
  <2> QED
    BY <2>1
<1>2. ASSUME NEW t \in SUBSET S, NEW x \in S \ t, t \in G PROVE t \cup {x} \in G
  <2>1. SumFunctionOnSet(f, t \cup {x}) = f[x] + SumFunctionOnSet(f, t) /\ SumFunctionOnSet(f, t) \in Int
    BY SumOverMore
  <2>2. CASE x \in T
    <3>1. t \cap T \in SUBSET S /\ x \in S \ (t \cap T) /\ (t \cup {x}) \cap T = (t \cap T) \cup {x}
      BY <2>2
    <3>2. SumFunctionOnSet(f, (t \cap T) \cup {x}) = f[x] + SumFunctionOnSet(f, t \cap T)
      BY <3>1, SumOverMore
    <3> QED
      BY <3>1, <3>2, <2>1, <1>2
  <2>3. CASE x \notin T
    <3>1. (t \cup {x}) \cap T = t \cap T /\ f[x] = 0
      BY <2>3
    <3>2. SumFunctionOnSet(f, t \cup {x}) = SumFunctionOnSet(f, t)
      BY <3>1, <2>1
    <3> QED
      BY <3>1, <3>2, <1>2
  <2> QED
    BY <2>2, <2>3
<1> HIDE DEF G
<1>3. S \in G
    BY <1>1, <1>2, UpFromEmpty
<1>4. S \cap T = T
    OBVIOUS
<1> QED
    BY <1>3, <1>4 DEF G

\* y / x is w / b but for a rounding.
IsRounded(y, x, b, w) == -b <= 2 * (b * y - w * x) /\ 2 * (b * y - w * x) <= b

\* What the roundings of parts may add up to.
LEMMA SumOfRoundings ==
    ASSUME NEW S, IsFiniteSet(S), NEW f, \A x \in S : f[x] \in Int, NEW g, \A x \in S : g[x] \in Int,
           NEW b \in Nat, NEW w \in Int,
           \A x \in S : IsRounded(f[x], g[x], b, w)
    PROVE  LET off == 2 * (b * SumFunctionOnSet(f, S) - w * SumFunctionOnSet(g, S))
           IN  -(b * Cardinality(S)) <= off /\ off <= b * Cardinality(S)
<1> DEFINE off(t) == 2 * (b * SumFunctionOnSet(f, t) - w * SumFunctionOnSet(g, t))
           Close(t) == -(b * Cardinality(t)) <= off(t) /\ off(t) <= b * Cardinality(t)
           G == {t \in SUBSET S : Close(t)}
<1>1. {} \in G
    BY SumOfNothing, FS_EmptySet
<1> HIDE DEF G, Close
<1>2. \A t \in SUBSET S : \A x \in S \ t :
         /\ SumFunctionOnSet(f, t) \in Int /\ f[x] \in Int
         /\ SumFunctionOnSet(f, t \cup {x}) = f[x] + SumFunctionOnSet(f, t)
  <2> HIDE DEF off
  <2> QED
    BY SumOverMore
<1>3. \A t \in SUBSET S : \A x \in S \ t :
         /\ SumFunctionOnSet(g, t) \in Int /\ g[x] \in Int
         /\ SumFunctionOnSet(g, t \cup {x}) = g[x] + SumFunctionOnSet(g, t)
  <2> HIDE DEF off
  <2> QED
    BY SumOverMore
<1>4. ASSUME NEW t \in SUBSET S, NEW x \in S \ t, t \in G PROVE t \cup {x} \in G
  <2>1. IsFiniteSet(t) /\ Cardinality(t) \in Nat
    BY FS_Subset, FS_CardinalityType
  <2>2. Cardinality(t \cup {x}) = Cardinality(t) + 1
    BY <2>1, FS_AddElement
  <2>3. /\ SumFunctionOnSet(f, t) \in Int /\ f[x] \in Int
        /\ SumFunctionOnSet(f, t \cup {x}) = f[x] + SumFunctionOnSet(f, t)
    BY <1>2
  <2>4. /\ SumFunctionOnSet(g, t) \in Int /\ g[x] \in Int
        /\ SumFunctionOnSet(g, t \cup {x}) = g[x] + SumFunctionOnSet(g, t)
    BY <1>3
  <2> DEFINE n == Cardinality(t)
             F == SumFunctionOnSet(f, t)
             E == SumFunctionOnSet(g, t)
             y == f[x]
             z == g[x]
  <2>5. off(t \cup {x}) = 2 * (b * (y + F) - w * (z + E))
    BY <2>3, <2>4
  <2>6. n \in Nat /\ F \in Int /\ E \in Int /\ y \in Int /\ z \in Int
    BY <2>1, <2>3, <2>4
  <2>7. -(b * n) <= 2 * (b * F - w * E) /\ 2 * (b * F - w * E) <= b * n
    BY <1>4 DEF G, Close
  <2>8. -b <= 2 * (b * y - w * z) /\ 2 * (b * y - w * z) <= b
    BY DEF IsRounded
  <2>9. Close(t \cup {x}) <=> /\ -(b * (n + 1)) <= 2 * (b * (y + F) - w * (z + E))
                              /\ 2 * (b * (y + F) - w * (z + E)) <= b * (n + 1)
    BY <2>2, <2>5 DEF Close
  <2> HIDE DEF n, F, E, y, z, off
  <2>10. /\ b * (n + 1) = b * n + b
         /\ 2 * (b * (y + F) - w * (z + E)) = 2 * (b * y - w * z) + 2 * (b * F - w * E)
    BY <2>6
  <2>11. b * n \in Int /\ 2 * (b * y - w * z) \in Int /\ 2 * (b * F - w * E) \in Int
    BY <2>6
  <2>12. Close(t \cup {x})
    BY <2>7, <2>8, <2>9, <2>10, <2>11
  <2> QED
    BY <2>12 DEF G
<1>5. S \in G
    BY <1>1, <1>4, UpFromEmpty
<1> QED
    BY <1>5 DEF G, Close

LEMMA SumOfNaturals ==
    ASSUME NEW S, IsFiniteSet(S), NEW f, \A x \in S : f[x] \in Nat
    PROVE  SumFunctionOnSet(f, S) \in Nat
<1> DEFINE G == {t \in SUBSET S : SumFunctionOnSet(f, t) \in Nat}
<1>1. {} \in G
    BY SumOfNothing
<1>2. ASSUME NEW t \in SUBSET S, NEW x \in S \ t, t \in G PROVE t \cup {x} \in G
  <2>1. \A y \in S : f[y] \in Int
    OBVIOUS
  <2>2. SumFunctionOnSet(f, t \cup {x}) = f[x] + SumFunctionOnSet(f, t)
    BY <2>1, SumOverMore
  <2>3. f[x] \in Nat /\ SumFunctionOnSet(f, t) \in Nat
    BY <1>2
  <2> QED
    BY <2>2, <2>3
<1> HIDE DEF G
<1>3. S \in G
    BY <1>1, <1>2, UpFromEmpty
<1> QED
    BY <1>3 DEF G

LEMMA SumOfNothings ==
    ASSUME NEW S, IsFiniteSet(S), NEW f, \A x \in S : f[x] = 0 PROVE SumFunctionOnSet(f, S) = 0
<1>1. SumFunctionOnSet(f, S) = SumFunctionOnSet(f, {})
    BY SumLeavesOutNothing
<1> QED
    BY <1>1, SumOfNothing

-----------------------------------------------------------------------------
(* The profit share *)

\* Math.round is at most half a unit away.
LEMMA RoundedIsNear ==
    ASSUME NEW a \in Int, NEW b \in Nat, b > 0
    PROVE  Rounded(a, b) \in Int /\ -b <= 2 * (b * Rounded(a, b) - a) /\ 2 * (b * Rounded(a, b) - a) <= b
<1> DEFINE q == Rounded(a, b)
<1>1. q = (2 * a + b) \div (2 * b) /\ 2 * a + b \in Int /\ 2 * b \in Int /\ 2 * b > 0
    BY DEF Rounded
<1>2. q \in Int /\ (2 * b) * q <= 2 * a + b /\ 2 * a + b < (2 * b) * q + 2 * b
    BY <1>1
<1> HIDE DEF q
<1>3. b * q \in Int /\ (2 * b) * q = 2 * (b * q)
    BY <1>2
<1>4. -b <= 2 * (b * q - a) /\ 2 * (b * q - a) <= b
    BY <1>2, <1>3
<1> QED
    BY <1>2, <1>4 DEF q

LEMMA ShareIsANumber ==
    ASSUME NEW net \in Int
    PROVE  /\ CashierShare(net) \in Nat
           /\ net > 0 => CashierShare(net) = 2 * net
BY DEF CashierShare

\* What is shared out is a whole number half a rupiah away at most.
LEMMA SharedOutIsNear ==
    ASSUME NEW share \in Int
    PROVE  /\ ToShareOut(share) \in Int
           /\ -5 <= 2 * (5 * ToShareOut(share) - share)
           /\ 2 * (5 * ToShareOut(share) - share) <= 5
BY RoundedIsNear DEF ToShareOut

\* The log is of the call that made it and has its figures; that call alone may be
\* about to insert the details, and only of a profit.
LogIsOfACall ==
    /\ log # NoLog =>
          /\ closing[log.by].at \in {"details", "done"}
          /\ log.revenue = closing[log.by].revenue /\ log.net = closing[log.by].net
          /\ log.share = CashierShare(log.net)
    /\ \A k \in Closings : /\ closing[k].at # "idle" => closing[k].revenue > 0
                           /\ closing[k].at = "details" => log # NoLog /\ log.by = k /\ log.net > 0
    /\ DOMAIN detail # {} => log # NoLog /\ log.net > 0

\* The calls whose figures are still those of the books.
FiguresStand ==
    \A k \in current : /\ closing[k].at # "idle"
                       /\ closing[k].revenue = Revenue /\ closing[k].net = Revenue - costs

\* A period closed with a profit has its details, will have them, or has lost them.
DetailsFollow ==
    log.net > 0 =>
       \/ closing[log.by].at = "details" \/ broken \/ DOMAIN detail # {}
       \/ log.by \in current => Listed = {}

PaysFollow ==
    /\ paying # {} => log # NoLog
    /\ ~overlap => /\ \A p, q \in paying : p = q
                   /\ paying # {} => log.paid = 0
                   /\ log.paid <= 1

ShareInv ==
    ShareTypeOK /\ LogIsOfACall /\ FiguresStand /\ DetailsFollow /\ PaysFollow /\ DetailsAddUp /\ RestIsRounding

LogRow == [revenue: Nat, net: Int, share: Nat, paid: Nat, by: Closings]

LEMMA ShareStarts == ShareInit => ShareInv
<1> SUFFICES ASSUME ShareInit PROVE ShareInv
    OBVIOUS
<1>1. DOMAIN detail = {} /\ detail \in [{} -> Int]
    BY DEF ShareInit
<1>2. ShareTypeOK
  <2>1. \E paid \in SUBSET Sellers : detail \in [paid -> Int]
    BY <1>1
  <2>2. closing \in [Closings -> [at: {"idle", "look", "insert", "details", "done"},
                                  revenue: Nat, net: Int]]
    BY DEF ShareInit, NotClosing
  <2> QED
    BY <2>1, <2>2 DEF ShareInit, ShareTypeOK
<1>3. LogIsOfACall /\ FiguresStand /\ DetailsFollow /\ PaysFollow
    BY <1>1 DEF ShareInit, LogIsOfACall, FiguresStand, DetailsFollow, PaysFollow, NoLog, NotClosing
<1>4. DetailsAddUp /\ RestIsRounding
    BY <1>1 DEF DetailsAddUp, RestIsRounding
<1> QED
    BY <1>2, <1>3, <1>4 DEF ShareInv

ClosingRow == [at: {"idle", "look", "insert", "details", "done"}, revenue: Nat, net: Int]

\* What a cashier sold is a number.
LEMMA SalesAreNumbers ==
    ASSUME ShareTypeOK, NEW c \in Sellers
    PROVE  books[c].inShift \in Nat /\ books[c].stray \in Nat /\ Sold(c) \in Nat
<1>1. books[c] \in Books
    BY DEF ShareTypeOK
<1>2. books[c].inShift \in Amounts /\ books[c].stray \in Strays
    BY <1>1 DEF Books
<1>3. Amounts \subseteq Nat /\ Strays \subseteq Nat
    BY ShareAssumption
<1>4. books[c].inShift \in Nat /\ books[c].stray \in Nat
    BY <1>2, <1>3
<1> QED
    BY <1>4 DEF Sold

LEMMA RevenueIsANumber == ASSUME ShareTypeOK PROVE Revenue \in Int
<1> DEFINE F == [c \in Sellers |-> books[c].inShift]
<1>1. \A c \in Sellers : F[c] \in Int
    BY SalesAreNumbers
<1>2. DOMAIN F = Sellers /\ IsFiniteSet(Sellers)
    BY ShareAssumption
<1> HIDE DEF F
<1>3. SumFunctionOnSet(F, Sellers) \in Int
    BY <1>1, <1>2, SumOfNumbers
<1> QED
    BY <1>2, <1>3 DEF F, Revenue, SumFunction

\* What is not in the books stays as it was computed.
LEMMA BooksStay ==
    ASSUME books' = books
    PROVE  Revenue' = Revenue /\ Listed' = Listed /\ \A c : Sold(c)' = Sold(c)
BY DEF Revenue, Listed, Sold

LEMMA RestStays ==
    ASSUME RestIsRounding, books' = books, detail' = detail, log'.revenue = log.revenue,
           log'.net = log.net, log'.by = log.by, log.by \in current' => log.by \in current
    PROVE  RestIsRounding'
BY DEF RestIsRounding, Sold

\* A call goes on, and neither the books nor what was written changes.
LEMMA CallGoesOn ==
    ASSUME ShareInv, NEW k \in Closings, NEW at \in {"look", "insert", "done"}, GoOn(k, at),
           closing[k].at \in {"look", "insert"},
           UNCHANGED <<books, costs, log, detail, paying, current, broken, overlap>>
    PROVE  ShareInv'
<1>1. closing[k] \in ClosingRow /\ closing[k].revenue > 0
    BY DEF ShareInv, ShareTypeOK, LogIsOfACall, ClosingRow
<1>2. closing' = [closing EXCEPT ![k] = [closing[k] EXCEPT !.at = at]]
    BY DEF GoOn
<1>3. [closing[k] EXCEPT !.at = at] \in ClosingRow
    BY <1>1 DEF ClosingRow
<1>4. ShareTypeOK'
    BY <1>2, <1>3 DEF ShareInv, ShareTypeOK, ClosingRow
<1>5. LogIsOfACall'
    BY <1>1, <1>2 DEF ShareInv, ShareTypeOK, LogIsOfACall
<1>6. FiguresStand'
    BY <1>1, <1>2, BooksStay DEF ShareInv, ShareTypeOK, FiguresStand
<1>7. DetailsFollow'
    BY <1>1, <1>2, BooksStay DEF ShareInv, ShareTypeOK, DetailsFollow
<1>8. PaysFollow' /\ DetailsAddUp'
    BY DEF ShareInv, PaysFollow, DetailsAddUp
<1>9. RestIsRounding'
    BY RestStays DEF ShareInv
<1> QED
    BY <1>4, <1>5, <1>6, <1>7, <1>8, <1>9 DEF ShareInv

LEMMA ComputeKeeps ==
    ASSUME ShareInv, NEW k \in Closings, Compute(k) PROVE ShareInv'
<1> DEFINE row == [at |-> "look", revenue |-> Revenue, net |-> Revenue - costs]
<1>1. closing' = [closing EXCEPT ![k] = row] /\ closing[k].at = "idle"
    BY DEF Compute
<1>2. UNCHANGED <<books, costs, log, detail, paying, broken, overlap>> /\ current' = current \cup {k}
    BY DEF Compute
<1>3. Revenue \in Int /\ Revenue > 0 /\ costs \in Int
    BY RevenueIsANumber, ShareAssumption DEF ShareInv, ShareTypeOK, Compute
<1>4. row \in ClosingRow
    BY <1>3 DEF ClosingRow
<1>5. ShareTypeOK'
    BY <1>1, <1>2, <1>4 DEF ShareInv, ShareTypeOK, ClosingRow
<1>6. log = NoLog \/ log.by # k
    BY <1>1 DEF ShareInv, LogIsOfACall
<1>7. LogIsOfACall'
    BY <1>1, <1>2, <1>3, <1>6 DEF ShareInv, ShareTypeOK, LogIsOfACall
<1>8. FiguresStand'
  <2>1. Revenue' = Revenue
    BY <1>2, BooksStay
  <2> HIDE DEF row
  <2> SUFFICES ASSUME NEW j \in current'
               PROVE  /\ closing'[j].at # "idle"
                      /\ closing'[j].revenue = Revenue /\ closing'[j].net = Revenue - costs
    BY <2>1, <1>2 DEF FiguresStand
  <2>2. CASE j = k
    BY <2>2, <1>1 DEF ShareInv, ShareTypeOK, row
  <2>3. CASE j # k
    BY <2>3, <1>1, <1>2 DEF ShareInv, ShareTypeOK, FiguresStand
  <2> QED
    BY <2>2, <2>3
<1>9. DetailsFollow'
  <2>1. Listed' = Listed
    BY <1>2, BooksStay
  <2>2. log.net > 0 => log # NoLog /\ log.by # k
    BY <1>6 DEF NoLog
  <2> HIDE DEF row
  <2> QED
    BY <2>1, <2>2, <1>1, <1>2 DEF ShareInv, ShareTypeOK, DetailsFollow
<1>10. PaysFollow' /\ DetailsAddUp'
    BY <1>2 DEF ShareInv, PaysFollow, DetailsAddUp
<1>11. RestIsRounding'
  <2>1. CASE log = NoLog
    <3>1. DOMAIN detail' = {}
      BY <1>2, <2>1 DEF ShareInv, LogIsOfACall
    <3> QED
      BY <3>1 DEF RestIsRounding
  <2>2. CASE log # NoLog
    BY <2>2, <1>2, <1>6, RestStays DEF ShareInv
  <2> QED
    BY <2>1, <2>2
<1> QED
    BY <1>5, <1>7, <1>8, <1>9, <1>10, <1>11 DEF ShareInv

LEMMA InsertLogKeeps ==
    ASSUME ShareInv, NEW k \in Closings, InsertLog(k) PROVE ShareInv'
<1>1. CASE log # NoLog
    BY <1>1, CallGoesOn DEF InsertLog
<1>2. CASE log = NoLog
  <2> DEFINE at == IF closing[k].net > 0 THEN "details" ELSE "done"
             row == [revenue |-> closing[k].revenue, net |-> closing[k].net,
                     share |-> CashierShare(closing[k].net), paid |-> 0, by |-> k]
  <2>1. closing[k] \in ClosingRow /\ closing[k].revenue > 0 /\ closing[k].at = "insert"
    BY DEF InsertLog, ShareInv, ShareTypeOK, LogIsOfACall, ClosingRow
  <2>2. log' = row /\ UNCHANGED <<books, costs, detail, paying, current, broken, overlap>>
    BY <1>2 DEF InsertLog
  <2>3. closing' = [closing EXCEPT ![k] = [closing[k] EXCEPT !.at = at]]
    BY <1>2 DEF InsertLog, GoOn
  <2>4. [closing[k] EXCEPT !.at = at] \in ClosingRow
    BY <2>1 DEF ClosingRow
  <2>5. row \in LogRow /\ row # NoLog
    <3>1. CashierShare(closing[k].net) \in Nat
      BY <2>1, ShareIsANumber DEF ClosingRow
    <3> QED
      BY <2>1, <3>1 DEF ClosingRow, LogRow, NoLog
  <2>6. DOMAIN detail = {} /\ paying = {}
    BY <1>2 DEF ShareInv, LogIsOfACall, PaysFollow
  <2>7. ShareTypeOK'
    BY <2>2, <2>3, <2>4, <2>5 DEF ShareInv, ShareTypeOK, LogRow, ClosingRow
  <2>8. LogIsOfACall'
    <3>1. \A j \in Closings : closing[j].at # "details"
      BY <1>2 DEF ShareInv, LogIsOfACall
    <3> QED
      BY <3>1, <2>1, <2>2, <2>3, <2>5, <2>6 DEF ShareInv, ShareTypeOK, LogIsOfACall
  <2>9. FiguresStand'
    BY <2>1, <2>2, <2>3, BooksStay DEF ShareInv, ShareTypeOK, FiguresStand
  <2>10. DetailsFollow'
    BY <2>1, <2>2, <2>3 DEF ShareInv, ShareTypeOK, DetailsFollow
  <2>11. PaysFollow'
    BY <2>2, <2>5, <2>6 DEF PaysFollow
  <2>12. DetailsAddUp' /\ RestIsRounding'
    BY <2>2, <2>6 DEF DetailsAddUp, RestIsRounding
  <2> QED
    BY <2>7, <2>8, <2>9, <2>10, <2>11, <2>12 DEF ShareInv
<1> QED
    BY <1>1, <1>2

\* The details of a profit, as the call inserts them.
LEMMA DetailsAreRight ==
    ASSUME ShareTypeOK, log # NoLog, log.revenue > 0, log.net > 0, log.share = CashierShare(log.net),
           NEW first \in Listed,
           NEW amount, amount = [c \in Listed |-> ShareAmount(c, log.revenue, log.net)]
    PROVE  LET shares == WithRest(amount, first, ToShareOut(log.share))
               R == log.revenue
               room == 5 * R * Cardinality(Listed)
               off(c) == 5 * R * shares[c] - 2 * log.net * Sold(c)
           IN  /\ shares \in [Listed -> Int]
               /\ SumFunction(shares) = ToShareOut(log.share)
               /\ R = SumFunctionOnSet([c \in Listed |-> Sold(c)], Listed) =>
                     \A c \in Listed : -room <= 2 * off(c) /\ 2 * off(c) <= room
<1> DEFINE share == ToShareOut(log.share)
           shares == WithRest(amount, first, share)
           R == log.revenue
           b == 5 * R
           w == 2 * log.net
           sold == [c \in Listed |-> Sold(c)]
<1>1. R \in Nat /\ R > 0 /\ log.net \in Int /\ b \in Nat /\ b > 0 /\ w \in Int
    BY DEF ShareTypeOK
<1>2. share \in Int
    BY <1>1, ShareIsANumber, SharedOutIsNear
<1>3. IsFiniteSet(Listed) /\ Listed \subseteq Sellers
    BY FS_Subset, ShareAssumption DEF Listed
<1>4. \A c \in Listed : Sold(c) \in Int
    BY <1>3, SalesAreNumbers
<1>5. \A c \in Listed : amount[c] \in Int /\ IsRounded(amount[c], Sold(c), b, w)
  <2> SUFFICES ASSUME NEW c \in Listed PROVE amount[c] \in Int /\ IsRounded(amount[c], Sold(c), b, w)
    OBVIOUS
  <2> DEFINE x == Sold(c)
  <2>1. amount[c] = Rounded(w * x, b) /\ x \in Int
    BY <1>4 DEF ShareAmount
  <2> HIDE DEF x, b, w
  <2>2. w * x \in Int
    BY <1>1, <2>1
  <2>3. Rounded(w * x, b) \in Int /\ IsRounded(Rounded(w * x, b), x, b, w)
    BY <2>2, <1>1, RoundedIsNear DEF IsRounded
  <2> QED
    BY <2>1, <2>3 DEF x
<1>6. DOMAIN amount = Listed /\ amount \in [Listed -> Int]
    BY <1>5
<1> DEFINE sum == SumFunctionOnSet(amount, Listed)
<1>7. sum \in Int
    BY <1>3, <1>5, SumOfNumbers
<1>8. shares = [amount EXCEPT ![first] = amount[first] + share - sum]
    BY <1>6 DEF WithRest, SumFunction
<1> HIDE DEF sum, share, shares, b, w
<1>9. shares \in [Listed -> Int] /\ DOMAIN shares = Listed
    BY <1>2, <1>6, <1>7, <1>8
<1>10. SumFunctionOnSet(shares, Listed) = share
  <2>1. shares[first] \in Int /\ \A c \in Listed \ {first} : shares[c] = amount[c]
    BY <1>6, <1>8, <1>9
  <2>2. SumFunctionOnSet(shares, Listed) = sum - amount[first] + shares[first]
    BY <2>1, <1>3, <1>5, SumOfOneOther DEF sum
  <2>3. shares[first] = amount[first] + share - sum /\ amount[first] \in Int
    BY <1>6, <1>8
  <2> QED
    BY <2>2, <2>3, <1>2, <1>7
<1>11. SumFunction(shares) = share
    BY <1>9, <1>10 DEF SumFunction
<1>12. ASSUME R = SumFunctionOnSet(sold, Listed), NEW c \in Listed
       PROVE  LET room == b * Cardinality(Listed)
                  off == 2 * (b * shares[c] - w * Sold(c))
              IN  -room <= off /\ off <= room
  <2> DEFINE n == Cardinality(Listed)
  <2>1. n \in Nat /\ n > 0
    BY <1>3, FS_CardinalityType, FS_EmptySet
  <2> DEFINE others == Listed \ {first}
  <2>2. IsFiniteSet(others) /\ Cardinality(others) = n - 1
    BY <1>3, FS_RemoveElement
  <2>3. CASE c # first
    <3>1. shares[c] = amount[c] /\ IsRounded(amount[c], Sold(c), b, w)
      BY <1>5, <1>6, <1>8, <2>3
    <3>2. b * n \in Int /\ b <= b * n
      BY <1>1, <2>1
    <3>3. b * amount[c] - w * Sold(c) \in Int
      BY <1>1, <1>4, <1>5
    <3> QED
      BY <3>1, <3>2, <3>3, <1>1 DEF IsRounded
  <2>4. CASE c = first
    <3> DEFINE A == SumFunctionOnSet(amount, others)
               Z == SumFunctionOnSet(sold, others)
    <3>1. A \in Int /\ sum = amount[first] + A
      <4>1. \A x \in others : amount[x] \in Int
        BY <1>5
      <4> QED
        BY <4>1, <2>2, <1>3, <1>5, SumOfNumbers DEF sum
    <3>2. Z \in Int /\ R = Sold(first) + Z
      <4>1. \A x \in Listed : sold[x] \in Int
        BY <1>4
      <4>2. sold[first] = Sold(first) /\ \A x \in others : sold[x] \in Int
        BY <4>1
      <4> HIDE DEF sold
      <4>3. SumFunctionOnSet(sold, Listed) = sold[first] + Z
        BY <4>1, <1>3, SumOfNumbers
      <4> QED
        BY <4>2, <4>3, <2>2, <1>12, SumOfNumbers
    <3>3. /\ -(b * (n - 1)) <= 2 * (b * A - w * Z)
          /\ 2 * (b * A - w * Z) <= b * (n - 1)
      <4>1. \A x \in others : amount[x] \in Int /\ sold[x] \in Int /\ IsRounded(amount[x], sold[x], b, w)
        BY <1>4, <1>5
      <4> HIDE DEF sold, others, n
      <4> QED
        BY <4>1, <2>2, <1>1, SumOfRoundings
    <3>4. shares[c] = share - A
      BY <2>4, <3>1, <1>2, <1>6, <1>8
    <3>5. share \in Int /\ -5 <= 2 * (5 * share - w) /\ 2 * (5 * share - w) <= 5
      <4>1. w \in Int /\ share = Rounded(w, 5)
        BY <1>1, ShareIsANumber DEF ToShareOut, share, w
      <4> QED
        BY <4>1, RoundedIsNear
    <3> DEFINE x == Sold(first)
    <3>6. x \in Int
      BY <1>4
    <3> HIDE DEF A, Z, x, n, others
    <3>7. -b <= 2 * (b * share - w * R) /\ 2 * (b * share - w * R) <= b
      <4> DEFINE d == 2 * (5 * share - w)
      <4>1. d \in Int /\ -5 <= d /\ d <= 5
        BY <3>5, <1>1
      <4>2. 2 * (b * share - w * R) = R * d
        BY <3>5, <1>1 DEF b
      <4> HIDE DEF d
      <4>3. -(5 * R) <= R * d /\ R * d <= 5 * R
        BY <4>1, <1>1
      <4> QED
        BY <4>2, <4>3 DEF b
    <3>8. /\ b * (share - A) = b * share - b * A /\ w * R = w * x + w * Z
          /\ b * share \in Int /\ b * A \in Int /\ w * x \in Int /\ w * Z \in Int
          /\ b * (n - 1) = b * n - b /\ b * n \in Int
      BY <3>1, <3>2, <3>5, <3>6, <1>1, <2>1 DEF x
    <3>9. -(b * n) <= 2 * (b * (share - A) - w * x) /\ 2 * (b * (share - A) - w * x) <= b * n
      BY <3>3, <3>7, <3>8, <1>1
    <3> QED
      BY <3>4, <3>9, <2>4 DEF x, n
  <2> QED
    BY <2>3, <2>4
<1>13. ASSUME R = SumFunctionOnSet(sold, Listed)
       PROVE  LET room == 5 * R * Cardinality(Listed)
                  off(c) == 5 * R * shares[c] - 2 * log.net * Sold(c)
              IN  \A c \in Listed : -room <= 2 * off(c) /\ 2 * off(c) <= room
    BY <1>12, <1>13 DEF b, w
<1> QED
    BY <1>9, <1>11, <1>13 DEF share, shares

\* In a month of closed shifts, what the listed cashiers sold is the revenue.
LEMMA ListedSoldAll ==
    ASSUME ShareTypeOK, \A c \in Sellers : books[c].stray = 0 /\ books[c].closed
    PROVE  Revenue = SumFunctionOnSet([c \in Listed |-> Sold(c)], Listed)
<1> DEFINE all == [c \in Sellers |-> books[c].inShift]
           sold == [c \in Listed |-> Sold(c)]
<1>1. IsFiniteSet(Sellers) /\ IsFiniteSet(Listed) /\ Listed \in SUBSET Sellers
    BY FS_Subset, ShareAssumption DEF Listed
<1>2. \A c \in Sellers : all[c] \in Int /\ Sold(c) = all[c] /\ (c \notin Listed => all[c] = 0)
    BY SalesAreNumbers DEF Sold, Listed
<1>3. \A c \in Listed : all[c] = sold[c]
    BY <1>1, <1>2
<1>4. Revenue = SumFunctionOnSet(all, Sellers)
    BY DEF Revenue, SumFunction
<1> HIDE DEF all, sold
<1>5. SumFunctionOnSet(all, Sellers) = SumFunctionOnSet(all, Listed)
    BY <1>1, <1>2, SumLeavesOutNothing
<1>6. SumFunctionOnSet(all, Listed) = SumFunctionOnSet(sold, Listed)
    BY <1>1, <1>3, SumsAgree
<1> QED
    BY <1>4, <1>5, <1>6 DEF sold

LEMMA InsertDetailsKeeps ==
    ASSUME ShareInv, NEW k \in Closings, InsertDetails(k) PROVE ShareInv'
<1> DEFINE amount == [c \in Listed |-> ShareAmount(c, log.revenue, log.net)]
<1>1. /\ closing[k].at = "details" /\ closing' = [closing EXCEPT ![k] = [closing[k] EXCEPT !.at = "done"]]
      /\ UNCHANGED <<books, costs, log, paying, current, broken, overlap>>
    BY DEF InsertDetails, GoOn
<1>2. /\ closing[k] \in ClosingRow /\ log # NoLog /\ log.by = k /\ log.net > 0
      /\ log.revenue = closing[k].revenue /\ log.revenue > 0 /\ log.share = CashierShare(log.net)
    BY <1>1 DEF ShareInv, ShareTypeOK, LogIsOfACall, ClosingRow
<1>3. [closing[k] EXCEPT !.at = "done"] \in ClosingRow
    BY <1>2 DEF ClosingRow
<1>4. Listed' = Listed /\ Revenue' = Revenue
    BY <1>1, BooksStay
<1>5. PICK paid \in SUBSET Sellers : detail \in [paid -> Int]
    BY DEF ShareInv, ShareTypeOK
<1>6. LogIsOfACall' /\ FiguresStand' /\ PaysFollow'
  <2>1. LogIsOfACall'
    BY <1>1, <1>2 DEF ShareInv, ShareTypeOK, LogIsOfACall
  <2>2. FiguresStand'
    BY <1>1, <1>4 DEF ShareInv, ShareTypeOK, FiguresStand
  <2>3. PaysFollow'
    BY <1>1 DEF ShareInv, PaysFollow
  <2> QED
    BY <2>1, <2>2, <2>3
<1>7. CASE Listed = {}
  <2>1. detail' = detail
    BY <1>7 DEF InsertDetails
  <2>2. ShareTypeOK'
    BY <1>1, <1>3, <2>1 DEF ShareInv, ShareTypeOK, ClosingRow
  <2>3. DetailsFollow'
    BY <1>1, <1>4, <1>7 DEF DetailsFollow
  <2>4. DetailsAddUp' /\ RestIsRounding'
    BY <1>1, <2>1, RestStays DEF ShareInv, DetailsAddUp
  <2> QED
    BY <1>6, <2>2, <2>3, <2>4 DEF ShareInv
<1>8. CASE Listed # {}
  <2>1. PICK first \in Listed : detail' = WithRest(amount, first, ToShareOut(log.share))
    BY <1>8 DEF InsertDetails
  <2> DEFINE R == log.revenue
             room == 5 * R * Cardinality(Listed)
             off(c) == 5 * R * detail'[c] - 2 * log.net * Sold(c)
  <2>2. /\ detail' \in [Listed -> Int]
        /\ SumFunction(detail') = ToShareOut(log.share)
        /\ R = SumFunctionOnSet([c \in Listed |-> Sold(c)], Listed) =>
              \A c \in Listed : -room <= 2 * off(c) /\ 2 * off(c) <= room
    <3> DEFINE sum == SumFunctionOnSet([c \in Listed |-> Sold(c)], Listed)
    <3>1. ShareTypeOK
      BY DEF ShareInv
    <3> HIDE DEF amount
    <3>2. amount = [c \in Listed |-> ShareAmount(c, log.revenue, log.net)]
      BY DEF amount
    <3> QED
      BY <3>1, <3>2, <1>2, <2>1, DetailsAreRight
  <2>3. DOMAIN detail' = Listed /\ Listed \in SUBSET Sellers
    BY <2>2 DEF Listed
  <2>4. ShareTypeOK'
    <3>1. (\E p \in SUBSET Sellers : detail \in [p -> Int])'
      BY <2>2, <2>3
    <3> QED
      BY <3>1, <1>1, <1>3 DEF ShareInv, ShareTypeOK, ClosingRow
  <2>5. DetailsFollow'
    BY <1>8, <2>3 DEF DetailsFollow
  <2>6. DetailsAddUp'
    <3>1. log.share \in Int
      BY <1>2 DEF ShareInv, ShareTypeOK
    <3> QED
      BY <2>2, <1>1, <3>1, SharedOutIsNear DEF DetailsAddUp
  <2>7. RestIsRounding'
    <3>1. ASSUME log.by \in current, \A c \in Sellers : books[c].stray = 0 /\ books[c].closed
          PROVE  \A c \in Listed : -room <= 2 * off(c) /\ 2 * off(c) <= room
      <4>1. R = Revenue
        BY <3>1, <1>2 DEF ShareInv, FiguresStand
      <4>2. R = SumFunctionOnSet([c \in Listed |-> Sold(c)], Listed)
        BY <3>1, <4>1, ListedSoldAll DEF ShareInv
      <4> QED
        BY <4>2, <2>2
    <3>2. \A c : Sold(c)' = Sold(c)
      BY <1>1, BooksStay
    <3> QED
      BY <3>1, <3>2, <2>3, <1>1 DEF RestIsRounding
  <2> QED
    BY <1>6, <2>4, <2>5, <2>6, <2>7 DEF ShareInv
<1> QED
    BY <1>7, <1>8

LEMMA StopClosingKeeps ==
    ASSUME ShareInv, NEW k \in Closings, StopClosing(k) PROVE ShareInv'
<1>1. CASE closing[k].at # "details"
  <2>1. broken' = broken
    BY <1>1 DEF StopClosing, ShareInv, ShareTypeOK
  <2> QED
    BY <1>1, <2>1, CallGoesOn DEF StopClosing
<1>2. CASE closing[k].at = "details"
  <2>1. /\ closing' = [closing EXCEPT ![k] = [closing[k] EXCEPT !.at = "done"]] /\ broken' = TRUE
        /\ UNCHANGED <<books, costs, log, detail, paying, current, overlap>>
    BY <1>2 DEF StopClosing, GoOn, ShareInv, ShareTypeOK
  <2>2. closing[k] \in ClosingRow /\ closing[k].revenue > 0 /\ log.by = k
    BY <1>2 DEF ShareInv, ShareTypeOK, LogIsOfACall, ClosingRow
  <2>3. [closing[k] EXCEPT !.at = "done"] \in ClosingRow
    BY <2>2 DEF ClosingRow
  <2>4. ShareTypeOK'
    BY <2>1, <2>3 DEF ShareInv, ShareTypeOK, ClosingRow
  <2>5. LogIsOfACall'
    BY <2>1, <2>2 DEF ShareInv, ShareTypeOK, LogIsOfACall
  <2>6. FiguresStand'
    BY <2>1, BooksStay DEF ShareInv, ShareTypeOK, FiguresStand
  <2>7. DetailsFollow'
    BY <2>1 DEF DetailsFollow
  <2>8. PaysFollow' /\ DetailsAddUp'
    BY <2>1 DEF ShareInv, PaysFollow, DetailsAddUp
  <2>9. RestIsRounding'
    BY <2>1, RestStays DEF ShareInv
  <2> QED
    BY <2>4, <2>5, <2>6, <2>7, <2>8, <2>9 DEF ShareInv
<1> QED
    BY <1>1, <1>2

\* Of the payments, the log keeps only their number.
LEMMA PaymentKeeps ==
    ASSUME ShareInv, NEW p \in Payments, FindLog(p) \/ PayShare(p) PROVE ShareInv'
<1>1. CASE FindLog(p)
  <2>1. /\ log # NoLog /\ log.paid = 0 /\ paying' = paying \cup {p}
        /\ overlap' = (overlap \/ paying \ {p} # {})
        /\ UNCHANGED <<books, costs, log, detail, closing, current, broken>>
    BY <1>1 DEF FindLog
  <2>2. ShareTypeOK'
    BY <2>1 DEF ShareInv, ShareTypeOK
  <2>3. LogIsOfACall' /\ DetailsFollow' /\ FiguresStand'
    BY <2>1, BooksStay DEF ShareInv, LogIsOfACall, DetailsFollow, FiguresStand
  <2>4. PaysFollow'
    <3>1. overlap \in BOOLEAN
      BY DEF ShareInv, ShareTypeOK
    <3>2. overlap' = FALSE => \A q \in paying' : q = p
      BY <2>1, <3>1
    <3>3. ~overlap' => overlap' = FALSE
      BY <2>1, <3>1
    <3> QED
      BY <2>1, <3>2, <3>3 DEF PaysFollow
  <2>5. DetailsAddUp' /\ RestIsRounding'
    BY <2>1, RestStays DEF ShareInv, DetailsAddUp
  <2> QED
    BY <2>2, <2>3, <2>4, <2>5 DEF ShareInv
<1>2. CASE PayShare(p)
  <2>1. /\ p \in paying /\ paying' = paying \ {p} /\ log' = [log EXCEPT !.paid = @ + 1]
        /\ UNCHANGED <<books, costs, detail, closing, current, broken, overlap>>
    BY <1>2 DEF PayShare
  <2>2. log \in LogRow /\ log # NoLog
    BY <2>1 DEF ShareInv, ShareTypeOK, PaysFollow, LogRow
  <2>3. /\ log' \in LogRow /\ log'.revenue = log.revenue /\ log'.net = log.net /\ log'.by = log.by
        /\ log'.share = log.share
        /\ log'.paid = log.paid + 1 /\ log.paid \in Nat
    BY <2>1, <2>2 DEF LogRow
  <2>4. log' # NoLog
    BY <2>3 DEF NoLog
  <2>5. ShareTypeOK'
    BY <2>1, <2>3 DEF ShareInv, ShareTypeOK, LogRow
  <2>6. LogIsOfACall' /\ DetailsFollow' /\ FiguresStand'
    BY <2>1, <2>2, <2>3, <2>4, BooksStay DEF ShareInv, LogIsOfACall, DetailsFollow, FiguresStand
  <2>7. PaysFollow'
    BY <2>1, <2>3, <2>4 DEF ShareInv, PaysFollow
  <2>8. DetailsAddUp' /\ RestIsRounding'
    BY <2>1, <2>3, RestStays DEF ShareInv, DetailsAddUp
  <2> QED
    BY <2>5, <2>6, <2>7, <2>8 DEF ShareInv
<1> QED
    BY <1>1, <1>2

LEMMA BooksMayChange ==
    ASSUME ShareInv, NEW c \in Sellers, BooksChange(c) \/ ShiftCloses(c) PROVE ShareInv'
<1>1. UNCHANGED <<costs, log, detail, closing, paying, broken, overlap>> /\ current' = {}
    BY DEF BooksChange, ShiftCloses
<1>2. books' \in [Sellers -> Books]
  <2>1. books \in [Sellers -> Books] /\ books[c] \in Books
    BY DEF ShareInv, ShareTypeOK
  <2>2. ASSUME NEW a \in Amounts, books' = [books EXCEPT ![c].inShift = a]
        PROVE  books' \in [Sellers -> Books]
    BY <2>1, <2>2 DEF Books
  <2>3. ASSUME NEW a \in Strays, books' = [books EXCEPT ![c].stray = a]
        PROVE  books' \in [Sellers -> Books]
    BY <2>1, <2>3 DEF Books
  <2>4. CASE ShiftCloses(c)
    BY <2>1, <2>4 DEF Books, ShiftCloses
  <2> QED
    BY <2>2, <2>3, <2>4 DEF BooksChange
<1>3. ShareTypeOK'
    BY <1>1, <1>2 DEF ShareInv, ShareTypeOK
<1>4. LogIsOfACall' /\ FiguresStand' /\ DetailsFollow' /\ PaysFollow' /\ DetailsAddUp'
    BY <1>1 DEF ShareInv, LogIsOfACall, FiguresStand, DetailsFollow, PaysFollow, DetailsAddUp
<1>5. RestIsRounding'
    BY <1>1 DEF RestIsRounding
<1> QED
    BY <1>3, <1>4, <1>5 DEF ShareInv

LEMMA ShareSteps == ShareInv /\ [ShareNext]_shareVars => ShareInv'
<1> SUFFICES ASSUME ShareInv, [ShareNext]_shareVars PROVE ShareInv'
    OBVIOUS
<1>1. ASSUME NEW k \in Closings, Look(k) PROVE ShareInv'
    BY <1>1, CallGoesOn DEF Look
<1>2. CASE UNCHANGED shareVars
  <2>1. ShareTypeOK' /\ LogIsOfACall' /\ PaysFollow' /\ DetailsAddUp'
    BY <1>2 DEF shareVars, ShareInv, ShareTypeOK, LogIsOfACall, PaysFollow, DetailsAddUp
  <2>2. FiguresStand' /\ DetailsFollow'
    BY <1>2, BooksStay DEF shareVars, ShareInv, FiguresStand, DetailsFollow
  <2>3. RestIsRounding'
    BY <1>2, RestStays DEF shareVars, ShareInv
  <2> QED
    BY <2>1, <2>2, <2>3 DEF ShareInv
<1> QED
    BY <1>1, <1>2, ComputeKeeps, InsertLogKeeps, InsertDetailsKeeps, StopClosingKeeps, PaymentKeeps,
       BooksMayChange DEF ShareNext

\* closePeriod and payProfitShare (finance.service): the details add up to the
\* cashier_share of the log, rounded as a whole (the log itself keeps it unrounded), no
\* one is further from his exact share than the roundings, a period closed with a profit is not left without details unless its
\* call was cut short, and it is paid once unless two payments overlapped; whatever
\* amounts, cashiers and calls there are.
THEOREM SharesStayExact == ShareSpec => [](ShareTypeOK /\ SharesAreExact)
<1>1. ShareInv => SharesAreExact
  <2> SUFFICES ASSUME ShareInv PROVE ClosedHasDetails /\ PaidOnce
    BY DEF SharesAreExact, ShareInv
  <2>1. ClosedHasDetails
    <3> SUFFICES ASSUME log.net > 0, log.by \in current, \E c \in Sellers : books[c].closed /\ Sold(c) > 0,
                        \A k \in Closings : closing[k].at # "details"
                 PROVE  DOMAIN detail # {} \/ broken
      BY DEF ClosedHasDetails
    <3>1. Listed # {} /\ log.by \in Closings
      BY DEF Listed, ShareInv, ShareTypeOK
    <3> QED
      BY <3>1 DEF ShareInv, DetailsFollow
  <2>2. PaidOnce
    <3>1. log.paid \in Int
      BY DEF ShareInv, ShareTypeOK, NoLog
    <3> QED
      BY <3>1 DEF PaidOnce, ShareInv, PaysFollow
  <2> QED
    BY <2>1, <2>2
<1>2. ShareInv => ShareTypeOK
    BY DEF ShareInv
<1> QED
    BY <1>1, <1>2, ShareStarts, ShareSteps, PTL DEF ShareSpec

-----------------------------------------------------------------------------
(* The member's points *)

\* Nothing is ever below zero.
PointsAreNatural == balance \in Nat /\ \A k \in Running : call[k].read \in Nat

\* Of calls that do not overlap one runs, and what it read is still so.
CallsAreAlone ==
    ~callsOverlap =>
       /\ \A j, k \in Running : j = k
       /\ \A k \in Running :
             /\ call[k].read = balance
             /\ call[k].at = "commit" /\ call[k].canEarn => RecentEarn = {}
       /\ \A i, j \in RecentEarn : i = j

PointsInv == PointsTypeOK /\ PointsAreNatural /\ CallsAreAlone /\ BalanceIsItsRows /\ TierIsEarned

LEMMA TotalOfOneMore ==
    ASSUME NEW s \in Seq(MemberRow), NEW r \in MemberRow
    PROVE  Total(s) \in Int /\ Total(Append(s, r)) = Total(s) + r.points
<1> DEFINE t == Append(s, r)
           f == [i \in DOMAIN s |-> s[i].points]
           g == [i \in DOMAIN t |-> t[i].points]
           n == Len(s) + 1
<1>1. /\ DOMAIN s = 1..Len(s) /\ DOMAIN t = 1..n /\ Len(s) \in Nat /\ t[n] = r
      /\ \A i \in DOMAIN s : t[i] = s[i] /\ s[i] \in MemberRow
    BY AppendProperties, ElementOfSeq
<1>2. DOMAIN f = 1..Len(s) /\ DOMAIN g = 1..n /\ g[n] = r.points /\ \A i \in 1..Len(s) : g[i] = f[i]
    BY <1>1
<1>3. r.points \in Int /\ \A i \in 1..Len(s) : f[i] \in Int
    BY <1>1 DEF MemberRow
<1>4. IsFiniteSet(1..Len(s)) /\ IsFiniteSet(1..n)
    BY <1>1, FS_Interval
<1>5. n \in 1..n /\ (1..n) \ {n} = 1..Len(s)
    BY <1>1
<1>6. Total(s) = SumFunctionOnSet(f, 1..Len(s)) /\ Total(t) = SumFunctionOnSet(g, 1..n)
    BY <1>2 DEF Total, SumFunction
<1> HIDE DEF f, g, n, t
<1>7. \A i \in 1..n : g[i] \in Int
    BY <1>2, <1>3, <1>5
<1>8. SumFunctionOnSet(f, 1..Len(s)) \in Int
    BY <1>3, <1>4, SumOfNumbers
<1>9. SumFunctionOnSet(g, 1..n) = g[n] + SumFunctionOnSet(g, (1..n) \ {n})
    BY <1>4, <1>5, <1>7, SumOfNumbers
<1>10. SumFunctionOnSet(g, 1..Len(s)) = SumFunctionOnSet(f, 1..Len(s))
    BY <1>2, <1>4, SumsAgree
<1>11. Total(t) = r.points + SumFunctionOnSet(g, 1..Len(s))
    BY <1>2, <1>5, <1>6, <1>9
<1>12. r.points + SumFunctionOnSet(f, 1..Len(s)) = SumFunctionOnSet(f, 1..Len(s)) + r.points
    BY <1>3, <1>8
<1> QED
    BY <1>6, <1>8, <1>10, <1>11, <1>12 DEF t

LEMMA TotalAges ==
    ASSUME NEW s \in Seq(MemberRow), NEW t \in Seq(MemberRow), Len(t) = Len(s),
           \A i \in DOMAIN s : t[i].points = s[i].points
    PROVE  Total(t) = Total(s)
<1> DEFINE f == [i \in DOMAIN s |-> s[i].points]
           g == [i \in DOMAIN t |-> t[i].points]
<1>1. DOMAIN s = 1..Len(s) /\ DOMAIN t = 1..Len(s) /\ Len(s) \in Nat
    OBVIOUS
<1>2. DOMAIN f = 1..Len(s) /\ DOMAIN g = 1..Len(s) /\ \A i \in 1..Len(s) : g[i] = f[i]
    BY <1>1
<1>3. Total(s) = SumFunctionOnSet(f, 1..Len(s)) /\ Total(t) = SumFunctionOnSet(g, 1..Len(s))
    BY <1>2 DEF Total, SumFunction
<1> HIDE DEF f, g
<1>4. IsFiniteSet(1..Len(s))
    BY <1>1, FS_Interval
<1> QED
    BY <1>2, <1>3, <1>4, SumsAgree

\* A number of points above zero has a highest tier.
LEMMA TierExists ==
    ASSUME NEW points \in Nat
    PROVE  /\ TierFor(points) \in Tiers /\ MinPoints[TierFor(points)] <= points
           /\ \A u \in Tiers : MinPoints[u] <= points => u <= TierFor(points)
<1> DEFINE n == Len(MinPoints)
           T == {k \in Nat : k < n /\ MinPoints[n - k] <= points}
<1>1. n \in Nat /\ n > 0 /\ Tiers = 1..n /\ MinPoints[1] = 0
    BY PointsAssumption DEF Tiers
<1>2. T \in SUBSET Nat /\ n - 1 \in T
  <2>1. n - (n - 1) = 1 /\ n - 1 \in Nat /\ n - 1 < n /\ 0 <= points
    BY <1>1
  <2> QED
    BY <1>1, <2>1
<1> HIDE DEF T
<1>3. PICK k \in T : \A j \in T : k <= j
    BY <1>2, LeastNumber
<1>4. k \in Nat /\ k < n /\ MinPoints[n - k] <= points
    BY DEF T
<1>5. n - k \in Tiers
    BY <1>1, <1>4
<1>6. ASSUME NEW u \in Tiers, MinPoints[u] <= points PROVE u <= n - k
  <2>1. u \in Nat /\ n - u \in Nat /\ n - u < n /\ n - (n - u) = u
    BY <1>1
  <2>2. n - u \in T
    BY <2>1, <1>6 DEF T
  <2>3. k <= n - u
    BY <1>3, <2>2
  <2> QED
    BY <2>1, <2>3, <1>1, <1>4
<1> QED
    BY <1>4, <1>5, <1>6 DEF TierFor

LEMMA PointsStart == PointsInit => PointsInv
<1> SUFFICES ASSUME PointsInit PROVE PointsInv
    OBVIOUS
<1>1. PointsTypeOK
  <2>1. 1 \in Tiers
    BY PointsAssumption DEF Tiers
  <2>2. rows \in Seq(MemberRow)
    BY DEF PointsInit
  <2>3. bought \in [MemberSales -> [method: {"none", "cash", "qris"}, points: Earnings \cup {0},
                                   server: BOOLEAN, till: BOOLEAN]]
    BY DEF PointsInit
  <2>4. call \in [Calls -> {NoCall} \cup Call]
    BY DEF PointsInit
  <2>5. balance \in Int /\ tier \in Tiers
    BY <2>1 DEF PointsInit
  <2>6. callsOverlap \in BOOLEAN /\ adjusted \in BOOLEAN
    BY Zenon DEF PointsInit
  <2> QED
    BY <2>2, <2>3, <2>4, <2>5, <2>6 DEF PointsTypeOK
<1>2. Running = {} /\ RecentEarn = {}
    BY DEF PointsInit, Running, RecentEarn
<1>3. PointsAreNatural /\ CallsAreAlone
    BY <1>2 DEF PointsInit, PointsAreNatural, CallsAreAlone
<1>4. BalanceIsItsRows
  <2> DEFINE f == [i \in DOMAIN <<>> |-> <<>>[i].points]
  <2>1. DOMAIN f = {} /\ Total(<<>>) = SumFunctionOnSet(f, DOMAIN f)
    BY DEF Total, SumFunction
  <2> HIDE DEF f
  <2>2. Total(<<>>) = 0
    BY <2>1, SumOfNothing
  <2> QED
    BY <2>2 DEF PointsInit, BalanceIsItsRows
<1>5. TierIsEarned
  <2> SUFFICES ASSUME NEW t \in Tiers, MinPoints[t] <= 0 PROVE t <= 1
    BY DEF PointsInit, TierIsEarned
  <2>1. /\ Tiers = 1..Len(MinPoints) /\ Len(MinPoints) \in Nat /\ 1 \in Tiers /\ MinPoints[1] = 0
        /\ 1 < t => MinPoints[1] < MinPoints[t]
    BY PointsAssumption DEF Tiers
  <2>2. MinPoints[t] \in Nat
    BY PointsAssumption, ElementOfSeq DEF Tiers
  <2> QED
    BY <2>1, <2>2
<1> QED
    BY <1>1, <1>3, <1>4, <1>5 DEF PointsInv

LEMMA CallsInHand ==
    ASSUME PointsTypeOK, NEW k \in Calls
    PROVE  /\ k \in Running <=> call[k] # NoCall
           /\ k \in Running => call[k] \in Call
           /\ call[k].at \in {"cooldown", "commit"} => k \in Running
<1>1. call[k] \in Call \/ call[k] = NoCall
    BY DEF PointsTypeOK
<1>2. NoCall.at = "idle"
    BY DEF NoCall
<1> QED
    BY <1>1, <1>2 DEF Running

\* A call begins: it is the only one, or calls overlap from now on.
LEMMA BeginCallKeeps ==
    ASSUME PointsInv, NEW k \in Calls, NEW x \in MemberSales, NEW redeem \in BOOLEAN,
           BeginCall(k, x, redeem), UNCHANGED <<balance, tier, rows, adjusted>>,
           bought' \in [MemberSales -> [method: {"none", "cash", "qris"}, points: Earnings \cup {0},
                                        server: BOOLEAN, till: BOOLEAN]]
    PROVE  PointsInv'
<1> DEFINE row == [at |-> "cooldown", sale |-> x, redeem |-> redeem, read |-> balance, canEarn |-> FALSE]
<1>1. call' = [call EXCEPT ![k] = row] /\ call[k] = NoCall /\ callsOverlap' = (callsOverlap \/ Running # {})
    BY DEF BeginCall
<1>2. balance \in Nat /\ row \in Call /\ PointsTypeOK
    BY DEF PointsInv, PointsAreNatural, Call
<1>3. row # NoCall /\ row.read = balance /\ row.at # "commit"
    BY DEF NoCall
<1> HIDE DEF row
<1>4. PointsTypeOK'
    BY <1>1, <1>2 DEF PointsTypeOK
<1>5. call'[k] = row /\ \A j \in Calls : j # k => call'[j] = call[j]
    BY <1>1, <1>2 DEF PointsTypeOK
<1>6. Running' = Running \cup {k} /\ RecentEarn' = RecentEarn
    BY <1>3, <1>5 DEF Running, RecentEarn
<1>7. PointsAreNatural'
    BY <1>2, <1>3, <1>5, <1>6 DEF PointsInv, PointsAreNatural, Running
<1>8. callsOverlap' = FALSE => callsOverlap = FALSE /\ Running = {}
    BY <1>1, <1>2 DEF PointsTypeOK
<1>9. (callsOverlap \in BOOLEAN)' /\ callsOverlap \in BOOLEAN
    BY <1>2, <1>4 DEF PointsTypeOK
<1>10. CallsAreAlone'
  <2> SUFFICES ASSUME callsOverlap' = FALSE
               PROVE  /\ \A i, j \in Running' : i = j
                      /\ \A j \in Running' :
                            /\ call'[j].read = balance
                            /\ call'[j].at = "commit" /\ call'[j].canEarn => RecentEarn' = {}
                      /\ \A i, j \in RecentEarn' : i = j
    BY <1>9 DEF CallsAreAlone
  <2>1. Running' = {k}
    BY <1>6, <1>8
  <2> QED
    BY <2>1, <1>3, <1>5, <1>6, <1>8 DEF PointsInv, CallsAreAlone
<1>11. BalanceIsItsRows' /\ TierIsEarned'
    BY <1>8, <1>9 DEF PointsInv, BalanceIsItsRows, TierIsEarned
<1> QED
    BY <1>4, <1>7, <1>10, <1>11 DEF PointsInv

\* Nothing but the calls and the flags changes, and no call begins.
LEMMA LookKeeps ==
    ASSUME PointsInv, NEW k \in Calls, LookCooldown(k) PROVE PointsInv'
<1> DEFINE can == RecentEarn = {}
           row == [call[k] EXCEPT !.at = "commit", !.canEarn = can]
<1>1. /\ call' = [call EXCEPT ![k] = row] /\ UNCHANGED <<balance, tier, rows, bought, callsOverlap, adjusted>>
      /\ call[k].at = "cooldown" /\ PointsTypeOK
    BY DEF LookCooldown, PointsInv
<1>2. k \in Running /\ call[k] \in Call
    BY <1>1, CallsInHand
<1>3. row \in Call /\ row.read = call[k].read /\ row # NoCall /\ row.canEarn = can
  <2>1. can \in BOOLEAN
    OBVIOUS
  <2> HIDE DEF can
  <2>2. row \in Call /\ row.read = call[k].read /\ row.at = "commit" /\ row.canEarn = can
    BY <2>1, <1>2 DEF Call
  <2>3. NoCall.at # "commit"
    BY DEF NoCall
  <2> QED
    BY <2>2, <2>3
<1> HIDE DEF row
<1>4. call'[k] = row /\ \A j \in Calls : j # k => call'[j] = call[j]
    BY <1>1 DEF PointsTypeOK
<1>5. Running' = Running /\ RecentEarn' = RecentEarn
    BY <1>1, <1>2, <1>3, <1>4 DEF Running, RecentEarn
<1>6. PointsTypeOK'
    BY <1>1, <1>3 DEF PointsTypeOK
<1>7. PointsAreNatural'
    BY <1>1, <1>2, <1>3, <1>4, <1>5 DEF PointsInv, PointsAreNatural, Running
<1>8. CallsAreAlone'
    BY <1>1, <1>2, <1>3, <1>4, <1>5 DEF PointsInv, CallsAreAlone, Running
<1>9. BalanceIsItsRows' /\ TierIsEarned'
    BY <1>1 DEF PointsInv, BalanceIsItsRows, TierIsEarned
<1> QED
    BY <1>6, <1>7, <1>8, <1>9 DEF PointsInv

LEMMA AbortKeeps ==
    ASSUME PointsInv, NEW k \in Calls, AbortCall(k) PROVE PointsInv'
<1>1. /\ call' = [call EXCEPT ![k] = NoCall] /\ UNCHANGED <<balance, tier, rows, bought, callsOverlap, adjusted>>
      /\ PointsTypeOK
    BY DEF AbortCall, PointsInv
<1>2. call'[k] = NoCall /\ \A j \in Calls : j # k => call'[j] = call[j]
    BY <1>1 DEF PointsTypeOK
<1>3. Running' = Running \ {k} /\ RecentEarn' = RecentEarn
    BY <1>1, <1>2 DEF Running, RecentEarn
<1>4. PointsTypeOK'
    BY <1>1 DEF PointsTypeOK
<1>5. PointsAreNatural' /\ CallsAreAlone'
    BY <1>1, <1>2, <1>3 DEF PointsInv, PointsAreNatural, CallsAreAlone, Running
<1>6. BalanceIsItsRows' /\ TierIsEarned'
    BY <1>1 DEF PointsInv, BalanceIsItsRows, TierIsEarned
<1> QED
    BY <1>4, <1>5, <1>6 DEF PointsInv

LEMMA RowAgesKeeps ==
    ASSUME PointsInv, NEW i \in DOMAIN rows, RowAges(i) PROVE PointsInv'
<1>1. /\ rows' = [rows EXCEPT ![i] = [rows[i] EXCEPT !.fresh = FALSE]]
      /\ UNCHANGED <<balance, tier, bought, call, callsOverlap, adjusted>> /\ PointsTypeOK
    BY DEF RowAges, PointsInv
<1>2. rows \in Seq(MemberRow) /\ DOMAIN rows = 1..Len(rows) /\ Len(rows) \in Nat
    BY <1>1 DEF PointsTypeOK
<1>3. rows[i] \in MemberRow
    BY <1>2, ElementOfSeq
<1>4. [rows[i] EXCEPT !.fresh = FALSE] \in MemberRow
    BY <1>3 DEF MemberRow
<1>5. rows' \in Seq(MemberRow) /\ Len(rows') = Len(rows) /\ DOMAIN rows' = DOMAIN rows
    BY <1>1, <1>2, <1>4, ExceptSeq
<1>6. \A j \in DOMAIN rows : rows'[j].points = rows[j].points /\ rows'[j].type = rows[j].type
                             /\ (rows'[j].fresh => rows[j].fresh)
    BY <1>1, <1>2, <1>3 DEF MemberRow
<1>7. Total(rows') = Total(rows)
    BY <1>2, <1>5, <1>6, TotalAges
<1>8. RecentEarn' \subseteq RecentEarn /\ Running' = Running
    BY <1>1, <1>5, <1>6 DEF RecentEarn, Running
<1>9. PointsTypeOK'
    BY <1>1, <1>5 DEF PointsTypeOK
<1>10. PointsAreNatural' /\ CallsAreAlone'
    BY <1>1, <1>8 DEF PointsInv, PointsAreNatural, CallsAreAlone, Running
<1>11. BalanceIsItsRows'
    BY <1>1, <1>7 DEF PointsInv, BalanceIsItsRows
<1>12. TierIsEarned'
    BY <1>1 DEF PointsInv, TierIsEarned
<1> QED
    BY <1>9, <1>10, <1>11, <1>12 DEF PointsInv

LEMMA AdjustTierKeeps ==
    ASSUME PointsInv, NEW t \in Tiers, AdjustTier(t) PROVE PointsInv'
<1>1. /\ tier' = t /\ adjusted' = TRUE /\ UNCHANGED <<balance, rows, bought, call, callsOverlap>>
      /\ PointsTypeOK
    BY DEF AdjustTier, PointsInv
<1>2. PointsTypeOK'
    BY <1>1 DEF PointsTypeOK
<1>3. PointsAreNatural' /\ CallsAreAlone' /\ BalanceIsItsRows' /\ TierIsEarned'
    BY <1>1 DEF PointsInv, PointsAreNatural, CallsAreAlone, BalanceIsItsRows, TierIsEarned, Running, RecentEarn
<1> QED
    BY <1>2, <1>3 DEF PointsInv

LEMMA CommitKeeps ==
    ASSUME PointsInv, NEW k \in Calls, CommitCall(k) PROVE PointsInv'
<1> DEFINE c == call[k]
           redeemed == IF c.redeem /\ c.read > 0 THEN c.read ELSE 0
           earned == IF c.canEarn THEN bought[c.sale].points ELSE 0
           new == IF earned > 0 THEN NewBalance(c.read, redeemed, earned) ELSE 0
           out == PointRow(c.sale, "redeem", -redeemed)
           in == PointRow(c.sale, "earn", earned)
           A == IF redeemed > 0 THEN Append(rows, out) ELSE rows
           B == IF earned > 0 THEN Append(A, in) ELSE A
<1>1. PointsTypeOK /\ rows \in Seq(MemberRow)
    BY DEF PointsInv, PointsTypeOK
<1>2. k \in Running /\ c \in Call /\ c.read \in Nat /\ c.at = "commit"
    BY <1>1, CallsInHand DEF CommitCall, PointsInv, PointsAreNatural
<1>3. c.sale \in MemberSales /\ c.redeem \in BOOLEAN /\ c.canEarn \in BOOLEAN
    BY <1>2 DEF Call
<1>4. redeemed \in Nat /\ earned \in Nat /\ redeemed <= c.read
  <2>1. bought[c.sale].points \in Earnings \cup {0}
    BY <1>1, <1>3 DEF PointsTypeOK
  <2>2. Earnings \subseteq Nat
    BY PointsAssumption
  <2>3. bought[c.sale].points \in Nat
    <3> DEFINE y == bought[c.sale].points
    <3>1. y \in Earnings \cup {0}
      BY <2>1
    <3> HIDE DEF y
    <3>2. y \in Nat
      BY <3>1, <2>2
    <3> QED
      BY <3>2 DEF y
  <2>4. earned \in Nat
    BY <2>3
  <2> HIDE DEF c, earned
  <2>5. redeemed \in Nat /\ redeemed <= c.read
    BY <1>2
  <2> QED
    BY <2>4, <2>5
<1>5. out \in MemberRow /\ in \in MemberRow /\ out.points = -redeemed /\ in.points = earned /\ out.type # "earn"
  <2> HIDE DEF redeemed, earned, c
  <2> QED
    BY <1>3, <1>4 DEF PointRow, MemberRow
<1>6. /\ rows' = B /\ balance' = (IF redeemed > 0 \/ earned > 0 THEN new ELSE balance)
      /\ tier' = (IF earned > 0 THEN TierFor(new) ELSE tier)
      /\ adjusted' = (adjusted /\ earned = 0)
      /\ call' = [call EXCEPT ![k] = NoCall] /\ UNCHANGED <<bought, callsOverlap>>
  <2>1. rows' = rows \o (IF redeemed > 0 THEN <<out>> ELSE <<>>) \o (IF earned > 0 THEN <<in>> ELSE <<>>)
    BY DEF CommitCall
  <2> HIDE DEF redeemed, earned, in, out
  <2>2. A \in Seq(MemberRow) /\ A = rows \o (IF redeemed > 0 THEN <<out>> ELSE <<>>)
    BY <1>1, <1>5, AppendProperties, AppendIsConcat, ConcatEmptySeq
  <2> HIDE DEF A
  <2>3. B = A \o (IF earned > 0 THEN <<in>> ELSE <<>>)
    BY <2>2, <1>5, AppendIsConcat, ConcatEmptySeq
  <2> USE DEF redeemed, earned
  <2> QED
    BY <2>1, <2>2, <2>3 DEF CommitCall
<1>7. new \in Nat /\ (earned > 0 => new = c.read - redeemed + earned)
    BY <1>2, <1>4 DEF NewBalance
<1> HIDE DEF c, redeemed, earned, new, in, out
<1>8. A \in Seq(MemberRow) /\ Total(rows) \in Int /\ Total(A) = Total(rows) - redeemed
  <2>1. Total(rows) \in Int /\ Total(Append(rows, out)) = Total(rows) + out.points
    BY <1>1, <1>5, TotalOfOneMore
  <2>2. Append(rows, out) \in Seq(MemberRow)
    BY <1>1, <1>5, AppendProperties
  <2> QED
    BY <2>1, <2>2, <1>1, <1>4, <1>5
<1>9. /\ DOMAIN A = 1..Len(A) /\ Len(A) \in Nat
      /\ {i \in DOMAIN A : A[i].type = "earn" /\ A[i].fresh} = RecentEarn
  <2>1. CASE redeemed > 0
    <3>1. /\ A = Append(rows, out) /\ DOMAIN A = DOMAIN rows \cup {Len(rows) + 1}
          /\ A[Len(rows) + 1] = out /\ \A i \in DOMAIN rows : A[i] = rows[i]
          /\ DOMAIN A = 1..Len(A) /\ Len(A) \in Nat
      BY <2>1, <1>1, <1>5, <1>8, AppendProperties
    <3> QED
      BY <3>1, <1>5 DEF RecentEarn
  <2>2. CASE ~(redeemed > 0)
    BY <2>2, <1>1 DEF RecentEarn
  <2> QED
    BY <2>1, <2>2
<1> HIDE DEF A
<1>10. B \in Seq(MemberRow) /\ Total(B) = Total(rows) - redeemed + earned
  <2>1. Total(A) \in Int /\ Total(Append(A, in)) = Total(A) + in.points
    BY <1>5, <1>8, TotalOfOneMore
  <2>2. Append(A, in) \in Seq(MemberRow)
    BY <1>5, <1>8, AppendProperties
  <2> QED
    BY <2>1, <2>2, <1>4, <1>5, <1>8
<1>11. RecentEarn' \subseteq RecentEarn \cup (IF earned > 0 THEN {Len(A) + 1} ELSE {})
  <2>1. CASE earned > 0
    <3>1. /\ B = Append(A, in) /\ DOMAIN B = DOMAIN A \cup {Len(A) + 1}
          /\ \A i \in DOMAIN A : B[i] = A[i]
      BY <2>1, <1>5, <1>8, <1>9, AppendProperties
    <3> QED
      BY <3>1, <2>1, <1>6, <1>9 DEF RecentEarn
  <2>2. CASE ~(earned > 0)
    BY <2>2, <1>6, <1>9 DEF RecentEarn
  <2> QED
    BY <2>1, <2>2
<1> HIDE DEF B
<1>12. Running' = Running \ {k} /\ \A j \in Running' : call'[j] = call[j]
    BY <1>1, <1>6 DEF PointsTypeOK, Running
<1>13. PointsTypeOK'
  <2>1. tier' \in Tiers
    BY <1>1, <1>6, <1>7, TierExists DEF PointsTypeOK
  <2>2. adjusted' \in BOOLEAN
    BY <1>6
  <2>3. balance' \in Int
    BY <1>1, <1>6, <1>7 DEF PointsTypeOK
  <2>4. call' \in [Calls -> {NoCall} \cup Call]
    BY <1>1, <1>6 DEF PointsTypeOK
  <2> QED
    BY <2>1, <2>2, <2>3, <2>4, <1>1, <1>6, <1>10 DEF PointsTypeOK
<1>14. PointsAreNatural'
    BY <1>6, <1>7, <1>12 DEF PointsInv, PointsAreNatural
<1>15. ASSUME ~callsOverlap
       PROVE  /\ c.read = balance /\ Running = {k} /\ (earned > 0 => RecentEarn = {})
              /\ \A i, j \in RecentEarn : i = j
  <2>1. earned > 0 => c.canEarn
    BY DEF earned
  <2> QED
    BY <2>1, <1>2, <1>15 DEF PointsInv, CallsAreAlone, c
<1>16. CallsAreAlone'
  <2> SUFFICES ASSUME ~callsOverlap PROVE Running' = {} /\ \A i, j \in RecentEarn' : i = j
    BY <1>6 DEF CallsAreAlone
  <2>1. Running' = {}
    BY <1>12, <1>15
  <2>2. \A i, j \in RecentEarn' : i = j
    BY <1>11, <1>15
  <2> QED
    BY <2>1, <2>2
<1>17. ASSUME ~callsOverlap PROVE balance' = balance - redeemed + earned
  <2>1. c.read = balance /\ balance \in Int
    BY <1>15, <1>17, <1>1 DEF PointsTypeOK
  <2>2. CASE earned > 0
    BY <2>1, <2>2, <1>6, <1>7
  <2>3. CASE ~(earned > 0) /\ redeemed > 0
    <3>1. redeemed = c.read /\ new = 0
      BY <2>3 DEF redeemed, new
    <3> QED
      BY <3>1, <2>1, <2>3, <1>4, <1>6
  <2>4. CASE ~(earned > 0) /\ ~(redeemed > 0)
    BY <2>1, <2>4, <1>4, <1>6
  <2> QED
    BY <2>2, <2>3, <2>4
<1>18. BalanceIsItsRows'
    BY <1>6, <1>8, <1>10, <1>17 DEF PointsInv, BalanceIsItsRows
<1>19. TierIsEarned'
  <2> SUFFICES ASSUME ~callsOverlap, ~adjusted', NEW t \in Tiers, MinPoints[t] <= balance'
               PROVE  t <= tier'
    BY <1>6 DEF TierIsEarned
  <2>1. CASE earned > 0
    BY <2>1, <1>6, <1>7, TierExists
  <2>2. CASE ~(earned > 0)
    <3>1. ~adjusted /\ tier' = tier
      <4>1. earned = 0 /\ tier' = tier
        BY <2>2, <1>4, <1>6
      <4>2. adjusted' = (adjusted /\ earned = 0)
        BY <1>6
      <4> QED
        BY <4>1, <4>2, Zenon
    <3>2. balance' <= balance /\ balance \in Int /\ balance' \in Int
      BY <2>2, <1>1, <1>4, <1>17 DEF PointsTypeOK
    <3>3. MinPoints[t] \in Int
      BY PointsAssumption, ElementOfSeq DEF Tiers
    <3>4. MinPoints[t] <= balance
      BY <3>2, <3>3
    <3> QED
      BY <3>1, <3>4 DEF PointsInv, TierIsEarned
  <2> QED
    BY <2>1, <2>2
<1> QED
    BY <1>13, <1>14, <1>16, <1>18, <1>19 DEF PointsInv

LEMMA PointsStep == PointsInv /\ [PointsNext]_memberVars => PointsInv'
<1> SUFFICES ASSUME PointsInv, [PointsNext]_memberVars PROVE PointsInv'
    OBVIOUS
<1> DEFINE Purchases == [MemberSales -> [method: {"none", "cash", "qris"}, points: Earnings \cup {0},
                                     server: BOOLEAN, till: BOOLEAN]]
<1>1. bought \in Purchases
    BY DEF PointsInv, PointsTypeOK
<1>2. ASSUME NEW k \in Calls, NEW x \in MemberSales, NEW m \in {"cash", "qris"}, NEW p \in Earnings,
             Paid(k, x, m, p)
      PROVE  PointsInv'
  <2>1. bought' = [bought EXCEPT ![x].method = m, ![x].points = p, ![x].server = TRUE]
    BY <1>2 DEF Paid
  <2> DEFINE row == [bought[x] EXCEPT !.method = m, !.points = p, !.server = TRUE]
  <2>2. row \in [method: {"none", "cash", "qris"}, points: Earnings \cup {0}, server: BOOLEAN, till: BOOLEAN]
    BY <1>1
  <2>3. bought' = [bought EXCEPT ![x] = row]
    BY <2>1
  <2> HIDE DEF row
  <2>4. bought' \in Purchases
    BY <1>1, <2>2, <2>3
  <2>5. BeginCall(k, x, FALSE) /\ UNCHANGED <<balance, tier, rows, adjusted>>
    BY <1>2 DEF Paid
  <2> QED
    BY <2>4, <2>5, BeginCallKeeps
<1>3. ASSUME NEW k \in Calls, NEW x \in MemberSales, NEW redeem \in BOOLEAN, TillCalls(k, x, redeem)
      PROVE  PointsInv'
  <2>1. bought' = [bought EXCEPT ![x].till = TRUE]
    BY <1>3 DEF TillCalls
  <2>2. bought' \in Purchases
    BY <1>1, <2>1
  <2>3. BeginCall(k, x, redeem) /\ UNCHANGED <<balance, tier, rows, adjusted>>
    BY <1>3 DEF TillCalls
  <2> QED
    BY <2>2, <2>3, BeginCallKeeps
<1>4. CASE UNCHANGED memberVars
  <2>1. PointsTypeOK' /\ PointsAreNatural' /\ CallsAreAlone'
    BY <1>4 DEF memberVars, PointsInv, PointsTypeOK, PointsAreNatural, CallsAreAlone, Running, RecentEarn
  <2>2. BalanceIsItsRows' /\ TierIsEarned'
    BY <1>4 DEF memberVars, PointsInv, BalanceIsItsRows, TierIsEarned
  <2> QED
    BY <2>1, <2>2 DEF PointsInv
<1> QED
    BY <1>2, <1>3, <1>4, LookKeeps, CommitKeeps, AbortKeeps, RowAgesKeeps, AdjustTierKeeps DEF PointsNext

\* process_points (member.service.ts): as long as its calls do not overlap, the
\* balance is the sum of the rows of the member, the points of a sale are not earned
\* twice in two minutes, and the tier is that of the points, whatever sales, calls
\* and tiers there are.
THEOREM PointsStayExplained == PointsSpec => [](PointsTypeOK /\ PointsAreExplained)
<1>1. PointsInv => PointsTypeOK /\ PointsAreExplained
  <2> SUFFICES ASSUME PointsInv PROVE EarnsAreApart
    BY DEF PointsInv, PointsAreExplained
  <2> SUFFICES ASSUME ~callsOverlap PROVE Cardinality(RecentEarn) <= 1
    BY DEF EarnsAreApart, RecentEarn
  <2>1. \A i, j \in RecentEarn : i = j
    BY DEF PointsInv, CallsAreAlone
  <2>2. CASE RecentEarn = {}
    BY <2>2, FS_EmptySet
  <2>3. CASE RecentEarn # {}
    <3>1. PICK i : i \in RecentEarn
      BY <2>3
    <3>2. RecentEarn = {i}
      BY <3>1, <2>1
    <3>3. Cardinality({i}) = 1
      BY FS_Singleton
    <3> QED
      BY <3>2, <3>3
  <2> QED
    BY <2>2, <2>3
<1> QED
    BY <1>1, PointsStart, PointsStep, PTL DEF PointsSpec

-----------------------------------------------------------------------------
(* The stock *)

JobsNow == {j \in StockJobs : stockJob[j] # NoJob}
OfOrder(job) == job.op \in {"reduce", "restore"}

\* A call for an order is the only one of its kind, for ever; it has what the
\* recipes said when it began.
JobsAreOfTheirOrder ==
    \A j \in JobsNow : OfOrder(stockJob[j]) =>
       /\ stockJob[j].order \in StockOrders
       /\ used[stockJob[j].order][stockJob[j].op] = "running"
       /\ \A k \in JobsNow :
             stockJob[k].op = stockJob[j].op /\ stockJob[k].order = stockJob[j].order => k = j
       /\ used[stockJob[j].order].sameRecipe => stockJob[j].need = Needs(stockJob[j].order)

\* What is drawn of a material adds up to what is needed, once its row is held.
DrawsAddUp ==
    \A j \in JobsNow : stockJob[j].op = "reduce" =>
       \A m \in Materials :
          /\ m \in stockJob[j].held => SumFunction(stockJob[j].draws[m]) = stockJob[j].need[m]
          /\ m \notin stockJob[j].held => stockJob[j].draws[m] = <<>>
          /\ stockJob[j].need[m] > 0 => m \in stockJob[j].held \cup stockJob[j].todo

\* Under the same recipes, what went out and came back is what they say.
SameRecipesSameNeeds ==
    \A o \in StockOrders : used[o].sameRecipe =>
       /\ used[o].reduce = "done" => used[o].out = Needs(o)
       /\ used[o].restore = "done" => used[o].back = Needs(o)

StockInv ==
    InventoryTypeOK /\ JobsAreOfTheirOrder /\ DrawsAddUp /\ SameRecipesSameNeeds
    /\ LedgerExplainsStock /\ CogsIsWhole

LEMMA SumOfAppended ==
    ASSUME NEW s \in Seq(Int), NEW r \in Int
    PROVE  SumFunction(s) \in Int /\ SumFunction(Append(s, r)) = SumFunction(s) + r
<1> DEFINE t == Append(s, r)
           n == Len(s) + 1
<1>1. /\ DOMAIN s = 1..Len(s) /\ DOMAIN t = 1..n /\ Len(s) \in Nat /\ t[n] = r
      /\ \A i \in 1..Len(s) : t[i] = s[i] /\ s[i] \in Int
    BY AppendProperties, ElementOfSeq
<1>2. IsFiniteSet(1..Len(s)) /\ IsFiniteSet(1..n)
    BY <1>1, FS_Interval
<1>3. n \in 1..n /\ (1..n) \ {n} = 1..Len(s)
    BY <1>1
<1>4. SumFunction(s) = SumFunctionOnSet(s, 1..Len(s)) /\ SumFunction(t) = SumFunctionOnSet(t, 1..n)
    BY <1>1 DEF SumFunction
<1> HIDE DEF n, t
<1>5. \A i \in 1..n : t[i] \in Int
    BY <1>1, <1>3
<1>6. SumFunctionOnSet(s, 1..Len(s)) \in Int
    BY <1>1, <1>2, SumOfNumbers
<1>7. SumFunctionOnSet(t, 1..n) = t[n] + SumFunctionOnSet(t, (1..n) \ {n})
    BY <1>2, <1>3, <1>5, SumOfNumbers
<1>8. SumFunctionOnSet(t, 1..Len(s)) = SumFunctionOnSet(s, 1..Len(s))
    BY <1>1, <1>2, SumsAgree
<1>9. SumFunction(t) = r + SumFunctionOnSet(s, 1..Len(s))
    BY <1>1, <1>3, <1>4, <1>7, <1>8
<1> QED
    BY <1>4, <1>6, <1>9 DEF t

LEMMA SumOfFirst ==
    ASSUME NEW f, NEW n \in Nat, \A i \in 1..(n + 1) : f[i] \in Int
    PROVE  /\ SumFunctionOnSet(f, 1..n) \in Int
           /\ SumFunctionOnSet(f, 1..(n + 1)) = f[n + 1] + SumFunctionOnSet(f, 1..n)
<1>1. IsFiniteSet(1..n) /\ IsFiniteSet(1..(n + 1))
    BY FS_Interval
<1>2. n + 1 \in 1..(n + 1) /\ (1..(n + 1)) \ {n + 1} = 1..n
    OBVIOUS
<1>3. \A i \in 1..n : f[i] \in Int
    OBVIOUS
<1>4. SumFunctionOnSet(f, 1..n) \in Int
    BY <1>1, <1>3, SumOfNumbers
<1>5. SumFunctionOnSet(f, 1..(n + 1)) = f[n + 1] + SumFunctionOnSet(f, (1..(n + 1)) \ {n + 1})
    BY <1>1, <1>2, SumOfNumbers
<1> QED
    BY <1>2, <1>4, <1>5

\* Whatever the batches have, what is drawn from them and what none has add up to
\* the quantity.
LEMMA DrawsCover ==
    ASSUME NEW qty \in Nat, NEW batch \in Seq(Nat)
    PROVE  /\ Append(DrawFrom(qty, batch), Lacking(qty, batch)) \in Seq(Nat)
           /\ SumFunction(Append(DrawFrom(qty, batch), Lacking(qty, batch))) = qty
<1> DEFINE N == Len(batch)
           q == batch
           S(n) == SumFunctionOnSet(q, 1..n)
           L(n) == IF qty > S(n) THEN qty - S(n) ELSE 0
           d == DrawFrom(qty, batch)
           D(n) == SumFunctionOnSet(d, 1..n)
<1>1. /\ N \in Nat /\ DOMAIN batch = 1..N /\ DOMAIN q = 1..N
      /\ \A i \in 1..N : q[i] = batch[i] /\ q[i] \in Nat
    BY ElementOfSeq
<1>2. \A n \in 0..N : IsFiniteSet(1..n)
    BY <1>1, FS_Interval
<1>3. \A n \in 0..N : S(n) \in Nat
  <2> SUFFICES ASSUME NEW n \in 0..N PROVE S(n) \in Nat
    OBVIOUS
  <2>1. IsFiniteSet(1..n) /\ \A i \in 1..n : q[i] \in Nat
    BY <1>1, <1>2
  <2> HIDE DEF q
  <2> QED
    BY <2>1, SumOfNaturals
<1>4. ASSUME NEW n \in 0..N PROVE Lacking(qty, SubSeq(batch, 1, n)) = L(n)
  <2> DEFINE first == SubSeq(batch, 1, n)
  <2>1. DOMAIN first = 1..n /\ \A i \in 1..n : first[i] = q[i]
    BY <1>1, SubSeqProperties
  <2>3. Lacking(qty, first) = IF qty > SumFunction(first) THEN qty - SumFunction(first) ELSE 0
    BY DEF Lacking
  <2> HIDE DEF q, first
  <2>4. SumFunction(first) = S(n)
    BY <2>1, <1>2, SumsAgree DEF SumFunction
  <2> QED
    BY <2>3, <2>4 DEF first
<1>5. Lacking(qty, batch) = L(N)
  <2>1. SumFunction(q) = S(N)
    BY <1>1 DEF SumFunction
  <2> QED
    BY <2>1 DEF Lacking
<1>6. DOMAIN d = 1..N /\ \A i \in 1..N : d[i] = IF L(i - 1) < q[i] THEN L(i - 1) ELSE q[i]
  <2>1. d = [i \in DOMAIN batch |->
               IF Lacking(qty, SubSeq(batch, 1, i - 1)) < batch[i]
               THEN Lacking(qty, SubSeq(batch, 1, i - 1)) ELSE batch[i]]
    BY DEF DrawFrom
  <2>2. \A i \in 1..N : i - 1 \in 0..N
    BY <1>1
  <2> HIDE DEF d, L, q, N
  <2>3. \A i \in 1..N : Lacking(qty, SubSeq(batch, 1, i - 1)) = L(i - 1)
    BY <2>2, <1>4
  <2> QED
    BY <2>1, <2>3, <1>1
<1>7. \A n \in 0..N : L(n) \in Nat
    BY <1>3
<1> HIDE DEF d, q, N
<1>8. \A i \in 1..N : d[i] \in Nat
  <2> SUFFICES ASSUME NEW i \in 1..N PROVE d[i] \in Nat
    OBVIOUS
  <2>1. i - 1 \in 0..N
    BY <1>1
  <2> QED
    BY <2>1, <1>1, <1>6, <1>7
<1>9. \A n \in 0..N : n < N =>
         /\ S(n + 1) = q[n + 1] + S(n) /\ D(n + 1) = d[n + 1] + D(n) /\ D(n) \in Int
         /\ n + 1 \in 1..N
  <2> SUFFICES ASSUME NEW n \in 0..N, n < N
               PROVE  /\ S(n + 1) = q[n + 1] + S(n) /\ D(n + 1) = d[n + 1] + D(n) /\ D(n) \in Int
                      /\ n + 1 \in 1..N
    OBVIOUS
  <2>1. n \in Nat /\ n + 1 \in 1..N /\ \A i \in 1..(n + 1) : i \in 1..N
    BY <1>1
  <2>2. \A i \in 1..(n + 1) : q[i] \in Int /\ d[i] \in Int
    BY <2>1, <1>1, <1>8
  <2> HIDE DEF S, D
  <2>3. SumFunctionOnSet(q, 1..(n + 1)) = q[n + 1] + SumFunctionOnSet(q, 1..n)
    BY <2>1, <2>2, SumOfFirst
  <2>4. /\ SumFunctionOnSet(d, 1..(n + 1)) = d[n + 1] + SumFunctionOnSet(d, 1..n)
        /\ SumFunctionOnSet(d, 1..n) \in Int
    BY <2>1, <2>2, SumOfFirst
  <2> QED
    BY <2>1, <2>3, <2>4 DEF S, D
<1> DEFINE G == {n \in Nat : n <= N => D(n) + L(n) = qty}
<1>10. 0 \in G
  <2>1. 1..0 = {}
    OBVIOUS
  <2>2. S(0) = 0 /\ D(0) = 0
    BY <2>1, SumOfNothing
  <2> QED
    BY <2>2
<1>11. ASSUME NEW n \in Nat, n \in G PROVE n + 1 \in G
  <2> SUFFICES ASSUME n + 1 <= N PROVE D(n + 1) + L(n + 1) = qty
    OBVIOUS
  <2>1. n \in 0..N /\ n < N /\ n + 1 \in 0..N /\ (n + 1) - 1 = n /\ n <= N
    BY <1>1
  <2>2. D(n) + L(n) = qty
    BY <2>1, <1>11
  <2>3. S(n + 1) = q[n + 1] + S(n) /\ D(n + 1) = d[n + 1] + D(n) /\ D(n) \in Int /\ n + 1 \in 1..N
    BY <2>1, <1>9
  <2>4. d[n + 1] = IF L(n) < q[n + 1] THEN L(n) ELSE q[n + 1]
    BY <2>1, <2>3, <1>6
  <2>5. q[n + 1] \in Nat /\ S(n) \in Nat /\ d[n + 1] \in Nat
    BY <2>1, <2>3, <1>1, <1>3, <1>8
  <2> DEFINE x == q[n + 1]
             y == d[n + 1]
             s == S(n)
             r == D(n)
  <2>6. /\ r + L(n) = qty /\ L(n) = (IF qty > s THEN qty - s ELSE 0)
        /\ L(n + 1) = (IF qty > x + s THEN qty - (x + s) ELSE 0)
        /\ y = (IF L(n) < x THEN L(n) ELSE x) /\ D(n + 1) = y + r
    BY <2>2, <2>3, <2>4
  <2>7. x \in Nat /\ y \in Nat /\ s \in Nat /\ r \in Int
    BY <2>3, <2>5
  <2> DEFINE k == L(n)
             k1 == L(n + 1)
             r1 == D(n + 1)
  <2> HIDE DEF x, y, s, r, k, k1, r1
  <2>8. r1 + k1 = qty
    BY <2>6, <2>7 DEF k, k1, r1
  <2> QED
    BY <2>8 DEF r1, k1
<1> HIDE DEF G
<1>12. D(N) + L(N) = qty
  <2>1. Nat \subseteq G
    BY <1>10, <1>11, UpFromZero
  <2> QED
    BY <2>1, <1>1 DEF G
<1>13. d \in Seq(Nat) /\ d \in Seq(Int) /\ SumFunction(d) = D(N)
  <2>1. d = [i \in 1..N |-> d[i]]
    <3>1. d = [i \in DOMAIN batch |->
                 IF Lacking(qty, SubSeq(batch, 1, i - 1)) < batch[i]
                 THEN Lacking(qty, SubSeq(batch, 1, i - 1)) ELSE batch[i]]
      BY DEF d, DrawFrom
    <3>2. d = [i \in DOMAIN d |-> d[i]]
      BY <3>1
    <3> QED
      BY <3>2, <1>6
  <2>2. d \in [1..N -> Nat] /\ d \in [1..N -> Int]
    BY <2>1, <1>8
  <2>3. d \in Seq(Nat) /\ d \in Seq(Int)
    BY <2>2, <1>1
  <2>4. SumFunction(d) = D(N)
    BY <1>6 DEF SumFunction
  <2> QED
    BY <2>3, <2>4
<1>14. L(N) \in Nat
  <2>1. N \in 0..N
    BY <1>1
  <2> QED
    BY <2>1, <1>7
<1> HIDE DEF L, D
<1>15. Append(d, L(N)) \in Seq(Nat)
    BY <1>13, <1>14, AppendProperties
<1>16. SumFunction(Append(d, L(N))) = SumFunction(d) + L(N)
    BY <1>13, <1>14, SumOfAppended
<1> QED
    BY <1>5, <1>12, <1>13, <1>15, <1>16 DEF d

LEMMA RunningJobs ==
    ASSUME InventoryTypeOK, NEW j \in StockJobs
    PROVE  /\ stockJob[j].op = "none" <=> stockJob[j] = NoJob
           /\ stockJob[j] # NoJob => stockJob[j] \in StockJob
BY DEF InventoryTypeOK, NoJob, StockJob

LEMMA RecipesNeed ==
    ASSUME InventoryTypeOK, NEW o \in StockOrders
    PROVE  Needs(o) \in [Materials -> Nat] /\ InRecipe(o) \subseteq Materials
<1>1. recipe \in [Materials -> Nat]
    BY InventoryAssumption DEF InventoryTypeOK
<1>2. Entries[o] \in Seq(Materials)
    BY InventoryAssumption
<1>3. InRecipe(o) \subseteq Materials
    BY <1>2, ElementOfSeq DEF InRecipe, ToSet
<1> QED
    BY <1>1, <1>3 DEF Needs

LEMMA StockTypesAtFirst == InventoryInit => InventoryTypeOK
<1> SUFFICES ASSUME InventoryInit PROVE InventoryTypeOK
    OBVIOUS
<1>1. InitialStock \in Nat /\ Servings \subseteq Nat
    BY InventoryAssumption
<1>2. None \in [Materials -> Nat]
    BY DEF None
<1>3. [reduce |-> "no", restore |-> "no", out |-> None, back |-> None, cogs |-> 0,
       sameRecipe |-> TRUE] \in UsedRow
    BY <1>2 DEF UsedRow
<1>4. used \in [StockOrders -> UsedRow]
    BY <1>3 DEF InventoryInit
<1>5. batches \in [Materials -> Seq(Nat)] /\ drawn \in [Materials -> Nat]
    BY <1>2 DEF InventoryInit
<1>6. stock \in [Materials -> Int] /\ moved \in [Materials -> Int] /\ recipe \in [Materials -> Servings]
    BY <1>1, <1>2 DEF InventoryInit, None
<1>7. adminCalls \in 0..MaxAdmin
    BY InventoryAssumption DEF InventoryInit
<1> QED
    BY <1>4, <1>5, <1>6, <1>7 DEF InventoryInit, InventoryTypeOK

LEMMA StockBegins ==
    ASSUME StockInv, NEW j \in StockJobs, NEW op \in {"reduce", "restore"}, NEW o \in StockOrders,
           BeginForOrder(j, op, o)
    PROVE  StockInv'
<1> DEFINE new == Job(op, o, Needs(o), {m \in InRecipe(o) : recipe[m] > 0})
<1> USE DEF StockInv
<1>1. /\ stockJob[j] = NoJob /\ used[o][op] = "no"
      /\ stockJob' = [stockJob EXCEPT ![j] = new]
      /\ used' = [used EXCEPT ![o][op] = "running"]
      /\ UNCHANGED <<stock, moved, drawn, batches, recipe, raced, unbooked, adminCalls>>
    BY DEF BeginForOrder
<1>2. used[o] \in UsedRow
    BY DEF InventoryTypeOK
<1>3. /\ used'[o] \in UsedRow /\ used'[o][op] = "running"
      /\ \A p \in {"reduce", "restore"} : p # op => used'[o][p] = used[o][p]
      /\ \A f \in {"out", "back", "cogs", "sameRecipe"} : used'[o][f] = used[o][f]
      /\ \A r \in StockOrders \ {o} : used'[r] = used[r]
  <2>1. CASE op = "reduce"
    <3>1. used' = [used EXCEPT ![o] = [used[o] EXCEPT !.reduce = "running"]]
      BY <1>1, <2>1
    <3>2. used'[o] = [used[o] EXCEPT !.reduce = "running"] /\ \A r \in StockOrders \ {o} : used'[r] = used[r]
      BY <3>1 DEF InventoryTypeOK
    <3> QED
      BY <3>2, <1>2, <2>1 DEF UsedRow
  <2>2. CASE op = "restore"
    <3>1. used' = [used EXCEPT ![o] = [used[o] EXCEPT !.restore = "running"]]
      BY <1>1, <2>2
    <3>2. used'[o] = [used[o] EXCEPT !.restore = "running"] /\ \A r \in StockOrders \ {o} : used'[r] = used[r]
      BY <3>1 DEF InventoryTypeOK
    <3> QED
      BY <3>2, <1>2, <2>2 DEF UsedRow
  <2> QED
    BY <2>1, <2>2
<1>4. used' \in [StockOrders -> UsedRow]
  <2>1. \A r \in StockOrders : used'[r] \in UsedRow
    BY <1>3 DEF InventoryTypeOK
  <2> QED
    BY <2>1, <1>1 DEF InventoryTypeOK
<1>5. /\ new \in StockJob /\ new.op = op /\ new.order = o /\ new.need = Needs(o) /\ new.held = {}
      /\ new.todo = {m \in InRecipe(o) : recipe[m] > 0}
      /\ \A m \in Materials : new.draws[m] = <<>>
  <2>1. Needs(o) \in [Materials -> Nat] /\ InRecipe(o) \subseteq Materials
    BY RecipesNeed
  <2>2. None \in [Materials -> Int]
    BY DEF None
  <2> QED
    BY <2>1, <2>2 DEF Job, StockJob
<1> HIDE DEF new
<1>6. /\ stockJob'[j] = new /\ \A k \in StockJobs \ {j} : stockJob'[k] = stockJob[k]
      /\ stockJob' \in [StockJobs -> {NoJob} \cup StockJob]
    BY <1>1, <1>5 DEF InventoryTypeOK
<1>7. /\ new # NoJob /\ j \notin JobsNow /\ JobsNow' = JobsNow \cup {j}
      /\ \A k \in JobsNow : stockJob'[k] = stockJob[k] /\ stockJob[k] \in StockJob
  <2>1. new # NoJob
    BY <1>5 DEF NoJob
  <2> QED
    BY <1>1, <1>6, <2>1 DEF JobsNow, InventoryTypeOK
<1>8. InventoryTypeOK'
    BY <1>1, <1>4, <1>6 DEF InventoryTypeOK
<1>9. \A r \in StockOrders : Needs(r)' = Needs(r)
    BY <1>1 DEF Needs
<1>10. JobsAreOfTheirOrder'
  <2>1. ASSUME NEW k \in JobsNow, OfOrder(stockJob[k])
        PROVE  /\ stockJob[k].order = o => stockJob[k].op # op
               /\ used'[stockJob[k].order][stockJob[k].op] = "running"
               /\ used'[stockJob[k].order].sameRecipe = used[stockJob[k].order].sameRecipe
    BY <2>1, <1>1, <1>3 DEF JobsAreOfTheirOrder, OfOrder
  <2>2. ASSUME NEW k \in JobsNow', OfOrder(stockJob'[k])
        PROVE  /\ stockJob'[k].order \in StockOrders
               /\ used'[stockJob'[k].order][stockJob'[k].op] = "running"
               /\ \A i \in JobsNow' :
                     stockJob'[i].op = stockJob'[k].op /\ stockJob'[i].order = stockJob'[k].order => i = k
               /\ used'[stockJob'[k].order].sameRecipe => stockJob'[k].need = Needs(stockJob'[k].order)
    <3>1. CASE k = j
      <4>1. \A i \in JobsNow : ~ (stockJob[i].op = op /\ stockJob[i].order = o)
        BY <2>1 DEF OfOrder
      <4> QED
        BY <3>1, <4>1, <1>3, <1>5, <1>6, <1>7
    <3>2. CASE k \in JobsNow
      <4>1. OfOrder(stockJob[k]) /\ stockJob'[k] = stockJob[k]
        BY <2>2, <3>2, <1>7
      <4>2. ~ (op = stockJob[k].op /\ o = stockJob[k].order)
        BY <4>1, <3>2, <2>1
      <4>3. used'[stockJob[k].order].sameRecipe = used[stockJob[k].order].sameRecipe
        BY <4>1, <3>2, <2>1
      <4>4. used'[stockJob[k].order][stockJob[k].op] = "running"
        BY <4>1, <3>2, <2>1
      <4>5. \A i \in JobsNow' :
               stockJob'[i].op = stockJob[k].op /\ stockJob'[i].order = stockJob[k].order => i = k
        BY <4>1, <4>2, <3>2, <1>5, <1>6, <1>7 DEF JobsAreOfTheirOrder
      <4> QED
        BY <4>1, <4>3, <4>4, <4>5, <3>2 DEF JobsAreOfTheirOrder
    <3> QED
      BY <3>1, <3>2, <1>7
  <2> QED
    BY <2>2, <1>9 DEF JobsAreOfTheirOrder, OfOrder
<1>11. DrawsAddUp'
  <2>1. \A m \in Materials : Needs(o)[m] > 0 => m \in InRecipe(o) /\ recipe[m] > 0
    BY DEF Needs
  <2>2. \A m \in Materials : /\ m \notin new.held /\ new.draws[m] = <<>>
                             /\ new.need[m] > 0 => m \in new.held \cup new.todo
    BY <2>1, <1>5
  <2> QED
    BY <2>2, <1>6, <1>7 DEF DrawsAddUp
<1>12. /\ \A r \in StockOrders : used'[r].reduce = "done" => used[r].reduce = "done"
       /\ \A r \in StockOrders : used'[r].restore = "done" => used[r].restore = "done"
       /\ \A r \in StockOrders : /\ used'[r].out = used[r].out /\ used'[r].back = used[r].back
                                 /\ used'[r].cogs = used[r].cogs /\ used'[r].sameRecipe = used[r].sameRecipe
    BY <1>3
<1>13. SameRecipesSameNeeds'
    BY <1>12, <1>9 DEF SameRecipesSameNeeds
<1>14. LedgerExplainsStock'
    BY <1>1 DEF LedgerExplainsStock
<1>15. CogsIsWhole'
    BY <1>12 DEF CogsIsWhole
<1> QED
    BY <1>8, <1>10, <1>11, <1>13, <1>14, <1>15

\* A step that leaves all but the jobs alone, and of a job its order and need.
LEMMA SameOrders ==
    ASSUME StockInv, NEW j \in JobsNow, stockJob' \in [StockJobs -> {NoJob} \cup StockJob],
           stockJob'[j] \in StockJob,
           \A f \in {"op", "order", "need"} : stockJob'[j][f] = stockJob[j][f],
           \A k \in StockJobs \ {j} : stockJob'[k] = stockJob[k],
           UNCHANGED <<used, recipe>>
    PROVE  JobsNow' = JobsNow /\ JobsAreOfTheirOrder'
<1>1. j \in StockJobs /\ stockJob[j] # NoJob /\ stockJob'[j] # NoJob
    BY DEF JobsNow, NoJob, StockJob
<1>2. JobsNow' = JobsNow
    BY <1>1 DEF JobsNow
<1>3. \A k \in JobsNow : /\ stockJob'[k].op = stockJob[k].op /\ stockJob'[k].order = stockJob[k].order
                         /\ stockJob'[k].need = stockJob[k].need
    BY DEF JobsNow
<1>4. \A r \in StockOrders : Needs(r)' = Needs(r)
    BY DEF Needs
<1>5. JobsAreOfTheirOrder
    BY DEF StockInv
<1> QED
    BY <1>2, <1>3, <1>4, <1>5 DEF JobsAreOfTheirOrder, OfOrder

LEMMA StockIsTaken ==
    ASSUME StockInv, NEW j \in StockJobs, NEW m \in Materials, Take(j, m) PROVE StockInv'
<1> DEFINE job == stockJob[j]
           given == IF job.op = "reduce"
                    THEN Append(DrawFrom(job.need[m], batches[m]), Lacking(job.need[m], batches[m]))
                    ELSE <<>>
           new == [job EXCEPT !.todo = @ \ {m}, !.held = @ \cup {m}, !.draws[m] = given]
<1> USE DEF StockInv
<1>1. /\ job.op # "none" /\ m \in job.todo
      /\ UNCHANGED <<stock, moved, drawn, batches, recipe, used, raced, unbooked, adminCalls>>
      /\ stockJob' = [stockJob EXCEPT ![j] = new]
  <2>1. job.op # "none" /\ IsNext(job, m)
    BY DEF Take
  <2>2. m \in job.todo
    BY <2>1 DEF IsNext
  <2> HIDE DEF given
  <2>3. stockJob' = [stockJob EXCEPT ![j] = new]
    BY DEF Take, given
  <2> QED
    BY <2>1, <2>2, <2>3 DEF Take
<1>2. job # NoJob /\ job \in StockJob /\ j \in JobsNow
    BY <1>1, RunningJobs DEF JobsNow, NoJob
<1>3. batches[m] \in Seq(Nat) /\ job.need[m] \in Nat
    BY <1>2 DEF InventoryTypeOK, StockJob
<1>4. given \in Seq(Nat) /\ (job.op = "reduce" => SumFunction(given) = job.need[m])
  <2>1. /\ Append(DrawFrom(job.need[m], batches[m]), Lacking(job.need[m], batches[m])) \in Seq(Nat)
        /\ SumFunction(Append(DrawFrom(job.need[m], batches[m]), Lacking(job.need[m], batches[m])))
             = job.need[m]
    BY <1>3, DrawsCover
  <2> QED
    BY <2>1
<1> HIDE DEF given
<1>5. /\ new \in StockJob /\ new.op = job.op /\ new.order = job.order /\ new.need = job.need
      /\ new.todo = job.todo \ {m} /\ new.held = job.held \cup {m}
      /\ new.draws[m] = given /\ \A i \in Materials \ {m} : new.draws[i] = job.draws[i]
  <2>1. new.draws = [job.draws EXCEPT ![m] = given] /\ new.draws \in [Materials -> Seq(Nat)]
    BY <1>2, <1>4 DEF StockJob
  <2>2. job.held \cup {m} \in SUBSET Materials /\ job.todo \ {m} \in SUBSET Materials
    BY <1>2 DEF StockJob
  <2> QED
    BY <2>1, <2>2, <1>2 DEF StockJob
<1> HIDE DEF new
<1>6. /\ stockJob'[j] = new /\ \A k \in StockJobs \ {j} : stockJob'[k] = stockJob[k]
      /\ stockJob' \in [StockJobs -> {NoJob} \cup StockJob]
    BY <1>1, <1>5 DEF InventoryTypeOK
<1>7. JobsNow' = JobsNow /\ JobsAreOfTheirOrder'
    BY <1>1, <1>2, <1>5, <1>6, SameOrders
<1>8. InventoryTypeOK'
    BY <1>1, <1>6 DEF InventoryTypeOK
<1>9. DrawsAddUp'
  <2>1. ASSUME job.op = "reduce", NEW i \in Materials
        PROVE  /\ i \in new.held => SumFunction(new.draws[i]) = job.need[i]
               /\ i \notin new.held => new.draws[i] = <<>>
               /\ job.need[i] > 0 => i \in new.held \cup new.todo
    <3>1. /\ i \in job.held => SumFunction(job.draws[i]) = job.need[i]
          /\ i \notin job.held => job.draws[i] = <<>>
          /\ job.need[i] > 0 => i \in job.held \cup job.todo
      BY <2>1, <1>2 DEF DrawsAddUp
    <3>2. CASE i = m
      BY <3>2, <1>4, <1>5, <2>1
    <3>3. CASE i # m
      <4>1. new.draws[i] = job.draws[i] /\ (i \in new.held <=> i \in job.held)
            /\ (i \in new.todo <=> i \in job.todo)
        BY <3>3, <1>5
      <4> QED
        BY <4>1, <3>1
    <3> QED
      BY <3>2, <3>3
  <2>2. \A k \in JobsNow \ {j} : stockJob'[k] = stockJob[k]
    BY <1>6 DEF JobsNow
  <2>3. new.op = job.op /\ new.need = job.need
    BY <1>5
  <2> QED
    BY <2>1, <2>2, <2>3, <1>6, <1>7 DEF DrawsAddUp
<1>10. SameRecipesSameNeeds' /\ LedgerExplainsStock' /\ CogsIsWhole'
    BY <1>1 DEF SameRecipesSameNeeds, LedgerExplainsStock, CogsIsWhole, Needs
<1> QED
    BY <1>7, <1>8, <1>9, <1>10

\* A call that ends leaves the others as they are.
LEMMA OthersStay ==
    ASSUME StockInv, NEW j \in JobsNow, End(j),
           \A o \in StockOrders : \A k \in JobsNow \ {j} :
              LET other == stockJob[k]
              IN other.order = o /\ OfOrder(other)
                 => used'[o][other.op] = used[o][other.op] /\ used'[o].sameRecipe = used[o].sameRecipe,
           UNCHANGED recipe
    PROVE  /\ stockJob' \in [StockJobs -> {NoJob} \cup StockJob]
           /\ JobsAreOfTheirOrder' /\ DrawsAddUp'
<1>1. /\ j \in StockJobs /\ stockJob' = [stockJob EXCEPT ![j] = NoJob]
      /\ stockJob \in [StockJobs -> {NoJob} \cup StockJob]
    BY DEF JobsNow, End, StockInv, InventoryTypeOK
<1>2. stockJob' \in [StockJobs -> {NoJob} \cup StockJob]
    BY <1>1
<1>3. JobsNow' = JobsNow \ {j} /\ \A k \in JobsNow' : stockJob'[k] = stockJob[k]
    BY <1>1 DEF JobsNow
<1>4. DrawsAddUp'
    BY <1>3 DEF StockInv, DrawsAddUp
<1>5. \A r \in StockOrders : Needs(r)' = Needs(r)
    BY DEF Needs
<1>6. JobsAreOfTheirOrder'
  <2> SUFFICES ASSUME NEW k \in JobsNow \ {j}, OfOrder(stockJob[k])
               PROVE  /\ stockJob[k].order \in StockOrders
                      /\ used'[stockJob[k].order][stockJob[k].op] = "running"
                      /\ \A i \in JobsNow \ {j} :
                            stockJob[i].op = stockJob[k].op /\ stockJob[i].order = stockJob[k].order => i = k
                      /\ used'[stockJob[k].order].sameRecipe => stockJob[k].need = Needs(stockJob[k].order)
    BY <1>3, <1>5 DEF JobsAreOfTheirOrder, OfOrder
  <2>1. /\ stockJob[k].order \in StockOrders
        /\ used[stockJob[k].order][stockJob[k].op] = "running"
        /\ \A i \in JobsNow :
              stockJob[i].op = stockJob[k].op /\ stockJob[i].order = stockJob[k].order => i = k
        /\ used[stockJob[k].order].sameRecipe => stockJob[k].need = Needs(stockJob[k].order)
    BY DEF StockInv, JobsAreOfTheirOrder
  <2>2. /\ used'[stockJob[k].order][stockJob[k].op] = used[stockJob[k].order][stockJob[k].op]
        /\ used'[stockJob[k].order].sameRecipe = used[stockJob[k].order].sameRecipe
    BY <2>1
  <2> QED
    BY <2>1, <2>2
<1> QED
    BY <1>2, <1>4, <1>6

LEMMA SumOfDraws ==
    ASSUME NEW s \in Seq(Nat) PROVE SumFunction(s) \in Nat
<1>1. IsFiniteSet(DOMAIN s) /\ \A i \in DOMAIN s : s[i] \in Nat
    BY FS_Interval, ElementOfSeq
<1> QED
    BY <1>1, SumOfNaturals DEF SumFunction

LEMMA SumOfFewDraws ==
    ASSUME NEW s \in Seq(Nat) PROVE SumFunctionOnSet(s, 1..(Len(s) - 1)) \in Nat
<1>1. Len(s) \in Nat /\ IsFiniteSet(1..(Len(s) - 1))
    BY FS_Interval
<1>2. \A i \in 1..(Len(s) - 1) : s[i] \in Nat
    BY <1>1, ElementOfSeq
<1> QED
    BY <1>1, <1>2, SumOfNaturals

\* What all that is drawn costs is what all that is needed costs.
LEMMA CogsOfNeed ==
    ASSUME StockInv, NEW j \in StockJobs, Ready(j, "reduce")
    PROVE  Cogs(stockJob[j]) \in Nat /\ Cogs(stockJob[j]) = SumFunction(stockJob[j].need)
<1> DEFINE job == stockJob[j]
           c == [m \in Materials |-> SumFunction(job.draws[m])]
<1>1. job.op = "reduce" /\ job.todo = {} /\ job \in StockJob /\ j \in JobsNow
    BY RunningJobs DEF Ready, StockInv, JobsNow, NoJob
<1>2. \A m \in Materials : job.draws[m] \in Seq(Nat) /\ job.need[m] \in Nat
    BY <1>1 DEF StockJob
<1>3. \A m \in Materials : SumFunction(job.draws[m]) = job.need[m]
  <2> SUFFICES ASSUME NEW m \in Materials PROVE SumFunction(job.draws[m]) = job.need[m]
    OBVIOUS
  <2>1. /\ m \in job.held => SumFunction(job.draws[m]) = job.need[m]
        /\ m \notin job.held => job.draws[m] = <<>>
        /\ job.need[m] > 0 => m \in job.held \cup job.todo
    BY <1>1 DEF StockInv, DrawsAddUp
  <2>2. CASE m \in job.held
    BY <2>1, <2>2
  <2>3. CASE m \notin job.held
    <3>1. job.draws[m] = <<>> /\ job.need[m] = 0
      BY <2>1, <2>3, <1>1, <1>2
    <3>2. DOMAIN <<>> = {}
      OBVIOUS
    <3>3. SumFunction(<<>>) = 0
      BY <3>2, SumOfNothing DEF SumFunction
    <3> QED
      BY <3>1, <3>3
  <2> QED
    BY <2>2, <2>3
<1>4. DOMAIN c = Materials /\ DOMAIN job.need = Materials /\ \A m \in Materials : c[m] = job.need[m]
    BY <1>1, <1>3 DEF StockJob
<1>5. Cogs(job) = SumFunctionOnSet(c, Materials)
    BY <1>4 DEF Cogs, SumFunction
<1>6. SumFunction(job.need) = SumFunctionOnSet(job.need, Materials)
    BY <1>4 DEF SumFunction
<1>7. IsFiniteSet(Materials)
    BY InventoryAssumption
<1> HIDE DEF c, job
<1>8. \A m \in Materials : c[m] \in Nat
    BY <1>4, <1>2
<1>9. SumFunctionOnSet(c, Materials) \in Nat
    BY <1>7, <1>8, SumOfNaturals
<1>10. SumFunctionOnSet(c, Materials) = SumFunctionOnSet(job.need, Materials)
    BY <1>4, <1>7, SumsAgree
<1> QED
    BY <1>5, <1>6, <1>9, <1>10 DEF job

LEMMA StockIsReduced ==
    ASSUME StockInv, NEW j \in StockJobs, CommitReduce(j) PROVE StockInv'
<1> DEFINE job == stockJob[j]
           o == job.order
<1> USE DEF StockInv
<1>1. /\ Ready(j, "reduce") /\ End(j)
      /\ stock' = [m \in Materials |-> stock[m] - job.need[m]]
      /\ moved' = [m \in Materials |-> moved[m] - FromBatches(job, m) - job.need[m]]
      /\ drawn' = [m \in Materials |-> drawn[m] + FromBatches(job, m)]
      /\ used' = [used EXCEPT ![o] = [used[o] EXCEPT !.reduce = "done", !.out = job.need,
                                                     !.cogs = Cogs(job)]]
      /\ UNCHANGED <<batches, recipe, raced, unbooked, adminCalls>>
  <2> HIDE DEF o
  <2>1. used' = [used EXCEPT ![o].reduce = "done", ![o].out = job.need, ![o].cogs = Cogs(job)]
    BY DEF CommitReduce, o
  <2> QED
    BY <2>1 DEF CommitReduce
<1>2. job.op = "reduce" /\ job \in StockJob /\ j \in JobsNow
    BY <1>1, RunningJobs DEF Ready, JobsNow, NoJob
<1>3. Cogs(job) \in Nat /\ Cogs(job) = SumFunction(job.need)
    BY <1>1, CogsOfNeed
<1>4. /\ o \in StockOrders /\ used[o].reduce = "running"
      /\ \A k \in JobsNow \ {j} : ~ (stockJob[k].op = "reduce" /\ stockJob[k].order = o)
      /\ used[o].sameRecipe => job.need = Needs(o)
    BY <1>2 DEF JobsAreOfTheirOrder, OfOrder
<1>5. used[o] \in UsedRow /\ job.need \in [Materials -> Nat]
    BY <1>2, <1>4 DEF InventoryTypeOK, StockJob
<1> DEFINE row == [used[o] EXCEPT !.reduce = "done", !.out = job.need, !.cogs = Cogs(job)]
<1>6. /\ row \in UsedRow /\ row.reduce = "done" /\ row.restore = used[o].restore
      /\ row.out = job.need /\ row.back = used[o].back /\ row.cogs = Cogs(job)
      /\ row.sameRecipe = used[o].sameRecipe
  <2> HIDE DEF job, o
  <2> QED
    BY <1>3, <1>5 DEF UsedRow
<1>0. \A m \in Materials : FromBatches(job, m) \in Nat
  <2>1. \A m \in Materials : job.draws[m] \in Seq(Nat)
    BY <1>2 DEF StockJob
  <2> HIDE DEF job
  <2> QED
    BY <2>1, SumOfFewDraws DEF FromBatches
<1> HIDE DEF row, o, job
<1>7. /\ used'[o] = row /\ \A r \in StockOrders \ {o} : used'[r] = used[r]
      /\ used' \in [StockOrders -> UsedRow]
    BY <1>1, <1>4, <1>6 DEF InventoryTypeOK, row, job, o
<1>8. /\ stockJob' \in [StockJobs -> {NoJob} \cup StockJob]
      /\ JobsAreOfTheirOrder' /\ DrawsAddUp'
  <2>1. \A k \in JobsNow \ {j} : OfOrder(stockJob[k]) /\ stockJob[k].order = o => stockJob[k].op = "restore"
    BY <1>4 DEF OfOrder
  <2>2. \A r \in StockOrders : \A k \in JobsNow \ {j} :
              LET other == stockJob[k]
              IN other.order = r /\ OfOrder(other)
                 => used'[r][other.op] = used[r][other.op] /\ used'[r].sameRecipe = used[r].sameRecipe
    BY <2>1, <1>6, <1>7
  <2>3. End(j) /\ UNCHANGED recipe
    BY <1>1
  <2> QED
    BY <2>2, <2>3, <1>2, OthersStay
<1>9. stock' \in [Materials -> Int] /\ moved' \in [Materials -> Int] /\ drawn' \in [Materials -> Nat]
  <2>1. \A m \in Materials : /\ stock[m] \in Int /\ moved[m] \in Int /\ drawn[m] \in Nat
                             /\ job.need[m] \in Nat
    BY <1>5 DEF InventoryTypeOK
  <2>2. stock' \in [Materials -> Int]
    BY <2>1, <1>1 DEF job
  <2>3. moved' \in [Materials -> Int]
    BY <2>1, <1>0, <1>1 DEF job
  <2>4. drawn' \in [Materials -> Nat]
    BY <2>1, <1>0, <1>1 DEF job
  <2> QED
    BY <2>2, <2>3, <2>4
<1>10. batches' \in [Materials -> Seq(Nat)]
    BY <1>1 DEF InventoryTypeOK
<1>11. InventoryTypeOK'
    BY <1>1, <1>7, <1>8, <1>9, <1>10 DEF InventoryTypeOK
<1>12. \A r \in StockOrders : Needs(r)' = Needs(r)
    BY <1>1 DEF Needs
<1>13. SameRecipesSameNeeds'
  <2>1. \A r \in StockOrders : used'[r].sameRecipe =>
           /\ used'[r].reduce = "done" => used'[r].out = Needs(r)
           /\ used'[r].restore = "done" => used'[r].back = Needs(r)
    <3>1. SameRecipesSameNeeds
      OBVIOUS
    <3> QED
      BY <3>1, <1>4, <1>6, <1>7 DEF SameRecipesSameNeeds, o, job
  <2> QED
    BY <2>1, <1>12 DEF SameRecipesSameNeeds
<1>14. LedgerExplainsStock'
  <2> SUFFICES ASSUME NEW m \in Materials, ~ (m \in raced \/ m \in unbooked)
               PROVE  stock'[m] = InitialStock + moved'[m] + drawn'[m]
    BY <1>1 DEF LedgerExplainsStock
  <2>1. stock[m] = InitialStock + moved[m] + drawn[m]
    BY DEF LedgerExplainsStock
  <2>2. /\ stock'[m] = stock[m] - job.need[m]
        /\ moved'[m] = moved[m] - FromBatches(job, m) - job.need[m]
        /\ drawn'[m] = drawn[m] + FromBatches(job, m)
    BY <1>1 DEF job
  <2>3. /\ moved[m] \in Int /\ drawn[m] \in Int /\ job.need[m] \in Int /\ InitialStock \in Int
        /\ FromBatches(job, m) \in Int
    BY <1>0, <1>5, InventoryAssumption DEF InventoryTypeOK
  <2> DEFINE given == FromBatches(job, m)
  <2> HIDE DEF given
  <2>4. /\ moved'[m] = moved[m] - given - job.need[m] /\ drawn'[m] = drawn[m] + given /\ given \in Int
    BY <2>2, <2>3 DEF given
  <2> QED
    BY <2>1, <2>2, <2>3, <2>4
<1>15. CogsIsWhole'
  <2>1. CogsIsWhole
    OBVIOUS
  <2> QED
    BY <2>1, <1>3, <1>6, <1>7 DEF CogsIsWhole, o
<1> QED
    BY <1>8, <1>11, <1>13, <1>14, <1>15

LEMMA StockIsRestored ==
    ASSUME StockInv, NEW j \in StockJobs, CommitRestore(j) PROVE StockInv'
<1> DEFINE job == stockJob[j]
           o == job.order
           back == job.need
           row == [used[o] EXCEPT !.restore = "done", !.back = back]
<1> USE DEF StockInv
<1>1. /\ Ready(j, "restore") /\ End(j)
      /\ stock' = [m \in Materials |-> stock[m] + back[m]]
      /\ moved' = [m \in Materials |-> moved[m] + IF Booked(o, m) THEN back[m] ELSE 0]
      /\ batches' = [m \in Materials |-> IF Booked(o, m) /\ back[m] > 0
                         THEN Append(batches[m], back[m]) ELSE batches[m]]
      /\ unbooked' = unbooked \cup {m \in Materials : back[m] > 0 /\ ~Booked(o, m)}
      /\ UNCHANGED <<drawn, recipe, raced, adminCalls>>
    BY DEF CommitRestore, Restoration
<1>2. used' = [used EXCEPT ![o] = row]
  <2> HIDE DEF o, back
  <2>1. used' = [used EXCEPT ![o].restore = "done", ![o].back = back]
    BY DEF CommitRestore, Restoration, o, back
  <2> QED
    BY <2>1
<1>3. job.op = "restore" /\ job \in StockJob /\ j \in JobsNow
    BY <1>1, RunningJobs DEF Ready, JobsNow, NoJob
<1>4. /\ o \in StockOrders /\ used[o].restore = "running"
      /\ \A k \in JobsNow \ {j} : ~ (stockJob[k].op = "restore" /\ stockJob[k].order = o)
      /\ used[o].sameRecipe => back = Needs(o)
    BY <1>3 DEF JobsAreOfTheirOrder, OfOrder
<1>5. used[o] \in UsedRow /\ back \in [Materials -> Nat]
    BY <1>3, <1>4 DEF InventoryTypeOK, StockJob
<1>6. /\ row \in UsedRow /\ row.restore = "done" /\ row.reduce = used[o].reduce
      /\ row.back = back /\ row.out = used[o].out /\ row.cogs = used[o].cogs
      /\ row.sameRecipe = used[o].sameRecipe
  <2> HIDE DEF back, o
  <2> QED
    BY <1>5 DEF UsedRow
<1> HIDE DEF row, o, back, job
<1>7. /\ used'[o] = row /\ \A r \in StockOrders \ {o} : used'[r] = used[r]
      /\ used' \in [StockOrders -> UsedRow]
    BY <1>2, <1>4, <1>6 DEF InventoryTypeOK
<1>8. /\ stockJob' \in [StockJobs -> {NoJob} \cup StockJob]
      /\ JobsAreOfTheirOrder' /\ DrawsAddUp'
  <2>1. \A k \in JobsNow \ {j} : OfOrder(stockJob[k]) /\ stockJob[k].order = o => stockJob[k].op = "reduce"
    BY <1>4 DEF OfOrder
  <2>2. \A r \in StockOrders : \A k \in JobsNow \ {j} :
              LET other == stockJob[k]
              IN other.order = r /\ OfOrder(other)
                 => used'[r][other.op] = used[r][other.op] /\ used'[r].sameRecipe = used[r].sameRecipe
    BY <2>1, <1>6, <1>7
  <2>3. End(j) /\ UNCHANGED recipe
    BY <1>1
  <2> QED
    BY <2>2, <2>3, <1>3, OthersStay
<1>9. \A m \in Materials : stock[m] \in Int /\ moved[m] \in Int /\ back[m] \in Nat
    BY <1>5 DEF InventoryTypeOK
<1>10. stock' \in [Materials -> Int] /\ moved' \in [Materials -> Int] /\ unbooked' \subseteq Materials
  <2>1. stock' \in [Materials -> Int]
    BY <1>1, <1>9
  <2>2. moved' \in [Materials -> Int]
    BY <1>1, <1>9
  <2> QED
    BY <2>1, <2>2, <1>1 DEF InventoryTypeOK
<1>11. batches' \in [Materials -> Seq(Nat)]
  <2>1. \A m \in Materials : batches[m] \in Seq(Nat) /\ back[m] \in Nat
    BY <1>9 DEF InventoryTypeOK
  <2> QED
    BY <2>1, <1>1
<1>12. InventoryTypeOK'
    BY <1>1, <1>7, <1>8, <1>10, <1>11 DEF InventoryTypeOK
<1>13. SameRecipesSameNeeds'
  <2>1. \A r \in StockOrders : Needs(r)' = Needs(r)
    BY <1>1 DEF Needs
  <2>2. \A r \in StockOrders : used'[r].sameRecipe =>
           /\ used'[r].reduce = "done" => used'[r].out = Needs(r)
           /\ used'[r].restore = "done" => used'[r].back = Needs(r)
    <3>1. SameRecipesSameNeeds
      OBVIOUS
    <3> QED
      BY <3>1, <1>4, <1>6, <1>7 DEF SameRecipesSameNeeds
  <2> QED
    BY <2>1, <2>2 DEF SameRecipesSameNeeds
<1>14. LedgerExplainsStock'
  <2> SUFFICES ASSUME NEW m \in Materials, ~ (m \in raced \/ m \in unbooked')
               PROVE  stock'[m] = InitialStock + moved'[m] + drawn'[m]
    BY <1>1 DEF LedgerExplainsStock
  <2>1. m \notin unbooked /\ (back[m] > 0 => Booked(o, m))
    BY <1>1
  <2>2. stock[m] = InitialStock + moved[m] + drawn[m]
    BY <2>1 DEF LedgerExplainsStock
  <2>3. stock'[m] = stock[m] + back[m] /\ moved'[m] = moved[m] + back[m]
    BY <2>1, <1>1, <1>9
  <2>4. InitialStock \in Int /\ drawn[m] \in Int /\ drawn'[m] = drawn[m]
    BY <1>1, InventoryAssumption DEF InventoryTypeOK
  <2> QED
    BY <2>2, <2>3, <2>4, <1>9
<1>15. CogsIsWhole'
  <2>1. CogsIsWhole
    OBVIOUS
  <2> QED
    BY <2>1, <1>4, <1>6, <1>7 DEF CogsIsWhole
<1> QED
    BY <1>8, <1>12, <1>13, <1>14, <1>15

LEMMA StockRollsBack ==
    ASSUME StockInv, NEW j \in StockJobs, Rollback(j) PROVE StockInv'
<1> DEFINE job == stockJob[j]
           o == job.order
<1> USE DEF StockInv
<1>1. /\ job.op # "none" /\ End(j)
      /\ used' = IF job.op \in {"reduce", "restore"}
                 THEN [used EXCEPT ![o][job.op] = "failed"] ELSE used
      /\ UNCHANGED <<stock, moved, drawn, batches, recipe, raced, unbooked, adminCalls>>
    BY DEF Rollback
<1>2. job \in StockJob /\ j \in JobsNow
    BY <1>1, RunningJobs DEF JobsNow, NoJob
<1>3. /\ used' \in [StockOrders -> UsedRow]
      /\ \A r \in StockOrders : /\ used'[r].out = used[r].out /\ used'[r].back = used[r].back
                                /\ used'[r].cogs = used[r].cogs /\ used'[r].sameRecipe = used[r].sameRecipe
                                /\ used'[r].reduce = "done" => used[r].reduce = "done"
                                /\ used'[r].restore = "done" => used[r].restore = "done"
      /\ \A r \in StockOrders : \A p \in {"reduce", "restore"} :
            ~ (OfOrder(job) /\ r = o /\ p = job.op) => used'[r][p] = used[r][p]
  <2>1. CASE ~OfOrder(job)
    BY <2>1, <1>1 DEF OfOrder, InventoryTypeOK
  <2>2. ASSUME OfOrder(job) PROVE o \in StockOrders /\ used[o] \in UsedRow
    BY <2>2, <1>2 DEF JobsAreOfTheirOrder, InventoryTypeOK
  <2>3. CASE job.op = "reduce"
    <3>1. used' = [used EXCEPT ![o] = [used[o] EXCEPT !.reduce = "failed"]]
      BY <2>3, <1>1
    <3>2. o \in StockOrders /\ used[o] \in UsedRow
      BY <2>2, <2>3 DEF OfOrder
    <3> HIDE DEF o, job
    <3>3. /\ used'[o] = [used[o] EXCEPT !.reduce = "failed"] /\ used'[o] \in UsedRow
          /\ \A r \in StockOrders \ {o} : used'[r] = used[r]
      BY <3>1, <3>2 DEF InventoryTypeOK, UsedRow
    <3>4. used' \in [StockOrders -> UsedRow]
      BY <3>1, <3>2, <3>3 DEF InventoryTypeOK
    <3>5. /\ used'[o].reduce = "failed" /\ used'[o].restore = used[o].restore /\ used'[o].out = used[o].out
          /\ used'[o].back = used[o].back /\ used'[o].cogs = used[o].cogs
          /\ used'[o].sameRecipe = used[o].sameRecipe
      BY <3>2, <3>3 DEF UsedRow
    <3> QED
      BY <3>3, <3>4, <3>5, <2>3 DEF OfOrder
  <2>4. CASE job.op = "restore"
    <3>1. used' = [used EXCEPT ![o] = [used[o] EXCEPT !.restore = "failed"]]
      BY <2>4, <1>1
    <3>2. o \in StockOrders /\ used[o] \in UsedRow
      BY <2>2, <2>4 DEF OfOrder
    <3> HIDE DEF o, job
    <3>3. /\ used'[o] = [used[o] EXCEPT !.restore = "failed"] /\ used'[o] \in UsedRow
          /\ \A r \in StockOrders \ {o} : used'[r] = used[r]
      BY <3>1, <3>2 DEF InventoryTypeOK, UsedRow
    <3>4. used' \in [StockOrders -> UsedRow]
      BY <3>1, <3>2, <3>3 DEF InventoryTypeOK
    <3>5. /\ used'[o].restore = "failed" /\ used'[o].reduce = used[o].reduce /\ used'[o].out = used[o].out
          /\ used'[o].back = used[o].back /\ used'[o].cogs = used[o].cogs
          /\ used'[o].sameRecipe = used[o].sameRecipe
      BY <3>2, <3>3 DEF UsedRow
    <3> QED
      BY <3>3, <3>4, <3>5, <2>4 DEF OfOrder
  <2> QED
    BY <2>1, <2>3, <2>4 DEF OfOrder
<1>4. /\ stockJob' \in [StockJobs -> {NoJob} \cup StockJob]
      /\ JobsAreOfTheirOrder' /\ DrawsAddUp'
  <2>1. \A k \in JobsNow \ {j} : OfOrder(stockJob[k]) =>
           /\ stockJob[k].op \in {"reduce", "restore"}
           /\ ~ (OfOrder(job) /\ stockJob[k].order = o /\ stockJob[k].op = job.op)
    BY <1>2 DEF OfOrder, JobsAreOfTheirOrder
  <2> HIDE DEF job, o
  <2>2. \A r \in StockOrders : \A k \in JobsNow \ {j} :
              LET other == stockJob[k]
              IN other.order = r /\ OfOrder(other)
                 => used'[r][other.op] = used[r][other.op] /\ used'[r].sameRecipe = used[r].sameRecipe
    BY <2>1, <1>3
  <2>3. End(j) /\ UNCHANGED recipe
    BY <1>1
  <2> QED
    BY <2>2, <2>3, <1>2, OthersStay
<1>5. InventoryTypeOK'
    BY <1>1, <1>3, <1>4 DEF InventoryTypeOK
<1>6. SameRecipesSameNeeds'
  <2>1. \A r \in StockOrders : Needs(r)' = Needs(r)
    BY <1>1 DEF Needs
  <2> QED
    BY <2>1, <1>3 DEF SameRecipesSameNeeds
<1>7. LedgerExplainsStock'
    BY <1>1 DEF LedgerExplainsStock
<1>8. CogsIsWhole'
    BY <1>3 DEF CogsIsWhole
<1> QED
    BY <1>4, <1>5, <1>6, <1>7, <1>8

LEMMA AdminBegins ==
    ASSUME StockInv, NEW j \in StockJobs, stockJob[j] = NoJob, NEW new \in StockJob,
           ~OfOrder(new), stockJob' = [stockJob EXCEPT ![j] = new], AdminCalls,
           UNCHANGED <<stock, moved, drawn, batches, recipe, used, raced, unbooked>>
    PROVE  StockInv'
<1> USE DEF StockInv
<1>1. /\ stockJob'[j] = new /\ \A k \in StockJobs \ {j} : stockJob'[k] = stockJob[k]
      /\ stockJob' \in [StockJobs -> {NoJob} \cup StockJob]
    BY DEF InventoryTypeOK
<1>2. JobsNow' = JobsNow \cup {j} /\ \A k \in JobsNow : stockJob'[k] = stockJob[k]
  <2>1. new # NoJob
    BY DEF StockJob, NoJob
  <2> QED
    BY <2>1, <1>1 DEF JobsNow
<1>3. adminCalls' \in 0..MaxAdmin
    BY InventoryAssumption DEF InventoryTypeOK, AdminCalls
<1>4. InventoryTypeOK'
    BY <1>1, <1>3 DEF InventoryTypeOK
<1>5. \A r \in StockOrders : Needs(r)' = Needs(r)
    BY DEF Needs
<1>6. JobsAreOfTheirOrder'
  <2>1. ASSUME NEW k \in JobsNow', OfOrder(stockJob'[k])
        PROVE  /\ stockJob'[k].order \in StockOrders
               /\ used[stockJob'[k].order][stockJob'[k].op] = "running"
               /\ \A i \in JobsNow' :
                     stockJob'[i].op = stockJob'[k].op /\ stockJob'[i].order = stockJob'[k].order => i = k
               /\ used[stockJob'[k].order].sameRecipe => stockJob'[k].need = Needs(stockJob'[k].order)
    <3>1. k \in JobsNow /\ stockJob'[k] = stockJob[k] /\ OfOrder(stockJob[k])
      BY <2>1, <1>1, <1>2
    <3>2. \A i \in JobsNow : stockJob[i].op = stockJob[k].op /\ stockJob[i].order = stockJob[k].order => i = k
      BY <3>1 DEF JobsAreOfTheirOrder
    <3>3. stockJob'[j].op # stockJob[k].op
      BY <3>1, <1>1 DEF OfOrder
    <3> QED
      BY <3>1, <3>2, <3>3, <1>2 DEF JobsAreOfTheirOrder
  <2> QED
    BY <2>1, <1>5 DEF JobsAreOfTheirOrder, OfOrder
<1>7. DrawsAddUp'
    BY <1>1, <1>2 DEF DrawsAddUp, OfOrder
<1>8. SameRecipesSameNeeds' /\ LedgerExplainsStock' /\ CogsIsWhole'
    BY <1>5 DEF SameRecipesSameNeeds, LedgerExplainsStock, CogsIsWhole
<1> QED
    BY <1>4, <1>6, <1>7, <1>8

LEMMA StockIsCounted ==
    ASSUME StockInv, NEW j \in StockJobs, NEW physical \in [Materials -> Nat],
           OpnameBegin(j, physical)
    PROVE  StockInv'
<1> DEFINE new == Job("opname", 0, physical, {m \in Materials : physical[m] # stock[m]})
<1>1. new \in StockJob /\ ~OfOrder(new)
    BY DEF Job, StockJob, OfOrder, StockInv, InventoryTypeOK
<1> HIDE DEF new
<1>2. /\ stockJob[j] = NoJob /\ AdminCalls /\ stockJob' = [stockJob EXCEPT ![j] = new]
      /\ UNCHANGED <<stock, moved, drawn, batches, recipe, used, raced, unbooked>>
    BY DEF OpnameBegin, new
<1> QED
    BY <1>1, <1>2, AdminBegins

LEMMA WasteIsEntered ==
    ASSUME StockInv, NEW j \in StockJobs, NEW m \in Materials, NEW q \in Nat, WasteBegin(j, m, q)
    PROVE  StockInv'
<1> DEFINE new == Job("waste", 0, [None EXCEPT ![m] = q], {m})
<1>1. None \in [Materials -> Nat] /\ None \in [Materials -> Int]
    BY DEF None
<1>2. [None EXCEPT ![m] = q] \in [Materials -> Nat]
    BY <1>1
<1>3. new \in StockJob /\ ~OfOrder(new)
    BY <1>1, <1>2 DEF Job, StockJob, OfOrder
<1> HIDE DEF new
<1>4. /\ stockJob[j] = NoJob /\ AdminCalls /\ stockJob' = [stockJob EXCEPT ![j] = new]
      /\ UNCHANGED <<stock, moved, drawn, batches, recipe, used, raced, unbooked>>
    BY DEF WasteBegin, new
<1> QED
    BY <1>3, <1>4, AdminBegins

\* A call of the admin that ends leaves the orders as they are.
LEMMA AdminEnds ==
    ASSUME StockInv, NEW j \in JobsNow, End(j), UNCHANGED <<recipe, used>>
    PROVE  /\ stockJob' \in [StockJobs -> {NoJob} \cup StockJob]
           /\ JobsAreOfTheirOrder' /\ DrawsAddUp' /\ SameRecipesSameNeeds' /\ CogsIsWhole'
<1>1. \A o \in StockOrders : \A k \in JobsNow \ {j} :
         LET other == stockJob[k]
         IN other.order = o /\ OfOrder(other)
            => used'[o][other.op] = used[o][other.op] /\ used'[o].sameRecipe = used[o].sameRecipe
    OBVIOUS
<1>2. /\ stockJob' \in [StockJobs -> {NoJob} \cup StockJob]
      /\ JobsAreOfTheirOrder' /\ DrawsAddUp'
    BY <1>1, OthersStay
<1>3. \A r \in StockOrders : Needs(r)' = Needs(r)
    BY DEF Needs
<1> QED
    BY <1>2, <1>3 DEF StockInv, SameRecipesSameNeeds, CogsIsWhole

LEMMA CountIsWritten ==
    ASSUME StockInv, NEW j \in StockJobs, OpnameCommit(j) PROVE StockInv'
<1> DEFINE job == stockJob[j]
           diff == [m \in Materials |-> IF m \in job.held THEN Difference(job, m) ELSE 0]
<1> USE DEF StockInv
<1>1. /\ Ready(j, "opname") /\ End(j)
      /\ stock' = [m \in Materials |-> IF m \in job.held THEN job.need[m] ELSE stock[m]]
      /\ moved' = [m \in Materials |-> moved[m] + diff[m]]
      /\ batches' = [m \in Materials |-> IF diff[m] > 0
                         THEN Append(batches[m], diff[m]) ELSE batches[m]]
      /\ raced' = raced \cup {m \in job.held : stock[m] # job.read[m]}
      /\ UNCHANGED <<drawn, recipe, used, unbooked, adminCalls>>
    BY DEF OpnameCommit
<1>2. job \in StockJob /\ j \in JobsNow
    BY <1>1, RunningJobs DEF Ready, JobsNow, NoJob
<1>3. \A m \in Materials : /\ stock[m] \in Int /\ moved[m] \in Int
                           /\ job.need[m] \in Nat /\ job.read[m] \in Int
    BY <1>2 DEF StockJob, InventoryTypeOK
<1>4. \A m \in Materials : diff[m] \in Int /\ (m \in job.held => diff[m] = job.need[m] - job.read[m])
                           /\ (m \notin job.held => diff[m] = 0)
    BY <1>3 DEF Difference
<1> HIDE DEF diff
<1>5. /\ stockJob' \in [StockJobs -> {NoJob} \cup StockJob]
      /\ JobsAreOfTheirOrder' /\ DrawsAddUp' /\ SameRecipesSameNeeds' /\ CogsIsWhole'
    BY <1>1, <1>2, AdminEnds
<1> HIDE DEF job
<1>6. stock' \in [Materials -> Int] /\ moved' \in [Materials -> Int]
  <2>1. stock' \in [Materials -> Int]
    BY <1>1, <1>3
  <2> QED
    BY <2>1, <1>1, <1>3, <1>4
<1>7. batches' \in [Materials -> Seq(Nat)]
  <2>1. \A m \in Materials : batches[m] \in Seq(Nat)
    BY DEF InventoryTypeOK
  <2>2. \A m \in Materials : diff[m] > 0 => diff[m] \in Nat
    BY <1>4
  <2> QED
    BY <2>1, <2>2, <1>1
<1>8. raced' \subseteq Materials
    BY <1>1, <1>2 DEF InventoryTypeOK, StockJob, job
<1>9. InventoryTypeOK'
    BY <1>1, <1>5, <1>6, <1>7, <1>8 DEF InventoryTypeOK
<1>10. LedgerExplainsStock'
  <2> SUFFICES ASSUME NEW m \in Materials, ~ (m \in raced' \/ m \in unbooked)
               PROVE  stock'[m] = InitialStock + moved'[m] + drawn'[m]
    BY <1>1 DEF LedgerExplainsStock
  <2>1. m \notin raced /\ (m \in job.held => stock[m] = job.read[m])
    BY <1>1
  <2>2. stock[m] = InitialStock + moved[m] + drawn[m]
    BY <2>1 DEF LedgerExplainsStock
  <2>3. /\ moved'[m] = moved[m] + diff[m]
        /\ m \in job.held => stock'[m] = job.need[m]
        /\ m \notin job.held => stock'[m] = stock[m]
    BY <1>1
  <2>4. InitialStock \in Int /\ drawn[m] \in Int /\ drawn'[m] = drawn[m]
    BY <1>1, InventoryAssumption DEF InventoryTypeOK
  <2>5. CASE m \in job.held
    BY <2>1, <2>2, <2>3, <2>4, <2>5, <1>3, <1>4
  <2>6. CASE m \notin job.held
    BY <2>2, <2>3, <2>4, <2>6, <1>3, <1>4
  <2> QED
    BY <2>5, <2>6
<1> QED
    BY <1>5, <1>9, <1>10

\* A change of one material, in the stock and in the movements.
LEMMA LedgerFollows ==
    ASSUME StockInv, NEW m \in Materials, NEW change \in Int,
           stock' = [stock EXCEPT ![m] = @ + change], moved' = [moved EXCEPT ![m] = @ + change],
           UNCHANGED <<drawn, raced, unbooked>>
    PROVE  LedgerExplainsStock' /\ stock' \in [Materials -> Int] /\ moved' \in [Materials -> Int]
<1>1. /\ stock \in [Materials -> Int] /\ moved \in [Materials -> Int] /\ drawn \in [Materials -> Nat]
      /\ InitialStock \in Int
    BY InventoryAssumption DEF StockInv, InventoryTypeOK
<1>2. ASSUME NEW n \in Materials, ~ (n \in raced \/ n \in unbooked)
      PROVE  stock'[n] = InitialStock + moved'[n] + drawn'[n]
  <2>1. stock[n] = InitialStock + moved[n] + drawn[n] /\ moved[n] \in Int /\ drawn[n] \in Int
    BY <1>1, <1>2 DEF StockInv, LedgerExplainsStock
  <2> QED
    BY <2>1, <1>1
<1> QED
    BY <1>1, <1>2 DEF LedgerExplainsStock

LEMMA WasteIsWritten ==
    ASSUME StockInv, NEW j \in StockJobs, NEW m \in Materials, WasteCommit(j, m) PROVE StockInv'
<1>1. /\ stockJob[j].op = "waste" /\ End(j)
      /\ stock' = [stock EXCEPT ![m] = @ - stockJob[j].need[m]]
      /\ moved' = [moved EXCEPT ![m] = @ - stockJob[j].need[m]]
      /\ UNCHANGED <<drawn, batches, recipe, used, raced, unbooked, adminCalls>>
    BY DEF WasteCommit
<1>2. stockJob[j] \in StockJob /\ j \in JobsNow
    BY <1>1, RunningJobs DEF JobsNow, NoJob, StockInv
<1> DEFINE change == -stockJob[j].need[m]
<1>3. /\ change \in Int /\ stock' = [stock EXCEPT ![m] = @ + change]
      /\ moved' = [moved EXCEPT ![m] = @ + change]
  <2>1. stockJob[j].need[m] \in Nat /\ stock[m] \in Int /\ moved[m] \in Int
    BY <1>2 DEF StockJob, StockInv, InventoryTypeOK
  <2>2. stock[m] - stockJob[j].need[m] = stock[m] + change /\ moved[m] - stockJob[j].need[m] = moved[m] + change
    BY <2>1
  <2> HIDE DEF change
  <2>3. stock' = [stock EXCEPT ![m] = stock[m] + change] /\ moved' = [moved EXCEPT ![m] = moved[m] + change]
    BY <1>1, <2>2
  <2>4. change \in Int
    BY <2>1 DEF change
  <2> QED
    BY <2>3, <2>4
<1> HIDE DEF change
<1>4. LedgerExplainsStock' /\ stock' \in [Materials -> Int] /\ moved' \in [Materials -> Int]
    BY <1>1, <1>3, LedgerFollows
<1>5. /\ stockJob' \in [StockJobs -> {NoJob} \cup StockJob]
      /\ JobsAreOfTheirOrder' /\ DrawsAddUp' /\ SameRecipesSameNeeds' /\ CogsIsWhole'
    BY <1>1, <1>2, AdminEnds
<1>6. InventoryTypeOK'
    BY <1>1, <1>4, <1>5 DEF StockInv, InventoryTypeOK
<1> QED
    BY <1>4, <1>5, <1>6 DEF StockInv

LEMMA StockIsAdjusted ==
    ASSUME StockInv, NEW m \in Materials, NEW q \in Nat, NEW type, Adjust(m, q, type) PROVE StockInv'
<1> DEFINE change == IF type = "in" THEN q ELSE -q
<1>1. /\ AdminCalls /\ change \in Int
      /\ stock' = [stock EXCEPT ![m] = @ + change] /\ moved' = [moved EXCEPT ![m] = @ + change]
      /\ batches' = IF type = "in" THEN [batches EXCEPT ![m] = Append(@, q)]
                    ELSE batches
      /\ UNCHANGED <<drawn, recipe, used, stockJob, raced, unbooked>>
    BY DEF Adjust
<1> HIDE DEF change
<1>2. LedgerExplainsStock' /\ stock' \in [Materials -> Int] /\ moved' \in [Materials -> Int]
    BY <1>1, LedgerFollows
<1>3. batches' \in [Materials -> Seq(Nat)]
  <2>1. batches \in [Materials -> Seq(Nat)]
    BY DEF StockInv, InventoryTypeOK
  <2>2. Append(batches[m], q) \in Seq(Nat)
    BY <2>1, AppendProperties
  <2>3. batches' = [batches EXCEPT ![m] = Append(batches[m], q)] \/ batches' = batches
    BY <1>1
  <2> QED
    BY <2>1, <2>2, <2>3
<1>4. adminCalls' \in 0..MaxAdmin
    BY <1>1, InventoryAssumption DEF StockInv, InventoryTypeOK, AdminCalls
<1>5. InventoryTypeOK'
    BY <1>1, <1>2, <1>3, <1>4 DEF StockInv, InventoryTypeOK
<1>6. JobsAreOfTheirOrder' /\ DrawsAddUp' /\ SameRecipesSameNeeds' /\ CogsIsWhole'
    BY <1>1 DEF StockInv, JobsAreOfTheirOrder, DrawsAddUp, SameRecipesSameNeeds, CogsIsWhole,
                JobsNow, OfOrder, Needs
<1> QED
    BY <1>2, <1>5, <1>6 DEF StockInv

LEMMA RecipeIsChanged ==
    ASSUME StockInv, NEW m \in Materials, NEW q \in Servings, ChangeRecipe(m, q) PROVE StockInv'
<1> USE DEF StockInv
<1>1. /\ AdminCalls /\ recipe' = [recipe EXCEPT ![m] = q]
      /\ used' = [o \in StockOrders |-> IF {used[o].reduce, used[o].restore} = {"no"} THEN used[o]
                                        ELSE [used[o] EXCEPT !.sameRecipe = FALSE]]
      /\ UNCHANGED <<stock, moved, drawn, batches, stockJob, raced, unbooked>>
    BY DEF ChangeRecipe
<1>2. \A o \in StockOrders :
         /\ used'[o] \in UsedRow /\ used'[o].reduce = used[o].reduce /\ used'[o].restore = used[o].restore
         /\ used'[o].out = used[o].out /\ used'[o].cogs = used[o].cogs
         /\ used'[o].sameRecipe => used[o].reduce = "no" /\ used[o].restore = "no"
  <2> SUFFICES ASSUME NEW o \in StockOrders
               PROVE  /\ used'[o] \in UsedRow /\ used'[o].reduce = used[o].reduce
                      /\ used'[o].restore = used[o].restore
                      /\ used'[o].out = used[o].out /\ used'[o].cogs = used[o].cogs
                      /\ used'[o].sameRecipe => used[o].reduce = "no" /\ used[o].restore = "no"
    OBVIOUS
  <2>1. used[o] \in UsedRow
    BY DEF InventoryTypeOK
  <2>2. CASE {used[o].reduce, used[o].restore} = {"no"}
    BY <2>1, <2>2, <1>1
  <2>3. CASE {used[o].reduce, used[o].restore} # {"no"}
    <3>1. used'[o] = [used[o] EXCEPT !.sameRecipe = FALSE]
      BY <2>3, <1>1
    <3> QED
      BY <3>1, <2>1 DEF UsedRow
  <2> QED
    BY <2>2, <2>3
<1>3. used' \in [StockOrders -> UsedRow]
    BY <1>1, <1>2
<1>4. adminCalls' \in 0..MaxAdmin
    BY <1>1, InventoryAssumption DEF InventoryTypeOK, AdminCalls
<1>5. recipe' \in [Materials -> Servings]
    BY <1>1 DEF InventoryTypeOK
<1>6. InventoryTypeOK'
    BY <1>1, <1>3, <1>4, <1>5 DEF InventoryTypeOK
<1>7. JobsNow' = JobsNow
    BY <1>1 DEF JobsNow
<1>8. JobsAreOfTheirOrder'
  <2>1. ASSUME NEW j \in JobsNow, OfOrder(stockJob[j])
        PROVE  /\ stockJob[j].order \in StockOrders
               /\ used'[stockJob[j].order][stockJob[j].op] = "running"
               /\ \A k \in JobsNow :
                     stockJob[k].op = stockJob[j].op /\ stockJob[k].order = stockJob[j].order => k = j
               /\ ~ used'[stockJob[j].order].sameRecipe
    <3>1. /\ stockJob[j].order \in StockOrders
          /\ used[stockJob[j].order][stockJob[j].op] = "running"
          /\ \A k \in JobsNow :
                stockJob[k].op = stockJob[j].op /\ stockJob[k].order = stockJob[j].order => k = j
      BY <2>1 DEF JobsAreOfTheirOrder
    <3> QED
      BY <3>1, <2>1, <1>2 DEF OfOrder
  <2>2. stockJob' = stockJob
    BY <1>1
  <2> QED
    BY <2>1, <2>2, <1>7 DEF JobsAreOfTheirOrder, OfOrder
<1>9. DrawsAddUp'
    BY <1>1, <1>7 DEF DrawsAddUp
<1>10. SameRecipesSameNeeds'
    BY <1>2 DEF SameRecipesSameNeeds
<1>11. LedgerExplainsStock' /\ CogsIsWhole'
  <2>1. LedgerExplainsStock'
    BY <1>1 DEF LedgerExplainsStock
  <2>2. CogsIsWhole'
    BY <1>2 DEF CogsIsWhole
  <2> QED
    BY <2>1, <2>2
<1> QED
    BY <1>6, <1>8, <1>9, <1>10, <1>11

LEMMA StockInvAtFirst == InventoryInit => StockInv
<1> SUFFICES ASSUME InventoryInit PROVE StockInv
    OBVIOUS
<1>1. InventoryTypeOK
    BY StockTypesAtFirst
<1>2. JobsNow = {}
    BY DEF InventoryInit, JobsNow
<1>3. SameRecipesSameNeeds /\ CogsIsWhole
    BY DEF InventoryInit, SameRecipesSameNeeds, CogsIsWhole
<1>4. LedgerExplainsStock
  <2>1. \A m \in Materials : stock[m] = InitialStock /\ moved[m] = 0 /\ drawn[m] = 0
    BY DEF InventoryInit, None
  <2> QED
    BY <2>1, InventoryAssumption DEF LedgerExplainsStock
<1> QED
    BY <1>1, <1>2, <1>3, <1>4 DEF StockInv, JobsAreOfTheirOrder, DrawsAddUp

LEMMA StockInvStep == StockInv /\ [InventoryNext]_inventoryVars => StockInv'
<1> SUFFICES ASSUME StockInv, [InventoryNext]_inventoryVars PROVE StockInv'
    OBVIOUS
<1>1. Servings \subseteq Nat /\ InitialStock - 1 \in Nat /\ InitialStock + 1 \in Nat
    BY InventoryAssumption
<1>2. ASSUME NEW j \in StockJobs, OrderJob(j) PROVE StockInv'
  <2>1. CASE CommitReduce(j)
    BY <2>1, StockIsReduced
  <2>2. CASE CommitRestore(j)
    BY <2>2, StockIsRestored
  <2>3. CASE OpnameCommit(j)
    BY <2>3, CountIsWritten
  <2>4. ASSUME NEW m \in Materials, Take(j, m) PROVE StockInv'
    BY <2>4, StockIsTaken
  <2>5. ASSUME NEW m \in Materials, WasteCommit(j, m) PROVE StockInv'
    BY <2>5, WasteIsWritten
  <2> QED
    BY <1>2, <2>1, <2>2, <2>3, <2>4, <2>5 DEF OrderJob
<1>3. ASSUME NEW j \in StockJobs, Rollback(j) PROVE StockInv'
    BY <1>3, StockRollsBack
<1>4. ASSUME NEW j \in StockJobs, AdminCall(j) PROVE StockInv'
  <2>1. ASSUME NEW physical \in [Materials -> {InitialStock - 1, InitialStock + 1}],
               OpnameBegin(j, physical)
        PROVE  StockInv'
    <3>1. physical \in [Materials -> Nat]
      BY <1>1
    <3> QED
      BY <2>1, <3>1, StockIsCounted
  <2>2. ASSUME NEW m \in Materials, NEW q \in Servings \ {0}, WasteBegin(j, m, q) PROVE StockInv'
    <3>1. q \in Nat
      BY <1>1
    <3> QED
      BY <2>2, <3>1, WasteIsEntered
  <2> QED
    BY <1>4, <2>1, <2>2 DEF AdminCall
<1>5. ASSUME NEW j \in StockJobs, NEW o \in StockOrders, NEW op \in {"reduce", "restore"},
             BeginForOrder(j, op, o)
      PROVE  StockInv'
    BY <1>5, StockBegins
<1>6. ASSUME NEW m \in Materials, NEW q \in Servings \ {0}, NEW type \in {"in", "adjustment"},
             Adjust(m, q, type)
      PROVE  StockInv'
  <2>1. q \in Nat
    BY <1>1
  <2> QED
    BY <1>6, <2>1, StockIsAdjusted
<1>7. ASSUME NEW m \in Materials, NEW q \in Servings, ChangeRecipe(m, q) PROVE StockInv'
    BY <1>7, RecipeIsChanged
<1>8. CASE UNCHANGED inventoryVars
    BY <1>8 DEF inventoryVars, StockInv, InventoryTypeOK, JobsAreOfTheirOrder, DrawsAddUp,
                SameRecipesSameNeeds, LedgerExplainsStock, CogsIsWhole, JobsNow, OfOrder, Needs
<1> QED
    BY <1>2, <1>3, <1>4, <1>5, <1>6, <1>7, <1>8 DEF InventoryNext

LEMMA StockStaysAsItShould == InventorySpec => []StockInv
BY StockInvAtFirst, StockInvStep, PTL DEF InventorySpec

\* What leaves the stock is in the movements (what came from batches twice) and in the
\* COGS of an order, and comes back when the order is voided and its recipe stayed the
\* same: inventory.service.ts reduceStockForOrder, restoreStockForOrder, submitOpname,
\* recordWaste and adjustStock; unless a stock-take wrote over a newer stock, or a void
\* gave back what was never taken.
THEOREM StockStaysExplained == InventorySpec => [](InventoryTypeOK /\ StockIsExplained)
<1>1. StockInv => InventoryTypeOK /\ StockIsExplained
  <2> SUFFICES ASSUME StockInv PROVE StockIsExplained
    BY DEF StockInv
  <2>1. VoidGivesBack
    BY DEF StockInv, SameRecipesSameNeeds, VoidGivesBack
  <2> QED
    BY <2>1 DEF StockInv, StockIsExplained
<1> QED
    BY <1>1, StockStaysAsItShould, PTL

-----------------------------------------------------------------------------
(* The prices and the discounts *)

\* What the cron is about to start has been stopped by nobody, or just now.
StartsAreFree ==
    cron.at = "start" => \A d \in cron.found : discount[d].manual => d \in overtaken

\* What does not exist yet has been stopped by nobody.
NewOnesAreFree == \A d \in Discounts : discount[d].manual => discount[d].exists

PricingInv == PricingTypeOK /\ StartsAreFree /\ NewOnesAreFree /\ OneLinePerChoice

\* Of the elements of a finite set, one has the largest value.
LEMMA OneIsLargest ==
    ASSUME NEW S, IsFiniteSet(S), S # {}, NEW f, \A x \in S : f[x] \in Int
    PROVE  \E x \in S : \A y \in S : f[x] >= f[y]
<1> DEFINE G == {t \in SUBSET S : t # {} => \E x \in t : \A y \in t : f[x] >= f[y]}
<1>1. {} \in G
    OBVIOUS
<1>2. ASSUME NEW t \in SUBSET S, NEW z \in S \ t, t \in G PROVE t \cup {z} \in G
  <2>1. \A x \in S : f[x] \in Int
    OBVIOUS
  <2>2. CASE t = {}
    <3>1. \A y \in t \cup {z} : f[z] >= f[y]
      BY <2>1, <2>2
    <3> QED
      BY <3>1
  <2>3. CASE t # {}
    <3>1. PICK x \in t : \A y \in t : f[x] >= f[y]
      BY <2>3, <1>2
    <3>2. CASE f[x] >= f[z]
      <4>1. \A y \in t \cup {z} : f[x] >= f[y]
        BY <3>1, <3>2
      <4> QED
        BY <4>1
    <3>3. CASE ~ (f[x] >= f[z])
      <4>1. \A y \in t : f[z] >= f[y]
        <5> SUFFICES ASSUME NEW y \in t PROVE f[z] >= f[y]
          OBVIOUS
        <5>1. f[x] >= f[y] /\ f[x] \in Int /\ f[y] \in Int /\ f[z] \in Int
          BY <3>1, <2>1
        <5> QED
          BY <5>1, <3>3
      <4>2. \A y \in t \cup {z} : f[z] >= f[y]
        BY <4>1, <2>1
      <4> QED
        BY <4>2
    <3> QED
      BY <3>2, <3>3
  <2> QED
    BY <2>2, <2>3
<1> HIDE DEF G
<1>3. S \in G
    BY <1>1, <1>2, UpFromEmpty
<1> QED
    BY <1>3 DEF G

LEMMA MaxIs == ASSUME NEW T \in SUBSET Int, NEW x \in T, \A y \in T : x >= y PROVE Max(T) = x
<1>1. Max(T) \in T /\ \A y \in T : Max(T) >= y
    BY DEF Max
<1>2. Max(T) >= x /\ x >= Max(T) /\ Max(T) \in Int /\ x \in Int
    BY <1>1
<1> DEFINE m == Max(T)
<1> HIDE DEF m
<1>3. m >= x /\ x >= m /\ m \in Int /\ x \in Int
    BY <1>2 DEF m
<1>4. m = x
    BY <1>3
<1> QED
    BY <1>4 DEF m

LEMMA MinIsOneOf == ASSUME NEW T \in SUBSET Nat, T # {} PROVE Min(T) \in T
<1>1. \E x \in T : \A y \in T : x <= y
    BY LeastNumber
<1> QED
    BY <1>1 DEF Min

LEMMA AmountsAreNumbers == \A d \in Discounts : \A p \in Products : Amount(d, p) \in Nat
<1> SUFFICES ASSUME NEW d \in Discounts, NEW p \in Products PROVE Amount(d, p) \in Nat
    OBVIOUS
<1>1. Rule[d] \in RuleRow /\ Price[p] \in Nat
    BY PricingAssumption
<1>2. Rule[d].value \in Nat
    BY <1>1 DEF RuleRow
<1>3. Price[p] * Rule[d].value \in Nat
    BY <1>1, <1>2
<1> HIDE DEF Products
<1> DEFINE product == Price[p] * Rule[d].value
<1> HIDE DEF product
<1>4. product \div 100 \in Nat
    BY <1>3 DEF product
<1> QED
    BY <1>2, <1>4 DEF Amount, product

LEMMA ViewsAreFinite == \A vs \in Views : \A ws \in SUBSET vs : IsFiniteSet(ws)
<1>1. IsFiniteSet(Discounts) /\ IsFiniteSet(BOOLEAN)
  <2>1. BOOLEAN = {TRUE, FALSE}
    OBVIOUS
  <2>2. IsFiniteSet({TRUE}) /\ IsFiniteSet({FALSE})
    BY FS_Singleton
  <2>3. {TRUE, FALSE} = {TRUE} \cup {FALSE}
    OBVIOUS
  <2>4. IsFiniteSet({TRUE} \cup {FALSE})
    BY <2>2, FS_Union
  <2> QED
    BY <2>1, <2>3, <2>4, PricingAssumption
<1>2. IsFiniteSet(Discounts \X BOOLEAN)
    BY <1>1, FS_Product
<1> QED
    BY <1>2, FS_Subset DEF Views

LEMMA TillDiscountIsANumber ==
    ASSUME PricingTypeOK, NEW p \in Products, NEW day PROVE TillDiscount(p, day) \in Int
<1> DEFINE found == {v \in tillHas : InScope(v, p) /\ Rule[v[1]].days \in {"every", day}}
           top == {v \in found : \A w \in found : Priority(w[1]) <= Priority(v[1])}
<1>1. tillHas \in Views /\ found \in SUBSET tillHas /\ top \in SUBSET tillHas
    BY DEF PricingTypeOK
<1>2. IsFiniteSet(top)
    BY <1>1, ViewsAreFinite
<1>3. \A v \in tillHas : v[1] \in Discounts
    BY <1>1 DEF Views
<1>4. CASE found = {}
    BY <1>4 DEF TillDiscount
<1>5. CASE found # {}
  <2>1. \A v : Priority(v) \in {1, 2, 3}
    BY DEF Priority
  <2> HIDE DEF found
  <2>2. top # {}
    <3>1. CASE \E v \in found : Priority(v[1]) = 3
      BY <2>1, <3>1
    <3>2. CASE \A v \in found : Priority(v[1]) # 3
      <4>1. CASE \E v \in found : Priority(v[1]) = 2
        BY <2>1, <3>2, <4>1
      <4>2. CASE \A v \in found : Priority(v[1]) # 2
        <5>1. \A v \in found : Priority(v[1]) = 1
          BY <2>1, <3>2, <4>2
        <5> QED
          BY <5>1, <1>5
      <4> QED
        BY <4>1, <4>2
    <3> QED
      BY <3>1, <3>2
  <2> HIDE DEF top
  <2> DEFINE f == [v \in top |-> Amount(v[1], p)]
  <2>3. \A v \in top : f[v] = Amount(v[1], p) /\ f[v] \in Int
    BY <1>1, <1>3, AmountsAreNumbers
  <2> HIDE DEF f
  <2>4. PICK v \in top : \A w \in top : f[v] >= f[w]
    BY <1>2, <2>2, <2>3, OneIsLargest
  <2> DEFINE T == {Amount(w[1], p) : w \in top}
  <2>5. T \in SUBSET Int /\ f[v] \in T /\ \A y \in T : f[v] >= y
    BY <2>3, <2>4
  <2> HIDE DEF T
  <2>6. Max(T) = f[v]
    BY <2>5, MaxIs
  <2>7. TillDiscount(p, day) = Max(T)
    BY <1>5 DEF TillDiscount, T, top, found
  <2> QED
    BY <2>3, <2>6, <2>7
<1> QED
    BY <1>4, <1>5

LEMMA ServerHasAView == ASSUME PricingTypeOK PROVE ServerHas \in Views
<1>1. \A d \in Discounts : discount[d].aimed \in BOOLEAN
    BY DEF PricingTypeOK, DiscountRow
<1>2. View(Usable) \in Views
    BY <1>1 DEF View, Usable, Views
<1> QED
    BY <1>2 DEF ServerHas, PricingTypeOK

LEMMA ServerDiscountIsANumber ==
    ASSUME PricingTypeOK, NEW p \in Products PROVE ServerDiscount(p) \in Int
<1> DEFINE found == {v \in ServerHas : InScope(v, p) /\ Rule[v[1]].days \in {"every", "none", "today"}}
           capped(v) == IF Amount(v[1], p) < Price[p] THEN Amount(v[1], p) ELSE Price[p]
           T == {capped(v) : v \in found} \cup {0}
<1>1. ServerHas \in Views /\ found \in SUBSET ServerHas
    BY ServerHasAView
<1>2. IsFiniteSet(found)
    BY <1>1, ViewsAreFinite
<1>3. \A v \in found : v[1] \in Discounts
    BY <1>1 DEF Views
<1>4. \A v \in found : capped(v) \in Nat
    BY <1>3, AmountsAreNumbers, PricingAssumption
<1> HIDE DEF found, capped
<1>5. \E x \in T : T \in SUBSET Int /\ x \in Int /\ \A y \in T : x >= y
  <2>1. CASE found = {}
    BY <2>1
  <2>2. CASE found # {}
    <3> DEFINE f == [v \in found |-> capped(v)]
    <3>1. \A v \in found : f[v] = capped(v) /\ f[v] \in Int
      BY <1>4
    <3> HIDE DEF f
    <3>2. PICK v \in found : \A w \in found : f[v] >= f[w]
      BY <1>2, <2>2, <3>1, OneIsLargest
    <3>3. capped(v) \in T /\ T \in SUBSET Int /\ \A y \in T : capped(v) >= y
      BY <1>4, <3>1, <3>2
    <3> QED
      BY <3>3, <1>4
  <2> QED
    BY <2>1, <2>2
<1>6. ServerDiscount(p) = Max(T)
    BY DEF ServerDiscount, found, capped
<1> HIDE DEF T
<1>7. Max(T) \in Int
    BY <1>5, MaxIs
<1> QED
    BY <1>6, <1>7

LEMMA LinesHavePrices ==
    ASSUME PricingTypeOK
    PROVE  /\ IsFiniteSet(DOMAIN lines)
           /\ \A i \in DOMAIN lines :
                 /\ lines[i].product \in Products /\ lines[i].qty \in Nat /\ lines[i].qty > 0
                 /\ Price[lines[i].product] \in Int /\ Extras(lines[i]) \in Int
<1>1. lines \in Seq(Line) /\ \A i \in DOMAIN lines : lines[i] \in Line
    BY ElementOfSeq DEF PricingTypeOK
<1>2. IsFiniteSet(DOMAIN lines)
    BY <1>1, FS_Interval
<1>3. ASSUME NEW i \in DOMAIN lines PROVE Extras(lines[i]) \in Int
  <2> DEFINE c == lines[i].chosen
             f == [k \in DOMAIN c |-> Extra[c[k]]]
  <2>1. c \in Seq(DOMAIN Extra) /\ \A k \in DOMAIN c : c[k] \in DOMAIN Extra
    BY <1>1, ElementOfSeq DEF Line
  <2>2. IsFiniteSet(DOMAIN c)
    <3>1. DOMAIN c = 1..Len(c) /\ Len(c) \in Nat
      BY <2>1
    <3> HIDE DEF c
    <3> QED
      BY <3>1, FS_Interval
  <2>3. \A k \in DOMAIN c : f[k] \in Int
    BY <2>1, PricingAssumption
  <2>4. DOMAIN f = DOMAIN c /\ Extras(lines[i]) = SumFunction(f)
    BY DEF Extras
  <2> HIDE DEF f, c
  <2> QED
    BY <2>2, <2>3, <2>4, SumOfNumbers DEF SumFunction
<1>4. \A i \in DOMAIN lines : lines[i].product \in Products /\ lines[i].qty \in Nat /\ lines[i].qty > 0
    BY <1>1 DEF Line
<1>5. \A i \in DOMAIN lines : Price[lines[i].product] \in Int
    BY <1>4, PricingAssumption
<1> QED
    BY <1>2, <1>3, <1>4, <1>5

TillPart(day, i) ==
    (Price[lines[i].product] + Extras(lines[i]) - TillDiscount(lines[i].product, day)) * lines[i].qty
ServerPart(i) == UnitPrice(lines[i]) * lines[i].qty
TillSum(day) == SumFunction([i \in DOMAIN lines |-> TillPart(day, i)])

LEMMA TotalsAreNumbers ==
    ASSUME PricingTypeOK, NEW day
    PROVE  /\ TillSum(day) \in Int /\ Subtotal \in Int
           /\ CartTotal(day) = IF TillSum(day) > 0 THEN TillSum(day) ELSE 0
           /\ SumFunction([i \in DOMAIN lines |-> UnitPrice(lines[i])]) \in Int
<1>1. IsFiniteSet(DOMAIN lines)
    BY LinesHavePrices
<1>2. \A i \in DOMAIN lines : TillPart(day, i) \in Int
    BY LinesHavePrices, TillDiscountIsANumber DEF TillPart
<1>3. \A i \in DOMAIN lines : UnitPrice(lines[i]) \in Int
    BY LinesHavePrices, ServerDiscountIsANumber DEF UnitPrice
<1>4. \A i \in DOMAIN lines : ServerPart(i) \in Int
    BY <1>3, LinesHavePrices DEF ServerPart
<1>5. ASSUME NEW f, DOMAIN f = DOMAIN lines, \A i \in DOMAIN lines : f[i] \in Int
      PROVE  SumFunction(f) \in Int
    BY <1>1, <1>5, SumOfNumbers DEF SumFunction
<1>6. TillSum(day) \in Int
  <2> DEFINE f == [i \in DOMAIN lines |-> TillPart(day, i)]
  <2>1. DOMAIN f = DOMAIN lines /\ \A i \in DOMAIN lines : f[i] \in Int
    BY <1>2
  <2> HIDE DEF f
  <2>2. SumFunction(f) \in Int
    BY <2>1, <1>5
  <2> QED
    BY <2>2 DEF f, TillSum
<1>7. Subtotal \in Int
  <2> DEFINE f == [i \in DOMAIN lines |-> ServerPart(i)]
  <2>1. DOMAIN f = DOMAIN lines /\ \A i \in DOMAIN lines : f[i] \in Int
    BY <1>4
  <2> HIDE DEF f
  <2>2. SumFunction(f) \in Int
    BY <2>1, <1>5
  <2> QED
    BY <2>2 DEF f, Subtotal, ServerPart
<1>8. SumFunction([i \in DOMAIN lines |-> UnitPrice(lines[i])]) \in Int
  <2> DEFINE f == [i \in DOMAIN lines |-> UnitPrice(lines[i])]
  <2>1. DOMAIN f = DOMAIN lines /\ \A i \in DOMAIN lines : f[i] \in Int
    BY <1>3
  <2> HIDE DEF f
  <2>2. SumFunction(f) \in Int
    BY <2>1, <1>5
  <2> QED
    BY <2>2 DEF f
<1>9. CartTotal(day) = IF TillSum(day) > 0 THEN TillSum(day) ELSE 0
    BY DEF CartTotal, TillSum, TillPart
<1> QED
    BY <1>6, <1>7, <1>8, <1>9

\* Where till and backend come to the same discounts, they come to the same sum.
LEMMA SameDiscountsSameSums ==
    ASSUME PricingTypeOK, NEW day,
           \A i \in DOMAIN lines : TillDiscount(lines[i].product, day) = ServerDiscount(lines[i].product)
    PROVE  /\ TillSum(day) = Subtotal
           /\ (\A i \in DOMAIN lines : lines[i].qty = 1)
              => TillSum(day) = SumFunction([i \in DOMAIN lines |-> UnitPrice(lines[i])])
<1>1. \A i \in DOMAIN lines : TillPart(day, i) = ServerPart(i)
  <2>1. ASSUME NEW i \in DOMAIN lines
        PROVE  Price[lines[i].product] + Extras(lines[i]) - TillDiscount(lines[i].product, day)
                 = UnitPrice(lines[i])
    <3>1. /\ Price[lines[i].product] \in Int /\ Extras(lines[i]) \in Int
          /\ TillDiscount(lines[i].product, day) \in Int
      BY LinesHavePrices, TillDiscountIsANumber
    <3> QED
      BY <3>1 DEF UnitPrice
  <2> QED
    BY <2>1 DEF TillPart, ServerPart
<1>2. TillSum(day) = Subtotal
  <2>1. Subtotal = SumFunction([i \in DOMAIN lines |-> ServerPart(i)])
    BY DEF Subtotal, ServerPart
  <2>2. [i \in DOMAIN lines |-> TillPart(day, i)] = [i \in DOMAIN lines |-> ServerPart(i)]
    BY <1>1
  <2> QED
    BY <2>1, <2>2 DEF TillSum
<1>3. ASSUME \A i \in DOMAIN lines : lines[i].qty = 1
      PROVE  TillSum(day) = SumFunction([i \in DOMAIN lines |-> UnitPrice(lines[i])])
  <2>1. \A i \in DOMAIN lines : UnitPrice(lines[i]) \in Int
    BY LinesHavePrices, ServerDiscountIsANumber DEF UnitPrice
  <2>2. \A i \in DOMAIN lines : TillPart(day, i) = UnitPrice(lines[i])
    BY <1>1, <1>3, <2>1 DEF ServerPart
  <2>3. [i \in DOMAIN lines |-> TillPart(day, i)] = [i \in DOMAIN lines |-> UnitPrice(lines[i])]
    BY <2>2
  <2> QED
    BY <2>3 DEF TillSum
<1> QED
    BY <1>2, <1>3

LEMMA CartsAreRight == ASSUME PricingTypeOK, OneLinePerChoice PROVE CartsAreJudged
<1>1. AgreedPriceIsValid
  <2> SUFFICES ASSUME NEW day \in {"today", "tomorrow"},
                      \A i \in DOMAIN lines :
                         TillDiscount(lines[i].product, day) = ServerDiscount(lines[i].product)
               PROVE  Verdict(FinalPrice, 100 * CartTotal(day)) = "Valid"
    BY DEF AgreedPriceIsValid
  <2>1. /\ TillSum(day) = Subtotal /\ Subtotal \in Int
        /\ CartTotal(day) = IF TillSum(day) > 0 THEN TillSum(day) ELSE 0
    BY SameDiscountsSameSums, TotalsAreNumbers
  <2> QED
    BY <2>1 DEF Verdict, PriceGap, FinalPrice
<1>2. UnderchargeIsFlagged
  <2> SUFFICES ASSUME NEW day \in {"today", "tomorrow"},
                      Verdict(FinalPrice, 100 * CartTotal(day)) = "Valid"
               PROVE  1000 * CartTotal(day) >= 999 * Subtotal
    BY DEF UnderchargeIsFlagged
  <2>1. /\ TillSum(day) \in Int /\ Subtotal \in Int
        /\ CartTotal(day) = IF TillSum(day) > 0 THEN TillSum(day) ELSE 0
    BY TotalsAreNumbers
  <2>2. Verdict(FinalPrice, 100 * CartTotal(day)) # "Perlu Cek"
    OBVIOUS
  <2> QED
    BY <2>1, <2>2 DEF Verdict, PriceGap, FinalPrice
<1>3. SinglePiecesAreValid
  <2> SUFFICES ASSUME NEW day \in {"today", "tomorrow"},
                      \A i \in DOMAIN lines :
                         /\ lines[i].qty = 1
                         /\ TillDiscount(lines[i].product, day) = ServerDiscount(lines[i].product)
               PROVE  Verdict(SyncedFinalPrice, 100 * CartTotal(day)) = "Valid"
    BY DEF SinglePiecesAreValid
  <2> DEFINE sum == SumFunction([i \in DOMAIN lines |-> UnitPrice(lines[i])])
  <2>1. /\ TillSum(day) = sum /\ sum \in Int
        /\ CartTotal(day) = IF TillSum(day) > 0 THEN TillSum(day) ELSE 0
    BY SameDiscountsSameSums, TotalsAreNumbers
  <2>2. SyncedFinalPrice = 100 * sum
    BY DEF SyncedFinalPrice
  <2> HIDE DEF sum
  <2> QED
    BY <2>1, <2>2 DEF Verdict, PriceGap
<1> QED
    BY <1>1, <1>2, <1>3 DEF CartsAreJudged

\* The rows change only in what is active, stopped, aimed and when.
DiscountsChange(S) ==
    /\ \A d \in S : discount'[d] \in DiscountRow
    /\ \A d \in Discounts \ S : discount'[d] = discount[d]

LEMMA DiscountsKeepTheirType ==
    ASSUME PricingTypeOK, NEW S \in SUBSET Discounts, DOMAIN discount' = Discounts,
           discount' = [d \in Discounts |-> discount'[d]], DiscountsChange(S),
           UNCHANGED <<cache, tillHas, lines>>, cron' \in Cron, overtaken' \subseteq Discounts
    PROVE  PricingTypeOK'
<1>1. \A d \in Discounts : discount'[d] \in DiscountRow
    BY DEF PricingTypeOK, DiscountsChange
<1>2. discount' \in [Discounts -> DiscountRow]
    BY <1>1
<1> QED
    BY <1>2 DEF PricingTypeOK

LEMMA OneRowChanges ==
    ASSUME PricingInv, NEW d \in Discounts, NEW row \in DiscountRow, row.manual => row.exists,
           discount' = [discount EXCEPT ![d] = row], UNCHANGED <<cache, tillHas, lines, cron>>,
           overtaken' \subseteq Discounts, overtaken \subseteq overtaken',
           cron.at = "start" /\ d \in cron.found /\ row.manual => d \in overtaken'
    PROVE  PricingInv'
<1>1. discount'[d] = row /\ \A e \in Discounts \ {d} : discount'[e] = discount[e]
    BY DEF PricingInv, PricingTypeOK
<1>2. discount' \in [Discounts -> DiscountRow]
    BY DEF PricingInv, PricingTypeOK
<1>3. PricingTypeOK'
    BY <1>2 DEF PricingInv, PricingTypeOK
<1>4. cron.found \subseteq Discounts
    BY DEF PricingInv, PricingTypeOK, Cron
<1>5. StartsAreFree'
    BY <1>1, <1>4 DEF PricingInv, StartsAreFree
<1>6. NewOnesAreFree'
    BY <1>1 DEF PricingInv, NewOnesAreFree
<1>7. OneLinePerChoice'
    BY DEF PricingInv, OneLinePerChoice
<1> QED
    BY <1>3, <1>5, <1>6, <1>7 DEF PricingInv

LEMMA RowsKeepTheInvariant ==
    ASSUME PricingInv, NEW d \in Discounts,
           \/ Toggle(d) \/ RemoveDiscount(d) \/ ClockMoves(d)
           \/ \E active \in BOOLEAN, time \in {"before", "starting"} : CreateDiscount(d, active, time)
    PROVE  PricingInv'
<1>1. /\ discount[d] \in DiscountRow /\ discount \in [Discounts -> DiscountRow]
      /\ overtaken \subseteq Discounts
      /\ discount[d].manual => discount[d].exists
      /\ cron.at = "start" /\ d \in cron.found /\ discount[d].manual => d \in overtaken
    BY DEF PricingInv, PricingTypeOK, NewOnesAreFree, StartsAreFree
<1>2. CASE Toggle(d)
  <2> DEFINE row == [discount[d] EXCEPT !.active = ~discount[d].active,
                                        !.manual = discount[d].active, !.aimed = FALSE]
  <2>1. /\ discount[d].exists
        /\ discount' = [discount EXCEPT ![d].active = ~discount[d].active,
                                        ![d].manual = ~(~discount[d].active), ![d].aimed = FALSE]
        /\ overtaken' = IF cron.at = "start" THEN overtaken \cup ({d} \cap cron.found) ELSE overtaken
        /\ UNCHANGED <<cache, tillHas, lines, cron>>
    BY <1>2 DEF Toggle
  <2>2. discount[d].active \in BOOLEAN
    BY <1>1 DEF DiscountRow
  <2>3. discount' = [discount EXCEPT ![d] = row]
    <3>1. (~(~discount[d].active)) = discount[d].active
      BY <2>2
    <3> QED
      BY <2>1, <3>1
  <2>4. /\ row \in DiscountRow /\ row.exists = discount[d].exists
        /\ row.manual = discount[d].active
    BY <1>1, <2>2 DEF DiscountRow
  <2> HIDE DEF row
  <2>5. /\ row.manual => row.exists
        /\ overtaken' \subseteq Discounts /\ overtaken \subseteq overtaken'
        /\ cron.at = "start" /\ d \in cron.found /\ row.manual => d \in overtaken'
    BY <1>1, <2>1, <2>4
  <2> QED
    BY <2>1, <2>3, <2>4, <2>5, OneRowChanges
<1>3. CASE RemoveDiscount(d)
  <2> DEFINE row == [discount[d] EXCEPT !.active = FALSE]
  <2>1. discount' = [discount EXCEPT ![d] = row] /\ UNCHANGED <<cache, tillHas, lines, cron, overtaken>>
    BY <1>3 DEF RemoveDiscount
  <2>2. row \in DiscountRow /\ row.manual = discount[d].manual /\ row.exists = discount[d].exists
    BY <1>1 DEF DiscountRow
  <2> HIDE DEF row
  <2> QED
    BY <1>1, <2>1, <2>2, OneRowChanges
<1>4. CASE ClockMoves(d)
  <2> DEFINE row == [discount[d] EXCEPT !.time = Later[discount[d].time]]
  <2>1. /\ discount[d].time # "over" /\ discount' = [discount EXCEPT ![d] = row]
        /\ UNCHANGED <<cache, tillHas, lines, cron, overtaken>>
    BY <1>4 DEF ClockMoves
  <2>2. Later[discount[d].time] \in {"before", "starting", "running", "over"}
    <3>1. discount[d].time \in {"before", "starting", "running"}
      BY <1>1, <2>1 DEF DiscountRow
    <3>2. CASE discount[d].time = "before"
      BY <3>2 DEF Later
    <3>3. CASE discount[d].time = "starting"
      BY <3>3 DEF Later
    <3>4. CASE discount[d].time = "running"
      BY <3>4 DEF Later
    <3> QED
      BY <3>1, <3>2, <3>3, <3>4
  <2>3. row \in DiscountRow /\ row.manual = discount[d].manual /\ row.exists = discount[d].exists
    BY <1>1, <2>2 DEF DiscountRow
  <2> HIDE DEF row
  <2> QED
    BY <1>1, <2>1, <2>3, OneRowChanges
<1>5. ASSUME NEW active \in BOOLEAN, NEW time \in {"before", "starting"}, CreateDiscount(d, active, time)
      PROVE  PricingInv'
  <2> DEFINE row == [discount[d] EXCEPT !.exists = TRUE, !.active = active, !.time = time]
  <2>1. /\ discount' = [discount EXCEPT ![d] = row]
        /\ UNCHANGED <<cache, tillHas, lines, cron, overtaken>>
    BY <1>5 DEF CreateDiscount
  <2>2. row \in DiscountRow /\ row.manual = discount[d].manual /\ row.exists
    BY <1>1 DEF DiscountRow
  <2> HIDE DEF row
  <2> QED
    BY <1>1, <2>1, <2>2, OneRowChanges
<1> QED
    BY <1>2, <1>3, <1>4, <1>5

LEMMA CronKeepsTheInvariant ==
    ASSUME PricingInv, CronFinds \/ CronSwitches \/ CronFails PROVE PricingInv'
<1>1. cron \in Cron /\ discount \in [Discounts -> DiscountRow] /\ overtaken \subseteq Discounts
    BY DEF PricingInv, PricingTypeOK
<1>2. CASE CronFinds
  <2>1. /\ cron' = IF cron.at = "idle" THEN [at |-> "expire", found |-> Expired]
                                       ELSE [at |-> "start", found |-> Starting]
        /\ UNCHANGED <<discount, cache, tillHas, lines, overtaken>>
    BY <1>2 DEF CronFinds
  <2>2. Expired \subseteq Discounts /\ Starting \subseteq Discounts /\ \A d \in Starting : ~discount[d].manual
    BY DEF Expired, Starting
  <2>3. cron' \in Cron
    BY <2>1, <2>2 DEF Cron
  <2>4. PricingTypeOK'
    BY <2>1, <2>3 DEF PricingInv, PricingTypeOK
  <2>5. StartsAreFree'
    BY <2>1, <2>2 DEF StartsAreFree
  <2>6. NewOnesAreFree' /\ OneLinePerChoice'
    BY <2>1 DEF PricingInv, NewOnesAreFree, OneLinePerChoice
  <2> QED
    BY <2>4, <2>5, <2>6 DEF PricingInv
<1>3. CASE CronSwitches
  <2>1. /\ discount' = [d \in Discounts |-> IF d \in cron.found
                                            THEN [discount[d] EXCEPT !.active = (cron.at = "start")]
                                            ELSE discount[d]]
        /\ cron' = [at |-> IF cron.at = "expire" THEN "look" ELSE "idle", found |-> {}]
        /\ overtaken' = {} /\ UNCHANGED <<cache, tillHas, lines>>
    BY <1>3 DEF CronSwitches, Switch
  <2>2. \A d \in Discounts : /\ discount'[d] \in DiscountRow /\ discount'[d].manual = discount[d].manual
                             /\ discount'[d].exists = discount[d].exists
    <3> SUFFICES ASSUME NEW d \in Discounts
                 PROVE  /\ discount'[d] \in DiscountRow /\ discount'[d].manual = discount[d].manual
                        /\ discount'[d].exists = discount[d].exists
      OBVIOUS
    <3> DEFINE active == (cron.at = "start")
    <3>1. active \in BOOLEAN /\ discount[d] \in DiscountRow
      BY <1>1
    <3>2. discount'[d] = IF d \in cron.found THEN [discount[d] EXCEPT !.active = active] ELSE discount[d]
      BY <2>1
    <3> HIDE DEF active
    <3>3. /\ [discount[d] EXCEPT !.active = active] \in DiscountRow
          /\ [discount[d] EXCEPT !.active = active].manual = discount[d].manual
          /\ [discount[d] EXCEPT !.active = active].exists = discount[d].exists
      BY <3>1 DEF DiscountRow
    <3> QED
      BY <3>1, <3>2, <3>3
  <2>3. discount' \in [Discounts -> DiscountRow]
    BY <2>1, <2>2
  <2>4. cron' \in Cron /\ cron'.at # "start"
    BY <2>1 DEF Cron
  <2>5. PricingTypeOK'
    BY <2>1, <2>3, <2>4 DEF PricingInv, PricingTypeOK
  <2>6. StartsAreFree'
    BY <2>4 DEF StartsAreFree
  <2>7. NewOnesAreFree' /\ OneLinePerChoice'
    BY <2>1, <2>2 DEF PricingInv, NewOnesAreFree, OneLinePerChoice
  <2> QED
    BY <2>5, <2>6, <2>7 DEF PricingInv
<1>4. CASE CronFails
  <2>1. /\ cron' = [at |-> "idle", found |-> {}] /\ overtaken' = {}
        /\ UNCHANGED <<discount, cache, tillHas, lines>>
    BY <1>4 DEF CronFails
  <2>2. cron' \in Cron /\ cron'.at # "start"
    BY <2>1 DEF Cron
  <2>3. PricingTypeOK'
    BY <2>1, <2>2 DEF PricingInv, PricingTypeOK
  <2>4. StartsAreFree' /\ NewOnesAreFree' /\ OneLinePerChoice'
    BY <2>1, <2>2 DEF PricingInv, StartsAreFree, NewOnesAreFree, OneLinePerChoice
  <2> QED
    BY <2>3, <2>4 DEF PricingInv
<1> QED
    BY <1>2, <1>3, <1>4

LEMMA ReadersKeepTheInvariant ==
    ASSUME PricingInv, BackendReads \/ CacheEnds \/ TillLoads PROVE PricingInv'
<1>1. ServerHas \in Views
    BY ServerHasAView DEF PricingInv
<1>2. View({d \in Discounts : discount[d].active}) \in Views
  <2>1. \A d \in Discounts : discount[d].aimed \in BOOLEAN
    BY DEF PricingInv, PricingTypeOK, DiscountRow
  <2> QED
    BY <2>1 DEF View, Views
<1>3. /\ cache' \in Views \cup {NoCache} /\ tillHas' \in Views
      /\ UNCHANGED <<discount, lines, cron, overtaken>>
    BY <1>1, <1>2 DEF BackendReads, CacheEnds, TillLoads, PricingInv, PricingTypeOK
<1> QED
    BY <1>3 DEF PricingInv, PricingTypeOK, StartsAreFree, NewOnesAreFree, OneLinePerChoice

\* What the cart keeps, whatever is done to it.
LEMMA OnlyTheCartChanges ==
    ASSUME PricingInv, lines' \in Seq(Line), OneLinePerChoice',
           UNCHANGED <<discount, cache, tillHas, cron, overtaken>>
    PROVE  PricingInv'
BY DEF PricingInv, PricingTypeOK, StartsAreFree, NewOnesAreFree

\* The same lines, with one of them counted anew.
LEMMA OneLineIsCounted ==
    ASSUME PricingInv, NEW i \in DOMAIN lines, NEW n \in Nat \ {0},
           lines' = [lines EXCEPT ![i].qty = n],
           UNCHANGED <<discount, cache, tillHas, cron, overtaken>>
    PROVE  PricingInv'
<1> DEFINE row == [lines[i] EXCEPT !.qty = n]
<1>1. lines \in Seq(Line) /\ \A k \in DOMAIN lines : lines[k] \in Line
    BY ElementOfSeq DEF PricingInv, PricingTypeOK
<1>2. row \in Line /\ row.product = lines[i].product /\ row.chosen = lines[i].chosen
    BY <1>1 DEF Line
<1>3. lines' = [lines EXCEPT ![i] = row]
    OBVIOUS
<1> HIDE DEF row
<1>4. /\ lines' \in Seq(Line) /\ DOMAIN lines' = DOMAIN lines
      /\ lines'[i] = row /\ \A k \in DOMAIN lines \ {i} : lines'[k] = lines[k]
    BY <1>1, <1>2, <1>3, ExceptSeq
<1>5. \A k \in DOMAIN lines : lines'[k].product = lines[k].product /\ lines'[k].chosen = lines[k].chosen
    BY <1>2, <1>4
<1>6. OneLinePerChoice'
    BY <1>4, <1>5 DEF PricingInv, OneLinePerChoice
<1> QED
    BY <1>4, <1>6, OnlyTheCartChanges

LEMMA AddKeepsTheInvariant ==
    ASSUME PricingInv, NEW choice \in Menu, AddToCart(choice) PROVE PricingInv'
<1> DEFINE same == {i \in DOMAIN lines : /\ lines[i].product = choice[1]
                                         /\ Signature(lines[i].chosen) = Signature(choice[2])}
           new == [product |-> choice[1], chosen |-> choice[2], qty |-> 1]
<1>1. lines \in Seq(Line) /\ (\A k \in DOMAIN lines : lines[k] \in Line) /\ DOMAIN lines = 1..Len(lines)
      /\ Len(lines) \in Nat
    BY ElementOfSeq DEF PricingInv, PricingTypeOK
<1>2. UNCHANGED <<discount, cache, tillHas, cron, overtaken>>
    BY DEF AddToCart
<1>3. CASE same # {}
  <2>1. same \in SUBSET Nat
    BY <1>1
  <2> DEFINE i == Min(same)
  <2>2. i \in same
    BY <1>3, <2>1, MinIsOneOf
  <2>3. i \in DOMAIN lines
    BY <2>2
  <2>4. lines' = [lines EXCEPT ![i].qty = lines[i].qty + 1]
    BY <1>3 DEF AddToCart
  <2> HIDE DEF i
  <2>5. lines[i].qty + 1 \in Nat \ {0}
    BY <1>1, <2>3 DEF Line
  <2> QED
    BY <1>2, <2>3, <2>4, <2>5, OneLineIsCounted
<1>4. CASE same = {}
  <2>1. lines' = Append(lines, new)
    BY <1>4 DEF AddToCart
  <2>2. choice[1] \in Products /\ choice[2] \in Seq(DOMAIN Extra)
    BY PricingAssumption
  <2>3. new \in Line
    BY <2>2 DEF Line
  <2>4. new.product = choice[1] /\ new.chosen = choice[2]
    OBVIOUS
  <2>5. \A k \in DOMAIN lines : ~ (/\ lines[k].product = new.product
                                   /\ ToSet(lines[k].chosen) = ToSet(new.chosen))
    BY <1>4, <2>4 DEF Signature
  <2> HIDE DEF new, same
  <2>6. /\ lines' \in Seq(Line) /\ Len(lines') = Len(lines) + 1 /\ lines'[Len(lines) + 1] = new
        /\ \A k \in 1..Len(lines) : lines'[k] = lines[k]
    BY <1>1, <2>1, <2>3, AppendProperties
  <2>7. DOMAIN lines' = 1..(Len(lines) + 1)
    BY <2>6, <1>1
  <2>8. OneLinePerChoice'
    <3> SUFFICES ASSUME NEW a \in 1..(Len(lines) + 1), NEW b \in 1..(Len(lines) + 1),
                        lines'[a].product = lines'[b].product,
                        ToSet(lines'[a].chosen) = ToSet(lines'[b].chosen)
                 PROVE  a = b
      BY <2>7 DEF OneLinePerChoice
    <3>1. CASE a \in 1..Len(lines) /\ b \in 1..Len(lines)
      <4>1. lines[a].product = lines[b].product /\ ToSet(lines[a].chosen) = ToSet(lines[b].chosen)
        BY <3>1, <2>6
      <4> QED
        BY <3>1, <4>1, <1>1 DEF PricingInv, OneLinePerChoice
    <3>2. CASE a = Len(lines) + 1 /\ b \in 1..Len(lines)
      BY <3>2, <2>5, <2>6, <1>1
    <3>3. CASE a \in 1..Len(lines) /\ b = Len(lines) + 1
      BY <3>3, <2>5, <2>6, <1>1
    <3>4. CASE a = Len(lines) + 1 /\ b = Len(lines) + 1
      BY <3>4
    <3> QED
      BY <3>1, <3>2, <3>3, <3>4, <1>1
  <2> QED
    BY <1>2, <2>6, <2>8, OnlyTheCartChanges
<1> QED
    BY <1>3, <1>4

LEMMA RemoveAtIs ==
    ASSUME NEW S, NEW s \in Seq(S), NEW i \in 1..Len(s)
    PROVE  /\ RemoveAt(s, i) \in Seq(S) /\ Len(RemoveAt(s, i)) = Len(s) - 1
           /\ \A k \in 1..(Len(s) - 1) : RemoveAt(s, i)[k] = IF k < i THEN s[k] ELSE s[k + 1]
<1> DEFINE a == SubSeq(s, 1, i - 1)
           b == SubSeq(s, i + 1, Len(s))
<1>1. Len(s) \in Nat /\ i \in Nat /\ 1 <= i /\ i <= Len(s)
    OBVIOUS
<1>2. (\A k \in 1..(i - 1) : s[k] \in S) /\ (\A k \in (i + 1)..Len(s) : s[k] \in S)
    BY <1>1, ElementOfSeq
<1>3. /\ a \in Seq(S) /\ Len(a) = i - 1 /\ \A k \in 1..(i - 1) : a[k] = s[k]
  <2>1. /\ a \in Seq(S) /\ Len(a) = IF 1 <= i - 1 THEN (i - 1) - 1 + 1 ELSE 0
        /\ \A k \in 1..((i - 1) - 1 + 1) : a[k] = s[1 + k - 1]
    BY <1>1, <1>2, SubSeqProperties
  <2>2. (i - 1) - 1 + 1 = i - 1 /\ \A k \in 1..(i - 1) : 1 + k - 1 = k
    BY <1>1
  <2> HIDE DEF a
  <2> QED
    BY <2>1, <2>2, <1>1
<1>4. /\ b \in Seq(S) /\ Len(b) = Len(s) - i /\ \A k \in 1..(Len(s) - i) : b[k] = s[i + k]
  <2>1. /\ b \in Seq(S) /\ Len(b) = IF i + 1 <= Len(s) THEN Len(s) - (i + 1) + 1 ELSE 0
        /\ \A k \in 1..(Len(s) - (i + 1) + 1) : b[k] = s[(i + 1) + k - 1]
    BY <1>1, <1>2, SubSeqProperties
  <2>2. Len(s) - (i + 1) + 1 = Len(s) - i /\ \A k \in 1..(Len(s) - i) : (i + 1) + k - 1 = i + k
    BY <1>1
  <2> HIDE DEF b
  <2>3. \A k \in 1..(Len(s) - i) : b[k] = s[i + k]
    <3> SUFFICES ASSUME NEW k \in 1..(Len(s) - i) PROVE b[k] = s[i + k]
      OBVIOUS
    <3>1. b[k] = s[(i + 1) + k - 1]
      BY <2>1, <2>2
    <3>2. (i + 1) + k - 1 = i + k
      BY <2>2
    <3> QED
      BY <3>1, <3>2
  <2>4. Len(b) = Len(s) - i
    <3> DEFINE n == Len(s)
    <3>1. n \in Nat /\ i \in Nat /\ i <= n /\ Len(b) = IF i + 1 <= n THEN n - (i + 1) + 1 ELSE 0
      BY <2>1, <1>1
    <3> HIDE DEF n
    <3>2. (IF i + 1 <= n THEN n - (i + 1) + 1 ELSE 0) = n - i
      BY <3>1
    <3> QED
      BY <3>1, <3>2 DEF n
  <2> QED
    BY <2>1, <2>3, <2>4
<1> HIDE DEF a, b
<1>5. /\ a \o b \in Seq(S) /\ Len(a \o b) = Len(a) + Len(b)
      /\ \A k \in 1..(Len(a) + Len(b)) : (a \o b)[k] = IF k <= Len(a) THEN a[k] ELSE b[k - Len(a)]
    BY <1>3, <1>4, ConcatProperties
<1>6. \A k \in 1..(Len(s) - 1) : (a \o b)[k] = IF k < i THEN s[k] ELSE s[k + 1]
  <2> SUFFICES ASSUME NEW k \in 1..(Len(s) - 1)
               PROVE  (a \o b)[k] = IF k < i THEN s[k] ELSE s[k + 1]
    OBVIOUS
  <2>1. (a \o b)[k] = IF k <= i - 1 THEN a[k] ELSE b[k - (i - 1)]
    BY <1>1, <1>3, <1>4, <1>5
  <2>2. CASE k < i
    BY <2>1, <2>2, <1>1, <1>3
  <2>3. CASE ~ (k < i)
    <3>1. k - (i - 1) \in 1..(Len(s) - i) /\ i + (k - (i - 1)) = k + 1
      BY <2>3, <1>1
    <3> QED
      BY <2>1, <2>3, <3>1, <1>1, <1>4
  <2> QED
    BY <2>2, <2>3
<1>7. RemoveAt(s, i) = a \o b
    BY DEF RemoveAt, a, b
<1>8. Len(a \o b) = Len(s) - 1
  <2>1. Len(a) = i - 1 /\ Len(b) = Len(s) - i /\ Len(a \o b) = Len(a) + Len(b)
    BY <1>3, <1>4, <1>5
  <2> DEFINE n == Len(s)
  <2>2. n \in Nat /\ i \in Nat
    BY <1>1
  <2> HIDE DEF n
  <2>3. (i - 1) + (n - i) = n - 1
    BY <2>2
  <2> QED
    BY <2>1, <2>3 DEF n
<1> QED
    BY <1>5, <1>6, <1>7, <1>8

LEMMA QuantityKeepsTheInvariant ==
    ASSUME PricingInv, NEW i \in DOMAIN lines, NEW delta \in {-1, 1}, UpdateQuantity(i, delta)
    PROVE  PricingInv'
<1>1. lines \in Seq(Line) /\ (\A k \in DOMAIN lines : lines[k] \in Line) /\ DOMAIN lines = 1..Len(lines)
      /\ Len(lines) \in Nat
    BY ElementOfSeq DEF PricingInv, PricingTypeOK
<1>2. lines[i].qty \in Nat
    BY <1>1 DEF Line
<1>3. /\ lines' = IF lines[i].qty + delta <= 0 THEN RemoveAt(lines, i)
                  ELSE [lines EXCEPT ![i].qty = lines[i].qty + delta]
      /\ UNCHANGED <<discount, cache, tillHas, cron, overtaken>>
    BY DEF UpdateQuantity
<1>4. CASE ~ (lines[i].qty + delta <= 0)
  <2>1. lines[i].qty + delta \in Nat \ {0} /\ lines' = [lines EXCEPT ![i].qty = lines[i].qty + delta]
    BY <1>2, <1>3, <1>4
  <2> QED
    BY <1>3, <2>1, OneLineIsCounted
<1>5. CASE lines[i].qty + delta <= 0
  <2>1. lines' = RemoveAt(lines, i)
    BY <1>3, <1>5
  <2>2. /\ lines' \in Seq(Line) /\ Len(lines') = Len(lines) - 1
        /\ \A k \in 1..(Len(lines) - 1) : lines'[k] = IF k < i THEN lines[k] ELSE lines[k + 1]
    BY <1>1, <2>1, RemoveAtIs
  <2>3. DOMAIN lines' = 1..(Len(lines) - 1)
    BY <2>2
  <2> DEFINE was(k) == IF k < i THEN k ELSE k + 1
  <2>4. /\ \A k \in 1..(Len(lines) - 1) : was(k) \in DOMAIN lines /\ lines'[k] = lines[was(k)]
        /\ \A k, m \in 1..(Len(lines) - 1) : was(k) = was(m) => k = m
    BY <1>1, <2>2
  <2> HIDE DEF was
  <2>5. OneLinePerChoice'
    BY <2>3, <2>4 DEF PricingInv, OneLinePerChoice
  <2> QED
    BY <1>3, <2>2, <2>5, OnlyTheCartChanges
<1> QED
    BY <1>4, <1>5

LEMMA PricingInvAtFirst == PricingInit => PricingInv
<1> SUFFICES ASSUME PricingInit PROVE PricingInv
    OBVIOUS
<1>1. ASSUME NEW d \in Discounts
      PROVE  [exists |-> FALSE, active |-> FALSE, manual |-> FALSE,
              aimed |-> Rule[d].scope # "all_products", time |-> "before"] \in DiscountRow
  <2> DEFINE aimed == Rule[d].scope # "all_products"
  <2>1. aimed \in BOOLEAN
    OBVIOUS
  <2> HIDE DEF aimed
  <2>2. [exists |-> FALSE, active |-> FALSE, manual |-> FALSE,
         aimed |-> aimed, time |-> "before"] \in DiscountRow
    BY <2>1 DEF DiscountRow
  <2> QED
    BY <2>2 DEF aimed
<1>2. discount \in [Discounts -> DiscountRow]
    BY <1>1 DEF PricingInit
<1>3. lines \in Seq(Line) /\ cron \in Cron
    BY DEF PricingInit, Cron
<1>4. PricingTypeOK
    BY <1>2, <1>3 DEF PricingInit, PricingTypeOK, Views
<1> QED
    BY <1>4 DEF PricingInit, PricingInv, StartsAreFree, NewOnesAreFree, OneLinePerChoice

LEMMA PricingInvStep == PricingInv /\ [PricingNext]_priceVars => PricingInv'
<1> SUFFICES ASSUME PricingInv, [PricingNext]_priceVars PROVE PricingInv'
    OBVIOUS
<1>1. CASE UNCHANGED priceVars
    BY <1>1 DEF priceVars, PricingInv, PricingTypeOK, StartsAreFree, NewOnesAreFree, OneLinePerChoice
<1>2. CASE PricingNext
    BY <1>2, RowsKeepTheInvariant, CronKeepsTheInvariant, ReadersKeepTheInvariant,
       AddKeepsTheInvariant, QuantityKeepsTheInvariant DEF PricingNext
<1> QED
    BY <1>1, <1>2

LEMMA PricesStayAsTheyShould == PricingInit /\ [][PricingNext]_priceVars => []PricingInv
BY PricingInvAtFirst, PricingInvStep, PTL

\* Till and backend judge every cart alike: pos.store.svelte.ts cart_total against
\* orders.service.ts createOrder and createOrderWithCache.  That an undercharge is
\* flagged is said of a sale made online; of a synced one only that single pieces whose
\* discounts agree are valid.
THEOREM CartsStayJudged == PricingSpec => [](PricingTypeOK /\ CartsAreJudged)
<1>1. PricingInv => PricingTypeOK /\ CartsAreJudged
    BY CartsAreRight DEF PricingInv
<1> QED
    BY <1>1, PricesStayAsTheyShould, PTL DEF PricingSpec

\* What an admin stopped is started by the cron only when it was stopped between
\* the cron's two queries: discount.cron.service.ts handleDiscountCron.
THEOREM StoppedStaysStopped == PricingSpec => SwitchedOffStaysOff
<1> DEFINE Held == \A d \in Discounts :
              discount[d].manual /\ discount'[d].manual /\ ~discount[d].active /\ discount'[d].active
              => d \in overtaken
<1>1. PricingInv /\ [PricingNext]_priceVars => [Held]_priceVars
  <2> SUFFICES ASSUME PricingInv, PricingNext, NEW d \in Discounts, discount[d].manual,
                      discount'[d].manual, ~discount[d].active, discount'[d].active
               PROVE  d \in overtaken
    OBVIOUS
  <2>1. discount \in [Discounts -> DiscountRow]
    BY DEF PricingInv, PricingTypeOK
  <2>2. CASE CronSwitches
    <3>1. discount' = [e \in Discounts |-> IF e \in cron.found
                                           THEN [discount[e] EXCEPT !.active = (cron.at = "start")]
                                           ELSE discount[e]]
      BY <2>2 DEF CronSwitches, Switch
    <3>2. d \in cron.found
      BY <3>1
    <3>3. discount'[d] = [discount[d] EXCEPT !.active = (cron.at = "start")] /\ discount[d] \in DiscountRow
      BY <3>1, <3>2, <2>1
    <3>4. cron.at = "start"
      BY <3>3 DEF DiscountRow
    <3> QED
      BY <3>2, <3>4 DEF PricingInv, StartsAreFree
  <2>3. ASSUME NEW e \in Discounts, Toggle(e) PROVE d \in overtaken
    <3>1. discount' = [discount EXCEPT ![e] = [discount[e] EXCEPT !.active = ~discount[e].active,
                          !.manual = ~(~discount[e].active), !.aimed = FALSE]]
      BY <2>3 DEF Toggle
    <3>2. e = d
      BY <3>1, <2>1
    <3>3. discount'[d] = [discount[d] EXCEPT !.active = ~discount[d].active,
                          !.manual = ~(~discount[d].active), !.aimed = FALSE] /\ discount[d] \in DiscountRow
      BY <3>1, <3>2, <2>1
    <3>4. discount'[d].manual = discount[d].active
      BY <3>3 DEF DiscountRow
    <3> QED
      BY <3>4
  <2>4. ASSUME NEW e \in Discounts, RemoveDiscount(e) \/ ClockMoves(e) PROVE FALSE
    <3>1. discount'[d].active => discount[d].active
      <4>1. CASE RemoveDiscount(e)
        BY <4>1, <2>1 DEF RemoveDiscount, DiscountRow
      <4>2. CASE ClockMoves(e)
        BY <4>2, <2>1 DEF ClockMoves, DiscountRow
      <4> QED
        BY <2>4, <4>1, <4>2
    <3> QED
      BY <3>1
  <2>5. ASSUME NEW e \in Discounts, NEW active \in BOOLEAN, NEW time \in {"before", "starting"},
               CreateDiscount(e, active, time)
        PROVE  FALSE
    <3>1. e # d
      BY <2>5 DEF CreateDiscount, PricingInv, NewOnesAreFree
    <3>2. discount'[d] = discount[d]
      BY <2>5, <3>1, <2>1 DEF CreateDiscount
    <3> QED
      BY <3>2
  <2>6. CASE UNCHANGED discount
    BY <2>6
  <2>7. \/ CronSwitches \/ UNCHANGED discount
        \/ \E e \in Discounts :
              \/ Toggle(e) \/ RemoveDiscount(e) \/ ClockMoves(e)
              \/ \E active \in BOOLEAN, time \in {"before", "starting"} : CreateDiscount(e, active, time)
    BY DEF PricingNext, CronFinds, CronFails, BackendReads, CacheEnds, TillLoads, AddToCart, UpdateQuantity
  <2> QED
    BY <2>2, <2>3, <2>4, <2>5, <2>6, <2>7
<1>2. [][Held]_priceVars <=> SwitchedOffStaysOff
    BY DEF SwitchedOffStaysOff
<1> QED
    BY <1>1, <1>2, PricesStayAsTheyShould, PTL DEF PricingSpec
=============================================================================
