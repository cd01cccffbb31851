---------------------------- MODULE Vault_proofs ----------------------------
(***************************************************************************)
(* The vault, for every value of the constants.                            *)
(*                                                                         *)
(* First, totals count what books record, and the vault's books are well   *)
(* formed and conserve shares.  Neither half is inductive alone: a         *)
(* withdrawal keeps `total` a natural number only because no balance       *)
(* exceeds the total, which is what conservation says.  So the invariant   *)
(* is the conjunction.                                                     *)
(*                                                                         *)
(* Then, nobody profits from its rounding: the share price never falls     *)
(* while the NAV stands still, shares just minted are never worth more     *)
(* than what was paid for them, and all claims together are covered.       *)
(* These rest on facts about floors and cross-multiplied inequalities,     *)
(* stated as lemmas over naturals.                                         *)
(*                                                                         *)
(* Last, whoever holds shares can leave at the reported price, and shares  *)
(* leave an account only by consent (VaultCalls).                          *)
(***************************************************************************)
EXTENDS VaultCalls, FiniteSetTheorems, FunctionTheorems, TLAPS

-----------------------------------------------------------------------------
(* Totals.  A credit of d adds d fresh units to the set Total counts, and  *)
(* everything else follows from counting units.                            *)

\* A row of units is as large as the set that numbers them.
LEMMA SlotsCount ==
  ASSUME NEW x, NEW a \in Nat, NEW b \in Nat
  PROVE  /\ IsFiniteSet(Slots(x, (a + 1)..b))
         /\ a <= b => Cardinality(Slots(x, (a + 1)..b)) = b - a
<1> DEFINE I == (a + 1)..b
           T == Slots(x, I)
           h == [i \in I |-> <<x, i>>]
<1>1. IsFiniteSet(I) /\ (a <= b => Cardinality(I) = b - a)
  <2>1. IsFiniteSet(I) /\ Cardinality(I) = IF a + 1 > b THEN 0 ELSE b - (a + 1) + 1
    BY FS_Interval
  <2> QED BY <2>1
<1>2. ExistsBijection(I, T)
  <2>1. h \in [I -> T]
    BY DEF Slots
  <2>2. \A i, j \in I : h[i] = h[j] => i = j
    OBVIOUS
  <2>3. \A t \in T : \E i \in I : h[i] = t
    BY DEF Slots
  <2> QED
    BY <2>1, <2>2, <2>3 DEF ExistsBijection, Bijection, Injection, Surjection, IsInjective
<1> QED
  BY <1>1, <1>2, FS_Bijection

\* The units of a book, one by one.
LEMMA UnitsElement ==
  ASSUME NEW S, NEW f \in [S -> Nat], NEW u
  PROVE  u \in Units(f) <=> \E x \in S : \E i \in 1..f[x] : u = <<x, i>>
BY DEF Units, Slots

\* A finite book has finitely many units, so its total is a number.
LEMMA TotalNat ==
  ASSUME NEW S, IsFiniteSet(S), NEW f \in [S -> Nat]
  PROVE  IsFiniteSet(Units(f)) /\ Total(f) \in Nat
<1> DEFINE R == {Slots(x, 1..f[x]) : x \in S}
           h == [x \in S |-> Slots(x, 1..f[x])]
<1>1. IsFiniteSet(R)
  <2>1. h \in Surjection(S, R)
    BY DEF Surjection
  <2> QED BY <2>1, FS_Surjection
<1>2. \A r \in R : IsFiniteSet(r)
  <2>1. ASSUME NEW x \in S PROVE IsFiniteSet(Slots(x, 1..f[x]))
    <3>1. f[x] \in Nat /\ 0 \in Nat
      OBVIOUS
    <3>2. IsFiniteSet(Slots(x, (0 + 1)..f[x]))
      BY <3>1, SlotsCount
    <3> QED BY <3>2
  <2> QED BY <2>1
<1>3. IsFiniteSet(UNION R)
  BY <1>1, <1>2, FS_UNION
<1>4. IsFiniteSet(Units(f))
  BY <1>3 DEF Units
<1> QED
  BY <1>4, FS_CardinalityType DEF Total

-----------------------------------------------------------------------------
\* A book of zeros totals zero.
LEMMA TotalZero ==
  ASSUME NEW S
  PROVE  Total([a \in S |-> 0]) = 0
<1>1. Units([a \in S |-> 0]) = {}
  BY DEF Units, Slots
<1> QED
  BY <1>1, FS_EmptySet DEF Total

\* A credit, and a debit that is covered, leave a book of numbers.
LEMMA BookType ==
  ASSUME NEW S, NEW f \in [S -> Nat], NEW x \in S, NEW d \in Nat
  PROVE  /\ Credit(f, x, d) \in [S -> Nat]
         /\ d <= f[x] => Debit(f, x, d) \in [S -> Nat]
BY DEF Credit, Debit

\* Crediting an account raises the total by exactly the amount credited.
LEMMA TotalCredit ==
  ASSUME NEW S, IsFiniteSet(S), NEW f \in [S -> Nat], NEW x \in S, NEW d \in Nat
  PROVE  Total(Credit(f, x, d)) = Total(f) + d
<1> DEFINE g == Credit(f, x, d)
           New == Slots(x, (f[x] + 1)..(f[x] + d))
<1>1. g \in [S -> Nat] /\ g[x] = f[x] + d /\ \A y \in S \ {x} : g[y] = f[y]
  BY DEF Credit
<1>2. f[x] \in Nat /\ f[x] + d \in Nat /\ f[x] <= f[x] + d
  OBVIOUS
<1>3. Units(g) = Units(f) \cup New
  <2>1. ASSUME NEW u \in Units(g) PROVE u \in Units(f) \cup New
    <3> HIDE DEF g
    <3>a. g \in [S -> Nat]
      BY <1>1
    <3>b. u \in Units(g) <=> \E y \in S : \E i \in 1..g[y] : u = <<y, i>>
      BY <3>a, UnitsElement
    <3>0. PICK y \in S : \E i \in 1..g[y] : u = <<y, i>>
      BY <3>b, <2>1
    <3>1. PICK i \in 1..g[y] : u = <<y, i>>
      BY <3>0
    <3>2. CASE y # x
      BY <3>1, <3>2, <1>1, UnitsElement
    <3>3. CASE y = x /\ i <= f[x]
      <4>1. i \in 1..f[x]
        BY <3>1, <3>3, <1>1, <1>2
      <4> QED BY <4>1, <3>1, <3>3, UnitsElement
    <3>4. CASE y = x /\ ~(i <= f[x])
      <4>1. i \in (f[x] + 1)..(f[x] + d)
        BY <3>1, <3>4, <1>1, <1>2
      <4> QED BY <4>1, <3>1, <3>4 DEF Slots
    <3> QED BY <3>2, <3>3, <3>4
  <2>2. ASSUME NEW u \in Units(f) PROVE u \in Units(g)
    <3>0. PICK y \in S : \E i \in 1..f[y] : u = <<y, i>>
      BY <2>2, UnitsElement
    <3>1. PICK i \in 1..f[y] : u = <<y, i>>
      BY <3>0
    <3>2. i \in 1..g[y]
      BY <3>1, <1>1, <1>2
    <3> QED BY <3>1, <3>2, <1>1, UnitsElement
  <2>3. ASSUME NEW u \in New PROVE u \in Units(g)
    <3>1. PICK i \in (f[x] + 1)..(f[x] + d) : u = <<x, i>>
      BY <2>3 DEF Slots
    <3>2. i \in 1..g[x]
      BY <3>1, <1>1, <1>2
    <3> QED BY <3>1, <3>2, <1>1, UnitsElement
  <2> QED BY <2>1, <2>2, <2>3
<1>4. Units(f) \cap New = {}
  <2> SUFFICES ASSUME NEW u \in Units(f), u \in New PROVE FALSE
    OBVIOUS
  <2>0. PICK y \in S : \E i \in 1..f[y] : u = <<y, i>>
    BY UnitsElement
  <2>1. PICK i \in 1..f[y] : u = <<y, i>>
    BY <2>0
  <2>2. PICK j \in (f[x] + 1)..(f[x] + d) : u = <<x, j>>
    BY DEF Slots
  <2>3. y = x /\ i = j
    BY <2>1, <2>2
  <2> QED BY <2>1, <2>2, <2>3, <1>2
<1>5. IsFiniteSet(New) /\ Cardinality(New) = d
  <2>1. (f[x] + d) - f[x] = d
    BY <1>2
  <2> QED BY <1>2, <2>1, SlotsCount
<1>6. Cardinality(Units(f) \cup New) = Cardinality(Units(f)) + d
  <2>1. Cardinality(Units(f) \cup New) =
          Cardinality(Units(f)) + Cardinality(New) - Cardinality(Units(f) \cap New)
    BY <1>5, TotalNat, FS_Union
  <2>2. Cardinality(Units(f) \cap New) = 0
    BY <1>4, FS_EmptySet
  <2>3. Cardinality(Units(f)) \in Nat
    BY TotalNat DEF Total
  <2> QED BY <2>1, <2>2, <2>3, <1>5
<1> QED
  BY <1>1, <1>3, <1>6 DEF Total

\* No account holds more than the total.
LEMMA EntryBound ==
  ASSUME NEW S, IsFiniteSet(S), NEW f \in [S -> Nat], NEW x \in S
  PROVE  f[x] <= Total(f)
<1>1. IsFiniteSet(Slots(x, 1..f[x])) /\ Cardinality(Slots(x, 1..f[x])) = f[x]
  <2>1. f[x] \in Nat /\ 0 \in Nat /\ 0 <= f[x] /\ f[x] - 0 = f[x] /\ 0 + 1 = 1
    OBVIOUS
  <2>2. /\ IsFiniteSet(Slots(x, (0 + 1)..f[x]))
        /\ Cardinality(Slots(x, (0 + 1)..f[x])) = f[x] - 0
    BY <2>1, SlotsCount
  <2> QED BY <2>1, <2>2
<1>2. Slots(x, 1..f[x]) \in SUBSET Units(f)
  BY DEF Units
<1> QED
  BY <1>1, <1>2, TotalNat, FS_Subset DEF Total

\* Debiting lowers the total by exactly the amount debited.
LEMMA TotalDebit ==
  ASSUME NEW S, IsFiniteSet(S), NEW f \in [S -> Nat], NEW x \in S,
         NEW d \in Nat, d <= f[x]
  PROVE  Total(Debit(f, x, d)) = Total(f) - d
<1> DEFINE g == Debit(f, x, d)
<1>1. g \in [S -> Nat] /\ g[x] = f[x] - d /\ \A y \in S \ {x} : g[y] = f[y]
  BY DEF Debit
<1>2. Credit(g, x, d) = f
  <2>1. Credit(g, x, d) = [y \in S |-> IF y = x THEN g[x] + d ELSE g[y]]
    BY <1>1 DEF Credit
  <2>2. \A y \in S : (IF y = x THEN g[x] + d ELSE g[y]) = f[y]
    BY <1>1
  <2> QED BY <2>1, <2>2
<1>3. Total(f) = Total(g) + d
  BY <1>1, <1>2, TotalCredit
<1>4. Total(g) \in Nat
  BY <1>1, TotalNat
<1> QED
  BY <1>1, <1>3, <1>4

\* Moving units between accounts, or from an account to itself, changes no total.
LEMMA TotalMove ==
  ASSUME NEW S, IsFiniteSet(S), NEW f \in [S -> Nat], NEW x \in S, NEW y \in S,
         NEW n \in Nat, n <= f[x]
  PROVE  /\ Move(f, x, y, n) \in [S -> Nat]
         /\ Total(Move(f, x, y, n)) = Total(f)
<1> DEFINE g == Debit(f, x, n)
<1>1. g \in [S -> Nat]
  BY BookType
<1>2. Total(g) = Total(f) - n
  BY TotalDebit
<1>3. Total(f) \in Nat
  BY TotalNat
<1> HIDE DEF g
<1>4. Credit(g, y, n) \in [S -> Nat]
  BY <1>1, BookType
<1>5. Total(Credit(g, y, n)) = Total(g) + n
  BY <1>1, TotalCredit
<1> QED
  BY <1>2, <1>3, <1>4, <1>5 DEF Move, g
-----------------------------------------------------------------------------
\* A book whose entries are all at least another's totals at least as much.
LEMMA TotalMonotone ==
  ASSUME NEW S, IsFiniteSet(S), NEW f \in [S -> Nat], NEW g \in [S -> Nat],
         \A x \in S : f[x] <= g[x]
  PROVE  Total(f) <= Total(g)
<1>1. Units(f) \subseteq Units(g)
  <2> SUFFICES ASSUME NEW u \in Units(f) PROVE u \in Units(g)
    OBVIOUS
  <2>1. PICK x \in S : \E i \in 1..f[x] : u = <<x, i>>
    BY UnitsElement
  <2>2. PICK i \in 1..f[x] : u = <<x, i>>
    BY <2>1
  <2>3. i \in 1..g[x]
    <3>1. f[x] \in Nat /\ g[x] \in Nat /\ f[x] <= g[x]
      OBVIOUS
    <3> QED BY <3>1
  <2> QED BY <2>2, <2>3, UnitsElement
<1> QED BY <1>1, TotalNat, FS_Subset DEF Total

\* Counting in groups of d: every position up to a * d is the j-th of the i-th
\* group for one i and one j.
LEMMA GroupPosition ==
  ASSUME NEW a \in Nat, NEW d \in Nat \ {0}
  PROVE  /\ \A i \in 1..a, j \in 1..d : (i - 1) * d + j \in 1..(a * d)
         /\ \A i, k \in 1..a, j, l \in 1..d :
              (i - 1) * d + j = (k - 1) * d + l => i = k /\ j = l
         /\ \A p \in 1..(a * d) : \E i \in 1..a, j \in 1..d : p = (i - 1) * d + j
<1>1. ASSUME NEW m \in Nat, NEW n \in Nat, m < n
      PROVE  m * d + d <= n * d /\ m * d \in Nat
  <2>1. PICK r \in Nat : n = m + 1 + r
    <3>1. n - m - 1 \in Nat /\ n = m + 1 + (n - m - 1)
      BY <1>1
    <3> QED BY <3>1
  <2>2. (m + 1 + r) * d = m * d + d + r * d
    OBVIOUS
  <2>3. r * d \in Nat /\ m * d \in Nat
    OBVIOUS
  <2> QED BY <2>1, <2>2, <2>3
<1>2. ASSUME NEW i \in 1..a, NEW j \in 1..d
      PROVE  (i - 1) * d + j \in 1..(a * d)
  <2>1. i - 1 \in Nat /\ i - 1 < a
    OBVIOUS
  <2>2. (i - 1) * d + d <= a * d /\ (i - 1) * d \in Nat /\ a * d \in Nat
    BY <1>1, <2>1
  <2> QED BY <2>2
<1>3. ASSUME NEW i \in 1..a, NEW k \in 1..a, NEW j \in 1..d, NEW l \in 1..d,
             (i - 1) * d + j = (k - 1) * d + l
      PROVE  i = k /\ j = l
  <2>1. i - 1 \in Nat /\ k - 1 \in Nat /\ (i - 1) * d \in Nat /\ (k - 1) * d \in Nat
    <3>1. \A m \in Nat : m * d \in Nat
      OBVIOUS
    <3> QED BY <3>1
  <2>2. ~(i < k)
    <3>1. SUFFICES ASSUME i < k PROVE FALSE
      OBVIOUS
    <3>2. (i - 1) * d + d <= (k - 1) * d
      BY <1>1, <2>1, <3>1
    <3> QED BY <1>3, <2>1, <3>2
  <2>3. ~(k < i)
    <3>1. SUFFICES ASSUME k < i PROVE FALSE
      OBVIOUS
    <3>2. (k - 1) * d + d <= (i - 1) * d
      BY <1>1, <2>1, <3>1
    <3> QED BY <1>3, <2>1, <3>2
  <2>4. i = k
    BY <2>2, <2>3
  <2> QED BY <1>3, <2>1, <2>4
<1>4. ASSUME NEW p \in 1..(a * d)
      PROVE  \E i \in 1..a, j \in 1..d : p = (i - 1) * d + j
  <2> DEFINE q == (p - 1) \div d
  <2>0. p - 1 \in Nat /\ a * d \in Nat
    OBVIOUS
  <2>1. q \in Nat /\ q * d <= p - 1 /\ p - 1 < q * d + d
    BY <2>0
  <2> HIDE DEF q
  <2>2. q < a
    <3>1. SUFFICES ASSUME a <= q PROVE FALSE
      BY <2>1
    <3>2. a * d <= q * d
      BY <2>1, <3>1
    <3> QED BY <2>0, <2>1, <3>2
  <2>3. q * d \in Nat
    BY <2>1
  <2>4. q + 1 \in 1..a /\ p - q * d \in 1..d
    BY <2>1, <2>2, <2>3
  <2>5. p = ((q + 1) - 1) * d + (p - q * d)
    BY <2>1, <2>3
  <2> QED BY <2>4, <2>5
<1> QED BY <1>2, <1>3, <1>4

\* Scaling every entry of a book scales its total.
LEMMA TotalScale ==
  ASSUME NEW S, IsFiniteSet(S), NEW f \in [S -> Nat], NEW d \in Nat \ {0}
  PROVE  /\ [x \in S |-> f[x] * d] \in [S -> Nat]
         /\ Total([x \in S |-> f[x] * d]) = Total(f) * d
<1> DEFINE g == [x \in S |-> f[x] * d]
           D == Units(f) \X (1..d)
           h == [p \in D |-> <<p[1][1], (p[1][2] - 1) * d + p[2]>>]
<1>1. g \in [S -> Nat] /\ \A x \in S : g[x] = f[x] * d
  OBVIOUS
<1> HIDE DEF g
<1>2. \A x \in S : f[x] \in Nat
  OBVIOUS
<1>3. ASSUME NEW x \in S, NEW i \in 1..f[x], NEW j \in 1..d
      PROVE  /\ <<<<x, i>>, j>> \in D
             /\ h[<<<<x, i>>, j>>] = <<x, (i - 1) * d + j>>
             /\ <<x, (i - 1) * d + j>> \in Units(g)
  <2>1. <<<<x, i>>, j>> \in D
    BY UnitsElement
  <2>2. (i - 1) * d + j \in 1..g[x]
    BY <1>1, <1>2, GroupPosition
  <2> QED BY <1>1, <2>1, <2>2, UnitsElement
<1>4. ASSUME NEW p \in D
      PROVE  \E x \in S : \E i \in 1..f[x] : \E j \in 1..d : p = <<<<x, i>>, j>>
  <2>1. PICK u \in Units(f), j \in 1..d : p = <<u, j>>
    OBVIOUS
  <2>2. \E x \in S : \E i \in 1..f[x] : u = <<x, i>>
    BY UnitsElement
  <2> QED BY <2>1, <2>2
<1> HIDE DEF D
<1>5. h \in Bijection(D, Units(g))
  <2>1. h \in [D -> Units(g)]
    <3>1. ASSUME NEW p \in D PROVE h[p] \in Units(g)
      <4>1. PICK x \in S : \E i \in 1..f[x] : \E j \in 1..d : p = <<<<x, i>>, j>>
        BY <1>4
      <4>2. PICK i \in 1..f[x], j \in 1..d : p = <<<<x, i>>, j>>
        BY <4>1
      <4>3. /\ h[<<<<x, i>>, j>>] = <<x, (i - 1) * d + j>>
            /\ <<x, (i - 1) * d + j>> \in Units(g)
        BY <1>3
      <4> HIDE DEF h
      <4> QED BY <4>2, <4>3
    <3> QED BY <3>1
  <2>2. ASSUME NEW p \in D, NEW q \in D, h[p] = h[q] PROVE p = q
    <3>1. PICK x \in S : \E i \in 1..f[x] : \E j \in 1..d : p = <<<<x, i>>, j>>
      BY <1>4
    <3>2. PICK i \in 1..f[x], j \in 1..d : p = <<<<x, i>>, j>>
      BY <3>1
    <3>3. PICK y \in S : \E k \in 1..f[y] : \E l \in 1..d : q = <<<<y, k>>, l>>
      BY <1>4
    <3>4. PICK k \in 1..f[y], l \in 1..d : q = <<<<y, k>>, l>>
      BY <3>3
    <3>5. x = y /\ (i - 1) * d + j = (k - 1) * d + l
      <4>1. h[<<<<x, i>>, j>>] = <<x, (i - 1) * d + j>>
        BY <1>3
      <4>2. h[<<<<y, k>>, l>>] = <<y, (k - 1) * d + l>>
        BY <1>3
      <4> HIDE DEF h
      <4>3. <<x, (i - 1) * d + j>> = <<y, (k - 1) * d + l>>
        BY <2>2, <3>2, <3>4, <4>1, <4>2
      <4> QED BY <4>3
    <3>6. i = k /\ j = l
      BY <1>2, <3>5, GroupPosition
    <3> QED BY <3>2, <3>4, <3>5, <3>6
  <2>3. ASSUME NEW u \in Units(g) PROVE \E p \in D : h[p] = u
    <3>1. PICK x \in S : \E k \in 1..g[x] : u = <<x, k>>
      BY <1>1, UnitsElement
    <3>2. PICK k \in 1..(f[x] * d) : u = <<x, k>>
      BY <1>1, <3>1
    <3>3. \E i \in 1..f[x], j \in 1..d : k = (i - 1) * d + j
      <4> DEFINE n == f[x]
      <4>1. n \in Nat /\ k \in 1..(n * d)
        BY <1>2, <3>2
      <4> HIDE DEF n
      <4>2. \A p \in 1..(n * d) : \E i \in 1..n, j \in 1..d : p = (i - 1) * d + j
        BY <4>1, GroupPosition, Zenon
      <4> QED BY <4>1, <4>2, Zenon DEF n
    <3>4. PICK i \in 1..f[x], j \in 1..d : k = (i - 1) * d + j
      BY <3>3
    <3>5. <<<<x, i>>, j>> \in D /\ h[<<<<x, i>>, j>>] = <<x, (i - 1) * d + j>>
      BY <1>3
    <3> HIDE DEF h
    <3> QED BY <3>2, <3>4, <3>5
  <2> HIDE DEF h
  <2> QED BY <2>1, <2>2, <2>3 DEF Bijection, Injection, Surjection, IsInjective
<1>6. IsFiniteSet(D) /\ Cardinality(D) = Total(f) * d
  <2>1. IsFiniteSet(1..d) /\ Cardinality(1..d) = d
    <3>1. IsFiniteSet(1..d) /\ Cardinality(1..d) = IF 1 > d THEN 0 ELSE d - 1 + 1
      BY FS_Interval
    <3> QED BY <3>1
  <2> QED BY <2>1, TotalNat, FS_Product DEF D, Total
<1>7. Cardinality(Units(g)) = Cardinality(D)
  <2> HIDE DEF h
  <2>1. ExistsBijection(D, Units(g))
    BY <1>5 DEF ExistsBijection
  <2> QED BY <1>6, <2>1, FS_Bijection
<1> QED BY <1>1, <1>6, <1>7 DEF Total, g

\* A book whose entries are each at most a fixed fraction e / d of another's
\* totals at most that fraction of the other's total.
LEMMA TotalProportional ==
  ASSUME NEW S, IsFiniteSet(S), NEW f \in [S -> Nat], NEW g \in [S -> Nat],
         NEW d \in Nat \ {0}, NEW e \in Nat \ {0},
         \A x \in S : f[x] * d <= g[x] * e
  PROVE  Total(f) * d <= Total(g) * e
<1> DEFINE F == [x \in S |-> f[x] * d]
           G == [x \in S |-> g[x] * e]
<1>1. F \in [S -> Nat] /\ Total(F) = Total(f) * d
  BY TotalScale
<1>2. G \in [S -> Nat] /\ Total(G) = Total(g) * e
  BY TotalScale
<1>3. \A x \in S : F[x] <= G[x]
  OBVIOUS
<1> HIDE DEF F, G
<1> QED BY <1>1, <1>2, <1>3, TotalMonotone

-----------------------------------------------------------------------------
(* The books *)

IInv == TypeOK /\ SharesConserved

-----------------------------------------------------------------------------
\* The floor of a quotient of naturals, by its defining bounds.
LEMMA FloorBounds ==
  ASSUME NEW n \in Nat, NEW d \in Nat \ {0}
  PROVE  n \div d \in Nat /\ (n \div d) * d <= n /\ n < (n \div d) * d + d
OBVIOUS

\* A product of naturals is a natural.
LEMMA ProductNat ==
  ASSUME NEW a \in Nat, NEW b \in Nat
  PROVE  a * b \in Nat
OBVIOUS

\* The rounding helper of every contract, by its defining bounds.
LEMMA MulDivFloorBounds ==
  ASSUME NEW a \in Nat, NEW b \in Nat, NEW den \in Nat \ {0}
  PROVE  /\ MulDivFloor(a, b, den) \in Nat
         /\ MulDivFloor(a, b, den) * den <= a * b
         /\ a * b < MulDivFloor(a, b, den) * den + den
<1>1. a * b \in Nat
  BY ProductNat
<1> QED
  BY <1>1, FloorBounds DEF MulDivFloor

\* What the rounding helper returns is a natural number.
LEMMA MulDivFloorNat ==
  ASSUME NEW a \in Nat, NEW b \in Nat, NEW den \in Nat \ {0}
  PROVE  MulDivFloor(a, b, den) \in Nat
BY MulDivFloorBounds

\* Whatever the adapters answer, the vault prices itself in natural numbers.
LEMMA PricingTypes ==
  ASSUME TypeOK
  PROVE  /\ Nav \in Nat /\ PoolValue \in Nat
         /\ PoolValue + VIRT \in Nat \ {0} /\ total + VIRT \in Nat \ {0}
<1>1. Nav \in Nat
  <2>1. quote \in [Oracles -> Navs \cup {0}] /\ oracle \in Oracles \cup {NoOne}
    BY DEF TypeOK
  <2>2. Navs \cup {0} \subseteq Nat
    BY NumbersAssumption
  <2> QED BY <2>1, <2>2 DEF Nav
<1>2. PoolValue \in Nat
  <2>1. reserve \in Nat /\ SCALE \in Nat \ {0}
    BY NumbersAssumption DEF TypeOK
  <2> QED BY <1>1, <2>1, MulDivFloorNat DEF PoolValue
<1> QED
  BY <1>1, <1>2, NumbersAssumption DEF TypeOK

\* A redemption's value and payout are naturals, and the vault can pay it.
LEMMA PayoutTypes ==
  ASSUME TypeOK, NEW n \in Nat
  PROVE  /\ ClaimValue(n) \in Nat
         /\ Nav > 0 => Payout(n) \in Nat /\ Payout(n) <= reserve
<1>1. ClaimValue(n) \in Nat
  BY PricingTypes, MulDivFloorNat DEF ClaimValue
<1>2. ASSUME Nav > 0
      PROVE  MulDivFloor(ClaimValue(n), SCALE, Nav) \in Nat
  <2>1. Nav \in Nat \ {0} /\ SCALE \in Nat
    BY <1>2, PricingTypes, NumbersAssumption
  <2> QED BY <1>1, <2>1, MulDivFloorNat
<1> QED
  BY <1>1, <1>2 DEF Payout, AtMost, TypeOK

-----------------------------------------------------------------------------
\* A deposit adds as many shares to the depositor as to the supply.
LEMMA DepositKeeps ==
  ASSUME IInv, NEW from \in Signers, NEW amount \in Amounts, NEW fee \in Fees,
         Deposit(from, amount, fee), UNCHANGED quote
  PROVE  IInv'
<1> DEFINE received == amount - fee
           valueIn == MulDivFloor(received, Nav, SCALE)
           shares == SharesFor(valueIn)
<1>1. from \in Accounts /\ amount \in Nat /\ received \in Nat
  BY AccountsAssumption, NumbersAssumption DEF Deposit
<1>2. valueIn \in Nat
  BY <1>1, PricingTypes, MulDivFloorBounds, NumbersAssumption DEF IInv
<1>3. shares \in Nat
  BY <1>2, PricingTypes, MulDivFloorNat DEF IInv, SharesFor
<1>4. /\ bal' = Credit(bal, from, shares) /\ total' = total + shares
      /\ wallet' = Debit(wallet, from, amount) /\ amount <= wallet[from]
      /\ reserve' = reserve + received
      /\ UNCHANGED <<allow, configVars, quote, seq>>
  BY DEF Deposit
<1> HIDE DEF received, valueIn, shares
<1>5. bal' \in [Accounts -> Nat] /\ wallet' \in [Accounts -> Nat]
  BY <1>1, <1>3, <1>4, BookType DEF IInv, TypeOK
<1>6. Total(bal') = Total(bal) + shares
  BY <1>1, <1>3, <1>4, TotalCredit, AccountsAssumption DEF IInv, TypeOK
<1>7. TypeOK'
  BY <1>1, <1>3, <1>4, <1>5 DEF IInv, TypeOK, configVars
<1> QED
  BY <1>4, <1>6, <1>7 DEF IInv, SharesConserved

\* A withdrawal removes as many shares from the holder as from the supply, and
\* neither the supply nor the reserve can go below zero.
LEMMA WithdrawKeeps ==
  ASSUME IInv, NEW from \in Signers, NEW n \in Nat, Withdraw(from, n), UNCHANGED quote
  PROVE  IInv'
<1>1. from \in Accounts /\ n <= bal[from] /\ Nav > 0
  BY AccountsAssumption DEF Withdraw, MayWithdraw
<1>2. Payout(n) \in Nat /\ Payout(n) <= reserve
  BY <1>1, PayoutTypes DEF IInv
<1>3. /\ bal' = Debit(bal, from, n) /\ total' = total - n
      /\ wallet' = Credit(wallet, from, Payout(n)) /\ reserve' = reserve - Payout(n)
      /\ UNCHANGED <<allow, configVars, quote, seq>>
  BY DEF Withdraw, MayWithdraw
<1>4. bal[from] <= Total(bal)
  BY <1>1, EntryBound, AccountsAssumption DEF IInv, TypeOK
<1>5. total - n \in Nat
  BY <1>1, <1>4 DEF IInv, TypeOK, SharesConserved
<1>6. bal' \in [Accounts -> Nat] /\ wallet' \in [Accounts -> Nat]
  BY <1>1, <1>2, <1>3, BookType DEF IInv, TypeOK
<1>7. Total(bal') = Total(bal) - n
  BY <1>1, <1>3, TotalDebit, AccountsAssumption DEF IInv, TypeOK
<1>8. TypeOK'
  BY <1>2, <1>3, <1>5, <1>6 DEF IInv, TypeOK, configVars
<1> QED
  BY <1>3, <1>7, <1>8 DEF IInv, SharesConserved

\* A transfer moves shares between balances and creates none.
LEMMA MoveKeeps ==
  ASSUME IInv, NEW from \in Accounts, NEW to \in Accounts, NEW n \in Nat,
         MoveShares(from, to, n)
  PROVE  bal' \in [Accounts -> Nat] /\ Total(bal') = Total(bal)
<1>1. IsFiniteSet(Accounts) /\ bal \in [Accounts -> Nat]
  BY AccountsAssumption DEF IInv, TypeOK
<1>2. n <= bal[from] /\ bal' = Move(bal, from, to, n)
  BY DEF MoveShares, MayTransfer
<1> QED BY <1>1, <1>2, TotalMove

\* The transfer entry point keeps the invariant, whoever signed for it.
LEMMA TransferKeeps ==
  ASSUME IInv, NEW from \in Accounts, NEW to \in Accounts, NEW n \in Nat,
         Transfer(from, to, n), UNCHANGED quote
  PROVE  IInv'
<1>1. bal' \in [Accounts -> Nat] /\ Total(bal') = Total(bal)
  BY MoveKeeps DEF Transfer
<1>2. UNCHANGED <<total, allow, configVars, tokenVars, quote, seq>>
  BY DEF Transfer
<1> QED BY <1>1, <1>2 DEF IInv, TypeOK, SharesConserved, configVars, tokenVars

\* The SEP-41 calls keep the supply, and allowances stay well formed.
LEMMA SharesStep ==
  ASSUME IInv, NEW from \in Signers, UnpricedCall(from), UNCHANGED quote
  PROVE  IInv'
<1>0. from \in Accounts
  BY AccountsAssumption
<1>1. ASSUME NEW to \in Accounts, NEW n \in Parcels \cup {bal[from]}, Transfer(from, to, n)
      PROVE  IInv'
  <2>1. n \in Nat
    BY <1>0, <1>1, NumbersAssumption DEF IInv, TypeOK
  <2> QED BY <1>0, <1>1, <2>1, TransferKeeps
<1>2. ASSUME NEW owner \in Accounts, NEW to \in Accounts,
             NEW n \in Parcels \cup {bal[owner]}, TransferFrom(from, owner, to, n)
      PROVE  IInv'
  <2>1. n \in Nat
    BY <1>2, NumbersAssumption DEF IInv, TypeOK
  <2>2. bal' \in [Accounts -> Nat] /\ Total(bal') = Total(bal)
    BY <1>2, <2>1, MoveKeeps DEF TransferFrom
  <2>3. UNCHANGED <<total, configVars, tokenVars, quote, seq>>
    BY <1>2 DEF TransferFrom
  <2>4. allow' \in [Accounts \X Accounts -> [amount : Nat, live : Nat]]
    <3>1. allow \in [Accounts \X Accounts -> [amount : Nat, live : Nat]]
      BY DEF IInv, TypeOK
    <3> DEFINE granted == allow[<<owner, from>>]
    <3>2. granted \in [amount : Nat, live : Nat] /\ NoAllowance \in [amount : Nat, live : Nat]
      BY <1>0, <3>1 DEF NoAllowance
    <3>3. granted.amount >= n =>
            [granted EXCEPT !.amount = @ - n] \in [amount : Nat, live : Nat]
      BY <2>1, <3>2
    <3>4. /\ granted.amount >= n
          /\ allow' = [allow EXCEPT ![<<owner, from>>] =
                         IF granted.amount = n THEN NoAllowance
                         ELSE [granted EXCEPT !.amount = @ - n]]
      BY <1>2 DEF TransferFrom, SpendAllowance
    <3> HIDE DEF granted
    <3> QED BY <3>1, <3>2, <3>3, <3>4
  <2> QED BY <2>2, <2>3, <2>4 DEF IInv, TypeOK, SharesConserved, configVars, tokenVars
<1>3. ASSUME NEW spender \in Accounts, NEW n \in Approvals, NEW live \in 0..MaxSeq,
             Approve(from, spender, n, live)
      PROVE  IInv'
  <2>1. n \in Nat /\ live \in Nat
    BY NumbersAssumption
  <2>2. allow' \in [Accounts \X Accounts -> [amount : Nat, live : Nat]]
    BY <1>0, <1>3, <2>1 DEF Approve, NoAllowance, IInv, TypeOK
  <2>3. UNCHANGED <<shareVars, configVars, tokenVars, quote, seq>>
    BY <1>3 DEF Approve
  <2> QED BY <2>2, <2>3 DEF IInv, TypeOK, SharesConserved, shareVars, configVars, tokenVars
<1> QED
  BY <1>1, <1>2, <1>3 DEF UnpricedCall

\* init and the admin entry points never touch the shares.
LEMMA LifecycleKeeps ==
  ASSUME IInv, Lifecycle, UNCHANGED quote
  PROVE  IInv'
<1> DEFINE Admined == /\ admin' \in Accounts \cup {NoOne} /\ pending' \in Accounts \cup {NoOne}
                      /\ oracle' \in Oracles \cup {NoOne}
                      /\ cap' \in Nat /\ paused' \in BOOLEAN
<1> USE AccountsAssumption, NumbersAssumption DEF IInv, TypeOK
<1>1. UNCHANGED <<bal, total, allow, wallet, reserve, seq>>
  BY DEF Lifecycle, InitVault, SetCap, SetOracle, SetPaused, TransferAdmin, AcceptAdmin,
         shareVars, tokenVars
<1>2. ASSUME NEW adm \in Admins, NEW o \in Oracles, NEW c \in Caps, InitVault(adm, o, c)
      PROVE  Admined
  BY <1>2 DEF InitVault
<1>3. ASSUME NEW c \in Caps, SetCap(c)
      PROVE  Admined
  BY <1>3 DEF SetCap
<1>4. ASSUME NEW o \in Oracles, SetOracle(o)
      PROVE  Admined
  BY <1>4 DEF SetOracle
<1>5. ASSUME NEW p \in Pauses, SetPaused(p)
      PROVE  Admined
  BY <1>5 DEF SetPaused
<1>6. ASSUME NEW new \in Successors, TransferAdmin(new)
      PROVE  Admined
  BY <1>6 DEF TransferAdmin
<1>7. ASSUME AcceptAdmin
      PROVE  Admined
  BY <1>7 DEF AcceptAdmin
<1>8. Admined
  BY <1>2, <1>3, <1>4, <1>5, <1>6, <1>7 DEF Lifecycle
<1> QED
  BY <1>1, <1>8 DEF SharesConserved

\* Prices, donations and ledgers never touch the shares.
LEMMA EnvironmentKeeps ==
  ASSUME IInv, Environment
  PROVE  IInv'
<1> USE NumbersAssumption DEF IInv, TypeOK, shareVars, configVars, tokenVars
<1>1. ASSUME NEW o \in Oracles, NEW n \in Navs \cup {0}, QuoteMoves(o, n)
      PROVE  IInv'
  BY <1>1 DEF QuoteMoves, SharesConserved
<1>2. ASSUME NEW n \in Rebases, Rebase(n)
      PROVE  IInv'
  BY <1>2 DEF Rebase, SharesConserved
<1>3. ASSUME NEW q \in [Oracles -> Navs \cup {0}], LedgerCloses(q)
      PROVE  IInv'
  BY <1>3 DEF LedgerCloses, SharesConserved
<1> QED
  BY <1>1, <1>2, <1>3 DEF Environment

\* Every step of the vault keeps the invariant.
LEMMA IInvStep ==
  ASSUME IInv, [Next]_vaultVars
  PROVE  IInv'
<1>1. CASE UNCHANGED vaultVars
  BY <1>1 DEF IInv, TypeOK, SharesConserved, vaultVars, holdings, shareVars, configVars, tokenVars
<1>2. ASSUME NEW from \in Signers, PricedCall(from), UNCHANGED quote
      PROVE  IInv'
  <2>1. ASSUME NEW amount \in Amounts, NEW fee \in Fees, Deposit(from, amount, fee)
        PROVE  IInv'
    BY <1>2, <2>1, DepositKeeps
  <2>2. ASSUME NEW n \in Parcels \cup {bal[from]}, Withdraw(from, n)
        PROVE  IInv'
    <3>1. n \in Nat
      BY AccountsAssumption, NumbersAssumption DEF IInv, TypeOK
    <3> QED BY <1>2, <2>2, <3>1, WithdrawKeeps
  <2> QED BY <1>2, <2>1, <2>2 DEF PricedCall
<1>3. CASE Lifecycle /\ UNCHANGED quote
  BY <1>3, LifecycleKeeps
<1>4. CASE Environment
  BY <1>4, EnvironmentKeeps
<1> QED
  BY <1>1, <1>2, <1>3, <1>4, SharesStep DEF Next, Call

\* The initial state satisfies it: empty books total nothing.
LEMMA IInvInit == Init => IInv
<1> SUFFICES ASSUME Init PROVE IInv
  OBVIOUS
<1>1. TypeOK
  BY AccountsAssumption DEF Init, TypeOK, NoAllowance
<1>2. SharesConserved
  BY TotalZero DEF Init, SharesConserved
<1> QED BY <1>1, <1>2 DEF IInv

\* The vault's state is well formed and the share supply is what the balances
\* add up to, in every reachable state.
THEOREM VaultInvariant == Spec => []IInv
<1>1. Init => IInv
  BY IInvInit
<1>2. IInv /\ [Next]_vaultVars => IInv'
  BY IInvStep
<1> QED BY <1>1, <1>2, PTL DEF Spec

\* Type correctness of the vault (every entry point of contracts/vault).
THEOREM VaultTypeOK == Spec => []TypeOK
<1>1. IInv => TypeOK
  BY DEF IInv
<1> QED BY <1>1, VaultInvariant, PTL

\* No mix of deposits, withdrawals, self-transfers and allowance transfers, by
\* any number of accounts, makes the supply differ from the sum of balances.
THEOREM VaultSharesConserved == Spec => []SharesConserved
<1>1. IInv => SharesConserved
  BY DEF IInv
<1> QED BY <1>1, VaultInvariant, PTL

-----------------------------------------------------------------------------
\* Multiplication keeps an inequality between naturals.
LEMMA TimesKeepsOrder ==
  ASSUME NEW a \in Nat, NEW b \in Nat, NEW c \in Nat, a <= b
  PROVE  a * c <= b * c
OBVIOUS

\* What is at most n when multiplied by d is at most the floor of n / d.
LEMMA FloorGreatest ==
  ASSUME NEW n \in Nat, NEW d \in Nat \ {0}, NEW q \in Nat, q * d <= n
  PROVE  q <= n \div d
<1> DEFINE f == n \div d
<1>1. f \in Nat /\ n < f * d + d
  BY FloorBounds
<1> HIDE DEF f
<1>2. SUFFICES ASSUME f + 1 <= q PROVE FALSE
  BY <1>1 DEF f
<1>3. (f + 1) * d <= q * d
  BY <1>1, <1>2, TimesKeepsOrder
<1>4. (f + 1) * d = f * d + d
  BY <1>1
<1> QED BY <1>1, <1>3, <1>4, ProductNat

\* What exceeds n when its successor is multiplied by d is at least the floor.
LEMMA FloorLeast ==
  ASSUME NEW n \in Nat, NEW d \in Nat \ {0}, NEW q \in Nat, n < q * d + d
  PROVE  n \div d <= q
<1> DEFINE f == n \div d
<1>1. f \in Nat /\ f * d <= n
  BY FloorBounds
<1> HIDE DEF f
<1>2. SUFFICES ASSUME q + 1 <= f PROVE FALSE
  BY <1>1 DEF f
<1>3. (q + 1) * d <= f * d
  BY <1>1, <1>2, TimesKeepsOrder
<1>4. (q + 1) * d = q * d + d
  OBVIOUS
<1> QED BY <1>1, <1>3, <1>4, ProductNat

\* Rounding down keeps the order of products.
LEMMA MulDivFloorKeepsOrder ==
  ASSUME NEW a \in Nat, NEW b \in Nat, NEW c \in Nat, NEW e \in Nat, NEW d \in Nat \ {0},
         a <= c, b <= e
  PROVE  MulDivFloor(a, b, d) <= MulDivFloor(c, e, d)
<1>1. a * b <= c * b /\ b * c <= e * c
  BY TimesKeepsOrder
<1>2. a * b \in Nat /\ c * b \in Nat /\ c * e \in Nat /\ b * c = c * b /\ e * c = c * e
  BY ProductNat
<1>3. a * b <= c * e
  BY <1>1, <1>2
<1> DEFINE f == MulDivFloor(a, b, d)
<1>4. f \in Nat /\ f * d <= a * b
  BY MulDivFloorBounds
<1> HIDE DEF f
<1>5. f * d \in Nat
  BY <1>4, ProductNat
<1>6. f * d <= c * e
  BY <1>2, <1>3, <1>4, <1>5
<1>7. f <= (c * e) \div d
  BY <1>2, <1>4, <1>6, FloorGreatest
<1> QED BY <1>7 DEF f, MulDivFloor

\* The value of a larger reserve, from the values of its two parts.
LEMMA ValueOfSum ==
  ASSUME NEW r \in Nat, NEW s \in Nat, NEW nav \in Nat, NEW scale \in Nat \ {0}
  PROVE  /\ MulDivFloor(r, nav, scale) + MulDivFloor(s, nav, scale)
              <= MulDivFloor(r + s, nav, scale)
         /\ MulDivFloor(r + s, nav, scale)
              <= MulDivFloor(r, nav, scale) + MulDivFloor(s, nav, scale) + 1
<1> DEFINE v == MulDivFloor(r, nav, scale)
           w == MulDivFloor(s, nav, scale)
<1>1. v \in Nat /\ v * scale <= r * nav /\ r * nav < v * scale + scale
  BY MulDivFloorBounds
<1>2. w \in Nat /\ w * scale <= s * nav /\ s * nav < w * scale + scale
  BY MulDivFloorBounds
<1>3. (r + s) * nav = r * nav + s * nav /\ (r + s) * nav \in Nat
  OBVIOUS
<1> HIDE DEF v, w
<1>4. (v + w) * scale = v * scale + w * scale /\ v * scale \in Nat /\ w * scale \in Nat
  BY <1>1, <1>2
<1>5. (v + w + 1) * scale = v * scale + w * scale + scale
  BY <1>1, <1>2
<1>6. r * nav \in Nat /\ s * nav \in Nat
  BY ProductNat
<1>7. v + w <= ((r + s) * nav) \div scale
  BY <1>1, <1>2, <1>3, <1>4, <1>6, FloorGreatest
<1>8. ((r + s) * nav) \div scale <= v + w + 1
  BY <1>1, <1>2, <1>3, <1>4, <1>5, <1>6, FloorLeast
<1> QED BY <1>7, <1>8 DEF MulDivFloor, v, w

-----------------------------------------------------------------------------
\* The arithmetic of a deposit: with at most vi * S / P shares minted for a
\* value of vi, the price ratio P / S does not fall.
LEMMA MintKeepsRatio ==
  ASSUME NEW P \in Nat, NEW S \in Nat, NEW Q \in Nat, NEW vi \in Nat, NEW sh \in Nat,
         sh * P <= vi * S, P + vi <= Q
  PROVE  Q * S >= P * (S + sh)
<1>1. (P + vi) * S <= Q * S
  BY TimesKeepsOrder
<1>2. (P + vi) * S = P * S + vi * S
  OBVIOUS
<1>3. P * (S + sh) = P * S + sh * P
  OBVIOUS
<1>4. P * S \in Nat /\ vi * S \in Nat /\ sh * P \in Nat /\ Q * S \in Nat
  BY ProductNat
<1> QED BY <1>1, <1>2, <1>3, <1>4

\* The arithmetic of a withdrawal: with a claim c of at most sh * P / S taken
\* out for sh shares, the price ratio does not fall.
LEMMA BurnKeepsRatio ==
  ASSUME NEW P \in Nat, NEW S \in Nat, NEW Q \in Nat, NEW c \in Nat, NEW sh \in Nat,
         sh <= S, c * S <= sh * P, P <= Q + c
  PROVE  Q * S >= P * (S - sh)
<1>1. P * S <= (Q + c) * S
  BY TimesKeepsOrder
<1>2. (Q + c) * S = Q * S + c * S
  OBVIOUS
<1>3. P * (S - sh) = P * S - sh * P
  OBVIOUS
<1>4. P * S \in Nat /\ Q * S \in Nat /\ c * S \in Nat /\ sh * P \in Nat
  BY ProductNat
<1> QED BY <1>1, <1>2, <1>3, <1>4

\* The arithmetic of a round trip: if the value in the pool grew by at most
\* vi + 1, the shares minted for vi cannot be claimed for more than vi.
LEMMA ClaimAtMostPaid ==
  ASSUME NEW P \in Nat, NEW S \in Nat \ {0}, NEW Q \in Nat, NEW vi \in Nat, NEW sh \in Nat,
         sh * P <= vi * S, Q <= P + vi + 1
  PROVE  sh * Q < vi * (S + sh) + (S + sh)
<1>1. Q * sh <= (P + vi + 1) * sh
  BY TimesKeepsOrder
<1>2. (P + vi + 1) * sh = sh * P + vi * sh + sh
  OBVIOUS
<1>3. vi * (S + sh) = vi * S + vi * sh
  OBVIOUS
<1>4. sh * P \in Nat /\ vi * sh \in Nat /\ vi * S \in Nat /\ Q * sh \in Nat /\ sh * Q = Q * sh
  BY ProductNat
<1> QED BY <1>1, <1>2, <1>3, <1>4

-----------------------------------------------------------------------------
\* A deposit at a standing NAV mints at most its share of the pool, and the
\* value of the pool grows by what was paid in, within one unit.
LEMMA DepositNumbers ==
  ASSUME IInv, NEW from \in Signers, NEW amount \in Amounts, NEW fee \in Fees,
         Deposit(from, amount, fee), Nav' = Nav
  PROVE  \E received, vi, sh \in Nat :
           /\ vi = MulDivFloor(received, Nav, SCALE)
           /\ sh * (PoolValue + VIRT) <= vi * (total + VIRT)
           /\ reserve' = reserve + received /\ total' = total + sh
           /\ PoolValue' \in Nat
           /\ PoolValue + vi <= PoolValue' /\ PoolValue' <= PoolValue + vi + 1
<1> DEFINE received == amount - fee
           vi == MulDivFloor(received, Nav, SCALE)
           sh == SharesFor(vi)
<1>1. received \in Nat /\ Nav \in Nat /\ SCALE \in Nat \ {0} /\ reserve \in Nat
  BY PricingTypes, NumbersAssumption DEF Deposit, IInv, TypeOK
<1>2. reserve' = reserve + received /\ total' = total + sh
  BY DEF Deposit
<1> HIDE DEF received
<1>3. vi \in Nat
  BY <1>1, MulDivFloorNat
<1> HIDE DEF vi
<1>4. PoolValue + VIRT \in Nat \ {0} /\ total + VIRT \in Nat \ {0} /\ PoolValue \in Nat
  BY PricingTypes DEF IInv
<1>5. sh \in Nat /\ sh * (PoolValue + VIRT) <= vi * (total + VIRT)
  BY <1>3, <1>4, MulDivFloorBounds DEF SharesFor
<1>6. PoolValue' = MulDivFloor(reserve + received, Nav, SCALE)
  BY <1>2 DEF PoolValue
<1>7. PoolValue' \in Nat
  <2>1. reserve + received \in Nat
    BY <1>1
  <2>2. MulDivFloor(reserve + received, Nav, SCALE) \in Nat
    BY <1>1, <2>1, MulDivFloorNat
  <2> QED BY <1>6, <2>2
<1>8. PoolValue + vi <= PoolValue' /\ PoolValue' <= PoolValue + vi + 1
  BY <1>1, <1>6, ValueOfSum DEF PoolValue, vi
<1> QED
  BY <1>1, <1>2, <1>3, <1>5, <1>7, <1>8 DEF vi

\* A withdrawal at a standing NAV takes out at most the burnt shares' claim.
LEMMA WithdrawNumbers ==
  ASSUME IInv, NEW from \in Signers, NEW n \in Nat, Withdraw(from, n), Nav' = Nav
  PROVE  \E c \in Nat :
           /\ c * (total + VIRT) <= n * (PoolValue + VIRT)
           /\ total' = total - n /\ n <= total
           /\ PoolValue' \in Nat /\ PoolValue <= PoolValue' + c
<1> DEFINE c == ClaimValue(n)
           amt == Payout(n)
<1>1. /\ Nav \in Nat \ {0} /\ SCALE \in Nat \ {0} /\ reserve \in Nat /\ total \in Nat
      /\ bal \in [Accounts -> Nat] /\ from \in Accounts /\ n <= bal[from]
  BY PricingTypes, NumbersAssumption, AccountsAssumption DEF Withdraw, MayWithdraw, IInv, TypeOK
<1>2. reserve' = reserve - amt /\ total' = total - n
  BY DEF Withdraw, MayWithdraw
<1>3. bal[from] <= Total(bal)
  BY <1>1, EntryBound, AccountsAssumption
<1>4. n <= total
  BY <1>1, <1>3 DEF IInv, SharesConserved
<1>5. c \in Nat /\ c * (total + VIRT) <= n * (PoolValue + VIRT)
  BY PricingTypes, MulDivFloorBounds DEF IInv, ClaimValue
<1>6. amt \in Nat /\ amt <= reserve
  BY <1>1, PayoutTypes DEF IInv
<1>7. amt <= MulDivFloor(c, SCALE, Nav)
  <2>1. MulDivFloor(c, SCALE, Nav) \in Nat
    BY <1>1, <1>5, MulDivFloorNat
  <2> QED BY <2>1, <1>1 DEF Payout, AtMost
<1> HIDE DEF c, amt
<1>8. amt * Nav <= c * SCALE
  <2>1. /\ MulDivFloor(c, SCALE, Nav) \in Nat
        /\ MulDivFloor(c, SCALE, Nav) * Nav <= c * SCALE
    BY <1>1, <1>5, MulDivFloorBounds
  <2>2. amt * Nav <= MulDivFloor(c, SCALE, Nav) * Nav
    BY <1>1, <1>6, <1>7, <2>1, TimesKeepsOrder
  <2> QED BY <1>1, <1>5, <1>6, <2>1, <2>2, ProductNat
<1>9. PoolValue' = MulDivFloor(reserve - amt, Nav, SCALE) /\ reserve - amt \in Nat
  BY <1>1, <1>2, <1>6 DEF PoolValue
<1> DEFINE W == MulDivFloor(reserve - amt, Nav, SCALE)
<1>10. W \in Nat /\ (reserve - amt) * Nav < W * SCALE + SCALE
  BY <1>1, <1>9, MulDivFloorBounds
<1> HIDE DEF W
<1>11. reserve * Nav < (W + c) * SCALE + SCALE
  <2>1. reserve * Nav = (reserve - amt) * Nav + amt * Nav
    BY <1>1, <1>6
  <2>2. (W + c) * SCALE = W * SCALE + c * SCALE
    BY <1>1, <1>5, <1>10
  <2>3. /\ (reserve - amt) * Nav \in Nat /\ amt * Nav \in Nat
        /\ W * SCALE \in Nat /\ c * SCALE \in Nat
    BY <1>1, <1>5, <1>6, <1>9, <1>10, ProductNat
  <2> QED BY <1>1, <1>8, <1>10, <2>1, <2>2, <2>3
<1>12. PoolValue <= W + c
  <2>1. reserve * Nav \in Nat /\ W + c \in Nat
    BY <1>1, <1>5, <1>10, ProductNat
  <2> QED BY <1>1, <1>11, <2>1, FloorLeast DEF PoolValue, MulDivFloor
<1> QED
  BY <1>2, <1>4, <1>5, <1>9, <1>10, <1>12 DEF W

\* A larger reserve is worth at least as much.
LEMMA DonationNumbers ==
  ASSUME IInv, NEW n \in Rebases, Rebase(n)
  PROVE  PoolValue' \in Nat /\ PoolValue <= PoolValue' /\ total' = total
<1>1. n \in Nat /\ Nav \in Nat /\ SCALE \in Nat \ {0} /\ reserve \in Nat
  BY PricingTypes, NumbersAssumption DEF IInv, TypeOK
<1>2. reserve' = reserve + n /\ Nav' = Nav /\ total' = total
  BY DEF Rebase, Nav, configVars, shareVars
<1>3. PoolValue' = MulDivFloor(reserve + n, Nav, SCALE)
  BY <1>2 DEF PoolValue
<1>4. MulDivFloor(n, Nav, SCALE) \in Nat /\ PoolValue \in Nat
  BY <1>1, MulDivFloorNat DEF PoolValue
<1>5. PoolValue + MulDivFloor(n, Nav, SCALE) <= PoolValue'
  BY <1>1, <1>3, ValueOfSum DEF PoolValue
<1>6. PoolValue' \in Nat
  <2>1. reserve + n \in Nat
    BY <1>1
  <2>2. MulDivFloor(reserve + n, Nav, SCALE) \in Nat
    BY <1>1, <2>1, MulDivFloorNat
  <2> QED BY <1>3, <2>2
<1> QED BY <1>2, <1>4, <1>5, <1>6

-----------------------------------------------------------------------------
\* The steps that neither price nor donate leave reserve and supply alone.
LEMMA OtherStepsKeepValue ==
  ASSUME IInv, Nav' = Nav,
         \/ Lifecycle
         \/ \E from \in Signers : UnpricedCall(from)
         \/ \E o \in Oracles, n \in Navs \cup {0} : QuoteMoves(o, n)
         \/ \E q \in [Oracles -> Navs \cup {0}] : LedgerCloses(q)
         \/ UNCHANGED vaultVars
  PROVE  PoolValue' = PoolValue /\ total' = total /\ reserve' = reserve
<1>1. total' = total /\ reserve' = reserve
  <2>1. CASE Lifecycle
    BY <2>1 DEF Lifecycle, InitVault, SetCap, SetOracle, SetPaused, TransferAdmin,
                AcceptAdmin, shareVars, tokenVars
  <2>2. CASE \E from \in Signers : UnpricedCall(from)
    BY <2>2 DEF UnpricedCall, Transfer, TransferFrom, Approve, shareVars, tokenVars
  <2>3. CASE \E o \in Oracles, n \in Navs \cup {0} : QuoteMoves(o, n)
    BY <2>3 DEF QuoteMoves, shareVars, tokenVars
  <2>4. CASE \E q \in [Oracles -> Navs \cup {0}] : LedgerCloses(q)
    BY <2>4 DEF LedgerCloses, shareVars, tokenVars
  <2>5. CASE UNCHANGED vaultVars
    BY <2>5 DEF vaultVars, holdings, shareVars, tokenVars
  <2> QED BY <2>1, <2>2, <2>3, <2>4, <2>5
<1> QED BY <1>1 DEF PoolValue

\* The price comparison itself, between the numbers before and after a step.
NotDiluted(v, t, w, u) == (w + VIRT) * (t + VIRT) >= (v + VIRT) * (u + VIRT)

\* A deposit, seen as numbers: v and t before, w and t + sh after.
LEMMA MintNotDiluting ==
  ASSUME NEW v \in Nat, NEW t \in Nat, NEW w \in Nat, NEW vi \in Nat, NEW sh \in Nat,
         sh * (v + VIRT) <= vi * (t + VIRT), v + vi <= w
  PROVE  NotDiluted(v, t, w, t + sh)
<1>1. v + VIRT \in Nat /\ t + VIRT \in Nat /\ w + VIRT \in Nat
  BY NumbersAssumption
<1>2. (v + VIRT) + vi <= w + VIRT /\ (t + sh) + VIRT = (t + VIRT) + sh
  BY NumbersAssumption
<1> QED BY <1>1, <1>2, MintKeepsRatio DEF NotDiluted

\* A withdrawal, seen as numbers: v and t before, w and t - n after.
LEMMA BurnNotDiluting ==
  ASSUME NEW v \in Nat, NEW t \in Nat, NEW w \in Nat, NEW c \in Nat, NEW n \in Nat,
         n <= t, c * (t + VIRT) <= n * (v + VIRT), v <= w + c
  PROVE  NotDiluted(v, t, w, t - n)
<1>1. v + VIRT \in Nat /\ t + VIRT \in Nat /\ w + VIRT \in Nat
  BY NumbersAssumption
<1>2. /\ v + VIRT <= (w + VIRT) + c /\ n <= t + VIRT
      /\ (t - n) + VIRT = (t + VIRT) - n
  BY NumbersAssumption
<1> QED BY <1>1, <1>2, BurnKeepsRatio DEF NotDiluted

\* A donation, or nothing at all.
LEMMA GrowthNotDiluting ==
  ASSUME NEW v \in Nat, NEW t \in Nat, NEW w \in Nat, v <= w
  PROVE  NotDiluted(v, t, w, t)
<1>1. v + VIRT \in Nat /\ t + VIRT \in Nat /\ w + VIRT \in Nat /\ v + VIRT <= w + VIRT
  BY NumbersAssumption
<1>2. (v + VIRT) * (t + VIRT) <= (w + VIRT) * (t + VIRT)
  BY <1>1, TimesKeepsOrder
<1> QED BY <1>1, <1>2, ProductNat DEF NotDiluted

\* While the NAV stands still, no step lowers the price.
LEMMA PriceStep ==
  ASSUME IInv, [Next]_vaultVars
  PROVE  PriceNotDiluted
<1> SUFFICES ASSUME Nav' = Nav
             PROVE  NotDiluted(PoolValue, total, PoolValue', total')
  BY DEF PriceNotDiluted, NotDiluted
<1>1. PoolValue \in Nat /\ total \in Nat
  BY PricingTypes DEF IInv, TypeOK
<1>2. ASSUME NEW from \in Signers, NEW amount \in Amounts, NEW fee \in Fees,
             Deposit(from, amount, fee)
      PROVE  NotDiluted(PoolValue, total, PoolValue', total')
  BY <1>1, <1>2, DepositNumbers, MintNotDiluting
<1>3. ASSUME NEW from \in Signers, NEW n \in Nat, Withdraw(from, n)
      PROVE  NotDiluted(PoolValue, total, PoolValue', total')
  BY <1>1, <1>3, WithdrawNumbers, BurnNotDiluting
<1>4. ASSUME NEW n \in Rebases, Rebase(n)
      PROVE  NotDiluted(PoolValue, total, PoolValue', total')
  BY <1>1, <1>4, DonationNumbers, GrowthNotDiluting
<1>5. ASSUME PoolValue' = PoolValue, total' = total
      PROVE  NotDiluted(PoolValue, total, PoolValue', total')
  BY <1>1, <1>5, GrowthNotDiluting
<1>6. ASSUME NEW from \in Signers, PricedCall(from)
      PROVE  NotDiluted(PoolValue, total, PoolValue', total')
  <2>1. \A n \in Parcels \cup {bal[from]} : n \in Nat
    BY AccountsAssumption, NumbersAssumption DEF IInv, TypeOK
  <2> QED BY <1>2, <1>3, <1>6, <2>1 DEF PricedCall
<1> QED
  BY <1>4, <1>5, <1>6, OtherStepsKeepValue DEF Next, Call, Environment

\* No call, by any account, in any order, dilutes the share price at a given
\* NAV: rounding is always against the caller and donations only raise it.
THEOREM VaultPriceNeverDiluted == Spec => SharePriceNeverDiluted
<1>1. IInv /\ [Next]_vaultVars => PriceNotDiluted
  BY PriceStep
<1> QED BY <1>1, VaultInvariant, PTL DEF Spec, SharePriceNeverDiluted

-----------------------------------------------------------------------------
\* What sh shares, minted for a contribution of `received` at the NAV nav, can
\* be redeemed for at that NAV.
LEMMA PaidAtLeastPayout ==
  ASSUME NEW v \in Nat, NEW t \in Nat, NEW w \in Nat, NEW received \in Nat,
         NEW nav \in Nat \ {0}, NEW vi \in Nat, NEW sh \in Nat,
         vi = MulDivFloor(received, nav, SCALE),
         sh * (v + VIRT) <= vi * (t + VIRT), w <= v + vi + 1
  PROVE  MulDivFloor(MulDivFloor(sh, w + VIRT, (t + sh) + VIRT), SCALE, nav) \in 0..received
<1> DEFINE P == v + VIRT
           S == t + VIRT
           Q == w + VIRT
           c == MulDivFloor(sh, Q, S + sh)
<1>1. P \in Nat /\ S \in Nat \ {0} /\ Q \in Nat /\ Q <= P + vi + 1 /\ SCALE \in Nat \ {0}
  BY NumbersAssumption
<1>2. (t + sh) + VIRT = S + sh
  BY NumbersAssumption
<1>3. sh * P <= vi * S
  OBVIOUS
<1> HIDE DEF P, S, Q
<1>4. sh * Q < vi * (S + sh) + (S + sh)
  BY <1>1, <1>3, ClaimAtMostPaid
<1>5. S + sh \in Nat \ {0} /\ sh * Q \in Nat
  BY <1>1, ProductNat
<1>6. c \in Nat /\ c <= vi
  <2>1. c <= vi
    BY <1>4, <1>5, FloorLeast DEF MulDivFloor
  <2>2. c \in Nat
    BY <1>1, <1>5, MulDivFloorNat
  <2> QED BY <2>1, <2>2
<1> HIDE DEF c
<1>7. c * SCALE <= received * nav
  <2>1. c * SCALE <= vi * SCALE
    BY <1>1, <1>6, TimesKeepsOrder
  <2>2. vi * SCALE <= received * nav
    BY <1>1, MulDivFloorBounds
  <2> QED BY <1>1, <1>6, <2>1, <2>2, ProductNat
<1>8. MulDivFloor(c, SCALE, nav) \in 0..received
  <2>1. c * SCALE \in Nat /\ received * nav \in Nat
    BY <1>1, <1>6, ProductNat
  <2>2. c * SCALE < received * nav + nav
    BY <1>7, <2>1
  <2>3. MulDivFloor(c, SCALE, nav) <= received
    BY <2>1, <2>2, FloorLeast DEF MulDivFloor
  <2>4. MulDivFloor(c, SCALE, nav) \in Nat
    BY <1>1, <1>6, MulDivFloorNat
  <2> QED BY <2>3, <2>4
<1> QED BY <1>2, <1>8 DEF c, Q

\* Of all steps only a deposit mints, and what it mints is not worth more than
\* what it brought in.
LEMMA RoundTripStep ==
  ASSUME IInv, [Next]_vaultVars
  PROVE  MintedNotWorthMore
<1> SUFFICES ASSUME total' > total, Nav' > 0, NEW minted \in {total' - total}
             PROVE  Payout(minted)' <= reserve' - reserve
  BY DEF MintedNotWorthMore
<1>1. total \in Nat /\ reserve \in Nat /\ PoolValue \in Nat /\ Nav \in Nat
  BY PricingTypes DEF IInv, TypeOK
<1>2. \E from \in Signers, amount \in Amounts, fee \in Fees :
        Deposit(from, amount, fee) /\ UNCHANGED quote
  <2>1. ASSUME total' = total PROVE FALSE
    BY <1>1, <2>1
  <2>2. ASSUME NEW from \in Signers, NEW n \in Parcels \cup {bal[from]}, Withdraw(from, n)
        PROVE  FALSE
    <3>1. n \in Nat /\ total' = total - n
      BY <2>2, AccountsAssumption, NumbersAssumption DEF IInv, TypeOK, Withdraw, MayWithdraw
    <3> QED BY <1>1, <3>1
  <2>3. ASSUME Lifecycle PROVE total' = total
    BY <2>3 DEF Lifecycle, InitVault, SetCap, SetOracle, SetPaused, TransferAdmin,
                AcceptAdmin, shareVars
  <2>4. ASSUME NEW from \in Signers, UnpricedCall(from) PROVE total' = total
    BY <2>4 DEF UnpricedCall, Transfer, TransferFrom, Approve, shareVars
  <2>5. ASSUME Environment PROVE total' = total
    BY <2>5 DEF Environment, QuoteMoves, Rebase, LedgerCloses, shareVars
  <2>6. ASSUME UNCHANGED vaultVars PROVE total' = total
    BY <2>6 DEF vaultVars, holdings, shareVars
  <2> QED BY <2>1, <2>2, <2>3, <2>4, <2>5, <2>6 DEF Next, Call, PricedCall
<1>3. PICK from \in Signers, amount \in Amounts, fee \in Fees :
        Deposit(from, amount, fee) /\ UNCHANGED quote
  BY <1>2
<1>4. Nav' = Nav /\ Nav \in Nat \ {0}
  <2>1. Nav' = Nav
    BY <1>3 DEF Deposit, configVars, Nav
  <2> QED BY <1>1, <2>1
<1>5. PICK received \in Nat, vi \in Nat, sh \in Nat :
        /\ vi = MulDivFloor(received, Nav, SCALE)
        /\ sh * (PoolValue + VIRT) <= vi * (total + VIRT)
        /\ reserve' = reserve + received /\ total' = total + sh
        /\ PoolValue' \in Nat /\ PoolValue' <= PoolValue + vi + 1
  BY <1>3, <1>4, DepositNumbers
<1>6. MulDivFloor(MulDivFloor(sh, PoolValue' + VIRT, (total + sh) + VIRT), SCALE, Nav)
        \in 0..received
  BY <1>1, <1>4, <1>5, PaidAtLeastPayout
<1>7. minted = sh /\ reserve' - reserve = received /\ reserve' \in Nat /\ total' = total + sh
  BY <1>1, <1>5
<1>8. ClaimValue(minted)' = MulDivFloor(sh, PoolValue' + VIRT, (total + sh) + VIRT)
  BY <1>7 DEF ClaimValue
<1> DEFINE m == MulDivFloor(ClaimValue(minted)', SCALE, Nav)
<1>9. Payout(minted)' = IF m <= reserve' THEN m ELSE reserve'
  BY <1>4 DEF Payout, AtMost
<1>10. m \in 0..received
  BY <1>6, <1>8
<1> HIDE DEF m
<1> QED BY <1>5, <1>7, <1>9, <1>10

\* Whoever deposits and at once redeems what was minted, at the same NAV, gets
\* back at most what the vault received: deposit and withdraw both round down,
\* and the virtual offset does not open a gap between them.
THEOREM VaultRoundTripNeverGains == Spec => RoundTripNeverGains
<1>1. IInv /\ [Next]_vaultVars => MintedNotWorthMore
  BY RoundTripStep
<1> QED BY <1>1, VaultInvariant, PTL DEF Spec, RoundTripNeverGains

-----------------------------------------------------------------------------
(* Claims *)

\* A common factor cancels from an inequality between naturals.
LEMMA FactorCancels ==
  ASSUME NEW a \in Nat, NEW b \in Nat, NEW d \in Nat \ {0}, a * d <= b * d
  PROVE  a <= b
<1>1. SUFFICES ASSUME b < a PROVE FALSE
  OBVIOUS
<1>2. (b + 1) * d <= a * d
  BY <1>1, TimesKeepsOrder
<1>3. (b + 1) * d = b * d + d
  OBVIOUS
<1> QED BY <1>2, <1>3, ProductNat

\* All claims together come to at most the supply's share of the pool.
LEMMA ClaimsAtMostShare ==
  ASSUME IInv
  PROVE  LET claims == Total([a \in Accounts |-> ClaimValue(bal[a])])
         IN  claims \in Nat /\ claims * (total + VIRT) <= total * (PoolValue + VIRT)
<1> DEFINE c == [a \in Accounts |-> ClaimValue(bal[a])]
<1>1. PoolValue + VIRT \in Nat \ {0} /\ total + VIRT \in Nat \ {0}
  BY PricingTypes DEF IInv
<1>2. ASSUME NEW a \in Accounts
      PROVE  ClaimValue(bal[a]) \in Nat
             /\ ClaimValue(bal[a]) * (total + VIRT) <= bal[a] * (PoolValue + VIRT)
  <2>1. bal[a] \in Nat
    BY DEF IInv, TypeOK
  <2> QED BY <1>1, <2>1, MulDivFloorBounds DEF ClaimValue
<1>3. /\ c \in [Accounts -> Nat] /\ bal \in [Accounts -> Nat] /\ IsFiniteSet(Accounts)
      /\ \A a \in Accounts : c[a] * (total + VIRT) <= bal[a] * (PoolValue + VIRT)
  BY <1>2, AccountsAssumption DEF IInv, TypeOK
<1> HIDE DEF c
<1>4. Total(c) \in Nat
  BY <1>3, TotalNat
<1>5. Total(c) * (total + VIRT) <= Total(bal) * (PoolValue + VIRT)
  BY <1>1, <1>3, TotalProportional
<1> QED BY <1>4, <1>5 DEF IInv, SharesConserved, c

\* Claims within a share t of v, with the offset on both legs, exceed v by no
\* more than the offset, and not at all while the price is at least par.
LEMMA OffsetBoundsClaims ==
  ASSUME NEW claims \in Nat, NEW v \in Nat, NEW t \in Nat,
         claims * (t + VIRT) <= t * (v + VIRT)
  PROVE  claims <= v + (IF t <= v THEN 0 ELSE VIRT)
<1>1. VIRT \in Nat /\ t + VIRT \in Nat \ {0} /\ v + VIRT \in Nat
  BY NumbersAssumption
<1>2. ASSUME t <= v PROVE claims <= v
  <2>1. t * VIRT <= v * VIRT
    BY <1>1, <1>2, TimesKeepsOrder
  <2>2. t * (v + VIRT) = t * v + t * VIRT /\ v * (t + VIRT) = t * v + v * VIRT
    BY <1>1
  <2>3. t * v \in Nat /\ t * VIRT \in Nat /\ v * VIRT \in Nat /\ claims * (t + VIRT) \in Nat
    BY <1>1, ProductNat
  <2>4. claims * (t + VIRT) <= v * (t + VIRT)
    BY <2>1, <2>2, <2>3
  <2> QED BY <1>1, <2>4, FactorCancels
<1>3. claims <= v + VIRT
  <2>1. t * (v + VIRT) <= (t + VIRT) * (v + VIRT)
    BY <1>1, TimesKeepsOrder
  <2>2. (t + VIRT) * (v + VIRT) = (v + VIRT) * (t + VIRT)
    BY <1>1
  <2>3. claims * (t + VIRT) \in Nat /\ t * (v + VIRT) \in Nat /\ (v + VIRT) * (t + VIRT) \in Nat
    BY <1>1, ProductNat
  <2>4. claims * (t + VIRT) <= (v + VIRT) * (t + VIRT)
    BY <2>1, <2>2, <2>3
  <2> QED BY <1>1, <2>4, FactorCancels
<1> QED BY <1>1, <1>2, <1>3

\* The vault's books are all that the claims need to be covered.
LEMMA ClaimsFollow ==
  ASSUME IInv
  PROVE  ClaimsCovered
<1>1. PoolValue \in Nat /\ total \in Nat
  BY PricingTypes DEF IInv, TypeOK
<1> QED BY <1>1, ClaimsAtMostShare, OffsetBoundsClaims DEF ClaimsCovered

\* The vault is solvent at the price it quotes: whatever was deposited, moved,
\* donated, paid out or repriced, the holders' claims together do not exceed
\* the pool, but for the virtual offset once the price is below par.
THEOREM VaultClaimsCovered == Spec => []ClaimsCovered
<1>1. IInv => ClaimsCovered
  BY ClaimsFollow
<1> QED BY <1>1, VaultInvariant, PTL

-----------------------------------------------------------------------------
(* Exits *)

\* What the reported price makes of some shares is at most their claim: the
\* price was rounded down before.
LEMMA QuotedAtMostClaim ==
  ASSUME TypeOK, NEW n \in Nat
  PROVE  /\ MulDivFloor(n, SharePrice, SCALE) \in Nat
         /\ MulDivFloor(n, SharePrice, SCALE) <= ClaimValue(n)
<1> DEFINE P == PoolValue + VIRT
           T == total + VIRT
           p == SharePrice
           q == MulDivFloor(n, p, SCALE)
<1>1. P \in Nat /\ T \in Nat \ {0} /\ SCALE \in Nat \ {0}
  BY PricingTypes, NumbersAssumption
<1>2. p \in Nat /\ p * T <= P * SCALE
  BY <1>1, MulDivFloorBounds DEF SharePrice
<1>3. ClaimValue(n) = (n * P) \div T
  BY DEF ClaimValue, MulDivFloor
<1> HIDE DEF P, T, p
<1>4. q \in Nat /\ q * SCALE <= n * p
  BY <1>1, <1>2, MulDivFloorBounds
<1> HIDE DEF q
<1>5. /\ q * SCALE \in Nat /\ n * p \in Nat /\ p * T \in Nat /\ P * SCALE \in Nat
      /\ q * T \in Nat /\ n * P \in Nat
  BY <1>1, <1>2, <1>4, ProductNat
<1>6. (q * SCALE) * T <= (n * p) * T /\ (p * T) * n <= (P * SCALE) * n
  BY <1>1, <1>2, <1>4, <1>5, TimesKeepsOrder
<1>7. /\ (q * SCALE) * T = (q * T) * SCALE /\ (n * p) * T = (p * T) * n
      /\ (P * SCALE) * n = (n * P) * SCALE
  BY <1>1, <1>2, <1>4
<1>8. (q * T) * SCALE \in Nat /\ (p * T) * n \in Nat /\ (n * P) * SCALE \in Nat
  BY <1>1, <1>5, ProductNat
<1>9. (q * T) * SCALE <= (n * P) * SCALE
  BY <1>6, <1>7, <1>8
<1>10. q * T <= n * P
  BY <1>1, <1>5, <1>9, FactorCancels
<1>11. q <= (n * P) \div T
  BY <1>1, <1>4, <1>5, <1>10, FloorGreatest
<1> QED BY <1>3, <1>4, <1>11 DEF q, p

\* A withdrawal pays no less than the reported price says.
LEMMA PaidAsQuoted ==
  ASSUME TypeOK, Nav > 0, NEW n \in Nat
  PROVE  QuotedUnits(n) \in Nat /\ QuotedUnits(n) <= Payout(n)
<1> DEFINE v == MulDivFloor(n, SharePrice, SCALE)
           x == MulDivFloor(v, SCALE, Nav)
           y == MulDivFloor(ClaimValue(n), SCALE, Nav)
<1>1. v \in Nat /\ ClaimValue(n) \in Nat /\ v <= ClaimValue(n)
  BY QuotedAtMostClaim, PayoutTypes
<1>2. Nav \in Nat \ {0} /\ SCALE \in Nat /\ SCALE <= SCALE /\ reserve \in Nat
  BY PricingTypes, NumbersAssumption DEF TypeOK
<1>3. QuotedUnits(n) = AtMost(x, reserve) /\ Payout(n) = AtMost(y, reserve)
  BY DEF QuotedUnits, Payout
<1> HIDE DEF v
<1>4. x \in Nat /\ y \in Nat
  BY <1>1, <1>2, MulDivFloorNat
<1>5. x <= y
  BY <1>1, <1>2, MulDivFloorKeepsOrder
<1> HIDE DEF x, y
<1> QED BY <1>2, <1>3, <1>4, <1>5 DEF AtMost

\* A vault with an adapter has an admin: it has been initialised.
AdaptedOnlyByAdmin == oracle # NoOne => Initialized

\* No admin call takes the admin away without another.
LEMMA AdminStays ==
  ASSUME TypeOK, AdaptedOnlyByAdmin, [Next]_vaultVars
  PROVE  AdaptedOnlyByAdmin'
<1> USE DEF AdaptedOnlyByAdmin, Initialized
<1>1. CASE Lifecycle
  BY <1>1, AccountsAssumption
     DEF Lifecycle, InitVault, SetCap, SetOracle, SetPaused, TransferAdmin, AcceptAdmin
<1>2. ASSUME NEW from \in Signers, PricedCall(from) \/ UnpricedCall(from)
      PROVE  AdaptedOnlyByAdmin'
  BY <1>2 DEF PricedCall, Deposit, Withdraw, UnpricedCall, Transfer, TransferFrom, Approve,
              configVars
<1>3. CASE Environment
  BY <1>3 DEF Environment, QuoteMoves, Rebase, LedgerCloses, configVars
<1>4. CASE UNCHANGED vaultVars
  BY <1>4 DEF vaultVars, holdings, configVars
<1> QED BY <1>1, <1>2, <1>3, <1>4 DEF Next, Call

\* So an exit that is quoted is open, and pays what is quoted.
LEMMA ExitsFollow ==
  ASSUME IInv, AdaptedOnlyByAdmin
  PROVE  ExitPaysQuotedPrice
<1>1. ASSUME NEW u \in Signers,
             Nav > 0, bal[u] > 0, PayoutFits(bal[u]), QuotedUnits(bal[u]) > 0
      PROVE  MayWithdraw(u, bal[u]) /\ Payout(bal[u]) >= QuotedUnits(bal[u])
  <2>1. bal[u] \in Nat /\ TypeOK
    BY <1>1, AccountsAssumption DEF IInv, TypeOK
  <2>2. Payout(bal[u]) \in Nat /\ QuotedUnits(bal[u]) \in Nat
        /\ QuotedUnits(bal[u]) <= Payout(bal[u])
    BY <1>1, <2>1, PayoutTypes, PaidAsQuoted
  <2>3. ExitOpen
    BY <1>1 DEF ExitOpen, AdaptedOnlyByAdmin, Nav
  <2> QED BY <1>1, <2>1, <2>2, <2>3 DEF MayWithdraw
<1> QED BY <1>1 DEF ExitPaysQuotedPrice

\* withdraw never closes on its holders: while the adapter answers, whatever
\* holdings are worth a unit at the reported price can be taken out at once, and
\* pay at least that; paused or not, whatever the cap and whoever the admin.
THEOREM VaultExitPaysQuotedPrice == Spec => []ExitPaysQuotedPrice
<1>1. IInv /\ AdaptedOnlyByAdmin => ExitPaysQuotedPrice
  BY ExitsFollow
<1>2. Init => AdaptedOnlyByAdmin
  BY DEF Init, AdaptedOnlyByAdmin
<1>3. IInv /\ AdaptedOnlyByAdmin /\ [Next]_vaultVars => AdaptedOnlyByAdmin'
  BY AdminStays DEF IInv
<1> QED BY <1>1, <1>2, <1>3, VaultInvariant, PTL DEF Spec

-----------------------------------------------------------------------------
(* Consent *)

\* A move takes shares from one account only, and at most what it names.
LEMMA MoveTakesFromOne ==
  ASSUME IInv, NEW from \in Accounts, NEW to \in Accounts, NEW n \in Nat,
         MoveShares(from, to, n), NEW a \in Accounts, bal'[a] < bal[a]
  PROVE  a = from /\ bal[a] - bal'[a] = n
<1>1. bal \in [Accounts -> Nat] /\ bal' = Move(bal, from, to, n)
  BY DEF MoveShares, MayTransfer, IInv, TypeOK
<1>2. CASE from = to
  <2>1. bal'[a] = bal[a]
    BY <1>1, <1>2 DEF Move, Credit, Debit
  <2> QED BY <1>1, <2>1
<1>3. CASE from # to
  <2>1. bal'[a] = IF a = from THEN bal[a] - n ELSE IF a = to THEN bal[a] + n ELSE bal[a]
    BY <1>1, <1>3 DEF Move, Credit, Debit
  <2>2. bal[a] \in Nat
    BY <1>1
  <2> QED BY <2>1, <2>2
<1> QED BY <1>2, <1>3

\* Spending an allowance shrinks what the allowance view reports by the amount.
LEMMA SpendShrinksAllowance ==
  ASSUME IInv, NEW owner \in Accounts, NEW spender \in Accounts, NEW n \in Nat,
         SpendAllowance(<<owner, spender>>, n), seq' = seq
  PROVE  /\ Allowance(<<owner, spender>>) >= n
         /\ Allowance(<<owner, spender>>)' = Allowance(<<owner, spender>>) - n
<1> DEFINE pair == <<owner, spender>>
           granted == allow[pair]
           left == IF granted.amount = n THEN NoAllowance ELSE [granted EXCEPT !.amount = @ - n]
<1>1. /\ granted \in [amount : Nat, live : Nat] /\ seq \in Nat
      /\ granted.live >= seq /\ granted.amount >= n
  BY DEF SpendAllowance, IInv, TypeOK
<1>2. allow'[pair] = left
  BY DEF SpendAllowance, IInv, TypeOK
<1> HIDE DEF pair, granted
<1>3. Allowance(pair) = granted.amount
  BY <1>1 DEF Allowance, granted
<1>4. (IF left.live >= seq THEN left.amount ELSE 0) = granted.amount - n
  <2>1. CASE granted.amount = n
    BY <1>1, <2>1 DEF NoAllowance
  <2>2. CASE granted.amount # n
    <3>1. left.live = granted.live /\ left.amount = granted.amount - n
      BY <1>1, <2>2
    <3> QED BY <1>1, <3>1
  <2> QED BY <2>1, <2>2
<1>5. Allowance(pair)' = granted.amount - n
  BY <1>2, <1>4 DEF Allowance, pair
<1> QED BY <1>1, <1>3, <1>5 DEF pair

\* Of all steps only withdraw, transfer and transfer_from take shares away: the
\* first two from whoever signed, the third within the owner's allowance.
LEMMA ConsentStep ==
  ASSUME IInv, [CallsNext]_<<vaultVars, caller>>, NEW a \in Accounts, bal'[a] < bal[a]
  PROVE  caller' = a \/ AllowanceUsed(a, bal[a] - bal'[a])
<1>0. bal \in [Accounts -> Nat] /\ Signers \subseteq Accounts /\ Parcels \subseteq Nat
  BY AccountsAssumption, NumbersAssumption DEF IInv, TypeOK
<1>1. bal' # bal
  BY <1>0
<1>2. ~Unsigned /\ ~UNCHANGED <<vaultVars, caller>>
  BY <1>1 DEF Unsigned, Lifecycle, InitVault, SetCap, SetOracle, SetPaused, TransferAdmin,
              AcceptAdmin, Environment, QuoteMoves, Rebase, LedgerCloses,
              shareVars, vaultVars, holdings
<1>3. PICK from \in Signers : SignedCall(from)
  BY <1>2 DEF CallsNext
<1>4. from \in Accounts /\ caller' = from
  BY <1>0, <1>3 DEF SignedCall
<1>5. CASE PricedCall(from)
  <2>1. \E n : bal' = Credit(bal, from, n) \/ bal' = Debit(bal, from, n)
    BY <1>5 DEF PricedCall, Deposit, Withdraw, MayWithdraw
  <2>2. a = from
    <3>1. SUFFICES ASSUME a # from PROVE FALSE
      OBVIOUS
    <3>2. bal'[a] = bal[a]
      BY <1>0, <2>1, <3>1 DEF Credit, Debit
    <3> QED BY <1>0, <3>2
  <2> QED BY <1>4, <2>2
<1>6. ASSUME NEW to \in Accounts, NEW n \in Parcels \cup {bal[from]}, Transfer(from, to, n)
      PROVE  caller' = a
  <2>1. n \in Nat
    BY <1>0, <1>4
  <2> QED BY <1>4, <1>6, <2>1, MoveTakesFromOne DEF Transfer
<1>7. ASSUME NEW owner \in Accounts, NEW to \in Accounts, NEW n \in Parcels \cup {bal[owner]},
             TransferFrom(from, owner, to, n)
      PROVE  AllowanceUsed(a, bal[a] - bal'[a])
  <2>1. n \in Nat
    BY <1>0
  <2>2. a = owner /\ bal[a] - bal'[a] = n
    BY <1>7, <2>1, MoveTakesFromOne DEF TransferFrom
  <2>3. /\ Allowance(<<owner, from>>) >= n
        /\ Allowance(<<owner, from>>)' = Allowance(<<owner, from>>) - n
    BY <1>4, <1>7, <2>1, SpendShrinksAllowance DEF TransferFrom
  <2> QED BY <1>3, <1>4, <2>2, <2>3 DEF AllowanceUsed
<1>8. ASSUME NEW spender \in Accounts, NEW n, NEW live, Approve(from, spender, n, live)
      PROVE  FALSE
  BY <1>1, <1>8 DEF Approve, shareVars
<1>9. CASE UnpricedCall(from)
  BY <1>6, <1>7, <1>8, <1>9 DEF UnpricedCall
<1> QED BY <1>3, <1>5, <1>9 DEF SignedCall

\* Whoever loses shares signed for it, or had let the signer spend as much.
THEOREM VaultSharesLeaveByConsent == CallsSpec => SharesLeaveByConsent
<1>1. CallsInit => IInv
  BY IInvInit DEF CallsInit
<1>2. IInv /\ [CallsNext]_<<vaultVars, caller>> => IInv'
  <2>1. [CallsNext]_<<vaultVars, caller>> => [Next]_vaultVars
    BY DEF CallsNext, Unsigned, SignedCall, Next, Call
  <2> QED BY <2>1, IInvStep
<1>3. ASSUME IInv, [CallsNext]_<<vaultVars, caller>>
      PROVE  \A a \in Accounts :
               bal'[a] < bal[a] => caller' = a \/ AllowanceUsed(a, bal[a] - bal'[a])
  BY <1>3, ConsentStep
<1> QED BY <1>1, <1>2, <1>3, PTL DEF CallsSpec, SharesLeaveByConsent
=============================================================================
