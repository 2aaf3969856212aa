---------------------------- MODULE AmountsProofs ----------------------------
(* Laws of the sums of Amounts, for every set of rows and every amount, and *)
(* of the largest of finitely many numbers.                                 *)
EXTENDS Amounts, FiniteSetTheorems, TLAPS

(* A sum over finitely many rows is a natural number.                       *)
THEOREM TotalType ==
    ASSUME NEW S, IsFiniteSet(S), NEW amount, NEW top \in Nat
    PROVE  IsFiniteSet(Coins(S, amount, top)) /\ Total(S, amount, top) \in Nat
<1>1. IsFiniteSet(1..top)
  BY FS_Interval
<1>2. IsFiniteSet(S \X (1..top))
  BY <1>1, FS_Product
<1>3. Coins(S, amount, top) \in SUBSET (S \X (1..top))
  BY DEF Coins
<1>4. IsFiniteSet(Coins(S, amount, top))
  BY <1>2, <1>3, FS_Subset
<1> QED
  BY <1>4, FS_CardinalityType DEF Total

(* The sum over no rows is 0.                                               *)
THEOREM TotalEmpty ==
    ASSUME NEW amount, NEW top
    PROVE  Total({}, amount, top) = 0
<1>1. Coins({}, amount, top) = {}
  BY DEF Coins
<1> QED
  BY <1>1, FS_EmptySet DEF Total

(* The sum depends only on the amounts of the rows it ranges over.          *)
THEOREM TotalSame ==
    ASSUME NEW S, NEW f, NEW g, NEW top \in Nat, \A x \in S : f[x] = g[x]
    PROVE  Total(S, f, top) = Total(S, g, top)
<1>1. Coins(S, f, top) = Coins(S, g, top)
  BY DEF Coins
<1> QED
  BY <1>1 DEF Total

(* One more row adds its amount, when the other amounts stay.               *)
THEOREM TotalAdd ==
    ASSUME NEW S, IsFiniteSet(S), NEW r, r \notin S, NEW top \in Nat,
           NEW f, NEW g, \A x \in S : f[x] = g[x], g[r] \in 0..top
    PROVE  Total(S \cup {r}, g, top) = Total(S, f, top) + g[r]
<1> DEFINE Old == Coins(S, f, top)
           New == {r} \X (1..g[r])
<1>1. Coins(S \cup {r}, g, top) = Old \cup New
  <2>1. ASSUME NEW c \in Coins(S \cup {r}, g, top) PROVE c \in Old \cup New
    <3>1. c[1] \in S \cup {r} /\ c[2] \in 1..top /\ c[2] <= g[c[1]] /\ c = <<c[1], c[2]>>
      BY DEF Coins
    <3>2. CASE c[1] \in S
      BY <3>1, <3>2 DEF Coins
    <3>3. CASE c[1] = r
      <4>1. c[2] \in 1..g[r]
        BY <3>1, <3>3
      <4> QED
        BY <3>1, <3>3, <4>1
    <3> QED
      BY <3>1, <3>2, <3>3
  <2>2. ASSUME NEW c \in Old PROVE c \in Coins(S \cup {r}, g, top)
    BY <2>2 DEF Coins
  <2>3. ASSUME NEW c \in New PROVE c \in Coins(S \cup {r}, g, top)
    <3>1. c[1] = r /\ c[2] \in 1..g[r] /\ c = <<c[1], c[2]>>
      OBVIOUS
    <3>2. c[2] \in 1..top
      BY <3>1
    <3> QED
      BY <3>1, <3>2 DEF Coins
  <2> QED
    BY <2>1, <2>2, <2>3
<1>2. Old \cap New = {}
  BY DEF Coins
<1>3. IsFiniteSet(Old)
  BY TotalType
<1>4. IsFiniteSet(New) /\ Cardinality(New) = g[r]
  <2> DEFINE n == g[r]
  <2>1. n \in Nat /\ n \in Int /\ 1 \in Int
    OBVIOUS
  <2> HIDE DEF n
  <2>2. /\ IsFiniteSet(1..n)
        /\ Cardinality(1..n) = IF 1 > n THEN 0 ELSE n - 1 + 1
    BY <2>1, FS_Interval, ZenonT(20)
  <2>3. Cardinality(1..n) = n
    BY <2>1, <2>2
  <2>4. IsFiniteSet({r}) /\ Cardinality({r}) = 1
    BY FS_Singleton
  <2>5. /\ IsFiniteSet({r} \X (1..n))
        /\ Cardinality({r} \X (1..n)) = Cardinality({r}) * Cardinality(1..n)
    BY <2>2, <2>4, FS_Product
  <2>6. Cardinality({r} \X (1..n)) = n
    BY <2>1, <2>3, <2>4, <2>5
  <2> QED
    BY <2>5, <2>6 DEF n
<1>5. Cardinality(Old) \in Nat
  BY <1>3, FS_CardinalityType
<1>6. Cardinality(Old \cup New) = Cardinality(Old) + Cardinality(New) - Cardinality(Old \cap New)
  BY <1>3, <1>4, FS_Union
<1>7. Cardinality(Old \cap New) = 0
  BY <1>2, FS_EmptySet
<1>8. Cardinality(Old \cup New) = Cardinality(Old) + g[r]
  BY <1>4, <1>5, <1>6, <1>7
<1> QED
  BY <1>1, <1>8 DEF Total

(* One row less takes its amount off, when the other amounts stay.          *)
THEOREM TotalRemove ==
    ASSUME NEW S, IsFiniteSet(S), NEW r \in S, NEW top \in Nat,
           NEW f, NEW g, \A x \in S \ {r} : f[x] = g[x], f[r] \in 0..top
    PROVE  Total(S \ {r}, g, top) = Total(S, f, top) - f[r]
<1> DEFINE T == S \ {r}
<1>1. IsFiniteSet(T)
  BY FS_RemoveElement
<1>2. r \notin T /\ \A x \in T : g[x] = f[x]
  OBVIOUS
<1>3. T \cup {r} = S
  OBVIOUS
<1> HIDE DEF T
<1>4. Total(T \cup {r}, f, top) = Total(T, g, top) + f[r]
  BY <1>1, <1>2, TotalAdd
<1>5. Total(T, g, top) \in Nat
  BY <1>1, TotalType
<1>6. f[r] \in Nat
  OBVIOUS
<1>7. Total(S, f, top) = Total(T, g, top) + f[r]
  BY <1>3, <1>4, Zenon
<1>8. Total(T, g, top) = Total(S, f, top) - f[r]
  <2> DEFINE small == Total(T, g, top)
             large == Total(S, f, top)
             amount == f[r]
  <2>1. small \in Nat /\ amount \in Nat /\ large = small + amount
    BY <1>5, <1>6, <1>7
  <2> HIDE DEF small, large, amount
  <2>2. small = large - amount
    BY <2>1
  <2> QED
    BY <2>2 DEF small, large, amount
<1> QED
  BY <1>8 DEF T

(* The same of one function of the rows.                                    *)
LEMMA TotalJoined ==
    ASSUME NEW S, IsFiniteSet(S), NEW r, r \notin S, NEW top \in Nat, NEW f, f[r] \in 0..top
    PROVE  Total(S \cup {r}, f, top) = Total(S, f, top) + f[r]
<1>1. \A x \in S : f[x] = f[x]
  OBVIOUS
<1> QED
  BY <1>1, TotalAdd

LEMMA TotalLeft ==
    ASSUME NEW S, IsFiniteSet(S), NEW r \in S, NEW top \in Nat, NEW f, f[r] \in 0..top
    PROVE  Total(S \ {r}, f, top) = Total(S, f, top) - f[r]
<1>1. \A x \in S \ {r} : f[x] = f[x]
  OBVIOUS
<1> QED
  BY <1>1, TotalRemove

(* The sum over two sets of rows that have none in common.                  *)
LEMMA TotalOfBoth ==
    ASSUME NEW S, NEW T, IsFiniteSet(S), IsFiniteSet(T), S \cap T = {},
           NEW f, NEW top \in Nat
    PROVE  Total(S \cup T, f, top) = Total(S, f, top) + Total(T, f, top)
<1> DEFINE A == Coins(S, f, top)
           B == Coins(T, f, top)
<1>1. Coins(S \cup T, f, top) = A \cup B /\ A \cap B = {}
  BY DEF Coins
<1>2. IsFiniteSet(A) /\ IsFiniteSet(B)
  BY TotalType
<1>3. Cardinality(A \cup B) = Cardinality(A) + Cardinality(B) - Cardinality(A \cap B)
  <2> HIDE DEF A, B
  <2> QED
    BY <1>2, FS_Union
<1>4. Cardinality(A) \in Nat /\ Cardinality(B) \in Nat /\ Cardinality(A \cap B) = 0
  BY <1>1, <1>2, FS_CardinalityType, FS_EmptySet
<1>5. Cardinality(A \cup B) = Cardinality(A) + Cardinality(B)
  <2> HIDE DEF A, B
  <2> QED
    BY <1>3, <1>4
<1> QED
  BY <1>1, <1>5 DEF Total

(* The sum depends only on the rows that hold something.                    *)
THEOREM TotalOfNonzero ==
    ASSUME NEW S, NEW T, NEW f, NEW top \in Nat,
           \A x \in S \cup T : f[x] \in Nat,
           \A x \in S \cup T : f[x] # 0 => (x \in S <=> x \in T)
    PROVE  Total(S, f, top) = Total(T, f, top)
<1>1. Coins(S, f, top) = Coins(T, f, top)
  <2>1. ASSUME NEW c \in Coins(S, f, top) PROVE c \in Coins(T, f, top)
    <3>1. c = <<c[1], c[2]>> /\ c[1] \in S /\ c[2] \in 1..top /\ c[2] <= f[c[1]]
      BY DEF Coins
    <3>2. f[c[1]] # 0 /\ c[1] \in T
      BY <3>1
    <3> QED
      BY <3>1, <3>2 DEF Coins
  <2>2. ASSUME NEW c \in Coins(T, f, top) PROVE c \in Coins(S, f, top)
    <3>1. c = <<c[1], c[2]>> /\ c[1] \in T /\ c[2] \in 1..top /\ c[2] <= f[c[1]]
      BY DEF Coins
    <3>2. f[c[1]] # 0 /\ c[1] \in S
      BY <3>1
    <3> QED
      BY <3>1, <3>2 DEF Coins
  <2> QED
    BY <2>1, <2>2
<1> QED
  BY <1>1 DEF Total

(* A finite set of integers has a largest one.                              *)
THEOREM LargestExists ==
    ASSUME NEW S, IsFiniteSet(S), S \subseteq Int, S # {}
    PROVE  \E m \in S : \A i \in S : i <= m
<1> DEFINE Above(i) == {j \in S : j > i}
           Aboves == {Above(i) : i \in S}
           R == StrictSubsetOrdering(S)
<1>1. Aboves \subseteq FiniteSubsetsOf(S) /\ Aboves # {}
  <2>1. ASSUME NEW i \in S PROVE Above(i) \in SUBSET S /\ IsFiniteSet(Above(i))
    <3>1. Above(i) \in SUBSET S
      OBVIOUS
    <3> QED
      BY <3>1, FS_Subset
  <2> QED
    BY <2>1 DEF FiniteSubsetsOf
<1>2. IsWellFoundedOn(R, FiniteSubsetsOf(S))
  BY FS_StrictSubsetOrderingWellFounded
<1>3. PICK x \in Aboves : \A y \in Aboves : <<y, x>> \notin R
  <2> HIDE DEF Aboves, R
  <2> QED
    BY <1>1, <1>2, WFMin
<1>4. PICK m \in S : x = Above(m)
  OBVIOUS
<1>5. ASSUME NEW i \in S, ~(i <= m) PROVE FALSE
  <2>1. i \in Above(m) /\ i \notin Above(i)
    BY <1>5
  <2>2. ASSUME NEW j \in Above(i) PROVE j \in Above(m)
    <3>1. j \in S /\ j > i /\ {i, j, m} \subseteq Int
      OBVIOUS
    <3>2. j > m
      BY <1>5, <3>1
    <3> QED
      BY <3>1, <3>2
  <2>3. <<Above(i), Above(m)>> \in R
    BY <2>1, <2>2 DEF StrictSubsetOrdering
  <2> QED
    BY <1>3, <1>4, <2>3
<1> QED
  BY <1>5

=============================================================================
