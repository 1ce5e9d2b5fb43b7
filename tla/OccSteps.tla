------------------------------ MODULE OccSteps ------------------------------
(***************************************************************************)
(* The inductive invariant of silo's transactions, and that it holds       *)
(* initially and is kept by every step that leaves tuples and index alone: *)
(* reads, validation, the TID, the beginning and the end of a transaction, *)
(* the clock. Any number of cores, keys, tuples, epochs and transactions.  *)
(* A transaction owns the tuples it has locked and the new head it has     *)
(* made; the invariant says what it may rely on of them. What the library  *)
(* proves of finite sets is a hypothesis here (Library), which OccProofs   *)
(* discharges.                                                             *)
(***************************************************************************)
EXTENDS Occ, TLAPS

\* What Ascending makes of a set of numbers, and what Max finds.  Lemma
\* Enumerations proves it for every set the steps below sort.
Sorts(S) ==
    /\ Cardinality(S) \in Nat
    /\ Ascending(S) \in [1 .. Cardinality(S) -> S]
    /\ \A i, j \in 1 .. Cardinality(S) : i < j => Ascending(S)[i] < Ascending(S)[j]
    /\ \A i, j \in 1 .. Cardinality(S) : Ascending(S)[i] = Ascending(S)[j] => i = j
    /\ \A x \in S : \E i \in 1 .. Cardinality(S) : Ascending(S)[i] = x

\* The sets that are sorted: positions and addresses; and those that have a
\* maximum: TIDs.
Sorting ==
    /\ \A b \in Nat : \A S \in SUBSET (1 .. b) : Sorts(S)
    /\ \A b \in Nat : \A S \in SUBSET (0 .. b) :
          S # {} => Max(S) \in S /\ \A n \in S : n <= Max(S)

\* A database that is loaded has a tuple of its own for every key.
Loads(init) ==
    /\ DOMAIN InitTree(init) \subseteq Keys
    /\ InitTree(init) \in [DOMAIN InitTree(init) -> Tuples]
    /\ \A j, k \in DOMAIN InitTree(init) : InitTree(init)[j] = InitTree(init)[k] => j = k

\* Every set of initial values can be loaded.
Loading == \A init \in [Keys -> Nat] : Loads(init)

\* How many elements the smallest sets have.
Counting == Cardinality({}) = 0 /\ \A x : Cardinality({x}) = 1

\* A function that takes no value twice, and one that takes every value.
Injective(f, S) == \A x, y \in S : f[x] = f[y] => x = y

Onto(f, S, T) == \A y \in T : \E x \in S : f[x] = y

\* What the library proves of numbers and of finite sets.  Everything up to
\* the theorems takes it as a hypothesis; lemma LibraryHolds discharges it.
Library ==
    /\ \A S \in SUBSET Nat : S # {} => \E m \in S : \A n \in S : m <= n
    /\ Cardinality({}) = 0 /\ \A x : Cardinality({x}) = 1
    /\ \A S : IsFiniteSet(S) => Cardinality(S) \in Nat
    /\ \A S, x : IsFiniteSet(S) /\ x \notin S => Cardinality(S \cup {x}) = Cardinality(S) + 1
    /\ \A S \in SUBSET Nat : \A b \in Nat : (\A n \in S : n <= b) => IsFiniteSet(S)
    /\ \A S : \A T \in SUBSET S : IsFiniteSet(S) => IsFiniteSet(T) /\ Cardinality(T) <= Cardinality(S)
    /\ \A n \in Nat : IsFiniteSet(1 .. n) /\ Cardinality(1 .. n) = n
    /\ \A S, T : IsFiniteSet(S) /\ IsFiniteSet(T) /\ Cardinality(S) = Cardinality(T) =>
         /\ \A f \in [S -> T] : Injective(f, S) => Onto(f, S, T)
         /\ \E f \in [S -> T] : Injective(f, S)

\* A bounded set of numbers has an ascending enumeration.
Enumerable(T) ==
    \E g \in [1 .. Cardinality(T) -> T] : \A i, j \in 1 .. Cardinality(T) : i < j => g[i] < g[j]

\* What the steps sort can be sorted, what is loaded finds room, and owners can
\* be counted.
LEMMA Enumerations ==
    ASSUME Library
    PROVE  Sorting /\ Loading /\ Counting
  \* Max of a set of numbers with a bound.
<1>Greatest.
      ASSUME Library, NEW S \in SUBSET Nat, S # {}, NEW b \in Nat, \A n \in S : n < b
      PROVE  Max(S) \in S /\ \A n \in S : n <= Max(S)
  <2> USE <1>Greatest
  <2> DEFINE B == {u \in Nat : \A n \in S : n <= u}
  <2>1. B \in SUBSET Nat /\ b \in B
    OBVIOUS
  <2>2. \A u : u \in B <=> u \in Nat /\ \A n \in S : n <= u
    BY Zenon
  <2> HIDE DEF B
  <2>3. PICK u \in B : \A v \in B : u <= v
    BY <2>1, Zenon DEF Library
  <2>4. ASSUME u \notin S PROVE FALSE
    <3>1. \A n \in S : n \in Nat /\ n < u /\ u \in Nat
      BY <2>4, <2>2, <2>3
    <3>2. u - 1 \in Nat
      <4>1. PICK x : x \in S
        BY Zenon
      <4>2. x \in Nat /\ u \in Nat /\ x < u
        BY <4>1, <3>1, Zenon
      <4> QED
        BY ONLY <4>2
    <3>3. u - 1 \in B
      BY <3>1, <3>2, <2>2
    <3> QED
      BY <3>2, <3>3, <2>2, <2>3
  <2>5. u \in S /\ \A y \in S : u >= y
    BY <2>2, <2>3, <2>4
  <2>6. Max(S) \in S /\ \A y \in S : Max(S) >= y
    BY <2>5, Zenon DEF Max
  <2> QED
    BY <2>6
  \* Its greatest number comes last.
<1>EnumerableStep.
      ASSUME Library, NEW n \in Nat, NEW T, \A x \in T : x \in 1 .. n + 1,
             IsFiniteSet(T \ {n + 1}), Enumerable(T \ {n + 1})
      PROVE  Enumerable(T)
  <2> USE <1>EnumerableStep
  <2> DEFINE U == T \ {n + 1}
             k == Cardinality(U)
  <2>1. k \in Nat
    BY Zenon DEF Library
  <2>2. PICK f \in [1 .. k -> U] : \A i, j \in 1 .. k : i < j => f[i] < f[j]
    BY Zenon DEF Enumerable
  <2>3. U = T \ {n + 1} /\ IsFiniteSet(U) /\ Cardinality(U) = k /\ Enumerable(U)
    BY Zenon
  <2> HIDE DEF U, k
  <2>4. CASE n + 1 \notin T
    <3>1. U = T
      BY <2>3, <2>4, Zenon
    <3> QED
      BY <3>1, <2>3, Zenon
  <2>5. CASE n + 1 \in T
    <3>1. Cardinality(T) = k + 1
      <4>1. T = U \cup {n + 1} /\ n + 1 \notin U
        BY <2>3, <2>5, Zenon
      <4> QED
        BY <4>1, <2>3, Zenon DEF Library
    <3> DEFINE g == [i \in 1 .. k + 1 |-> IF i = k + 1 THEN n + 1 ELSE f[i]]
    <3>2. \A i \in 1 .. k : f[i] \in Nat /\ f[i] < n + 1 /\ f[i] \in T
      <4>1. \A x \in U : x \in Nat /\ x < n + 1 /\ x \in T
        BY <2>3
      <4> QED
        BY ONLY <4>1, <2>2
    <3>3. \A i \in 1 .. k + 1 : i = k + 1 \/ i \in 1 .. k
      BY ONLY <2>1
    <3>4. g \in [1 .. k + 1 -> T]
      BY <2>5, <3>2, <3>3, Zenon
    <3>5. \A i, j \in 1 .. k + 1 : i < j => g[i] < g[j]
      BY ONLY n \in Nat, <2>1, <2>2, <3>2, <3>3
    <3> QED
      BY <3>1, <3>4, <3>5, Zenon DEF Enumerable
  <2> QED
    BY <2>4, <2>5, Zenon
  \* By a least bound of a set that has none: there is no such bound.
<1>EnumerableSets.
      ASSUME Library, NEW b \in Nat, NEW S \in SUBSET (1 .. b)
      PROVE  IsFiniteSet(S) /\ Cardinality(S) \in Nat /\ Enumerable(S)
  <2> USE <1>EnumerableSets
  <2> DEFINE Bad == {n \in Nat : \E T \in SUBSET (1 .. n) : ~Enumerable(T)}
  <2>1. \A n \in Nat : \A T \in SUBSET (1 .. n) : IsFiniteSet(T) /\ Cardinality(T) \in Nat
    <3> SUFFICES ASSUME NEW n \in Nat, NEW T \in SUBSET (1 .. n)
                 PROVE  IsFiniteSet(T) /\ Cardinality(T) \in Nat
      BY Zenon
    <3>1. T \in SUBSET Nat /\ \A x \in T : x <= n
      OBVIOUS
    <3> QED
      BY <3>1, Zenon DEF Library
  <2>2. Enumerable({})
    <3>1. Cardinality({}) = 0
      BY Zenon DEF Library
    <3>2. [i \in 1 .. 0 |-> 0] \in [1 .. 0 -> {}]
      OBVIOUS
    <3>3. \A i \in 1 .. 0 : FALSE
      OBVIOUS
    <3> QED
      BY <3>1, <3>2, <3>3, Zenon DEF Enumerable
  <2>3. /\ \A n : n \in Bad <=> n \in Nat /\ \E T \in SUBSET (1 .. n) : ~Enumerable(T)
        /\ Bad \in SUBSET Nat
    BY Zenon
  <2> HIDE DEF Bad
  <2>4. ASSUME Bad # {} PROVE FALSE
    <3>1. PICK m \in Bad : \A n \in Bad : m <= n
      BY <2>3, <2>4, Zenon DEF Library
    <3>2. m \in Nat
      BY <2>3, <3>1, Zenon
    <3>3. PICK T \in SUBSET (1 .. m) : ~Enumerable(T)
      BY <2>3, <3>1, Zenon
    <3>4. m # 0
      <4>1. ASSUME m = 0 PROVE FALSE
        <5>1. T = {}
          BY <4>1, <3>3
        <5> QED
          BY <5>1, <2>2, <3>3, Zenon
      <4> QED
        BY <4>1, Zenon
    <3>5. PICK n \in Nat : m = n + 1
      BY <3>2, <3>4
    <3>6. n \notin Bad
      BY <3>1, <3>5
    <3>7. T \ {n + 1} \in SUBSET (1 .. n)
      BY <3>3, <3>5
    <3>8. Enumerable(T \ {n + 1}) /\ IsFiniteSet(T \ {n + 1})
      BY <3>6, <3>7, <2>1, <2>3, Zenon
    <3>9. \A x \in T : x \in 1 .. n + 1
      BY <3>3, <3>5, Zenon
    <3> QED
      BY <3>3, <3>8, <3>9, <1>EnumerableStep, Zenon
  <2> QED
    BY <2>1, <2>3, <2>4, Zenon
  \* Ascending enumerates a bounded set, every number of it once.
<1>AscendingFacts.
      ASSUME Library, NEW b \in Nat, NEW S \in SUBSET (1 .. b)
      PROVE  Sorts(S)
  <2> USE <1>AscendingFacts
  <2> DEFINE k == Cardinality(S)
             a == Ascending(S)
  <2>1. k \in Nat /\ IsFiniteSet(S)
    BY <1>EnumerableSets, Zenon
  <2>2. PICK g \in [1 .. k -> S] : \A i, j \in 1 .. k : i < j => g[i] < g[j]
    BY <1>EnumerableSets, Zenon DEF Enumerable
  <2>3. \A f \in [1 .. k -> S] : DOMAIN f = 1 .. k
    BY Zenon
  <2>4. a \in [1 .. k -> S] /\ \A i, j \in DOMAIN a : i < j => a[i] < a[j]
    BY <2>2, <2>3, Zenon DEF Ascending
  <2>5. Cardinality(S) = k
    OBVIOUS
  <2> HIDE DEF a, k
  <2>6. \A i, j \in 1 .. k : i < j => a[i] < a[j]
    BY <2>3, <2>4, Zenon
  <2>7. \A i, j \in 1 .. k : a[i] = a[j] => i = j
    <3> SUFFICES ASSUME NEW i \in 1 .. k, NEW j \in 1 .. k, a[i] = a[j], i # j PROVE FALSE
      OBVIOUS
    <3>0. \A x \in 1 .. b : x \in Nat
      OBVIOUS
    <3>1. a[i] \in Nat /\ a[j] \in Nat
      BY <3>0, <2>4, Zenon
    <3>2. i < j \/ j < i
      BY <2>1
    <3> QED
      BY <2>6, <3>1, <3>2
  <2>8. Cardinality(1 .. k) = k /\ IsFiniteSet(1 .. k)
    BY <2>1, Zenon DEF Library
  <2>9. Injective(a, 1 .. k)
    BY <2>7, Zenon DEF Injective
  <2>10. Onto(a, 1 .. k, S)
    BY <2>1, <2>4, <2>5, <2>8, <2>9, Zenon DEF Library
  <2>11. \A x \in S : \E i \in 1 .. k : a[i] = x
    BY <2>10, Zenon DEF Onto
  <2> QED
    BY <2>1, <2>4, <2>6, <2>7, <2>11, Zenon DEF a, k, Sorts
  \* The lists of positions, addresses and TIDs of the steps can be sorted.
<1>SortingHolds.
      ASSUME Library
      PROVE  Sorting
  <2> USE <1>SortingHolds
  <2>1. ASSUME NEW b \in Nat, NEW S \in SUBSET (0 .. b), S # {}
        PROVE  Max(S) \in S /\ \A n \in S : n <= Max(S)
    <3>1. S \in SUBSET Nat /\ b + 1 \in Nat /\ \A n \in S : n < b + 1
      OBVIOUS
    <3> QED
      BY <2>1, <3>1, <1>Greatest, Zenon
  <2> QED
    BY <2>1, <1>AscendingFacts, Zenon DEF Sorting
  \* A finite set of keys finds room at the even addresses.
<1>LoadingHolds.
      ASSUME Library
      PROVE  Loading
  <2> USE <1>LoadingHolds
  <2> SUFFICES ASSUME NEW init \in [Keys -> Nat] PROVE Loads(init)
    BY Zenon DEF Loading
  <2> DEFINE present == {k \in Keys : init[k] # NoValue}
             n == Cardinality(present)
             even == {2 * i : i \in 1 .. n}
             Fits(f) == \A j, k \in present : f[j] = f[k] => j = k
  <2>1. present \in SUBSET Keys /\ IsFiniteSet(Keys)
    BY OccAssumption, Zenon
  <2>2. IsFiniteSet(present) /\ n <= Cardinality(Keys)
    BY <2>1, Zenon DEF Library
  <2>3. n \in Nat /\ Cardinality(Keys) \in Nat
    BY <2>1, <2>2, Zenon DEF Library
  <2>4. InitTree(init) = CHOOSE f \in [present -> even] : Fits(f)
    BY Zenon DEF InitTree
  <2>5. 2 * Cardinality(Keys) <= MaxTuples /\ MaxTuples \in Nat
    BY OccAssumption, Zenon
  <2> HIDE DEF present, n
  <2>6. IsFiniteSet(1 .. n) /\ Cardinality(1 .. n) = n
    BY <2>3, Zenon DEF Library
  <2>7. PICK b \in [present -> 1 .. n] : Injective(b, present)
    <3>1. Cardinality(present) = Cardinality(1 .. n)
      BY <2>6, Zenon DEF n
    <3> QED
      BY <2>2, <2>6, <3>1, Zenon DEF Library
  <2>8. b \in [present -> 1 .. n] /\ \A j, k \in present : b[j] = b[k] => j = k
    BY ONLY <2>7, Zenon DEF Injective
  <2>9. PICK f : f = [k \in present |-> 2 * b[k]]
    BY Zenon
  <2>10. \A i, j \in 1 .. n : 2 * i = 2 * j => i = j
    BY ONLY <2>3
  <2>11. f \in [present -> even] /\ Fits(f)
    <3>1. \A k \in present : f[k] = 2 * b[k] /\ b[k] \in 1 .. n
      BY ONLY <2>8, <2>9, Zenon
    <3> QED
      BY ONLY <2>8, <2>9, <2>10, <3>1, Zenon
  <2>12. InitTree(init) \in [present -> even] /\ Fits(InitTree(init))
    BY ONLY <2>4, <2>11, Zenon
  <2>13. even \subseteq Tuples
    BY ONLY <2>2, <2>3, <2>5 DEF Tuples
  <2> HIDE DEF even
  <2>14. DOMAIN InitTree(init) = present /\ InitTree(init) \in [present -> Tuples]
    BY ONLY <2>12, <2>13, Zenon
  <2> QED
    BY ONLY <2>1, <2>12, <2>14, Zenon DEF Loads
<1> QED
  BY <1>SortingHolds, <1>LoadingHolds, Zenon DEF Library, Counting

\* The constants as the proofs use them, one by one.
LEMMA Constants ==
    /\ NMAXCORES \in Nat /\ NMAXCORES > 0 /\ NumIds \in Nat /\ NumIds > 1
    /\ ReadOnlyEpochMultiplier \in Nat /\ ReadOnlyEpochMultiplier > 0
    /\ MaxTick \in Nat /\ MaxTick > 0 /\ MaxTuples \in Nat
    /\ NoTuple \notin Tuples /\ Tuples \subseteq Nat
BY OccAssumption DEF Tuples, NoTuple

\* Products of natural numbers are ordered as their factors are.
LEMMA Products ==
    ASSUME NEW a \in Nat, NEW b \in Nat, NEW n \in Nat, n > 0
    PROVE  /\ a * n \in Nat
           /\ a < b => a * n + n <= b * n
           /\ a <= b => a * n <= b * n
<1>1. a * n \in Nat
  OBVIOUS
<1>2. ASSUME a <= b PROVE a * n <= b * n
  <2>1. PICK d \in Nat : b = a + d
    BY <1>2
  <2>2. b * n = a * n + d * n /\ d * n \in Nat
    BY <2>1
  <2> QED
    BY <2>2, <1>1
<1>3. ASSUME a < b PROVE a * n + n <= b * n
  <2>1. PICK d \in Nat : b = a + 1 + d
    BY <1>3
  <2>2. b * n = a * n + n + d * n /\ d * n \in Nat
    BY <2>1
  <2> QED
    BY <2>2, <1>1
<1> QED
  BY <1>1, <1>2, <1>3

\* A quotient and its remainder.
LEMMA Quotient ==
    ASSUME NEW x \in Nat, NEW n \in Nat, n > 0
    PROVE  /\ x \div n \in Nat /\ (x \div n) * n \in Nat
           /\ (x \div n) * n <= x /\ x < (x \div n) * n + n
           /\ x % n \in Nat /\ x % n = x - (x \div n) * n
OBVIOUS

\* MakeTid: the TIDs of an epoch lie between the first of it and the first of
\* the next.
LEMMA TidBounds ==
    ASSUME NEW c \in Cores, NEW n \in Nat, n < NumIds, NEW e \in Nat
    PROVE  /\ MakeTid(c, n, e) \in Nat /\ MakeTid(0, 0, e) \in Nat
           /\ MakeTid(0, 0, e) <= MakeTid(c, n, e)
           /\ MakeTid(c, n, e) < MakeTid(0, 0, e + 1)
           /\ n > 0 => MakeTid(0, 0, e) < MakeTid(c, n, e)
<1>1. e * NumIds \in Nat /\ (e + 1) * NumIds = e * NumIds + NumIds
  BY Constants
<1> DEFINE a == e * NumIds
<1>2. a \in Nat /\ (e + 1) * NumIds = a + NumIds /\ a + n \in Nat /\ a + NumIds \in Nat
  BY <1>1, Constants
<1> HIDE DEF a
<1>3. /\ a * NMAXCORES <= (a + n) * NMAXCORES
      /\ (a + n) * NMAXCORES + NMAXCORES <= (a + NumIds) * NMAXCORES
      /\ a * NMAXCORES \in Nat /\ (a + n) * NMAXCORES \in Nat /\ (a + NumIds) * NMAXCORES \in Nat
      /\ n > 0 => a * NMAXCORES + NMAXCORES <= (a + n) * NMAXCORES
  BY <1>2, Constants, Products
<1>4. /\ MakeTid(c, n, e) = (a + n) * NMAXCORES + c
      /\ MakeTid(0, 0, e) = a * NMAXCORES
      /\ MakeTid(0, 0, e + 1) = (a + NumIds) * NMAXCORES
  BY <1>2, <1>3, Constants DEF MakeTid, a
<1>5. c \in Nat /\ c < NMAXCORES
  BY Constants DEF Cores
<1> QED
  BY <1>3, <1>4, <1>5, Constants

\* MakeTid: the first TIDs of the epochs are ordered as the epochs are.
LEMMA TidOrder ==
    ASSUME NEW e \in Nat, NEW f \in Nat
    PROVE  /\ MakeTid(0, 0, e) \in Nat /\ MakeTid(0, 0, f) \in Nat
           /\ e <= f => MakeTid(0, 0, e) <= MakeTid(0, 0, f)
           /\ e < f => MakeTid(0, 0, e) < MakeTid(0, 0, f)
<1>1. e * NumIds \in Nat /\ f * NumIds \in Nat
  BY Constants
<1>2. /\ e <= f => e * NumIds <= f * NumIds
      /\ e < f => e * NumIds < f * NumIds
  BY <1>1, Constants, Products
<1> DEFINE a == e * NumIds  b == f * NumIds
<1>3. a \in Nat /\ b \in Nat /\ (e <= f => a <= b) /\ (e < f => a < b)
  BY <1>1, <1>2
<1>4. MakeTid(0, 0, e) = a * NMAXCORES /\ MakeTid(0, 0, f) = b * NMAXCORES
  BY <1>1, Constants DEF MakeTid
<1> HIDE DEF a, b
<1>5. /\ a * NMAXCORES \in Nat /\ b * NMAXCORES \in Nat
      /\ a <= b => a * NMAXCORES <= b * NMAXCORES
      /\ a < b => a * NMAXCORES + NMAXCORES <= b * NMAXCORES
  BY <1>3, Constants, Products
<1> QED
  BY <1>3, <1>4, <1>5, Constants

\* A TID of epoch e is not below the first one of that epoch.
LEMMA TidEpoch ==
    ASSUME NEW x \in Nat
    PROVE  /\ EpochId(x) \in Nat /\ MakeTid(0, 0, EpochId(x)) <= x
           /\ \A e \in Nat : EpochId(x) = e => MakeTid(0, 0, e) <= x
<1> DEFINE m == NMAXCORES * NumIds
<1>1. m \in Nat /\ m > 0
  BY Constants, Products
<1> DEFINE q == x \div m
<1>2. q \in Nat /\ q * m <= x
  BY <1>1, Quotient
<1>3. EpochId(x) = q
  BY DEF EpochId
<1>4. MakeTid(0, 0, q) = q * m
  <2>1. (q * NumIds) * NMAXCORES = q * (NMAXCORES * NumIds)
    BY <1>2, Constants
  <2> QED
    BY <2>1, <1>2, Constants DEF MakeTid
<1> QED
  BY <1>2, <1>3, <1>4

\* The elements of a list and its length.
LEMMA SeqLen ==
    ASSUME NEW S, NEW s \in Seq(S)
    PROVE  /\ Len(s) \in Nat /\ DOMAIN s = 1 .. Len(s) /\ s \in [1 .. Len(s) -> S]
           /\ \A i \in DOMAIN s : s[i] \in S
           /\ s = <<>> <=> Len(s) = 0
OBVIOUS

\* A function on the first numbers is a list.
LEMMA SeqOf ==
    ASSUME NEW S, NEW k \in Nat, NEW s \in [1 .. k -> S]
    PROVE  s \in Seq(S)
OBVIOUS

\* The head and the tail of a list that is not empty.
LEMMA SeqHead ==
    ASSUME NEW S, NEW s \in Seq(S), s # <<>>
    PROVE  /\ Len(s) \in Nat /\ Len(s) > 0 /\ DOMAIN s = 1 .. Len(s) /\ 1 \in DOMAIN s
           /\ Head(s) = s[1] /\ s[1] \in S
           /\ Tail(s) \in Seq(S) /\ Len(Tail(s)) = Len(s) - 1 /\ DOMAIN Tail(s) = 1 .. (Len(s) - 1)
           /\ \A i \in DOMAIN Tail(s) : i + 1 \in DOMAIN s /\ Tail(s)[i] = s[i + 1]
<1>1. Len(s) \in Nat /\ DOMAIN s = 1 .. Len(s) /\ Len(s) # 0 /\ \A i \in DOMAIN s : s[i] \in S
  BY SeqLen
<1>2. /\ Tail(s) \in Seq(S) /\ Len(Tail(s)) = Len(s) - 1
      /\ \A i \in 1 .. Len(s) - 1 : Tail(s)[i] = s[i + 1]
  BY <1>1
<1>3. DOMAIN Tail(s) = 1 .. Len(Tail(s)) /\ Head(s) = s[1]
  BY <1>2, SeqLen
<1> QED
  BY <1>1, <1>2, <1>3

\* A list with one more element at its end.
LEMMA SeqAppend ==
    ASSUME NEW S, NEW s \in Seq(S), NEW e \in S
    PROVE  /\ Append(s, e) \in Seq(S) /\ Len(s) \in Nat
           /\ DOMAIN s = 1 .. Len(s) /\ DOMAIN Append(s, e) = 1 .. (Len(s) + 1)
           /\ \A i \in DOMAIN s : Append(s, e)[i] = s[i]
           /\ Append(s, e)[Len(s) + 1] = e
           /\ Append(s, e) # <<>>
<1>1. Len(s) \in Nat /\ DOMAIN s = 1 .. Len(s)
  BY SeqLen
<1>2. /\ Append(s, e) \in Seq(S) /\ Len(Append(s, e)) = Len(s) + 1
      /\ \A i \in 1 .. Len(s) : Append(s, e)[i] = s[i]
      /\ Append(s, e)[Len(s) + 1] = e /\ Append(s, e) # <<>>
  BY <1>1
<1>3. DOMAIN Append(s, e) = 1 .. Len(Append(s, e))
  BY <1>2, SeqLen
<1> QED
  BY <1>1, <1>2, <1>3

\* A list without repetition, and the elements of a list.
Distinct(s) == \A i, j \in DOMAIN s : s[i] = s[j] => i = j

At(s) == {s[i] : i \in DOMAIN s}

\* What the variables hold.
TupleRec ==
    [locked : BOOLEAN, intent : BOOLEAN, modifying : BOOLEAN, latest : BOOLEAN,
     deleting : BOOLEAN, hver : Nat, version : Nat, val : Nat, alloc : Nat,
     next : Tuples \cup {NoTuple}, freed : BOOLEAN]

WriteEntry == [tuple : Tuples, key : Keys, val : Nat, insert : BOOLEAN]

ReadEntry == [tuple : Tuples, tid : Nat]

GcEntry == [tick : Int, tuple : Tuples, key : Keys \cup {NoKey}]

\* A transaction is a record of these fields; its observations need no type.
Shaped(t) ==
    t = [pc |-> t.pc, snap |-> t.snap, stid |-> t.stid, ops |-> t.ops, user |-> t.user,
         key |-> t.key, cur |-> t.cur, hdr |-> t.hdr, tid |-> t.tid,
         rset |-> t.rset, obs |-> t.obs, aset |-> t.aset, wset |-> t.wset,
         infos |-> t.infos, locked |-> t.locked, ctid |-> t.ctid, node |-> t.node,
         rest |-> t.rest, head |-> t.head, scratch |-> t.scratch, after |-> t.after]

\* The phases of a transaction: it reads, it holds its locks and validates, it
\* owns nothing.
Reading == {"active", "version", "value"}

Holding == {"gen", "validate", "node", "node2"}

Calm == {"idle", "end", "post", "clean"}

\* The type of a transaction.
TxnType(t) ==
    /\ Shaped(t)
    /\ t.pc \in Reading \cup {"undo", "lock"} \cup Holding \cup Writing \cup Calm
    /\ t.snap \in BOOLEAN /\ t.stid \in Nat /\ t.ops \in Seq(Ops)
    /\ t.cur \in Tuples \cup {NoTuple} /\ (t.pc \in {"version", "value"} => t.cur \in Tuples)
    /\ t.tid \in Nat /\ t.rset \in Seq(ReadEntry)
    /\ t.wset \in Seq(WriteEntry) /\ t.infos \in Seq(Tuples) /\ t.locked \in SUBSET Tuples
    /\ t.ctid \in Nat
    /\ t.rest \in Tuples \cup {NoTuple} /\ t.head \in Tuples \cup {NoTuple}
    /\ t.scratch \in Seq(GcEntry)

\* Every TID handed out up to tick n is smaller.
Limit(n) == MakeTid(0, 0, n + 1)

\* The types of the variables.
OccType ==
    /\ tick \in Nat /\ done \in Nat /\ done < tick /\ tick <= MaxTick
    /\ guard \in [Cores -> Nat]
    /\ prog \in [Cores -> Seq([snap : BOOLEAN, abort : BOOLEAN, ops : Seq(Ops)])]
    /\ DOMAIN txn = Cores /\ txn = [c \in Cores |-> txn[c]]
    /\ tuple \in [Tuples -> TupleRec]
    /\ DOMAIN tree \subseteq Keys /\ tree \in [DOMAIN tree -> Tuples]
    /\ queue \in [Cores -> Seq(GcEntry)]
    /\ lastTid \in [Cores -> Nat]

\* The locks a transaction holds, in every phase of it: while it reads, the
\* tuples it has inserted; while it locks, some of what it writes; then all of
\* it; while it gives them back, what is left of its list.
Phase(t) ==
    /\ t.pc \in Reading => t.locked = Inserts(t)
    /\ t.pc = "lock" => /\ t.infos # <<>> /\ Inserts(t) \subseteq t.locked
                        /\ t.locked \cup At(t.infos) \subseteq WrittenTuples(t)
                        /\ WrittenTuples(t) \subseteq t.locked \cup At(t.infos)
    /\ t.pc \in Holding => t.locked = WrittenTuples(t)
    /\ t.pc \in {"undo"} \cup Writing => At(t.infos) = t.locked /\ Distinct(t.infos)
    /\ t.pc \in Writing => WrittenTuples(t) \subseteq t.locked
    /\ t.pc \in Writing \ {"write"} => t.wset # <<>> /\ ~t.wset[1].insert
    /\ t.pc \in Calm => t.locked = {}
    /\ t.head # NoTuple <=> t.pc \in Publishing
    /\ t.head \notin t.locked
    /\ t.pc \in Publishing => t.rest = t.wset[1].tuple
    /\ t.snap => t.wset = <<>>
    \* a tuple is inserted once; of the writes carried out one replaces it
    /\ \A i, j \in DOMAIN t.wset :
         (i # j /\ t.wset[i].tuple = t.wset[j].tuple) =>
           /\ ~(t.wset[i].insert /\ t.wset[j].insert)
           /\ t.pc \in Writing /\ i < j => t.wset[i].insert

\* Once a TID is generated it is above every version it will replace.
Numbered(t) == t.pc \in (Holding \ {"gen"}) \cup Writing /\ t.wset # <<>>

\* In the following T are the tuples, R the index and n the tick.
Rooted(p, k, T, R) == T[p].latest => k \in DOMAIN R /\ R[k] = p

\* The tuples locked are locked by a writer; a tentative one is an insert of
\* the transaction; what the transaction is to write is the newest of its
\* record.
OwnLocks(t, T) ==
    \A p \in t.locked :
       /\ T[p].locked /\ T[p].intent
       /\ T[p].version = MAX_TID => p \in Inserts(t)
       /\ p \in Inserts(t) /\ t.pc \notin Writing => T[p].version = MAX_TID /\ T[p].latest
       /\ t.pc \in {"lock"} \cup Holding => T[p].latest

\* What the transaction writes is in use, where its key leads to if it is the
\* newest version, and no newer than the transaction's TID.
OwnWrites(t, T, R) ==
    \A i \in DOMAIN t.wset :
       LET p == t.wset[i].tuple
       IN  /\ T[p].version # MIN_TID
           /\ Rooted(p, t.wset[i].key, T, R)
           /\ t.pc \in {"write", "write2"} => T[p].latest
           /\ t.pc \in Publishing /\ i > 1 => T[p].latest
           /\ Numbered(t) => T[p].version = MAX_TID \/ T[p].version <= t.ctid

\* The TID is below the limit.
OwnNumber(t, n) == (Numbered(t) => t.ctid # 0) /\ t.ctid < Limit(n)

\* The place in the index of the version that is being published.
Publisher(t, T, R) ==
    t.pc \in Publishing =>
       /\ t.wset[1].key \in DOMAIN R
       /\ R[t.wset[1].key] = IF t.pc = "publish" THEN t.rest ELSE t.head
       /\ t.pc = "publish" => /\ ~T[t.rest].latest
                              /\ \A k \in DOMAIN R : R[k] # t.head
       /\ t.pc = "publish2" => T[t.head].locked
       /\ T[t.head].latest /\ T[t.head].version = t.ctid

\* The records a core has queued for cleaning, and what it has read.
GcRooted(s, T, R) ==
    \A i \in DOMAIN s :
       s[i].key # NoKey => T[s[i].tuple].version # MIN_TID /\ Rooted(s[i].tuple, s[i].key, T, R)

\* What has been read is below the limit.
Reader(t, n) == t.tid < Limit(n) /\ \A i \in DOMAIN t.rset : t.rset[i].tid < Limit(n)

\* A guard is open as long as the transaction has a number; m is the last tick
\* that is over.
Guarded(g, t, n, m) ==
    /\ g = NoGuard <=> t.pc \in {"idle", "post", "clean"}
    /\ g = NoGuard => t.ctid = 0
    /\ g # NoGuard => /\ m < g /\ g <= n
                      /\ t.ctid # 0 => MakeTid(0, 0, g) <= t.ctid
                      /\ t.snap => t.stid < MakeTid(0, 0, m + 1)

\* The invariant of a transaction, and of a core.
TxnInv(t, T, R, n) ==
    /\ TxnType(t) /\ Phase(t) /\ OwnLocks(t, T) /\ OwnWrites(t, T, R) /\ OwnNumber(t, n)
    /\ Publisher(t, T, R) /\ GcRooted(t.scratch, T, R) /\ Reader(t, n)

CoreInv(c) ==
    /\ TxnInv(txn[c], tuple, tree, tick) /\ Guarded(guard[c], txn[c], tick, done)
    /\ GcRooted(queue[c], tuple, tree) /\ lastTid[c] < Limit(tick)
    /\ guard[c] # NoGuard => prog[c] # <<>>

\* The tuples that only one transaction may change.
Private(t) == (t.locked \cup {t.head}) \ {NoTuple}

\* The index leads to a different tuple in use for every key, and to a
\* tentative one only if its transaction has it locked.
TreeInv ==
    /\ \A j, k \in DOMAIN tree : tree[j] = tree[k] => j = k
    /\ \A k \in DOMAIN tree : tuple[tree[k]].version # MIN_TID
    /\ \A k \in DOMAIN tree : tuple[tree[k]].version = MAX_TID =>
                                \E c \in Cores : tree[k] \in txn[c].locked

\* A locked tuple is in use and somebody's; versions are below the limit.
TupleInv ==
    \A p \in Tuples : /\ tuple[p].version = MIN_TID => ~tuple[p].locked
                      /\ tuple[p].locked => \E c \in Cores : p \in Private(txn[c])
                      /\ tuple[p].version = MAX_TID \/ tuple[p].version < Limit(tick)

\* No tuple is owned by two transactions.
Exclusive == \A c, d \in Cores : c # d => Private(txn[c]) \cap Private(txn[d]) = {}

\* The inductive invariant.
OccInv == OccType /\ (\A c \in Cores : CoreInv(c)) /\ TreeInv /\ TupleInv /\ Exclusive

\* What the invariant says of one core and its transaction, conjunct by
\* conjunct.
LEMMA CoreFacts ==
    ASSUME OccInv, NEW c \in Cores, NEW t, t = txn[c]
    PROVE  /\ TxnInv(t, tuple, tree, tick) /\ TxnType(t) /\ Shaped(t) /\ Phase(t)
           /\ OwnLocks(t, tuple) /\ OwnWrites(t, tuple, tree) /\ OwnNumber(t, tick)
           /\ Publisher(t, tuple, tree) /\ GcRooted(t.scratch, tuple, tree) /\ Reader(t, tick)
           /\ Guarded(guard[c], t, tick, done)
           /\ GcRooted(queue[c], tuple, tree) /\ lastTid[c] < Limit(tick)
           /\ tuple \in [Tuples -> TupleRec] /\ tree \in [DOMAIN tree -> Tuples]
           /\ tick \in Nat /\ tick <= MaxTick
BY Zenon DEF OccInv, CoreInv, TxnInv, TxnType, OccType

\* The types of the variables, one by one.
LEMMA TypeFacts ==
    ASSUME OccInv
    PROVE  /\ DOMAIN txn = Cores /\ txn = [e \in Cores |-> txn[e]]
           /\ guard \in [Cores -> Nat] /\ queue \in [Cores -> Seq(GcEntry)] /\ lastTid \in [Cores -> Nat]
           /\ prog \in [Cores -> Seq([snap : BOOLEAN, abort : BOOLEAN, ops : Seq(Ops)])]
           /\ tick \in Nat /\ done \in Nat /\ done < tick /\ tick <= MaxTick
BY Zenon DEF OccInv, OccType

\* The limit of the TIDs lies above 0 and not above MAX_TID.
LEMMA LimitFacts ==
    ASSUME NEW n \in Nat, n <= MaxTick
    PROVE  Limit(n) \in Nat /\ Limit(n) <= MAX_TID /\ 0 < Limit(n) /\ MAX_TID \in Nat
           /\ MIN_TID < Limit(n) /\ MAX_TID # MIN_TID
<1>1. MaxTick \in Nat
  BY Constants
<1>2. n + 1 \in Nat /\ MaxTick + 1 \in Nat /\ n + 1 <= MaxTick + 1 /\ 0 < n + 1 /\ 0 \in Nat
  BY <1>1
<1>3. /\ MakeTid(0, 0, n + 1) \in Nat /\ MakeTid(0, 0, MaxTick + 1) \in Nat
      /\ MakeTid(0, 0, n + 1) <= MakeTid(0, 0, MaxTick + 1)
  BY <1>2, TidOrder, Zenon
<1>4. MakeTid(0, 0, 0) \in Nat /\ MakeTid(0, 0, 0) < MakeTid(0, 0, n + 1)
  BY <1>2, TidOrder, Zenon
<1> QED
  BY <1>3, <1>4 DEF Limit, MAX_TID, MIN_TID

\* The transaction keeps its number, its snapshot and its locks.
Continues(t, u) ==
    /\ u.pc \notin {"idle", "post", "clean"} /\ u.ctid = t.ctid /\ u.snap = t.snap /\ u.stid = t.stid
    /\ u.locked = t.locked /\ Private(u) = Private(t)

\* A step of a running transaction that changes nothing but the transaction
\* itself keeps the invariant if it keeps that of the transaction.
LEMMA QuietStep ==
    ASSUME OccInv, NEW c \in Cores, NEW t, t = txn[c], t.pc \notin {"idle", "post", "clean"},
           NEW u, txn' = [txn EXCEPT ![c] = u],
           UNCHANGED <<prog, dbvars, gcvars, lastTid, clockvars>>,
           TxnInv(u, tuple, tree, tick), Continues(t, u)
    PROVE  OccInv'
<1>1. Guarded(guard[c], t, tick, done)
  BY CoreFacts, Zenon
<1>2. Guarded(guard[c], u, tick, done)
  BY <1>1, Zenon DEF Guarded, Continues
<1>3. Private(u) = Private(txn[c]) /\ u.locked = txn[c].locked
  BY Zenon DEF Continues
<1>4. UNCHANGED <<prog, tuple, tree, queue, lastTid, tick, done, guard>>
  BY Zenon DEF dbvars, gcvars, clockvars
<1>5. /\ txn' = [d \in Cores |-> txn'[d]] /\ DOMAIN txn' = Cores
      /\ txn'[c] = u /\ \A d \in Cores : d # c => txn'[d] = txn[d]
  BY Zenon DEF OccInv, OccType
<1>6. \A d \in Cores : CoreInv(d)'
  <2> TAKE d \in Cores
  <2>1. CoreInv(d)
    BY Zenon DEF OccInv
  <2> QED
    BY <1>2, <1>4, <1>5, <2>1, Zenon DEF CoreInv
<1>7. OccType'
  BY <1>4, <1>5, Zenon DEF OccInv, OccType
<1>8. \A d \in Cores : Private(txn'[d]) = Private(txn[d]) /\ txn'[d].locked = txn[d].locked
  BY <1>3, <1>5, Zenon
<1>9. TreeInv'
  BY <1>4, <1>8, Zenon DEF OccInv, TreeInv
<1>10. TupleInv'
  BY <1>4, <1>8, Zenon DEF OccInv, TupleInv
<1>11. Exclusive'
  BY <1>8, Zenon DEF OccInv, Exclusive
<1> QED
  BY <1>6, <1>7, <1>9, <1>10, <1>11, Zenon DEF OccInv

\* What a transaction owns depends on its locks and its new head only.
LEMMA SamePrivate ==
    ASSUME NEW t, NEW u, u.locked = t.locked, u.head = t.head
    PROVE  Private(u) = Private(t)
BY Zenon DEF Private

\* What a transaction writes depends on its write set only.
LEMMA SameWrites ==
    ASSUME NEW t, NEW u, u.wset = t.wset
    PROVE  Inserts(u) = Inserts(t) /\ WrittenTuples(u) = WrittenTuples(t)
BY Zenon DEF Inserts, WrittenTuples

\* The transaction keeps its locks and its writes.
SameLocks(t, u) ==
    /\ u.wset = t.wset /\ u.infos = t.infos /\ u.locked = t.locked /\ u.ctid = t.ctid
    /\ u.rest = t.rest /\ u.head = t.head /\ u.snap = t.snap /\ u.stid = t.stid
    /\ u.scratch = t.scratch

\* A transaction that keeps its locks goes on.
LEMMA Unmoved ==
    ASSUME NEW t, NEW u, SameLocks(t, u), u.pc \notin {"idle", "post", "clean"}
    PROVE  Continues(t, u)
BY SamePrivate, Zenon DEF SameLocks, Continues

\* A list of tuples in ascending order.
LEMMA SortedList ==
    ASSUME Sorting, NEW S \in SUBSET Tuples
    PROVE  /\ Ascending(S) \in Seq(Tuples) /\ At(Ascending(S)) = S /\ Distinct(Ascending(S))
           /\ Ascending(S) = <<>> <=> S = {}
<1> DEFINE k == Cardinality(S)  a == Ascending(S)
<1>1. /\ k \in Nat /\ a \in [1 .. k -> S]
      /\ \A i, j \in 1 .. k : a[i] = a[j] => i = j
      /\ \A x \in S : \E i \in 1 .. k : a[i] = x
  <2>1. MaxTuples \in Nat /\ S \in SUBSET (1 .. MaxTuples)
    BY Constants, Zenon DEF Tuples
  <2> QED
    BY <2>1, Zenon DEF Sorting, Sorts
<1> HIDE DEF a, k
<1>2. DOMAIN a = 1 .. k
  BY ONLY <1>1
<1>3. a \in Seq(Tuples)
  <2>1. a \in [1 .. k -> Tuples]
    BY <1>1, Zenon
  <2> QED
    BY <2>1, <1>1, SeqOf, Zenon
<1>4. At(a) = S /\ Distinct(a)
  <2>1. \A i \in 1 .. k : a[i] \in S
    BY <1>1, Zenon
  <2> QED
    BY ONLY <1>1, <1>2, <2>1 DEF At, Distinct
<1>5. a = <<>> <=> S = {}
  <2>1. ASSUME S = {} PROVE a = <<>>
    <3>1. k = 0
      BY <1>1, <2>1
    <3> QED
      BY <3>1, <1>2, <1>3, SeqLen
  <2>2. ASSUME a = <<>> PROVE S = {}
    <3>1. DOMAIN a = {}
      BY <2>2
    <3> QED
      BY <3>1, <1>4, Zenon DEF At
  <2> QED
    BY <2>1, <2>2
<1> QED
  BY <1>3, <1>4, <1>5 DEF a

\* The tuples of a write set are tuples, and its inserts are among them.
LEMMA WrittenType ==
    ASSUME NEW t, t.wset \in Seq(WriteEntry)
    PROVE  /\ WrittenTuples(t) \in SUBSET Tuples /\ Inserts(t) \subseteq WrittenTuples(t)
           /\ DOMAIN t.wset = 1 .. Len(t.wset) /\ Len(t.wset) \in Nat
           /\ \A i \in DOMAIN t.wset : t.wset[i] \in WriteEntry
<1>1. /\ DOMAIN t.wset = 1 .. Len(t.wset) /\ Len(t.wset) \in Nat
      /\ \A i \in DOMAIN t.wset : t.wset[i] \in WriteEntry
  BY SeqLen, Zenon
<1>2. \A i \in DOMAIN t.wset : t.wset[i].tuple \in Tuples
  BY <1>1 DEF WriteEntry
<1> QED
  BY <1>1, <1>2, Zenon DEF WrittenTuples, Inserts

\* The tuples of a write set, by the positions they have in it.
LEMMA WrittenIs ==
    ASSUME NEW t
    PROVE  /\ \A p : p \in WrittenTuples(t) <=> \E i \in DOMAIN t.wset : t.wset[i].tuple = p
           /\ \A p : p \in Inserts(t) <=> \E i \in DOMAIN t.wset : t.wset[i].insert /\ t.wset[i].tuple = p
BY Zenon DEF WrittenTuples, Inserts

\* A transaction that may give up: the tuples it has inserted are still
\* tentative, and its locks are its own.
MayUndo(t, T, R, n) ==
    /\ TxnType(t) /\ t.pc \notin Writing /\ t.head = NoTuple
    /\ \A p \in t.locked : /\ T[p].locked /\ T[p].intent
                           /\ T[p].version = MAX_TID => p \in Inserts(t)
                           /\ p \in Inserts(t) => T[p].version = MAX_TID /\ T[p].latest
    /\ \A i, j \in DOMAIN t.wset :
         (i # j /\ t.wset[i].tuple = t.wset[j].tuple) => ~(t.wset[i].insert /\ t.wset[j].insert)
    /\ t.snap => t.wset = <<>>
    /\ \A i \in DOMAIN t.wset : /\ T[t.wset[i].tuple].version # MIN_TID
                                /\ Rooted(t.wset[i].tuple, t.wset[i].key, T, R)
    /\ t.ctid < Limit(n) /\ GcRooted(t.scratch, T, R) /\ Reader(t, n)

\* u is t about to release the tuples it has locked.
Undoes(t, u) ==
    /\ TxnType(u) /\ u.pc = "undo" /\ u.rset = t.rset /\ u.tid = t.tid
    /\ u.wset = t.wset /\ u.locked = t.locked /\ u.ctid = t.ctid /\ u.head = t.head
    /\ u.snap = t.snap /\ u.stid = t.stid /\ u.scratch = t.scratch
    /\ At(u.infos) = t.locked /\ Distinct(u.infos)

\* A transaction that gives up holds what it is to release, and nothing else.
LEMMA UndoStep ==
    ASSUME NEW T, NEW R, NEW n, NEW t, NEW u, MayUndo(t, T, R, n), Undoes(t, u)
    PROVE  TxnInv(u, T, R, n) /\ Continues(t, u)
<1>1. /\ TxnType(u) /\ u.wset = t.wset /\ u.locked = t.locked /\ u.ctid = t.ctid /\ u.head = t.head
      /\ u.snap = t.snap /\ u.scratch = t.scratch /\ u.pc = "undo" /\ u.rset = t.rset /\ u.tid = t.tid
      /\ u.stid = t.stid
  BY Zenon DEF Undoes
<1>2. Inserts(u) = Inserts(t) /\ WrittenTuples(u) = WrittenTuples(t)
  BY <1>1, SameWrites, Zenon
<1>3. Phase(u)
  <2>1. /\ t.head = NoTuple /\ NoTuple \notin t.locked /\ (t.snap => t.wset = <<>>)
        /\ At(u.infos) = t.locked /\ Distinct(u.infos)
        /\ \A i, j \in DOMAIN t.wset :
             (i # j /\ t.wset[i].tuple = t.wset[j].tuple) => ~(t.wset[i].insert /\ t.wset[j].insert)
    BY Constants, Zenon DEF MayUndo, Undoes, TxnType
  <2> QED
    BY ONLY <1>1, <1>2, <2>1 DEF Phase, Reading, Holding, Writing, Publishing, Calm
<1>4. OwnLocks(u, T)
  BY <1>1, <1>2 DEF OwnLocks, Holding, MayUndo
<1>5. ~Numbered(u) /\ u.pc \notin Publishing \cup {"write", "write2"}
  BY <1>1 DEF Numbered, Holding, Writing, Publishing
<1>6. OwnWrites(u, T, R)
  BY <1>1, <1>5, Zenon DEF OwnWrites, MayUndo
<1>7. OwnNumber(u, n) /\ Publisher(u, T, R) /\ GcRooted(u.scratch, T, R) /\ Reader(u, n)
  BY <1>1, <1>5, Zenon DEF OwnNumber, Publisher, MayUndo, Reader
<1>8. Continues(t, u)
  <2>1. u.pc \notin {"idle", "post", "clean"}
    BY <1>1
  <2> QED
    BY <1>1, <2>1, SamePrivate, Zenon DEF Continues
<1> QED
  BY <1>1, <1>3, <1>4, <1>6, <1>7, <1>8, Zenon DEF TxnInv

\* What a transaction that has not begun to write may undo.
LEMMA MayUndoAll ==
    ASSUME NEW T, NEW R, NEW n, NEW t, TxnInv(t, T, R, n),
           t.pc \in Reading \cup {"lock"} \cup Holding
    PROVE  MayUndo(t, T, R, n)
<1>1. /\ TxnType(t) /\ Phase(t) /\ OwnLocks(t, T) /\ OwnWrites(t, T, R) /\ OwnNumber(t, n)
      /\ GcRooted(t.scratch, T, R) /\ Reader(t, n)
  BY Zenon DEF TxnInv
<1>2. t.pc \notin Writing /\ t.pc \notin Publishing
  BY DEF Reading, Writing, Publishing, Holding
<1>3. t.head = NoTuple /\ t.ctid < Limit(n)
  BY <1>1, <1>2, Zenon DEF Phase, OwnNumber
<1>4. \A p \in t.locked : /\ T[p].locked /\ T[p].intent
                          /\ T[p].version = MAX_TID => p \in Inserts(t)
                          /\ p \in Inserts(t) => T[p].version = MAX_TID /\ T[p].latest
  BY <1>1, <1>2, Zenon DEF OwnLocks
<1>5. /\ t.snap => t.wset = <<>>
      /\ \A i, j \in DOMAIN t.wset :
           (i # j /\ t.wset[i].tuple = t.wset[j].tuple) => ~(t.wset[i].insert /\ t.wset[j].insert)
  BY <1>1, Zenon DEF Phase
<1>6. \A i \in DOMAIN t.wset : /\ T[t.wset[i].tuple].version # MIN_TID
                               /\ Rooted(t.wset[i].tuple, t.wset[i].key, T, R)
  BY <1>1, Zenon DEF OwnWrites
<1> QED
  BY <1>1, <1>2, <1>3, <1>4, <1>5, <1>6, Zenon DEF MayUndo

\* Pick takes the elements at the given positions of a list, in the order of
\* the positions, and no others.
LEMMA PickFacts ==
    ASSUME Sorting, NEW S, NEW s \in Seq(S), NEW I, I \subseteq DOMAIN s
    PROVE  /\ Pick(s, I) \in Seq(S)
           /\ \A i \in DOMAIN Pick(s, I) : Ascending(I)[i] \in I /\ Pick(s, I)[i] = s[Ascending(I)[i]]
           /\ \A i, j \in DOMAIN Pick(s, I) : i < j => Ascending(I)[i] < Ascending(I)[j]
           /\ \A k \in I : \E i \in DOMAIN Pick(s, I) : Ascending(I)[i] = k
<1>1. Len(s) \in Nat /\ DOMAIN s = 1 .. Len(s) /\ \A i \in DOMAIN s : s[i] \in S
  BY SeqLen, Zenon
<1>2. I \in SUBSET (1 .. Len(s))
  BY <1>1, Zenon
<1> DEFINE k == Cardinality(I)  a == Ascending(I)
<1>3. /\ k \in Nat /\ a \in [1 .. k -> I]
      /\ \A i, j \in 1 .. k : i < j => a[i] < a[j]
      /\ \A x \in I : \E i \in 1 .. k : a[i] = x
  BY <1>1, <1>2, Zenon DEF Sorting, Sorts
<1>4. Pick(s, I) = [i \in 1 .. k |-> s[a[i]]]
  BY DEF Pick
<1> HIDE DEF k, a
<1>5. \A i \in 1 .. k : s[a[i]] \in S
  BY <1>1, <1>3, Zenon
<1>6. Pick(s, I) \in Seq(S)
  BY <1>3, <1>4, <1>5, SeqOf, Zenon
<1> QED
  BY <1>3, <1>4, <1>6, Zenon DEF a

\* DoAbort: the locks of a failed commit are released, in the order of their
\* addresses.
LEMMA DoAbortStep ==
    ASSUME Sorting, NEW T, NEW R, NEW n, NEW t, NEW u, MayUndo(t, T, R, n),
           t.locked \subseteq WrittenTuples(t), u = DoAbort(t)
    PROVE  TxnInv(u, T, R, n) /\ Continues(t, u)
<1> DEFINE s == Ascending(WrittenTuples(t) \cap t.locked)
<1>1. u = [t EXCEPT !.pc = "undo", !.infos = s]
  BY Zenon DEF DoAbort
<1>2. WrittenTuples(t) \cap t.locked = t.locked
  BY Zenon
<1>3. t.locked \in SUBSET Tuples
  BY Zenon DEF MayUndo, TxnType
<1>4. s \in Seq(Tuples) /\ At(s) = t.locked /\ Distinct(s)
  BY <1>2, <1>3, SortedList, Zenon
<1> HIDE DEF s
<1>5. TxnType(t)
  BY Zenon DEF MayUndo
<1>6. /\ u.pc = "undo" /\ u.ops = t.ops /\ u.infos = s /\ u.snap = t.snap /\ u.stid = t.stid
      /\ u.cur = t.cur /\ u.tid = t.tid /\ u.rset = t.rset /\ u.wset = t.wset
      /\ u.locked = t.locked /\ u.ctid = t.ctid /\ u.rest = t.rest /\ u.head = t.head
      /\ u.scratch = t.scratch
  BY <1>1, <1>5 DEF TxnType, Shaped
<1>7. Shaped(u)
  BY <1>1, <1>5, Zenon DEF TxnType, Shaped
<1>8. TxnType(u)
  BY <1>4, <1>5, <1>6, <1>7 DEF TxnType
<1>9. Undoes(t, u)
  BY <1>4, <1>6, <1>8, Zenon DEF Undoes
<1> QED
  BY ONLY MayUndo(t, T, R, n), <1>9, UndoStep

\* The step of a failed commit to its release of locks keeps the invariant.
LEMMA DoAbortAction ==
    ASSUME Sorting, OccInv, NEW c \in Cores, NEW t, t = txn[c], t.pc \in {"lock"} \cup Holding,
           txn' = [txn EXCEPT ![c] = DoAbort(t)],
           UNCHANGED <<prog, dbvars, gcvars, lastTid, clockvars>>
    PROVE  OccInv'
<1> DEFINE u == DoAbort(t)
<1>1. TxnInv(t, tuple, tree, tick) /\ Phase(t)
  BY CoreFacts, Zenon
<1>2. t.locked \subseteq WrittenTuples(t)
  <2>1. CASE t.pc = "lock"
    BY <1>1, <2>1, Zenon DEF Phase
  <2>2. CASE t.pc \in Holding
    BY <1>1, <2>2, Zenon DEF Phase
  <2> QED
    BY <2>1, <2>2, Zenon
<1>3. MayUndo(t, tuple, tree, tick)
  BY <1>1, MayUndoAll, Zenon
<1>4. TxnInv(u, tuple, tree, tick) /\ Continues(t, u)
  BY ONLY Sorting, <1>2, <1>3, DoAbortStep, Zenon
<1>5. t.pc \notin {"idle", "post", "clean"}
  BY DEF Holding
<1> HIDE DEF u
<1> QED
  BY <1>4, <1>5, QuietStep, Zenon DEF u

\* A transaction that has passed validation holds the locks of its writes.
PassedTo(t) ==
    [t EXCEPT !.wset = DoWrites(t), !.rset = <<>>, !.infos = SortedTuples(t),
              !.pc = IF t.wset = <<>> THEN "end" ELSE "write"]

\* The steps of a transaction that reads or validates keep the invariant: gets,
\* puts into the write set, aborts by the user, and the checks of the read and
\* absent sets. A put that finds its key and the absent set make no difference
\* either.
LEMMA ReadActions ==
    ASSUME Sorting
    PROVE  /\ \A c \in Cores : \/ abort(c) \/ do_search(c) \/ record_at_version(c) \/ record_at_value(c)
                              \/ do_tree_put(c) \/ validate(c) \/ ExtractVersionNumber(c)
                              \/ validate_node(c)
                              => (OccInv => OccInv')
           /\ \A T, R, n, t, x, y :
                TxnInv(t, T, R, n) /\ t.pc = "active" =>
                    TxnInv(BumpNode(t, x, y), T, R, n) /\ Continues(t, BumpNode(t, x, y))
           /\ \A c \in Cores :
                /\ OccInv /\ txn[c].pc = "active" /\ txn[c].ops # <<>> /\ Head(txn[c].ops).op = "put"
                /\ txn' = [txn EXCEPT ![c] = [txn[c] EXCEPT !.ops[1].new = FALSE]]
                /\ UNCHANGED <<prog, dbvars, gcvars, lastTid, clockvars>>
                => OccInv'
  \* AbortImpl: a transaction that is still reading has locked its inserts only,
  \* and all of them are released.
<1>AbortInfos.
      ASSUME Sorting, NEW t, NEW u, TxnType(t), Phase(t), t.pc \in Reading, u = AbortImpl(t)
      PROVE  Undoes(t, u)
  <2> USE <1>AbortInfos
  <2> DEFINE ins == {i \in DOMAIN t.wset : t.wset[i].insert}
             k == Cardinality(ins)
             a == Ascending(ins)
             s == [i \in 1 .. k |-> t.wset[a[i]].tuple]
  <2>1. u = [t EXCEPT !.pc = "undo", !.ops = <<>>, !.infos = s]
    BY Zenon DEF AbortImpl
  <2>2. /\ DOMAIN t.wset = 1 .. Len(t.wset) /\ Len(t.wset) \in Nat
        /\ \A i \in DOMAIN t.wset : t.wset[i] \in WriteEntry
    BY WrittenType, Zenon DEF TxnType
  <2>3. ins \in SUBSET (1 .. Len(t.wset)) /\ \A i \in ins : t.wset[i].tuple \in Tuples
    BY <2>2 DEF WriteEntry
  <2>4. /\ \A i, j \in ins : t.wset[i].tuple = t.wset[j].tuple => i = j
        /\ t.locked = {t.wset[i].tuple : i \in ins}
    BY Zenon DEF Phase, Inserts
  <2> HIDE DEF ins
  <2>5. /\ k \in Nat /\ a \in [1 .. k -> ins]
        /\ \A i, j \in 1 .. k : a[i] = a[j] => i = j
        /\ \A x \in ins : \E i \in 1 .. k : a[i] = x
    BY <2>2, <2>3, Zenon DEF Sorting, Sorts
  <2> HIDE DEF k, a
  <2>6. DOMAIN s = 1 .. k /\ \A i \in 1 .. k : s[i] = t.wset[a[i]].tuple /\ a[i] \in ins
    BY <2>5, Zenon
  <2>7. s \in [1 .. k -> Tuples]
    BY <2>3, <2>5, Zenon
  <2> HIDE DEF s
  <2>8. s \in Seq(Tuples)
    BY <2>5, <2>7, SeqOf, Zenon
  <2>9. At(s) = t.locked
    <3>1. \A x \in At(s) : x \in t.locked
      BY ONLY <2>4, <2>6 DEF At
    <3>2. \A x \in t.locked : x \in At(s)
      <4> TAKE x \in t.locked
      <4>1. PICK j \in ins : x = t.wset[j].tuple
        BY <2>4, Zenon
      <4>2. PICK i \in 1 .. k : a[i] = j
        BY <2>5, Zenon
      <4> QED
        BY <4>1, <4>2, <2>6, Zenon DEF At
    <3> QED
      BY <3>1, <3>2, Zenon
  <2>10. Distinct(s)
    <3>1. \A i, j \in 1 .. k : s[i] = s[j] => a[i] = a[j]
      BY ONLY <2>4, <2>6
    <3> QED
      BY ONLY <3>1, <2>5, <2>6 DEF Distinct
  <2>11. /\ u.pc = "undo" /\ u.ops = <<>> /\ u.infos = s /\ u.snap = t.snap /\ u.stid = t.stid
         /\ u.cur = t.cur /\ u.tid = t.tid /\ u.rset = t.rset /\ u.wset = t.wset
         /\ u.locked = t.locked /\ u.ctid = t.ctid /\ u.rest = t.rest /\ u.head = t.head
         /\ u.scratch = t.scratch
    BY <2>1 DEF TxnType, Shaped
  <2>12. Shaped(u)
    BY <2>1, Zenon DEF TxnType, Shaped
  <2>13. TxnType(u)
    BY <2>8, <2>11, <2>12 DEF TxnType
  <2> QED
    BY <2>9, <2>10, <2>11, <2>13, Zenon DEF Undoes
  \* AbortImpl leaves a transaction that holds exactly what it is to release.
<1>AbortStep.
      ASSUME Sorting, NEW T, NEW R, NEW n, NEW t, NEW u, TxnInv(t, T, R, n), t.pc \in Reading,
             u = AbortImpl(t)
      PROVE  TxnInv(u, T, R, n) /\ Continues(t, u)
  <2> USE <1>AbortStep
  <2>1. MayUndo(t, T, R, n)
    BY MayUndoAll, Zenon
  <2>2. Undoes(t, u)
    BY <1>AbortInfos, Zenon DEF TxnInv
  <2> QED
    BY ONLY <2>1, <2>2, UndoStep
  \* A step of a transaction that reads.
<1>ReadStep.
      ASSUME NEW T, NEW R, NEW n, NEW t, NEW u, TxnInv(t, T, R, n),
             t.pc \in Reading, u.pc \in Reading, SameLocks(t, u), TxnType(u), Reader(u, n)
      PROVE  TxnInv(u, T, R, n)
  <2> USE <1>ReadStep
  <2>0. /\ t.pc # "lock" /\ t.pc \notin Holding /\ t.pc \notin Writing /\ t.pc \notin Calm /\ t.pc \notin Publishing
        /\ u.pc # "lock" /\ u.pc \notin Holding /\ u.pc \notin Writing /\ u.pc \notin Calm /\ u.pc \notin Publishing
        /\ u.pc \notin {"undo"} \cup Writing /\ u.pc \notin Writing \ {"write"} /\ t.pc \in Reading /\ u.pc \in Reading
        /\ (u.pc \in {"lock"} \cup Holding => t.pc \in {"lock"} \cup Holding)
    BY DEF Reading, Holding, Writing, Publishing, Calm
  <2>1. Inserts(u) = Inserts(t) /\ WrittenTuples(u) = WrittenTuples(t)
    BY SameWrites, Zenon DEF SameLocks
  <2>2. Phase(u)
    BY <2>0, <2>1, Zenon DEF TxnInv, Phase, SameLocks
  <2>3. OwnLocks(u, T)
    BY <2>0, <2>1, Zenon DEF TxnInv, OwnLocks, SameLocks
  <2>4. ~Numbered(u) /\ ~Numbered(t) /\ u.pc \notin Publishing \cup {"write", "write2"}
    BY DEF Numbered, Reading, Holding, Writing, Publishing
  <2>5. OwnWrites(u, T, R)
    BY <2>4, Zenon DEF TxnInv, OwnWrites, SameLocks
  <2>6. OwnNumber(u, n) /\ Publisher(u, T, R) /\ GcRooted(u.scratch, T, R)
    BY <2>4, Zenon DEF TxnInv, OwnNumber, Publisher, SameLocks
  <2> QED
    BY <2>2, <2>3, <2>5, <2>6, Zenon DEF TxnInv
  \* A step of a reading transaction to another label of its reading.
<1>ReadTo.
      ASSUME NEW T, NEW R, NEW n, NEW t, NEW u, TxnInv(t, T, R, n), t.pc \in Reading,
             Shaped(u), SameLocks(t, u), u.pc \in Reading, u.ops \in Seq(Ops),
             u.cur \in Tuples \cup {NoTuple}, u.pc \in {"version", "value"} => u.cur \in Tuples,
             u.tid \in Nat, u.tid < Limit(n), u.rset \in Seq(ReadEntry),
             \A i \in DOMAIN u.rset : u.rset[i].tid < Limit(n)
      PROVE  TxnInv(u, T, R, n) /\ Continues(t, u)
  <2> USE <1>ReadTo
  <2>1. TxnType(t)
    BY Zenon DEF TxnInv
  <2>2. TxnType(u)
    BY <2>1, Zenon DEF TxnType, SameLocks
  <2>3. Reader(u, n)
    BY Zenon DEF Reader
  <2>4. TxnInv(u, T, R, n)
    BY <2>2, <2>3, <1>ReadStep, Zenon
  <2>5. u.pc \notin {"idle", "post", "clean"}
    BY DEF Reading
  <2> QED
    BY <2>4, <2>5, Unmoved, Zenon
  \* What a transaction has read is below the limit of the TIDs.
<1>ReadFacts.
      ASSUME NEW T, NEW R, NEW n, NEW t, TxnInv(t, T, R, n)
      PROVE  /\ Shaped(t) /\ t.ops \in Seq(Ops) /\ (t.ops # <<>> => Tail(t.ops) \in Seq(Ops))
             /\ t.cur \in Tuples \cup {NoTuple} /\ (t.pc \in {"version", "value"} => t.cur \in Tuples)
             /\ t.tid \in Nat /\ t.tid < Limit(n) /\ t.rset \in Seq(ReadEntry)
             /\ \A i \in DOMAIN t.rset : t.rset[i].tid < Limit(n)
             /\ t.snap \in BOOLEAN /\ t.stid \in Nat
  <2> USE <1>ReadFacts
  <2>1. t.ops \in Seq(Ops)
    BY Zenon DEF TxnInv, TxnType
  <2>2. t.ops # <<>> => Tail(t.ops) \in Seq(Ops)
    BY <2>1, SeqHead, Zenon
  <2> QED
    BY <2>1, <2>2, Zenon DEF TxnInv, TxnType, Reader
  \* A put that finds no key, or one that finds it after all, changes its mind.
<1>ToggleStep.
      ASSUME NEW T, NEW R, NEW n, NEW t, NEW u, TxnInv(t, T, R, n), t.pc = "active", t.ops # <<>>,
             Head(t.ops).op = "put", NEW v \in BOOLEAN, u = [t EXCEPT !.ops[1].new = v]
      PROVE  TxnInv(u, T, R, n) /\ Continues(t, u)
  <2> USE <1>ToggleStep
  <2>1. /\ Shaped(t) /\ t.ops \in Seq(Ops) /\ t.rset \in Seq(ReadEntry) /\ t.cur \in Tuples \cup {NoTuple}
        /\ t.tid \in Nat /\ t.tid < Limit(n) /\ \A i \in DOMAIN t.rset : t.rset[i].tid < Limit(n)
    BY <1>ReadFacts, Zenon
  <2> DEFINE e == [t.ops[1] EXCEPT !.new = v]
             o == [t.ops EXCEPT ![1] = e]
  <2>2. u = [t EXCEPT !.ops = o]
    BY Zenon
  <2>3. o \in Seq(Ops)
    <3>1. t.ops[1] \in Ops /\ t.ops[1].op = "put" /\ Len(t.ops) \in Nat /\ DOMAIN t.ops = 1 .. Len(t.ops)
      BY <2>1, SeqHead, Zenon
    <3>2. e \in Ops
      BY ONLY <3>1, v \in BOOLEAN DEF Ops
    <3> HIDE DEF e
    <3>3. t.ops \in [1 .. Len(t.ops) -> Ops]
      BY ONLY <2>1, SeqLen, Zenon
    <3>4. o \in [1 .. Len(t.ops) -> Ops]
      BY <3>1, <3>2, <3>3, Zenon
    <3> QED
      BY <3>1, <3>4, SeqOf, Zenon
  <2> HIDE DEF o
  <2>4. Shaped(u)
    BY ONLY <2>1, <2>2, Zenon DEF Shaped
  <2>5. SameLocks(t, u) /\ u.pc = t.pc /\ u.ops = o /\ u.cur = t.cur /\ u.tid = t.tid /\ u.rset = t.rset
    BY ONLY <2>1, <2>2 DEF Shaped, SameLocks
  <2>6. t.pc \in Reading /\ t.pc \notin {"version", "value"}
    BY DEF Reading
  <2> QED
    BY ONLY TxnInv(t, T, R, n), <2>1, <2>3, <2>4, <2>5, <2>6, <1>ReadTo, Zenon
  \* A search moves on to the tuple of its key, or has its answer.
<1>SearchStep.
      ASSUME Sorting, NEW T, NEW R, NEW n, NEW t, TxnInv(t, T, R, n), t.pc = "active", t.ops # <<>>,
             NEW k, NEW a, a = [t EXCEPT !.ops = Tail(@), !.key = k]
      PROVE  /\ \A p \in Tuples : \A f : f = [a EXCEPT !.pc = "version", !.cur = p]
                   => TxnInv(f, T, R, n) /\ Continues(t, f)
             /\ \A v, x, f : f = NodeRead([a EXCEPT !.obs = @ \cup x], v)
                   => TxnInv(f, T, R, n) /\ Continues(t, f)
  <2> USE <1>SearchStep
  <2>1. /\ Shaped(t) /\ Tail(t.ops) \in Seq(Ops) /\ t.cur \in Tuples \cup {NoTuple}
        /\ t.tid \in Nat /\ t.tid < Limit(n) /\ t.rset \in Seq(ReadEntry)
        /\ \A i \in DOMAIN t.rset : t.rset[i].tid < Limit(n)
    BY <1>ReadFacts, Zenon
  <2>2. t.pc \in Reading /\ "version" \in Reading /\ t.pc \notin {"version", "value"}
    BY DEF Reading
  <2>3. Shaped(a)
    BY <2>1, Zenon DEF Shaped
  <2>4. SameLocks(t, a) /\ a.pc = t.pc /\ a.ops = Tail(t.ops) /\ a.cur = t.cur /\ a.tid = t.tid
        /\ a.rset = t.rset
    BY <2>1 DEF Shaped, SameLocks
  <2>5. ASSUME NEW p \in Tuples, NEW f, f = [a EXCEPT !.pc = "version", !.cur = p]
        PROVE  TxnInv(f, T, R, n) /\ Continues(t, f)
    <3>1. Shaped(f)
      BY ONLY <2>3, <2>5, Zenon DEF Shaped
    <3>2. SameLocks(t, f) /\ f.pc = "version" /\ f.ops = a.ops /\ f.cur = p /\ f.tid = a.tid
          /\ f.rset = a.rset
      BY ONLY <2>3, <2>4, <2>5 DEF Shaped, SameLocks
    <3> QED
      BY <2>1, <2>2, <2>4, <3>1, <3>2, <1>ReadTo, Zenon
  <2>6. ASSUME NEW v, NEW x, NEW f, f = NodeRead([a EXCEPT !.obs = @ \cup x], v)
        PROVE  TxnInv(f, T, R, n) /\ Continues(t, f)
    <3> SUFFICES ASSUME NEW b, b = [a EXCEPT !.obs = @ \cup x], NEW g, g = [b EXCEPT !.aset = v],
                        f = NodeRead(b, v)
                 PROVE  TxnInv(f, T, R, n) /\ Continues(t, f)
      BY <2>6, Zenon
    <3>1. Shaped(b)
      BY ONLY <2>3, b = [a EXCEPT !.obs = @ \cup x], Zenon DEF Shaped
    <3>2. SameLocks(t, b) /\ b.pc = a.pc /\ b.ops = a.ops /\ b.cur = a.cur /\ b.tid = a.tid /\ b.rset = a.rset
      BY ONLY <2>3, <2>4, b = [a EXCEPT !.obs = @ \cup x] DEF Shaped, SameLocks
    <3>3. Shaped(g)
      BY ONLY <3>1, g = [b EXCEPT !.aset = v], Zenon DEF Shaped
    <3>4. SameLocks(t, g) /\ g.pc = b.pc /\ g.ops = b.ops /\ g.cur = b.cur /\ g.tid = b.tid /\ g.rset = b.rset
      BY ONLY <3>1, <3>2, g = [b EXCEPT !.aset = v] DEF Shaped, SameLocks
    <3>5. TxnInv(b, T, R, n) /\ Continues(t, b)
      BY ONLY TxnInv(t, T, R, n), <2>1, <2>2, <2>4, <3>1, <3>2, <1>ReadTo, Zenon
    <3>6. TxnInv(g, T, R, n) /\ Continues(t, g)
      BY ONLY TxnInv(t, T, R, n), <2>1, <2>2, <2>4, <3>2, <3>3, <3>4, <1>ReadTo, Zenon
    <3>7. ASSUME f = AbortImpl(b) PROVE TxnInv(f, T, R, n) /\ Continues(t, f)
      <4>1. b.pc \in Reading
        BY <2>2, <2>4, <3>2, Zenon
      <4>2. TxnInv(f, T, R, n) /\ Continues(b, f)
        BY ONLY Sorting, <3>5, <3>7, <4>1, <1>AbortStep, Zenon
      <4> QED
        BY <3>5, <4>2, Zenon DEF Continues
    <3> QED
      BY <3>5, <3>6, <3>7, Zenon DEF NodeRead
  <2> QED
    BY <2>5, <2>6, Zenon
  \* do_search keeps the invariant.
<1>SearchAction.
      ASSUME Sorting, OccInv, NEW c \in Cores, do_search(c)
      PROVE  OccInv'
  <2> USE <1>SearchAction
  <2> DEFINE t == txn[c]  k == Op(c).k
             a == [t EXCEPT !.ops = Tail(@), !.key = k]
             f == [a EXCEPT !.pc = "version", !.cur = tree[k]]
             g == NodeRead([a EXCEPT !.obs = @ \cup {<<k, NoValue>>}], NodeVersion)
             u == IF k \in DOMAIN tree THEN f ELSE g
  <2>1. /\ t.pc = "active" /\ t.ops # <<>>
        /\ UNCHANGED <<prog, dbvars, gcvars, lastTid, clockvars>>
        /\ txn' = [txn EXCEPT ![c] = u]
    BY Zenon DEF do_search
  <2>2. TxnInv(t, tuple, tree, tick) /\ tree \in [DOMAIN tree -> Tuples]
    BY CoreFacts, Zenon
  <2>3. a = [t EXCEPT !.ops = Tail(@), !.key = k]
    OBVIOUS
  <2> HIDE DEF a
  <2>4. k \in DOMAIN tree => tree[k] \in Tuples
    BY <2>2, Zenon
  <2>5. TxnInv(u, tuple, tree, tick) /\ Continues(t, u)
    <3>1. k \in DOMAIN tree => TxnInv(f, tuple, tree, tick) /\ Continues(t, f)
      BY <2>1, <2>2, <2>3, <2>4, <1>SearchStep, Zenon
    <3>2. TxnInv(g, tuple, tree, tick) /\ Continues(t, g)
      BY <2>1, <2>2, <2>3, <1>SearchStep, Zenon
    <3> QED
      BY <3>1, <3>2, Zenon
  <2> HIDE DEF u
  <2>6. t.pc \notin {"idle", "post", "clean"}
    BY <2>1
  <2> QED
    BY <2>1, <2>5, <2>6, QuietStep, Zenon
  \* A read that has its tuple and version joins the read set.
<1>TupleReadStep.
      ASSUME NEW T, NEW R, NEW n, NEW t, NEW u, TxnInv(t, T, R, n), t.pc \in Reading, 0 < Limit(n),
             NEW p \in Tuples, NEW x \in Nat, x < Limit(n), NEW v, u = TupleRead(t, p, x, v)
      PROVE  TxnInv(u, T, R, n) /\ Continues(t, u)
  <2> USE <1>TupleReadStep
  <2> DEFINE r == IF t.snap THEN t.rset ELSE Append(t.rset, [tuple |-> p, tid |-> x])
  <2>1. u = [t EXCEPT !.pc = "active", !.cur = NoTuple, !.hdr = <<>>, !.tid = 0,
                      !.obs = @ \cup {<<t.key, v>>}, !.rset = r]
    BY Zenon DEF TupleRead
  <2>2. /\ Shaped(t) /\ t.ops \in Seq(Ops) /\ t.rset \in Seq(ReadEntry)
        /\ \A i \in DOMAIN t.rset : t.rset[i].tid < Limit(n)
    BY <1>ReadFacts, Zenon
  <2>3. r \in Seq(ReadEntry) /\ \A i \in DOMAIN r : r[i].tid < Limit(n)
    <3> DEFINE e == [tuple |-> p, tid |-> x]
    <3>1. e \in ReadEntry /\ e.tid = x
      BY DEF ReadEntry
    <3> HIDE DEF e
    <3>2. /\ Append(t.rset, e) \in Seq(ReadEntry) /\ Len(t.rset) \in Nat
          /\ DOMAIN t.rset = 1 .. Len(t.rset) /\ DOMAIN Append(t.rset, e) = 1 .. (Len(t.rset) + 1)
          /\ \A i \in DOMAIN t.rset : Append(t.rset, e)[i] = t.rset[i]
          /\ Append(t.rset, e)[Len(t.rset) + 1] = e
      BY ONLY <2>2, <3>1, SeqAppend
    <3>3. \A i \in DOMAIN Append(t.rset, e) : Append(t.rset, e)[i].tid < Limit(n)
      BY ONLY <2>2, <3>1, <3>2, x < Limit(n)
    <3> QED
      BY <2>2, <3>2, <3>3, Zenon DEF e
  <2> HIDE DEF r
  <2>4. Shaped(u)
    BY ONLY <2>1, <2>2, Zenon DEF Shaped
  <2>5. SameLocks(t, u) /\ u.pc = "active" /\ u.ops = t.ops /\ u.cur = NoTuple /\ u.tid = 0 /\ u.rset = r
    BY ONLY <2>1, <2>2 DEF Shaped, SameLocks
  <2>6. u.pc \in Reading /\ u.pc \notin {"version", "value"} /\ 0 \in Nat
    BY <2>5 DEF Reading
  <2> QED
    BY <2>2, <2>3, <2>4, <2>5, <2>6, <1>ReadTo, Zenon
  \* record_at reading the version keeps the invariant.
<1>RecordVersionAction.
      ASSUME OccInv, NEW c \in Cores, record_at_version(c)
      PROVE  OccInv'
  <2> USE <1>RecordVersionAction
  <2> DEFINE t == txn[c]  d == tuple[t.cur]
             f == TupleRead(t, t.cur, MIN_TID, NoValue)
             g == [t EXCEPT !.pc = "value", !.hdr = ReaderHdr(d), !.tid = d.version]
  <2>1. /\ t.pc = "version"
        /\ UNCHANGED <<prog, dbvars, gcvars, lastTid, clockvars>>
        /\ d.version = MAX_TID => txn' = [txn EXCEPT ![c] = f]
        /\ d.version # MAX_TID => txn' = [txn EXCEPT ![c].pc = "value", ![c].hdr = ReaderHdr(d),
                                                     ![c].tid = d.version]
    BY Zenon DEF record_at_version
  <2>2. /\ TxnInv(t, tuple, tree, tick) /\ tick \in Nat /\ tick <= MaxTick
        /\ tuple \in [Tuples -> TupleRec]
    BY CoreFacts, Zenon
  <2>3. DOMAIN txn = Cores /\ txn = [e \in Cores |-> txn[e]]
    BY Zenon DEF OccInv, OccType
  <2>4. t.pc \in Reading /\ "value" \in Reading /\ t.pc \notin {"idle", "post", "clean"}
        /\ t.pc \in {"version", "value"}
    BY <2>1 DEF Reading
  <2>5. 0 < Limit(tick) /\ MIN_TID < Limit(tick) /\ MIN_TID \in Nat
    BY <2>2, LimitFacts DEF MIN_TID
  <2>6. t.cur \in Tuples
    BY <2>2, <2>4, <1>ReadFacts, Zenon
  <2>7. TxnInv(f, tuple, tree, tick) /\ Continues(t, f)
    BY <2>2, <2>4, <2>5, <2>6, <1>TupleReadStep, Zenon
  <2>8. d.version # MAX_TID => TxnInv(g, tuple, tree, tick) /\ Continues(t, g)
    <3> SUFFICES ASSUME d.version # MAX_TID, NEW u, u = g
                 PROVE  TxnInv(u, tuple, tree, tick) /\ Continues(t, u)
      BY Zenon
    <3>1. d.version \in Nat
      BY <2>2, <2>6 DEF TupleRec
    <3>2. d.version < Limit(tick)
      BY <2>6, Zenon DEF OccInv, TupleInv
    <3>3. /\ Shaped(t) /\ t.ops \in Seq(Ops) /\ t.rset \in Seq(ReadEntry)
          /\ \A i \in DOMAIN t.rset : t.rset[i].tid < Limit(tick)
      BY <2>2, <1>ReadFacts, Zenon
    <3> HIDE DEF d
    <3>4. Shaped(u)
      BY ONLY u = g, <3>3, Zenon DEF Shaped
    <3>5. SameLocks(t, u) /\ u.pc = "value" /\ u.ops = t.ops /\ u.cur = t.cur /\ u.tid = d.version
          /\ u.rset = t.rset
      BY ONLY u = g, <3>3 DEF Shaped, SameLocks
    <3> QED
      BY ONLY <2>2, <2>4, <2>6, <3>1, <3>2, <3>3, <3>4, <3>5, <1>ReadTo, Zenon
  <2>9. d.version # MAX_TID => txn' = [txn EXCEPT ![c] = g]
    BY <2>1, <2>3, Zenon
  <2> HIDE DEF f, g, d
  <2> QED
    BY <2>1, <2>4, <2>7, <2>8, <2>9, QuietStep, Zenon
  \* record_at reading the value keeps the invariant.
<1>RecordValueAction.
      ASSUME OccInv, NEW c \in Cores, record_at_value(c)
      PROVE  OccInv'
  <2> USE <1>RecordValueAction
  <2> DEFINE t == txn[c]  d == tuple[t.cur]
             f == TupleRead(t, t.cur, t.tid, IF d.deleting THEN NoValue ELSE d.val)
             g == TupleRead(t, t.cur, MIN_TID, NoValue)
             h == [t EXCEPT !.pc = "version", !.cur = d.next]
             k == [t EXCEPT !.pc = "version"]
             u == IF ReaderHdr(d) # t.hdr THEN k
                  ELSE IF t.tid <= t.stid THEN f
                  ELSE IF d.next # NoTuple THEN h ELSE g
  <2>1. /\ t.pc = "value" /\ UNCHANGED <<prog, dbvars, gcvars, lastTid, clockvars>>
        /\ txn' = [txn EXCEPT ![c] = u]
    BY Zenon DEF record_at_value
  <2>2. /\ TxnInv(t, tuple, tree, tick) /\ tick \in Nat /\ tick <= MaxTick
        /\ tuple \in [Tuples -> TupleRec]
    BY CoreFacts, Zenon
  <2>3. t.pc \in Reading /\ "version" \in Reading /\ t.pc \notin {"idle", "post", "clean"}
        /\ t.pc \in {"version", "value"}
    BY <2>1 DEF Reading
  <2>4. 0 < Limit(tick) /\ MIN_TID < Limit(tick) /\ MIN_TID \in Nat
    BY <2>2, LimitFacts DEF MIN_TID
  <2>5. /\ Shaped(t) /\ t.ops \in Seq(Ops) /\ t.rset \in Seq(ReadEntry) /\ t.cur \in Tuples
        /\ t.tid \in Nat /\ t.tid < Limit(tick)
        /\ \A i \in DOMAIN t.rset : t.rset[i].tid < Limit(tick)
    BY <2>2, <2>3, <1>ReadFacts, Zenon
  <2>6. d.next \in Tuples \cup {NoTuple}
    BY <2>2, <2>5 DEF TupleRec
  <2> HIDE DEF d
  <2>7. TxnInv(f, tuple, tree, tick) /\ Continues(t, f)
    BY <2>2, <2>3, <2>4, <2>5, <1>TupleReadStep, Zenon
  <2>8. TxnInv(g, tuple, tree, tick) /\ Continues(t, g)
    BY <2>2, <2>3, <2>4, <2>5, <1>TupleReadStep, Zenon
  <2>9. ASSUME NEW p \in Tuples, NEW v, v = [t EXCEPT !.pc = "version", !.cur = p]
        PROVE  TxnInv(v, tuple, tree, tick) /\ Continues(t, v)
    <3>1. Shaped(v)
      BY ONLY <2>5, <2>9, Zenon DEF Shaped
    <3>2. SameLocks(t, v) /\ v.pc = "version" /\ v.ops = t.ops /\ v.cur = p /\ v.tid = t.tid
          /\ v.rset = t.rset
      BY ONLY <2>5, <2>9 DEF Shaped, SameLocks
    <3> QED
      BY ONLY <2>2, <2>3, <2>5, p \in Tuples, <3>1, <3>2, <1>ReadTo, Zenon
  <2>10. d.next # NoTuple => TxnInv(h, tuple, tree, tick) /\ Continues(t, h)
    BY <2>6, <2>9, Zenon
  <2>11. TxnInv(k, tuple, tree, tick) /\ Continues(t, k)
    <3>1. k = [t EXCEPT !.pc = "version", !.cur = t.cur]
      BY <2>5, Zenon DEF Shaped
    <3> QED
      BY <2>5, <2>9, <3>1, Zenon
  <2> HIDE DEF f, g, h, k
  <2>12. TxnInv(u, tuple, tree, tick) /\ Continues(t, u)
    BY <2>7, <2>8, <2>10, <2>11, Zenon
  <2> HIDE DEF u
  <2> QED
    BY <2>1, <2>3, <2>12, QuietStep, Zenon
  \* A record that is not there to be inserted joins the write set.
<1>PutStep.
      ASSUME NEW T, NEW R, NEW n, NEW t, NEW u, NEW e \in WriteEntry, TxnInv(t, T, R, n),
             t.pc = "active", ~t.snap, ~e.insert,
             T[e.tuple].version # MIN_TID, Rooted(e.tuple, e.key, T, R),
             TxnType(u), u.pc = "active", u.wset = Append(t.wset, e), u.locked = t.locked,
             u.ctid = t.ctid, u.head = t.head, u.snap = t.snap, u.scratch = t.scratch,
             u.rset = t.rset, u.tid = t.tid, u.stid = t.stid
      PROVE  TxnInv(u, T, R, n) /\ Continues(t, u)
  <2> USE <1>PutStep
  <2>1. /\ TxnType(t) /\ Phase(t) /\ OwnLocks(t, T) /\ OwnWrites(t, T, R) /\ OwnNumber(t, n)
        /\ GcRooted(t.scratch, T, R) /\ Reader(t, n)
    BY Zenon DEF TxnInv
  <2>2. /\ u.pc = "active" /\ u.wset = Append(t.wset, e) /\ u.locked = t.locked /\ u.ctid = t.ctid
        /\ u.head = t.head /\ u.snap = t.snap /\ u.scratch = t.scratch
        /\ u.rset = t.rset /\ u.tid = t.tid /\ u.stid = t.stid
        /\ u.pc \notin {"idle", "post", "clean"}
    BY Zenon
  <2> DEFINE m == Len(t.wset)
  <2>3. /\ m \in Nat /\ DOMAIN t.wset = 1 .. m /\ DOMAIN u.wset = 1 .. (m + 1)
        /\ \A i \in DOMAIN t.wset : u.wset[i] = t.wset[i]
        /\ u.wset[m + 1] = e
    BY <2>1, <2>2, SeqAppend DEF TxnType
  <2> HIDE DEF m
  <2>4. \A i \in DOMAIN u.wset : i \in DOMAIN t.wset \/ i = m + 1
    BY ONLY <2>3
  <2>5. \A i \in DOMAIN t.wset : i \in DOMAIN u.wset
    BY ONLY <2>3
  <2>6. Inserts(u) = Inserts(t)
    BY <2>3, <2>4, <2>5 DEF Inserts
  <2>7. Phase(u)
    <3>1. \A i, j \in DOMAIN u.wset :
            (i # j /\ u.wset[i].tuple = u.wset[j].tuple) => ~(u.wset[i].insert /\ u.wset[j].insert)
      <4>1. \A i, j \in DOMAIN t.wset :
            (i # j /\ t.wset[i].tuple = t.wset[j].tuple) => ~(t.wset[i].insert /\ t.wset[j].insert)
        BY <2>1, Zenon DEF Phase
      <4> QED
        BY ONLY ~e.insert, <4>1, <2>3, <2>4
    <3>2. t.locked = Inserts(t) /\ t.head = NoTuple /\ t.head \notin t.locked
      BY <2>1, Zenon DEF Phase, Reading, Publishing
    <3> QED
      BY ONLY ~t.snap, <2>2, <2>6, <3>1, <3>2
         DEF Phase, Reading, Holding, Writing, Publishing, Calm
  <2>8. OwnLocks(u, T)
    BY <2>1, <2>2, <2>6, t.pc = "active", Zenon DEF OwnLocks
  <2>9. ~Numbered(u) /\ u.pc \notin Publishing \cup {"write", "write2"}
    BY <2>2 DEF Numbered, Holding, Writing, Publishing
  <2>10. OwnWrites(u, T, R)
    <3>1. \A i \in DOMAIN t.wset : /\ T[t.wset[i].tuple].version # MIN_TID
                                   /\ Rooted(t.wset[i].tuple, t.wset[i].key, T, R)
      BY <2>1, Zenon DEF OwnWrites
    <3>2. \A i \in DOMAIN u.wset : /\ T[u.wset[i].tuple].version # MIN_TID
                                   /\ Rooted(u.wset[i].tuple, u.wset[i].key, T, R)
      BY <2>3, <2>4, <3>1, Zenon
    <3> QED
      BY <2>9, <3>2, Zenon DEF OwnWrites
  <2>11. OwnNumber(u, n) /\ Publisher(u, T, R) /\ GcRooted(u.scratch, T, R) /\ Reader(u, n)
    BY <2>1, <2>2, <2>9, Zenon DEF OwnNumber, Publisher, Reader
  <2>12. Continues(t, u)
    BY ONLY <2>2, SamePrivate, Zenon DEF Continues
  <2> QED
    BY <2>7, <2>8, <2>10, <2>11, <2>12, Zenon DEF TxnInv
  \* do_tree_put keeps the invariant.
<1>PutAction.
      ASSUME Sorting, OccInv, NEW c \in Cores, NEW t, t = txn[c], do_tree_put(c)
      PROVE  OccInv'
  <2> USE <1>PutAction
  <2> DEFINE k == Op(c).k
             e == [tuple |-> tree[k], key |-> k, val |-> Op(c).v, insert |-> FALSE]
             f == AbortImpl(t)
             g == [t EXCEPT !.ops[1].new = TRUE]
             h == [t EXCEPT !.ops = Tail(@), !.wset = Append(@, e)]
             u == IF t.snap THEN f ELSE IF k \notin DOMAIN tree THEN g ELSE h
  <2>1. /\ t.pc = "active" /\ t.ops # <<>> /\ Head(t.ops).op = "put" /\ (t.snap \/ ~Op(c).new)
        /\ Op(c) = Head(t.ops)
        /\ UNCHANGED <<prog, dbvars, gcvars, lastTid, clockvars>>
        /\ txn' = [txn EXCEPT ![c] = u]
    BY Zenon DEF do_tree_put, Op
  <2>2. /\ TxnInv(t, tuple, tree, tick) /\ TxnType(t) /\ tree \in [DOMAIN tree -> Tuples]
    BY CoreFacts, Zenon
  <2>3. t.pc \in Reading /\ t.pc \notin {"idle", "post", "clean"}
    BY <2>1 DEF Reading
  <2>4. TxnInv(f, tuple, tree, tick) /\ Continues(t, f)
    BY <2>2, <2>3, <1>AbortStep, Zenon
  <2>5. TxnInv(g, tuple, tree, tick) /\ Continues(t, g)
    BY <2>1, <2>2, <1>ToggleStep, Zenon
  <2>6. /\ Shaped(t) /\ t.ops \in Seq(Ops) /\ Tail(t.ops) \in Seq(Ops) /\ t.wset \in Seq(WriteEntry)
        /\ Op(c) \in Ops
    <3>1. t.ops \in Seq(Ops) /\ t.wset \in Seq(WriteEntry) /\ Shaped(t)
      BY <2>2, Zenon DEF TxnType
    <3> QED
      BY ONLY <2>1, <3>1, SeqHead
  <2>7. k \in Keys /\ Op(c).v \in Nat
    BY ONLY <2>1, <2>6 DEF Ops
  <2>8. ASSUME ~t.snap, k \in DOMAIN tree PROVE TxnInv(h, tuple, tree, tick) /\ Continues(t, h)
    <3>1. tree[k] \in Tuples
      BY <2>2, <2>8, Zenon
    <3>2. e \in WriteEntry /\ ~e.insert /\ e.tuple = tree[k] /\ e.key = k
      BY ONLY <2>7, <3>1 DEF WriteEntry
    <3>3. tuple[tree[k]].version # MIN_TID /\ Rooted(tree[k], k, tuple, tree)
      BY <2>8, Zenon DEF OccInv, TreeInv, Rooted
    <3> HIDE DEF e
    <3> SUFFICES ASSUME NEW v, v = h PROVE TxnInv(v, tuple, tree, tick) /\ Continues(t, v)
      BY Zenon
    <3>4. v = [t EXCEPT !.ops = Tail(@), !.wset = Append(@, e)]
      OBVIOUS
    <3>5. Shaped(v)
      BY ONLY <2>6, <3>4, Zenon DEF Shaped
    <3>6. /\ v.pc = t.pc /\ v.ops = Tail(t.ops) /\ v.infos = t.infos /\ v.snap = t.snap /\ v.stid = t.stid
          /\ v.cur = t.cur /\ v.tid = t.tid /\ v.rset = t.rset /\ v.wset = Append(t.wset, e)
          /\ v.locked = t.locked /\ v.ctid = t.ctid /\ v.rest = t.rest /\ v.head = t.head
          /\ v.scratch = t.scratch
      BY ONLY <2>6, <3>4 DEF Shaped
    <3>7. Append(t.wset, e) \in Seq(WriteEntry)
      BY <2>6, <3>2, SeqAppend, Zenon
    <3>8. TxnType(v)
      BY ONLY <2>2, <2>6, <3>5, <3>6, <3>7, Zenon DEF TxnType
    <3>9. TxnInv(t, tuple, tree, tick) /\ t.pc = "active" /\ ~t.snap
      BY <2>1, <2>2, <2>8, Zenon
    <3>10. tuple[e.tuple].version # MIN_TID /\ Rooted(e.tuple, e.key, tuple, tree)
      BY <3>2, <3>3, Zenon
    <3> QED
      BY ONLY <3>2, <3>6, <3>8, <3>9, <3>10, <1>PutStep
  <2> HIDE DEF f, g, h
  <2>9. TxnInv(u, tuple, tree, tick) /\ Continues(t, u)
    BY <2>4, <2>5, <2>8, Zenon
  <2> HIDE DEF u
  <2> QED
    BY <2>1, <2>3, <2>9, QuietStep, Zenon
  \* abort keeps the invariant.
<1>AbortAction.
      ASSUME Sorting, OccInv, NEW c \in Cores, abort(c)
      PROVE  OccInv'
  <2> USE <1>AbortAction
  <2> DEFINE t == txn[c]  u == AbortImpl(t)
  <2>1. /\ t.pc = "active" /\ txn' = [txn EXCEPT ![c] = u]
        /\ UNCHANGED <<prog, dbvars, gcvars, lastTid, clockvars>>
    BY Zenon DEF abort
  <2>2. TxnInv(t, tuple, tree, tick)
    BY CoreFacts, Zenon
  <2> HIDE DEF u
  <2>3. TxnInv(u, tuple, tree, tick) /\ Continues(t, u)
    <3>1. t.pc \in Reading
      BY <2>1 DEF Reading
    <3> QED
      BY <2>2, <3>1, <1>AbortStep, Zenon DEF u
  <2>4. t.pc \notin {"idle", "post", "clean"}
    BY <2>1
  <2> QED
    BY <2>1, <2>3, <2>4, QuietStep, Zenon
  \* The absent set makes no difference to the invariant.
<1>BumpStep.
      ASSUME Sorting, NEW T, NEW R, NEW n, NEW t, NEW u, TxnInv(t, T, R, n), t.pc = "active",
             NEW x, NEW y, u = BumpNode(t, x, y)
      PROVE  TxnInv(u, T, R, n) /\ Continues(t, u)
  <2> USE <1>BumpStep
  <2>1. t.pc \in Reading /\ t.pc \notin {"idle", "post", "clean"} /\ t.pc \notin {"version", "value"}
    BY DEF Reading
  <2>2. CASE u = t
    <3>1. Continues(t, t)
      BY ONLY <2>1, Zenon DEF Continues
    <3> QED
      BY ONLY <2>2, <3>1, TxnInv(t, T, R, n), Zenon
  <2>3. CASE u = AbortImpl(t)
    BY ONLY Sorting, <2>1, <2>3, TxnInv(t, T, R, n), <1>AbortStep, Zenon
  <2>4. CASE u = [t EXCEPT !.aset = y]
    <3>1. /\ Shaped(t) /\ t.ops \in Seq(Ops) /\ t.cur \in Tuples \cup {NoTuple}
          /\ t.tid \in Nat /\ t.tid < Limit(n) /\ t.rset \in Seq(ReadEntry)
          /\ \A i \in DOMAIN t.rset : t.rset[i].tid < Limit(n)
      BY ONLY TxnInv(t, T, R, n), <1>ReadFacts, Zenon
    <3>2. Shaped(u)
      BY ONLY <2>4, <3>1, Zenon DEF Shaped
    <3>3. SameLocks(t, u) /\ u.pc = t.pc /\ u.ops = t.ops /\ u.cur = t.cur /\ u.tid = t.tid /\ u.rset = t.rset
      BY ONLY <2>4, <3>1 DEF Shaped, SameLocks
    <3>4. u.pc \in Reading /\ u.pc \notin {"version", "value"}
      BY ONLY <2>1, <3>3, Zenon
    <3>5. /\ u.ops \in Seq(Ops) /\ u.cur \in Tuples \cup {NoTuple} /\ (u.pc \in {"version", "value"} => u.cur \in Tuples)
          /\ u.tid \in Nat /\ u.tid < Limit(n) /\ u.rset \in Seq(ReadEntry)
          /\ \A i \in DOMAIN u.rset : u.rset[i].tid < Limit(n)
      BY ONLY <3>1, <3>3, <3>4, Zenon
    <3> QED
      BY ONLY <2>1, <3>2, <3>3, <3>4, <3>5, TxnInv(t, T, R, n), <1>ReadTo, Zenon
  <2> QED
    BY <2>2, <2>3, <2>4, Zenon DEF BumpNode
  \* An insert that finds the key goes on as a put.
<1>KnownAction.
      ASSUME OccInv, NEW c \in Cores, NEW t, t = txn[c], t.pc = "active", t.ops # <<>>,
             Head(t.ops).op = "put", txn' = [txn EXCEPT ![c] = [t EXCEPT !.ops[1].new = FALSE]],
             UNCHANGED <<prog, dbvars, gcvars, lastTid, clockvars>>
      PROVE  OccInv'
  <2> USE <1>KnownAction
  <2>1. TxnInv(t, tuple, tree, tick)
    BY CoreFacts, Zenon
  <2>2. FALSE \in BOOLEAN /\ t.pc \notin {"idle", "post", "clean"}
    OBVIOUS
  <2>3. ASSUME NEW u, u = [t EXCEPT !.ops[1].new = FALSE], txn' = [txn EXCEPT ![c] = u]
        PROVE  OccInv'
    <3>1. TxnInv(u, tuple, tree, tick) /\ Continues(t, u)
      BY <2>1, <2>2, <2>3, <1>ToggleStep, Zenon
    <3> QED
      BY <2>2, <2>3, <3>1, QuietStep, Zenon
  <2> QED
    BY <2>3, Zenon
  \* A step of the validation.
<1>HoldStep.
      ASSUME NEW T, NEW R, NEW n, NEW t, NEW u, TxnInv(t, T, R, n),
             t.pc \in Holding \ {"gen"}, u.pc \in Holding \ {"gen"},
             SameLocks(t, u), TxnType(u), Reader(u, n)
      PROVE  TxnInv(u, T, R, n)
  <2> USE <1>HoldStep
  <2>0. /\ t.pc # "lock" /\ t.pc \notin Reading /\ t.pc \notin Writing /\ t.pc \notin Calm /\ t.pc \notin Publishing
        /\ u.pc # "lock" /\ u.pc \notin Reading /\ u.pc \notin Writing /\ u.pc \notin Calm /\ u.pc \notin Publishing
        /\ u.pc \notin {"undo"} \cup Writing /\ u.pc \notin Writing \ {"write"} /\ t.pc \in Holding /\ u.pc \in Holding
        /\ (u.pc \in {"lock"} \cup Holding => t.pc \in {"lock"} \cup Holding)
    BY DEF Reading, Holding, Writing, Publishing, Calm
  <2>1. Inserts(u) = Inserts(t) /\ WrittenTuples(u) = WrittenTuples(t)
    BY SameWrites, Zenon DEF SameLocks
  <2>2. Phase(u)
    BY <2>0, <2>1, Zenon DEF TxnInv, Phase, SameLocks
  <2>3. OwnLocks(u, T)
    BY <2>0, <2>1, Zenon DEF TxnInv, OwnLocks, SameLocks
  <2>4. (Numbered(u) <=> Numbered(t)) /\ u.pc \notin Publishing \cup {"write", "write2"}
    <3>1. /\ t.pc \in (Holding \ {"gen"}) \cup Writing /\ u.pc \in (Holding \ {"gen"}) \cup Writing
          /\ u.pc \notin Publishing \cup {"write", "write2"}
      BY DEF Holding, Writing, Publishing
    <3> QED
      BY <3>1, Zenon DEF Numbered, SameLocks
  <2>5. OwnWrites(u, T, R)
    BY <2>4, Zenon DEF TxnInv, OwnWrites, SameLocks
  <2>6. OwnNumber(u, n) /\ Publisher(u, T, R) /\ GcRooted(u.scratch, T, R)
    BY <2>4, Zenon DEF TxnInv, OwnNumber, Publisher, SameLocks
  <2> QED
    BY <2>2, <2>3, <2>5, <2>6, Zenon DEF TxnInv
  \* A step of the validation.
<1>HoldTo.
      ASSUME NEW T, NEW R, NEW n, NEW t, NEW u, TxnInv(t, T, R, n), t.pc \in Holding \ {"gen"},
             Shaped(u), SameLocks(t, u), u.pc \in Holding \ {"gen"}, u.ops = t.ops, u.cur = t.cur,
             u.tid = t.tid, u.rset \in Seq(ReadEntry),
             \A i \in DOMAIN u.rset : u.rset[i].tid < Limit(n)
      PROVE  TxnInv(u, T, R, n) /\ Continues(t, u)
  <2> USE <1>HoldTo
  <2>1. TxnType(t) /\ Reader(t, n)
    BY Zenon DEF TxnInv
  <2>2. u.pc \notin {"idle", "post", "clean"} /\ u.pc \notin {"version", "value"}
    BY DEF Holding
  <2>3. TxnType(u)
    BY <2>1, <2>2, Zenon DEF TxnType, SameLocks
  <2>4. Reader(u, n)
    BY <2>1, Zenon DEF Reader
  <2>5. TxnInv(u, T, R, n)
    BY <2>3, <2>4, <1>HoldStep, Zenon
  <2> QED
    BY <2>2, <2>5, Unmoved, Zenon
  \* The writes that are carried out: all the inserts, and nothing but the last
  \* write of a tuple besides.
<1>DoWritesFacts.
      ASSUME Sorting, NEW t, t.wset \in Seq(WriteEntry)
      PROVE  /\ DoWrites(t) \in Seq(WriteEntry)
             /\ \A i \in DOMAIN DoWrites(t) : \E j \in DOMAIN t.wset : DoWrites(t)[i] = t.wset[j]
             /\ \A j \in DOMAIN t.wset : t.wset[j].insert =>
                  \E i \in DOMAIN DoWrites(t) : DoWrites(t)[i] = t.wset[j]
             /\ \A i, j \in DOMAIN DoWrites(t) :
                  (i < j /\ DoWrites(t)[i].tuple = DoWrites(t)[j].tuple) => DoWrites(t)[i].insert
             /\ \A i, j \in DOMAIN DoWrites(t) : i # j =>
                  \E k, m \in DOMAIN t.wset :
                     k # m /\ DoWrites(t)[i] = t.wset[k] /\ DoWrites(t)[j] = t.wset[m]
  <2> USE <1>DoWritesFacts
  <2> DEFINE w == t.wset
             Final(i) == \A j \in DOMAIN w : w[j].tuple = w[i].tuple => j <= i
             do == {i \in DOMAIN w : w[i].insert \/ Final(i)}
             a == Ascending(do)
             s == Pick(w, do)
  <2>1. DoWrites(t) = s
    BY Zenon DEF DoWrites
  <2>2. \A i \in do : i \in DOMAIN w /\ i \in Nat
                      /\ (w[i].insert \/ \A j \in DOMAIN w : w[j].tuple = w[i].tuple => j <= i)
    BY WrittenType
  <2>3. \A i \in DOMAIN w : w[i].insert => i \in do
    BY Zenon
  <2>4. do \subseteq DOMAIN w
    BY Zenon
  <2> HIDE DEF do, Final
  <2>5. /\ s \in Seq(WriteEntry)
        /\ \A i \in DOMAIN s : a[i] \in do /\ s[i] = w[a[i]]
        /\ \A i, j \in DOMAIN s : i < j => a[i] < a[j]
        /\ \A k \in do : \E i \in DOMAIN s : a[i] = k
    BY ONLY Sorting, t.wset \in Seq(WriteEntry), <2>4, PickFacts
  <2>6. DOMAIN s = 1 .. Len(s) /\ Len(s) \in Nat
    BY <2>5, SeqLen, Zenon
  <2> HIDE DEF s, a
  <2>7. \A i, j \in DOMAIN s : (i < j /\ s[i].tuple = s[j].tuple) => s[i].insert
    <3> TAKE i, j \in DOMAIN s
    <3> HAVE i < j /\ s[i].tuple = s[j].tuple
    <3>1. a[i] < a[j] /\ s[i] = w[a[i]] /\ s[j] = w[a[j]] /\ a[i] \in do /\ a[j] \in do
      BY <2>5, Zenon
    <3>2. a[i] \in Nat /\ a[j] \in Nat /\ a[j] \in DOMAIN w /\
          (w[a[i]].insert \/ \A k \in DOMAIN w : w[k].tuple = w[a[i]].tuple => k <= a[i])
      BY <2>2, <3>1, Zenon
    <3>3. w[a[i]].insert \/ a[j] <= a[i]
      BY <3>1, <3>2, Zenon
    <3> QED
      BY ONLY <3>1, <3>2, <3>3
  <2>8. \A i, j \in DOMAIN s : i # j => a[i] # a[j]
    <3>1. \A i \in DOMAIN s : i \in Nat /\ a[i] \in Nat
      BY ONLY <2>2, <2>5, <2>6
    <3> QED
      BY ONLY <3>1, <2>5
  <2>9. \A i \in DOMAIN s : a[i] \in DOMAIN w
    BY <2>2, <2>5, Zenon
  <2>10. \A i \in DOMAIN s : \E j \in DOMAIN w : s[i] = w[j]
    BY <2>5, <2>9, Zenon
  <2>11. \A j \in DOMAIN w : w[j].insert => \E i \in DOMAIN s : s[i] = w[j]
    BY ONLY <2>3, <2>5
  <2>12. \A i, j \in DOMAIN s : i # j =>
           \E k, m \in DOMAIN w : k # m /\ s[i] = w[k] /\ s[j] = w[m]
    BY ONLY <2>5, <2>8, <2>9
  <2> QED
    BY ONLY <2>1, <2>5, <2>7, <2>10, <2>11, <2>12
  \* A transaction that has passed its validation begins to write: the inserts,
  \* and the last write of every other tuple.
<1>PassedStep.
      ASSUME Sorting, NEW T, NEW R, NEW n, NEW t, NEW u, TxnInv(t, T, R, n), t.pc \in Holding \ {"gen"},
             u = PassedTo(t)
      PROVE  TxnInv(u, T, R, n) /\ Continues(t, u)
  <2> USE <1>PassedStep
  <2> DEFINE s == SortedTuples(t)
             w == DoWrites(t)
             l == IF t.wset = <<>> THEN "end" ELSE "write"
  <2>1. /\ TxnType(t) /\ Phase(t) /\ OwnLocks(t, T) /\ OwnWrites(t, T, R) /\ OwnNumber(t, n)
        /\ GcRooted(t.scratch, T, R) /\ Reader(t, n)
    BY Zenon DEF TxnInv
  <2>2. /\ WrittenTuples(t) \in SUBSET Tuples
        /\ s \in Seq(Tuples) /\ At(s) = WrittenTuples(t) /\ Distinct(s)
    BY <2>1, WrittenType, SortedList, Zenon DEF TxnType, SortedTuples
  <2>3. /\ w \in Seq(WriteEntry)
        /\ \A i \in DOMAIN w : \E j \in DOMAIN t.wset : w[i] = t.wset[j]
        /\ \A j \in DOMAIN t.wset : t.wset[j].insert => \E i \in DOMAIN w : w[i] = t.wset[j]
        /\ \A i, j \in DOMAIN w : (i < j /\ w[i].tuple = w[j].tuple) => w[i].insert
        /\ \A i, j \in DOMAIN w : i # j =>
             \E k, m \in DOMAIN t.wset : k # m /\ w[i] = t.wset[k] /\ w[j] = t.wset[m]
    <3>1. t.wset \in Seq(WriteEntry)
      BY <2>1, Zenon DEF TxnType
    <3> QED
      BY <3>1, <1>DoWritesFacts, Zenon
  <2>4. u = [t EXCEPT !.wset = w, !.rset = <<>>, !.infos = s, !.pc = l]
    BY Zenon DEF PassedTo
  <2> HIDE DEF s, w
  <2>5. l \in {"end", "write"} /\ (l = "end" <=> t.wset = <<>>)
    OBVIOUS
  <2> HIDE DEF l
  <2>6. /\ u.pc = l /\ u.ops = t.ops /\ u.infos = s /\ u.snap = t.snap /\ u.stid = t.stid
        /\ u.cur = t.cur /\ u.tid = t.tid /\ u.rset = <<>> /\ u.wset = w
        /\ u.locked = t.locked /\ u.ctid = t.ctid /\ u.rest = t.rest /\ u.head = t.head
        /\ u.scratch = t.scratch
    BY ONLY <2>1, <2>4 DEF TxnType, Shaped
  <2>7. Shaped(u)
    BY ONLY <2>1, <2>4, Zenon DEF TxnType, Shaped
  <2>8. <<>> \in Seq(ReadEntry) /\ DOMAIN <<>> = {}
    OBVIOUS
  <2>9. TxnType(u)
    <3>1. u.pc \in Reading \cup {"undo", "lock"} \cup Holding \cup Writing \cup Calm
          /\ u.pc \notin {"version", "value"}
      BY <2>5, <2>6 DEF Reading, Holding, Writing, Publishing, Calm
    <3> QED
      BY <2>1, <2>2, <2>3, <2>6, <2>7, <2>8, <3>1, Zenon DEF TxnType
  <2>10. /\ t.locked = WrittenTuples(t) /\ t.head = NoTuple /\ NoTuple \notin t.locked
         /\ (t.snap => t.wset = <<>>)
         /\ \A i, j \in DOMAIN t.wset :
              (i # j /\ t.wset[i].tuple = t.wset[j].tuple) => ~(t.wset[i].insert /\ t.wset[j].insert)
    BY <2>1 DEF Phase, Holding, Publishing
  <2>11. t.wset = <<>> => WrittenTuples(t) = {} /\ w = <<>>
    <3>1. ASSUME t.wset = <<>> PROVE DOMAIN t.wset = {}
      BY <3>1
    <3>2. ASSUME t.wset = <<>> PROVE w = <<>>
      <4>1. DOMAIN w = {}
        BY <3>1, <3>2, <2>3, Zenon
      <4> QED
        BY <4>1, <2>3, SeqHead, Zenon
    <3> QED
      BY <3>1, <3>2, Zenon DEF WrittenTuples
  <2>12. WrittenTuples(u) \subseteq WrittenTuples(t) /\ Inserts(t) \subseteq Inserts(u)
         /\ Inserts(u) \subseteq Inserts(t)
    <3>1. /\ \A p : p \in WrittenTuples(t) <=> \E i \in DOMAIN t.wset : t.wset[i].tuple = p
          /\ \A p : p \in Inserts(t) <=> \E i \in DOMAIN t.wset : t.wset[i].insert /\ t.wset[i].tuple = p
          /\ \A p : p \in WrittenTuples(u) <=> \E i \in DOMAIN w : w[i].tuple = p
          /\ \A p : p \in Inserts(u) <=> \E i \in DOMAIN w : w[i].insert /\ w[i].tuple = p
      <4>1. /\ \A p : p \in WrittenTuples(u) <=> \E i \in DOMAIN u.wset : u.wset[i].tuple = p
            /\ \A p : p \in Inserts(u) <=> \E i \in DOMAIN u.wset : u.wset[i].insert /\ u.wset[i].tuple = p
        BY ONLY WrittenIs, Zenon
      <4>2. /\ \A p : p \in WrittenTuples(t) <=> \E i \in DOMAIN t.wset : t.wset[i].tuple = p
            /\ \A p : p \in Inserts(t) <=> \E i \in DOMAIN t.wset : t.wset[i].insert /\ t.wset[i].tuple = p
        BY WrittenIs, Zenon
      <4>3. u.wset = w
        BY <2>6
      <4> QED
        BY ONLY <4>1, <4>2, <4>3
    <3> QED
      BY ONLY <3>1, <2>3
  <2>13. \A i, j \in DOMAIN w : (i # j /\ w[i].tuple = w[j].tuple) => ~(w[i].insert /\ w[j].insert)
    <3> TAKE i, j \in DOMAIN w
    <3> HAVE i # j /\ w[i].tuple = w[j].tuple
    <3>1. PICK k, m \in DOMAIN t.wset : k # m /\ w[i] = t.wset[k] /\ w[j] = t.wset[m]
      BY <2>3, Zenon
    <3> QED
      BY <3>1, <2>10, Zenon
  <2>14. Phase(u)
    <3>1. CASE l = "write"
      <4>1. /\ u.pc \notin Reading /\ u.pc # "lock" /\ u.pc \notin Holding /\ u.pc \notin Publishing
            /\ u.pc \notin Calm /\ u.pc \notin Writing \ {"write"}
        BY ONLY <3>1, <2>6 DEF Reading, Holding, Writing, Publishing, Calm
      <4>2. At(u.infos) = u.locked /\ Distinct(u.infos) /\ WrittenTuples(u) \subseteq u.locked
        <5>1. u.infos = s /\ u.locked = t.locked
          BY ONLY <2>6, Zenon
        <5> QED
          BY ONLY <5>1, <2>2, <2>10, <2>12, Zenon
      <4>3. /\ u.head = NoTuple /\ u.head \notin u.locked /\ u.snap = t.snap /\ u.wset = w
        BY ONLY <2>6, <2>10, Zenon
      <4>4. ~t.snap
        BY ONLY <2>5, <2>10, <3>1
      <4> QED
        BY ONLY <2>3, <2>13, <4>1, <4>2, <4>3, <4>4, Zenon DEF Phase
    <3>2. CASE l = "end"
      <4>1. w = <<>> /\ t.locked = {}
        BY <3>2, <2>5, <2>10, <2>11, Zenon
      <4> QED
        <5>1. /\ u.pc \notin Reading /\ u.pc # "lock" /\ u.pc \notin Holding /\ u.pc \notin Publishing
              /\ u.pc \notin {"undo"} \cup Writing /\ u.pc \notin Writing /\ u.pc \notin Writing \ {"write"}
          BY ONLY <3>2, <2>6 DEF Reading, Holding, Writing, Publishing
        <5> QED
          BY ONLY <4>1, <5>1, <2>6, <2>10, <2>13, Zenon DEF Phase
    <3> QED
      BY <3>1, <3>2, <2>5, Zenon
  <2>15. \A p \in t.locked : /\ T[p].locked /\ T[p].intent /\ T[p].latest
                             /\ T[p].version = MAX_TID => p \in Inserts(t)
                             /\ p \in Inserts(t) => T[p].version = MAX_TID
    <3>1. t.pc \notin Writing /\ t.pc \in {"lock"} \cup Holding
      BY DEF Holding, Writing, Publishing
    <3> QED
      BY <3>1, <2>1, Zenon DEF OwnLocks
  <2>16. OwnLocks(u, T)
    BY <2>6, <2>12, <2>15, Zenon DEF OwnLocks
  <2>17. u.pc \notin Publishing /\ (Numbered(u) => Numbered(t))
    <3>1. l \notin Publishing /\ t.pc \in (Holding \ {"gen"}) \cup Writing
      BY <2>5 DEF Publishing
    <3> QED
      BY <3>1, <2>6, <2>11, Zenon DEF Numbered
  <2>18. OwnWrites(u, T, R)
    <3> SUFFICES ASSUME NEW i \in DOMAIN w
                 PROVE  /\ T[w[i].tuple].version # MIN_TID
                        /\ Rooted(w[i].tuple, w[i].key, T, R)
                        /\ T[w[i].tuple].latest
                        /\ Numbered(t) => T[w[i].tuple].version = MAX_TID \/ T[w[i].tuple].version <= t.ctid
      BY <2>6, <2>17, Zenon DEF OwnWrites
    <3>1. PICK j \in DOMAIN t.wset : w[i] = t.wset[j]
      BY <2>3, Zenon
    <3>2. t.wset[j].tuple \in t.locked
      BY <2>10, Zenon DEF WrittenTuples
    <3> QED
      BY <3>1, <3>2, <2>1, <2>15, Zenon DEF OwnWrites
  <2>19. OwnNumber(u, n) /\ Publisher(u, T, R) /\ GcRooted(u.scratch, T, R) /\ Reader(u, n)
    <3>1. Reader(u, n)
      BY <2>1, <2>6, <2>8, Zenon DEF Reader
    <3> QED
      BY <3>1, <2>1, <2>6, <2>17, Zenon DEF OwnNumber, Publisher
  <2>20. Continues(t, u)
    <3>1. u.pc \notin {"idle", "post", "clean"}
      BY <2>5, <2>6
    <3> QED
      BY ONLY <2>6, <3>1, SamePrivate, Zenon DEF Continues
  <2> QED
    BY ONLY <2>9, <2>14, <2>16, <2>18, <2>19, <2>20, Zenon DEF TxnInv
  \* The step from the validation to the writes keeps the invariant.
<1>PassedAction.
      ASSUME Sorting, OccInv, NEW c \in Cores, NEW t, t = txn[c], t.pc \in Holding \ {"gen"}, Passed(c),
             UNCHANGED <<prog, dbvars, gcvars, lastTid, clockvars>>
      PROVE  OccInv'
  <2> USE <1>PassedAction
  <2> DEFINE w == DoWrites(t)  s == SortedTuples(t)
             l == IF t.wset = <<>> THEN "end" ELSE "write"
             u == [t EXCEPT !.wset = w, !.rset = <<>>, !.infos = s, !.pc = l]
  <2>1. txn' = [txn EXCEPT ![c].wset = w, ![c].rset = <<>>, ![c].infos = s, ![c].pc = l]
    BY Zenon DEF Passed
  <2>2. TxnInv(t, tuple, tree, tick)
    BY CoreFacts, Zenon
  <2>3. DOMAIN txn = Cores /\ txn = [e \in Cores |-> txn[e]]
    BY Zenon DEF OccInv, OccType
  <2>4. TxnInv(u, tuple, tree, tick) /\ Continues(t, u)
    <3>1. u = PassedTo(t)
      BY Zenon DEF PassedTo
    <3> HIDE DEF u
    <3> QED
      BY <2>2, <3>1, <1>PassedStep, Zenon
  <2> HIDE DEF w, s, l
  <2>5. txn' = [txn EXCEPT ![c] = u]
    BY <2>1, <2>3, Zenon
  <2> HIDE DEF u
  <2>6. t.pc \notin {"idle", "post", "clean"}
    BY DEF Holding
  <2> QED
    BY <2>4, <2>5, <2>6, QuietStep, Zenon
  \* The check of one read set entry keeps the invariant.
<1>ValidateAction.
      ASSUME Sorting, OccInv, NEW c \in Cores, validate(c)
      PROVE  OccInv'
  <2> USE <1>ValidateAction
  <2> SUFFICES ASSUME NEW t, t = txn[c] PROVE OccInv'
    BY Zenon
  <2>1. /\ t.pc = "validate" /\ UNCHANGED <<prog, dbvars, gcvars, lastTid, clockvars>>
        /\ \/ t.rset # <<>> /\ txn' = [txn EXCEPT ![c] = [t EXCEPT !.rset = Tail(@)]]
           \/ txn' = [txn EXCEPT ![c] = DoAbort(t)]
           \/ Passed(c)
           \/ Go(c, "node")
    BY Zenon DEF validate
  <2>2. TxnInv(t, tuple, tree, tick) /\ Shaped(t) /\ t.rset \in Seq(ReadEntry)
        /\ \A i \in DOMAIN t.rset : t.rset[i].tid < Limit(tick)
    BY CoreFacts, <1>ReadFacts, Zenon
  <2>3. t.pc \in Holding \ {"gen"} /\ t.pc \notin {"idle", "post", "clean"} /\ "node" \in Holding \ {"gen"}
    BY <2>1 DEF Holding
  <2>4. ASSUME t.rset # <<>>, NEW u, u = [t EXCEPT !.rset = Tail(@)], txn' = [txn EXCEPT ![c] = u]
        PROVE  OccInv'
    <3>1. Shaped(u)
      BY ONLY <2>2, <2>4, Zenon DEF Shaped
    <3>2. SameLocks(t, u) /\ u.pc = t.pc /\ u.ops = t.ops /\ u.cur = t.cur /\ u.tid = t.tid
          /\ u.rset = Tail(t.rset)
      BY ONLY <2>2, <2>4 DEF Shaped, SameLocks
    <3>3. /\ Tail(t.rset) \in Seq(ReadEntry)
          /\ \A i \in DOMAIN Tail(t.rset) : i + 1 \in DOMAIN t.rset /\ Tail(t.rset)[i] = t.rset[i + 1]
      BY ONLY <2>2, <2>4, SeqHead
    <3>4. \A i \in DOMAIN u.rset : u.rset[i].tid < Limit(tick)
      BY ONLY <2>2, <3>2, <3>3, Zenon
    <3>5. TxnInv(u, tuple, tree, tick) /\ Continues(t, u)
      BY ONLY <2>2, <2>3, <3>1, <3>2, <3>3, <3>4, <1>HoldTo, Zenon
    <3> QED
      BY <2>1, <2>3, <2>4, <3>5, QuietStep, Zenon
  <2>5. ASSUME NEW u, u = [t EXCEPT !.pc = "node"], txn' = [txn EXCEPT ![c] = u]
        PROVE  OccInv'
    <3>1. Shaped(u)
      BY ONLY <2>2, <2>5, Zenon DEF Shaped
    <3>2. SameLocks(t, u) /\ u.pc = "node" /\ u.ops = t.ops /\ u.cur = t.cur /\ u.tid = t.tid
          /\ u.rset = t.rset
      BY ONLY <2>2, <2>5 DEF Shaped, SameLocks
    <3>3. TxnInv(u, tuple, tree, tick) /\ Continues(t, u)
      BY ONLY <2>2, <2>3, <3>1, <3>2, <1>HoldTo, Zenon
    <3> QED
      BY <2>1, <2>3, <2>5, <3>3, QuietStep, Zenon
  <2>6. ASSUME Go(c, "node") PROVE OccInv'
    <3>1. txn' = [txn EXCEPT ![c] = [t EXCEPT !.pc = "node"]]
      BY <2>6, Zenon DEF Go
    <3> QED
      BY <2>5, <3>1, Zenon
  <2>7. t.pc \in {"lock"} \cup Holding
    BY <2>3, Zenon
  <2>8. ASSUME Passed(c) PROVE OccInv'
    BY <2>1, <2>3, <2>8, <1>PassedAction, Zenon
  <2>9. ASSUME txn' = [txn EXCEPT ![c] = DoAbort(t)] PROVE OccInv'
    BY <2>1, <2>7, <2>9, DoAbortAction, Zenon
  <2> QED
    BY <2>1, <2>4, <2>6, <2>8, <2>9, Zenon
  \* The first read of a node's version in the check of the absent set keeps the
  \* invariant.
<1>ExtractAction.
      ASSUME OccInv, NEW c \in Cores, ExtractVersionNumber(c)
      PROVE  OccInv'
  <2> USE <1>ExtractAction
  <2> SUFFICES ASSUME NEW t, t = txn[c], NEW v, t.pc = "node",
                      txn' = [txn EXCEPT ![c].pc = "node2", ![c].node = v],
                      UNCHANGED <<prog, dbvars, gcvars, lastTid, clockvars>>
               PROVE  OccInv'
    BY Zenon DEF ExtractVersionNumber
  <2>1. DOMAIN txn = Cores /\ txn = [e \in Cores |-> txn[e]]
    BY Zenon DEF OccInv, OccType
  <2>2. TxnInv(t, tuple, tree, tick) /\ Shaped(t) /\ t.rset \in Seq(ReadEntry)
        /\ \A i \in DOMAIN t.rset : t.rset[i].tid < Limit(tick)
    BY CoreFacts, <1>ReadFacts, Zenon
  <2>3. t.pc \in Holding \ {"gen"} /\ t.pc \notin {"idle", "post", "clean"} /\ "node2" \in Holding \ {"gen"}
    BY DEF Holding
  <2>4. ASSUME NEW u, u = [t EXCEPT !.pc = "node2", !.node = v] PROVE OccInv'
    <3>1. Shaped(u)
      BY ONLY <2>2, <2>4, Zenon DEF Shaped
    <3>2. SameLocks(t, u) /\ u.pc = "node2" /\ u.ops = t.ops /\ u.cur = t.cur /\ u.tid = t.tid
          /\ u.rset = t.rset
      BY ONLY <2>2, <2>4 DEF Shaped, SameLocks
    <3>3. TxnInv(u, tuple, tree, tick) /\ Continues(t, u)
      BY ONLY <2>2, <2>3, <3>1, <3>2, <1>HoldTo, Zenon
    <3>4. txn' = [txn EXCEPT ![c] = u]
      BY <2>1, <2>4, Zenon
    <3> QED
      BY <2>3, <3>3, <3>4, QuietStep, Zenon
  <2> QED
    BY <2>4, Zenon
  \* The check of an absent set entry keeps the invariant.
<1>ValidateNodeAction.
      ASSUME Sorting, OccInv, NEW c \in Cores, validate_node(c)
      PROVE  OccInv'
  <2> USE <1>ValidateNodeAction
  <2> SUFFICES ASSUME NEW t, t = txn[c] PROVE OccInv'
    BY Zenon
  <2>1. /\ t.pc = "node2" /\ UNCHANGED <<prog, dbvars, gcvars, lastTid, clockvars>>
        /\ Passed(c) \/ txn' = [txn EXCEPT ![c] = DoAbort(t)]
    BY Zenon DEF validate_node
  <2>2. t.pc \in Holding \ {"gen"} /\ t.pc \in {"lock"} \cup Holding
    BY <2>1 DEF Holding
  <2>3. ASSUME Passed(c) PROVE OccInv'
    BY <2>1, <2>2, <2>3, <1>PassedAction, Zenon
  <2>4. ASSUME txn' = [txn EXCEPT ![c] = DoAbort(t)] PROVE OccInv'
    BY <2>1, <2>2, <2>4, DoAbortAction, Zenon
  <2> QED
    BY <2>1, <2>3, <2>4, Zenon
<1> QED
  <2>1. ASSUME NEW c \in Cores, OccInv,
              \/ abort(c) \/ do_search(c) \/ record_at_version(c) \/ record_at_value(c)
              \/ do_tree_put(c) \/ validate(c) \/ ExtractVersionNumber(c) \/ validate_node(c)
        PROVE  OccInv'
    BY ONLY Sorting, <2>1, <1>AbortAction, <1>SearchAction, <1>RecordVersionAction, <1>RecordValueAction,
            <1>PutAction, <1>ValidateAction, <1>ExtractAction, <1>ValidateNodeAction, Zenon
  <2>2. ASSUME NEW T, NEW R, NEW n, NEW t, NEW x, NEW y, TxnInv(t, T, R, n), t.pc = "active"
        PROVE  TxnInv(BumpNode(t, x, y), T, R, n) /\ Continues(t, BumpNode(t, x, y))
    BY ONLY Sorting, <2>2, <1>BumpStep, Zenon
  <2>3. ASSUME NEW c \in Cores, OccInv, txn[c].pc = "active", txn[c].ops # <<>>, Head(txn[c].ops).op = "put",
               txn' = [txn EXCEPT ![c] = [txn[c] EXCEPT !.ops[1].new = FALSE]],
               UNCHANGED <<prog, dbvars, gcvars, lastTid, clockvars>>
        PROVE  OccInv'
    BY ONLY Sorting, <2>3, <1>KnownAction, Zenon
  <2> QED
    BY ONLY <2>1, <2>2, <2>3, Zenon

\* commit(): the locks to take are those of the write set.
CommitTo(t) ==
    [t EXCEPT !.pc = IF t.snap THEN "end" ELSE IF t.wset = <<>> THEN "validate" ELSE "lock",
              !.infos = SortedTuples(t)]

\* commit keeps the invariant.
LEMMA CommitActions ==
    ASSUME Sorting, OccInv
    PROVE  \A c \in Cores : commit(c) => OccInv'
  \* commit(): the locks to take are those of the write set, in the order of
  \* their addresses.
<1>CommitStep.
      ASSUME Sorting, NEW T, NEW R, NEW n, NEW t, NEW u, TxnInv(t, T, R, n), t.pc = "active", u = CommitTo(t)
      PROVE  TxnInv(u, T, R, n) /\ Continues(t, u)
  <2> USE <1>CommitStep
  <2> DEFINE s == SortedTuples(t)
             l == IF t.snap THEN "end" ELSE IF t.wset = <<>> THEN "validate" ELSE "lock"
  <2>1. /\ TxnType(t) /\ Phase(t) /\ OwnLocks(t, T) /\ OwnWrites(t, T, R) /\ OwnNumber(t, n)
        /\ GcRooted(t.scratch, T, R) /\ Reader(t, n)
    BY Zenon DEF TxnInv
  <2>2. /\ WrittenTuples(t) \in SUBSET Tuples /\ Inserts(t) \subseteq WrittenTuples(t)
    BY <2>1, WrittenType, Zenon DEF TxnType
  <2>3. s \in Seq(Tuples) /\ At(s) = WrittenTuples(t) /\ (s = <<>> <=> WrittenTuples(t) = {})
    BY <2>2, SortedList, Zenon DEF SortedTuples
  <2>4. t.wset = <<>> <=> WrittenTuples(t) = {}
    <3>1. t.wset = <<>> => DOMAIN t.wset = {}
      OBVIOUS
    <3>2. t.wset # <<>> => 1 \in DOMAIN t.wset
      BY <2>1, SeqHead, Zenon DEF TxnType
    <3> QED
      BY <3>1, <3>2, Zenon DEF WrittenTuples
  <2>5. u = [t EXCEPT !.pc = l, !.infos = s]
    BY Zenon DEF CommitTo
  <2> HIDE DEF s
  <2>6. /\ l \in {"end", "validate", "lock"} /\ (l = "end" <=> t.snap)
        /\ l = "validate" => t.wset = <<>>
        /\ l = "lock" => t.wset # <<>>
    OBVIOUS
  <2> HIDE DEF l
  <2>7. /\ u.pc = l /\ u.ops = t.ops /\ u.infos = s /\ u.snap = t.snap /\ u.stid = t.stid
        /\ u.cur = t.cur /\ u.tid = t.tid /\ u.rset = t.rset /\ u.wset = t.wset
        /\ u.locked = t.locked /\ u.ctid = t.ctid /\ u.rest = t.rest /\ u.head = t.head
        /\ u.scratch = t.scratch
    BY ONLY <2>1, <2>5 DEF TxnType, Shaped
  <2>8. Shaped(u)
    BY ONLY <2>1, <2>5, Zenon DEF TxnType, Shaped
  <2>9. TxnType(u)
    <3>1. u.pc \in Reading \cup {"undo", "lock"} \cup Holding \cup Writing \cup Calm
          /\ u.pc \notin {"version", "value"}
      BY <2>6, <2>7 DEF Reading, Holding, Writing, Publishing, Calm
    <3> QED
      BY <2>1, <2>3, <2>7, <2>8, <3>1, Zenon DEF TxnType
  <2>10. Inserts(u) = Inserts(t) /\ WrittenTuples(u) = WrittenTuples(t)
    BY <2>7, SameWrites, Zenon
  <2>11. t.locked = Inserts(t) /\ t.head = NoTuple /\ NoTuple \notin t.locked
         /\ (t.snap => t.wset = <<>>)
         /\ \A i, j \in DOMAIN t.wset :
              (i # j /\ t.wset[i].tuple = t.wset[j].tuple) => ~(t.wset[i].insert /\ t.wset[j].insert)
    BY <2>1, t.pc = "active" DEF Phase, Reading, Publishing
  <2>12. Phase(u)
    <3>1. WrittenTuples(u) = At(u.infos) /\ u.locked \subseteq WrittenTuples(u)
          /\ Inserts(u) = u.locked
      BY <2>2, <2>3, <2>7, <2>10, <2>11, Zenon
    <3>2. u.pc = "lock" => u.infos # <<>>
      BY <2>3, <2>4, <2>6, <2>7, Zenon
    <3>3. u.pc # "lock" => u.locked = {} /\ WrittenTuples(u) = {}
      BY <2>4, <2>6, <2>7, <2>10, <3>1, <2>11
    <3>4. CASE l = "lock"
      <4>1. /\ Inserts(u) \subseteq u.locked /\ u.locked \cup At(u.infos) \subseteq WrittenTuples(u)
            /\ WrittenTuples(u) \subseteq u.locked \cup At(u.infos)
        BY ONLY <3>1, Zenon
      <4>2. /\ u.pc = "lock" /\ u.pc \notin Reading /\ u.pc \notin Holding /\ u.pc \notin Writing
            /\ u.pc \notin {"undo"} \cup Writing /\ u.pc \notin Writing \ {"write"}
            /\ u.pc \notin Calm /\ u.pc \notin Publishing
        BY <3>4, <2>7 DEF Reading, Holding, Writing, Publishing, Calm
      <4>3. /\ u.head = NoTuple /\ u.head \notin u.locked /\ (u.snap => u.wset = <<>>)
            /\ \A i, j \in DOMAIN u.wset :
                 (i # j /\ u.wset[i].tuple = u.wset[j].tuple) => ~(u.wset[i].insert /\ u.wset[j].insert)
        BY ONLY <2>7, <2>11, Zenon
      <4> QED
        BY ONLY <4>1, <4>2, <4>3, <3>2, Zenon DEF Phase
    <3>5. CASE l # "lock"
      <4>1. /\ u.pc # "lock" /\ u.pc \notin Reading /\ u.pc \notin Writing
            /\ u.pc \notin {"undo"} \cup Writing /\ u.pc \notin Writing \ {"write"}
            /\ u.pc \notin Publishing
        BY <3>5, <2>6, <2>7 DEF Reading, Holding, Writing, Publishing, Calm
      <4> QED
        BY ONLY <4>1, <2>7, <3>3, <2>11, Zenon DEF Phase
    <3> QED
      BY <3>4, <3>5
  <2>13. OwnLocks(u, T)
    BY <2>1, <2>7, <2>10, <2>11, <2>6, t.pc = "active" DEF OwnLocks, Writing, Publishing
  <2>14. ~Numbered(u) /\ u.pc \notin Publishing \cup {"write", "write2"}
    BY <2>7, <2>6 DEF Numbered, Holding, Writing, Publishing
  <2>15. OwnWrites(u, T, R)
    BY ONLY <2>1, <2>7, <2>14, Zenon DEF OwnWrites
  <2>16. OwnNumber(u, n) /\ Publisher(u, T, R) /\ GcRooted(u.scratch, T, R) /\ Reader(u, n)
    BY <2>1, <2>7, <2>14, Zenon DEF OwnNumber, Publisher, Reader
  <2>17. Continues(t, u)
    <3>1. u.pc \notin {"idle", "post", "clean"}
      BY <2>6, <2>7
    <3> QED
      BY ONLY <2>7, <3>1, SamePrivate, Zenon DEF Continues
  <2> QED
    BY ONLY <2>9, <2>12, <2>13, <2>15, <2>16, <2>17, Zenon DEF TxnInv
  \* commit keeps the invariant.
<1>CommitAction.
      ASSUME Sorting, OccInv, NEW c \in Cores, NEW t, t = txn[c], commit(c)
      PROVE  OccInv'
  <2> USE <1>CommitAction
  <2> DEFINE l == IF t.snap THEN "end" ELSE IF t.wset = <<>> THEN "validate" ELSE "lock"
             u == [t EXCEPT !.pc = l, !.infos = SortedTuples(t)]
  <2>1. /\ t.pc = "active" /\ UNCHANGED <<prog, dbvars, gcvars, lastTid, clockvars>>
        /\ txn' = [txn EXCEPT ![c].pc = l, ![c].infos = SortedTuples(t)]
    BY Zenon DEF commit
  <2>2. TxnInv(t, tuple, tree, tick)
    BY CoreFacts, Zenon
  <2>3. DOMAIN txn = Cores /\ txn = [e \in Cores |-> txn[e]]
    BY Zenon DEF OccInv, OccType
  <2>4. TxnInv(u, tuple, tree, tick) /\ Continues(t, u)
    <3>1. u = CommitTo(t)
      BY Zenon DEF CommitTo
    <3> HIDE DEF u
    <3> QED
      BY <2>1, <2>2, <3>1, <1>CommitStep, Zenon
  <2> HIDE DEF l
  <2>5. txn' = [txn EXCEPT ![c] = u]
    BY <2>1, <2>3, Zenon
  <2> HIDE DEF u
  <2>6. t.pc \notin {"idle", "post", "clean"}
    BY <2>1
  <2> QED
    BY <2>1, <2>4, <2>5, <2>6, QuietStep, Zenon
<1> QED
  BY <1>CommitAction, Zenon

\* A transaction that has given back its locks.
LEMMA EndStep ==
    ASSUME NEW T, NEW R, NEW n, NEW t, NEW u, TxnInv(t, T, R, n), t.pc \notin Publishing,
           t.locked = {}, u.pc \in Calm, u.wset = t.wset, u.locked = t.locked, u.ctid = t.ctid,
           u.head = t.head, u.snap = t.snap, TxnType(u), Reader(u, n),
           GcRooted(u.scratch, T, R)
    PROVE  TxnInv(u, T, R, n)
<1>1. Inserts(u) = Inserts(t) /\ WrittenTuples(u) = WrittenTuples(t)
  BY SameWrites, Zenon
<1>2. /\ u.pc \notin Reading /\ u.pc # "lock" /\ u.pc \notin Holding /\ u.pc \notin Writing
      /\ u.pc \notin {"undo"} \cup Writing /\ u.pc \notin Writing \ {"write"} /\ u.pc \notin Publishing
      /\ u.pc \notin Publishing \cup {"write", "write2"}
      /\ u.pc \notin (Holding \ {"gen"}) \cup Writing
  BY DEF Reading, Holding, Writing, Publishing, Calm
<1>3. Phase(u)
  <2>1. t.head = NoTuple /\ (t.snap => t.wset = <<>>)
        /\ \A i, j \in DOMAIN t.wset :
             (i # j /\ t.wset[i].tuple = t.wset[j].tuple) => ~(t.wset[i].insert /\ t.wset[j].insert)
    BY Zenon DEF TxnInv, Phase
  <2> QED
    BY <1>2, <2>1, Zenon DEF Phase
<1>4. OwnLocks(u, T)
  BY Zenon DEF OwnLocks
<1>5. OwnWrites(u, T, R)
  BY <1>2, Zenon DEF TxnInv, OwnWrites, Numbered
<1>6. OwnNumber(u, n) /\ Publisher(u, T, R)
  BY <1>2, Zenon DEF TxnInv, OwnNumber, Publisher, Numbered
<1> QED
  BY <1>3, <1>4, <1>5, <1>6, Zenon DEF TxnInv

\* Between its last lock and its next transaction a core owns nothing.
LEMMA CalmFacts ==
    ASSUME NEW T, NEW R, NEW n, NEW t, TxnInv(t, T, R, n), t.pc \in Calm
    PROVE  t.locked = {} /\ t.head = NoTuple /\ Private(t) = {} /\ t.pc \notin Publishing
<1>1. t.pc \notin Publishing
  BY DEF Calm, Publishing
<1>2. t.locked = {} /\ t.head = NoTuple
  BY <1>1, Zenon DEF TxnInv, Phase
<1> QED
  BY <1>1, <1>2, Zenon DEF Private

\* All but the label and what is to be queued.
Retains(t, u) ==
    /\ Shaped(u) /\ u.ops = t.ops /\ u.cur = t.cur /\ u.tid = t.tid /\ u.rset = t.rset
    /\ u.wset = t.wset /\ u.infos = t.infos /\ u.locked = t.locked /\ u.ctid = t.ctid
    /\ u.rest = t.rest /\ u.head = t.head /\ u.snap = t.snap /\ u.stid = t.stid

\* A step of a transaction that holds nothing.
LEMMA CalmStep ==
    ASSUME NEW T, NEW R, NEW n, NEW t, NEW u, TxnInv(t, T, R, n), t.pc \in Calm,
           u.pc \in Calm, Retains(t, u), u.scratch \in Seq(GcEntry), GcRooted(u.scratch, T, R)
    PROVE  TxnInv(u, T, R, n)
<1>1. TxnType(t) /\ Reader(t, n)
  BY Zenon DEF TxnInv
<1>2. t.locked = {} /\ t.pc \notin Publishing
  BY CalmFacts, Zenon
<1>3. u.pc \notin {"version", "value"}
  BY DEF Calm
<1>4. TxnType(u)
  BY <1>1, <1>3, Zenon DEF TxnType, Retains
<1>5. Reader(u, n)
  BY <1>1, Zenon DEF Reader, Retains
<1>6. u.pc \in Calm /\ u.wset = t.wset /\ u.locked = t.locked /\ u.ctid = t.ctid
      /\ u.head = t.head /\ u.snap = t.snap /\ GcRooted(u.scratch, T, R)
  BY Zenon DEF Retains
<1> QED
  BY ONLY TxnInv(t, T, R, n), <1>2, <1>4, <1>5, <1>6, EndStep, Zenon

\* The tuples and keys of a write set.
LEMMA EntryTypes ==
    ASSUME NEW t, TxnType(t)
    PROVE  /\ t.locked \subseteq Tuples
           /\ \A i \in DOMAIN t.wset : t.wset[i].tuple \in Tuples /\ t.wset[i].key \in Keys
           /\ t.wset # <<>> => 1 \in DOMAIN t.wset
<1>1. t.locked \in SUBSET Tuples /\ t.wset \in Seq(WriteEntry)
  BY Zenon DEF TxnType
<1>2. \A i \in DOMAIN t.wset : t.wset[i] \in WriteEntry
  BY <1>1, SeqLen, Zenon
<1>3. t.wset # <<>> => 1 \in DOMAIN t.wset
  BY <1>1, SeqHead, Zenon
<1> QED
  BY ONLY <1>1, <1>2, <1>3 DEF WriteEntry

\* A tuple, field by field.
Formed(d) ==
    d = [locked |-> d.locked, intent |-> d.intent, modifying |-> d.modifying, latest |-> d.latest,
         deleting |-> d.deleting, hver |-> d.hver, version |-> d.version, val |-> d.val,
         alloc |-> d.alloc, next |-> d.next, freed |-> d.freed]

\* The type of a tuple, field by field.
LEMMA TupleFields ==
    ASSUME NEW d
    PROVE  d \in TupleRec <=>
             /\ Formed(d) /\ d.locked \in BOOLEAN /\ d.intent \in BOOLEAN /\ d.modifying \in BOOLEAN
             /\ d.latest \in BOOLEAN /\ d.deleting \in BOOLEAN /\ d.hver \in Nat /\ d.version \in Nat
             /\ d.val \in Nat /\ d.alloc \in Nat /\ d.next \in Tuples \cup {NoTuple}
             /\ d.freed \in BOOLEAN
  BY Zenon DEF TupleRec, Formed

Newest(x, v, q) == Tuple(x, v, q, TRUE)

Older(x, v, q) == Tuple(x, v, q, FALSE)

\* The two tuples of a version: the newest and an older one.
LEMMA NewTuple ==
    ASSUME NEW v \in Nat, NEW x \in Nat, NEW q \in Tuples \cup {NoTuple}
    PROVE  /\ \A d : d = Newest(x, v, q) =>
                d \in TupleRec /\ ~d.locked /\ d.version = x /\ d.latest
           /\ \A d : d = Older(x, v, q) =>
                d \in TupleRec /\ ~d.locked /\ d.version = x /\ ~d.latest
<1>1. Size(v) \in Nat
  BY DEF Size
<1>2. 0 \in Nat /\ (v = NoValue) \in BOOLEAN
  OBVIOUS
<1>3. ASSUME NEW d, Formed(d), d.locked = FALSE, d.intent = FALSE, d.modifying = FALSE,
             d.latest \in BOOLEAN, d.deleting \in BOOLEAN, d.hver = 0, d.version = x,
             d.val = v, d.alloc = Size(v), d.next = q, d.freed = FALSE
      PROVE  d \in TupleRec
  BY ONLY v \in Nat, x \in Nat, q \in Tuples \cup {NoTuple}, <1>1, <1>2, <1>3, TupleFields, Zenon
<1>4. ASSUME NEW d, d = Newest(x, v, q)
      PROVE  d \in TupleRec /\ ~d.locked /\ d.version = x /\ d.latest
  <2>1. /\ d.locked = FALSE /\ d.intent = FALSE /\ d.modifying = FALSE /\ d.latest = TRUE
        /\ d.deleting = (v = NoValue) /\ d.hver = 0 /\ d.version = x /\ d.val = v
        /\ d.alloc = Size(v) /\ d.next = q /\ d.freed = FALSE /\ Formed(d)
    BY <1>4, Zenon DEF Newest, Older, Tuple, Formed
  <2>2. d.latest \in BOOLEAN /\ d.deleting \in BOOLEAN
    BY <1>2, <2>1, Zenon
  <2> QED
    BY <1>3, <2>1, <2>2, Zenon
<1>5. ASSUME NEW d, d = Older(x, v, q)
      PROVE  d \in TupleRec /\ ~d.locked /\ d.version = x /\ ~d.latest
  <2>1. /\ d.locked = FALSE /\ d.intent = FALSE /\ d.modifying = FALSE /\ d.latest = FALSE
        /\ d.deleting = (v = NoValue) /\ d.hver = 0 /\ d.version = x /\ d.val = v
        /\ d.alloc = Size(v) /\ d.next = q /\ d.freed = FALSE /\ Formed(d)
    BY <1>5, Zenon DEF Newest, Older, Tuple, Formed
  <2>2. d.latest \in BOOLEAN /\ d.deleting \in BOOLEAN
    BY <1>2, <2>1, Zenon
  <2> QED
    BY <1>3, <2>1, <2>2, Zenon
<1> QED
  BY <1>4, <1>5, Zenon

\* The TID v is above all that t will overwrite.
Above(t, T, v) ==
    \A i \in DOMAIN t.wset : T[t.wset[i].tuple].version = MAX_TID \/ T[t.wset[i].tuple].version <= v

\* The invariant holds initially, and the steps that begin, number and end a
\* transaction keep it.
LEMMA LifeActions ==
    ASSUME Sorting
    PROVE  /\ Loading /\ OccInit => OccInv
           /\ \A c \in Cores : gen_commit_tid(c) \/ post(c) \/ Begin(c) \/ End(c) => (OccInv => OccInv')
  \* A quotient is determined by its remainder's range.
<1>QuotientIs.
      ASSUME NEW x \in Nat, NEW n \in Nat, n > 0, NEW q \in Nat, q * n <= x, x < q * n + n
      PROVE  x \div n = q
  <2> USE <1>QuotientIs
  <2> DEFINE z == x \div n
  <2>1. z \in Nat /\ z * n <= x /\ x < z * n + n /\ z * n \in Nat
    BY Quotient
  <2> HIDE DEF z
  <2>2. q * n \in Nat
    OBVIOUS
  <2>3. ~(z < q)
    BY <2>1, <2>2, Products
  <2>4. ~(q < z)
    BY <2>1, <2>2, Products
  <2> QED
    BY <2>1, <2>3, <2>4 DEF z
  \* The number of a TID in epoch e, and the next one above it.
<1>TidNext.
      ASSUME NEW c \in Cores, NEW e \in Nat, NEW x \in Nat,
             MakeTid(0, 0, e) <= x, x < MakeTid(0, 0, e + 1)
      PROVE  NumId(x) \in Nat /\ x < MakeTid(c, NumId(x) + 1, e)
  <2> USE <1>TidNext
  <2> DEFINE a == e * NumIds  q == x \div NMAXCORES
  <2>1. a \in Nat /\ (e + 1) * NumIds = a + NumIds
    BY Constants
  <2>2. /\ q \in Nat /\ q * NMAXCORES \in Nat
        /\ q * NMAXCORES <= x /\ x < q * NMAXCORES + NMAXCORES
    BY Quotient, Constants
  <2>3. MakeTid(0, 0, e) = a * NMAXCORES /\ MakeTid(0, 0, e + 1) = (a + NumIds) * NMAXCORES
    BY <2>1, Constants DEF MakeTid
  <2>4. NumId(x) = q % NumIds /\ \A n \in Nat : MakeTid(c, n, e) = (a + n) * NMAXCORES + c
    BY DEF NumId, MakeTid
  <2>5. c \in Nat
    BY Constants DEF Cores
  <2> HIDE DEF a, q
  <2>6. a <= q
    <3>1. ASSUME q < a PROVE FALSE
      <4>1. q * NMAXCORES + NMAXCORES <= a * NMAXCORES /\ a * NMAXCORES \in Nat
        BY <3>1, <2>1, <2>2, Constants, Products
      <4> QED
        BY <4>1, <2>2, <2>3, Constants
    <3> QED
      BY <3>1, <2>1, <2>2
  <2>7. q < a + NumIds
    <3>1. ASSUME a + NumIds <= q PROVE FALSE
      <4>1. (a + NumIds) * NMAXCORES <= q * NMAXCORES /\ (a + NumIds) * NMAXCORES \in Nat
        BY <3>1, <2>1, <2>2, Constants, Products
      <4> QED
        BY <4>1, <2>2, <2>3
    <3> QED
      BY <3>1, <2>1, <2>2, Constants
  <2>8. q \div NumIds = e
    BY <2>1, <2>2, <2>6, <2>7, Constants, <1>QuotientIs DEF a
  <2>9. q % NumIds = q - a /\ q % NumIds \in Nat
    BY <2>2, <2>8, Constants, Quotient DEF a
  <2>10. MakeTid(c, NumId(x) + 1, e) = (q + 1) * NMAXCORES + c
    <3>1. NumId(x) + 1 \in Nat /\ a + (NumId(x) + 1) = q + 1
      BY <2>1, <2>2, <2>4, <2>9
    <3> QED
      BY <2>4, <3>1
  <2>11. (q + 1) * NMAXCORES = q * NMAXCORES + NMAXCORES
    BY <2>2, Constants
  <2> QED
    BY <2>2, <2>4, <2>5, <2>9, <2>10, <2>11, Constants
  \* The TID of a snapshot is below every TID of the first open epoch.
<1>SnapshotBelow.
      ASSUME NEW d \in Nat, d > 0
      PROVE  ComputeReadOnlyTid(d) \in Nat /\ ComputeReadOnlyTid(d) < MakeTid(0, 0, d)
  <2> USE <1>SnapshotBelow
  <2> DEFINE b == to_read_only_tick(d) * ReadOnlyEpochMultiplier
  <2>1. b \in Nat /\ b <= d
    BY Quotient, Constants DEF to_read_only_tick
  <2>2. ComputeReadOnlyTid(d) = IF b = 0 THEN MakeTid(0, 0, 0)
                                         ELSE MakeTid(NMAXCORES - 1, NumIds - 1, b - 1)
    BY DEF ComputeReadOnlyTid
  <2> HIDE DEF b
  <2>3. CASE b = 0
    BY <2>2, <2>3, TidOrder
  <2>4. CASE b # 0
    <3>1. b - 1 \in Nat /\ NMAXCORES - 1 \in Cores /\ NumIds - 1 \in Nat /\ NumIds - 1 < NumIds
      BY <2>1, <2>4, Constants DEF Cores
    <3>2. /\ MakeTid(NMAXCORES - 1, NumIds - 1, b - 1) \in Nat
          /\ MakeTid(NMAXCORES - 1, NumIds - 1, b - 1) < MakeTid(0, 0, b)
      BY <3>1, <2>1, TidBounds
    <3> QED
      BY <2>1, <2>2, <2>4, <3>2, TidOrder
  <2> QED
    BY <2>3, <2>4
  \* A step that changes one core's transaction, guard, queue, TID and programs
  \* but neither tuples nor index.
<1>Local.
      ASSUME OccInv, NEW c \in Cores, NEW u, txn' = [txn EXCEPT ![c] = u],
             UNCHANGED <<tuple, tree, tick, done>>,
             guard' \in [Cores -> Nat], queue' \in [Cores -> Seq(GcEntry)], lastTid' \in [Cores -> Nat],
             prog' \in [Cores -> Seq([snap : BOOLEAN, abort : BOOLEAN, ops : Seq(Ops)])],
             \A d \in Cores : d # c => /\ guard'[d] = guard[d] /\ queue'[d] = queue[d]
                                       /\ lastTid'[d] = lastTid[d] /\ prog'[d] = prog[d],
             TxnInv(u, tuple, tree, tick), Guarded(guard'[c], u, tick, done),
             GcRooted(queue'[c], tuple, tree), lastTid'[c] < Limit(tick),
             guard'[c] # NoGuard => prog'[c] # <<>>,
             Private(u) = Private(txn[c]), u.locked = txn[c].locked
      PROVE  OccInv'
  <2> USE <1>Local
  <2>1. /\ txn' = [d \in Cores |-> txn'[d]] /\ DOMAIN txn' = Cores
        /\ txn'[c] = u /\ \A d \in Cores : d # c => txn'[d] = txn[d]
    BY Zenon DEF OccInv, OccType
  <2>2. ASSUME NEW d \in Cores PROVE CoreInv(d)'
    <3>1. CoreInv(d)
      BY Zenon DEF OccInv
    <3>2. CASE d = c
      BY <2>1, <3>2, Zenon DEF CoreInv
    <3>3. CASE d # c
      BY <2>1, <3>1, <3>3, Zenon DEF CoreInv
    <3> QED
      BY <3>2, <3>3, Zenon
  <2>3. OccType'
    BY <2>1, Zenon DEF OccInv, OccType
  <2>4. \A d \in Cores : Private(txn'[d]) = Private(txn[d]) /\ txn'[d].locked = txn[d].locked
    BY <2>1, Zenon
  <2>5. TreeInv'
    BY <2>4, Zenon DEF OccInv, TreeInv
  <2>6. TupleInv'
    BY <2>4, Zenon DEF OccInv, TupleInv
  <2>7. Exclusive'
    BY <2>4, Zenon DEF OccInv, Exclusive
  <2> QED
    BY <2>2, <2>3, <2>5, <2>6, <2>7, Zenon DEF OccInv
  \* Parts of a queue can be cleaned when the queue can.
<1>PickRooted.
      ASSUME Sorting, NEW s \in Seq(GcEntry), NEW I, I \subseteq DOMAIN s, NEW T, NEW R, GcRooted(s, T, R)
      PROVE  Pick(s, I) \in Seq(GcEntry) /\ GcRooted(Pick(s, I), T, R)
  <2> USE <1>PickRooted
  <2>1. /\ Pick(s, I) \in Seq(GcEntry)
        /\ \A i \in DOMAIN Pick(s, I) : Ascending(I)[i] \in I /\ Pick(s, I)[i] = s[Ascending(I)[i]]
    BY ONLY Sorting, s \in Seq(GcEntry), I \subseteq DOMAIN s, PickFacts
  <2>2. \A i \in DOMAIN Pick(s, I) : \E j \in DOMAIN s : Pick(s, I)[i] = s[j]
    BY <2>1, Zenon
  <2> QED
    BY <2>1, <2>2, Zenon DEF GcRooted
  \* on_post_rcu_region_completion
<1>PostAction.
      ASSUME Sorting, OccInv, NEW c \in Cores, post(c)
      PROVE  OccInv'
  <2> USE <1>PostAction
  <2> SUFFICES ASSUME NEW t, t = txn[c], NEW q, q = queue[c] PROVE OccInv'
    BY Zenon
  <2>1. /\ t.pc = "post" /\ UNCHANGED <<prog, dbvars, lastTid, clockvars>>
        /\ \/ Go(c, "idle") /\ UNCHANGED gcvars
           \/ \E due \in SUBSET DOMAIN q :
                /\ txn' = [txn EXCEPT ![c].pc = "clean", ![c].scratch = Pick(q, due)]
                /\ queue' = [queue EXCEPT ![c] = Pick(q, DOMAIN q \ due)]
    BY Zenon DEF post
  <2>2. /\ TxnInv(t, tuple, tree, tick) /\ Guarded(guard[c], t, tick, done) /\ Shaped(t)
        /\ GcRooted(q, tuple, tree) /\ lastTid[c] < Limit(tick)
        /\ t.scratch \in Seq(GcEntry) /\ GcRooted(t.scratch, tuple, tree)
    BY CoreFacts, Zenon DEF TxnType
  <2>3. UNCHANGED <<tuple, tree, tick, done, guard, prog, lastTid>>
    BY <2>1, Zenon DEF dbvars, clockvars
  <2>4. /\ DOMAIN txn = Cores /\ txn = [e \in Cores |-> txn[e]]
        /\ guard \in [Cores -> Nat] /\ queue \in [Cores -> Seq(GcEntry)] /\ lastTid \in [Cores -> Nat]
        /\ prog \in [Cores -> Seq([snap : BOOLEAN, abort : BOOLEAN, ops : Seq(Ops)])]
        /\ q \in Seq(GcEntry)
    BY Zenon DEF OccInv, OccType
  <2>5. guard[c] # NoGuard => prog[c] # <<>>
    BY Zenon DEF OccInv, CoreInv
  <2>6. t.pc \in Calm /\ "idle" \in Calm /\ "clean" \in Calm /\ t.pc \in {"idle", "post", "clean"}
    BY <2>1 DEF Calm
  <2>7. ASSUME NEW u, Retains(t, u), u.pc \in {"idle", "clean"}, u.scratch \in Seq(GcEntry), GcRooted(u.scratch, tuple, tree),
               txn' = [txn EXCEPT ![c] = u], NEW s \in Seq(GcEntry), GcRooted(s, tuple, tree),
               queue' = [queue EXCEPT ![c] = s]
        PROVE  OccInv'
    <3>1. u.pc \in Calm /\ u.pc \in {"idle", "post", "clean"}
      BY <2>6, <2>7, Zenon
    <3>2. TxnInv(u, tuple, tree, tick) /\ Private(u) = Private(t)
      <4>1. Retains(t, u) /\ u.scratch \in Seq(GcEntry) /\ GcRooted(u.scratch, tuple, tree)
        BY ONLY <2>7, Zenon
      <4>2. TxnInv(t, tuple, tree, tick) /\ t.pc \in Calm /\ u.pc \in Calm
        BY ONLY <2>2, <2>6, <3>1, Zenon
      <4>3. TxnInv(u, tuple, tree, tick)
        BY ONLY <4>1, <4>2, CalmStep, Zenon
      <4>4. u.locked = t.locked /\ u.head = t.head
        BY ONLY <4>1, Zenon DEF Retains
      <4> QED
        BY ONLY <4>3, <4>4, SamePrivate, Zenon
    <3>3. Guarded(guard[c], u, tick, done) /\ u.locked = txn[c].locked
      <4>1. u.ctid = t.ctid /\ u.snap = t.snap /\ u.stid = t.stid /\ u.locked = t.locked
        BY ONLY <2>7, Zenon DEF Retains
      <4> QED
        BY ONLY t = txn[c], <2>2, <2>6, <3>1, <4>1, Zenon DEF Guarded
    <3>4. queue' \in [Cores -> Seq(GcEntry)] /\ queue'[c] = s
          /\ \A d \in Cores : d # c => queue'[d] = queue[d]
      BY <2>4, <2>7, Zenon
    <3>5. /\ guard' \in [Cores -> Nat] /\ lastTid' \in [Cores -> Nat]
          /\ prog' \in [Cores -> Seq([snap : BOOLEAN, abort : BOOLEAN, ops : Seq(Ops)])]
          /\ \A d \in Cores : d # c => /\ guard'[d] = guard[d] /\ queue'[d] = queue[d]
                                       /\ lastTid'[d] = lastTid[d] /\ prog'[d] = prog[d]
          /\ lastTid'[c] < Limit(tick) /\ (guard'[c] # NoGuard => prog'[c] # <<>>)
      BY ONLY <2>2, <2>3, <2>4, <2>5, <3>4, Zenon
    <3>6. GcRooted(queue'[c], tuple, tree) /\ Guarded(guard'[c], u, tick, done) /\ Private(u) = Private(txn[c])
      BY ONLY t = txn[c], <2>3, <2>7, <3>2, <3>3, <3>4, Zenon
    <3> QED
      BY ONLY OccInv, c \in Cores, <2>3, <2>7, <3>2, <3>3, <3>4, <3>5, <3>6, <1>Local, Zenon
  <2>8. ASSUME Go(c, "idle"), UNCHANGED gcvars PROVE OccInv'
    <3>1. txn' = [txn EXCEPT ![c] = [t EXCEPT !.pc = "idle"]] /\ queue' = [queue EXCEPT ![c] = q]
      BY <2>4, <2>8, Zenon DEF Go, gcvars
    <3>2. ASSUME NEW u, u = [t EXCEPT !.pc = "idle"], txn' = [txn EXCEPT ![c] = u] PROVE OccInv'
      <4>1. Shaped(u)
        BY ONLY <2>2, <3>2, Zenon DEF Shaped
      <4>2. u.pc = "idle" /\ u.scratch = t.scratch /\ Retains(t, u)
        BY ONLY <2>2, <3>2, <4>1 DEF Shaped, Retains
      <4> QED
        BY <2>2, <2>4, <2>7, <3>1, <3>2, <4>2, Zenon
    <3> QED
      BY <3>1, <3>2, Zenon
  <2>9. ASSUME NEW due \in SUBSET DOMAIN q,
               txn' = [txn EXCEPT ![c].pc = "clean", ![c].scratch = Pick(q, due)],
               queue' = [queue EXCEPT ![c] = Pick(q, DOMAIN q \ due)]
        PROVE  OccInv'
    <3>1. /\ Pick(q, due) \in Seq(GcEntry) /\ GcRooted(Pick(q, due), tuple, tree)
          /\ Pick(q, DOMAIN q \ due) \in Seq(GcEntry) /\ GcRooted(Pick(q, DOMAIN q \ due), tuple, tree)
      BY <2>2, <2>4, <1>PickRooted, Zenon
    <3>2. ASSUME NEW u, NEW r, r = Pick(q, due), u = [t EXCEPT !.pc = "clean", !.scratch = r] PROVE OccInv'
      <4>1. Shaped(u)
        BY ONLY <2>2, <3>2, Zenon DEF Shaped
      <4>2. u.pc = "clean" /\ u.scratch = r /\ Retains(t, u)
        BY ONLY <2>2, <3>2, <4>1 DEF Shaped, Retains
      <4>3. txn' = [txn EXCEPT ![c] = u]
        BY ONLY <2>4, <2>9, <3>2, t = txn[c], Zenon
      <4> QED
        BY ONLY <2>7, <2>9, <3>1, <3>2, <4>2, <4>3, Zenon
    <3> QED
      BY <3>2, Zenon
  <2> QED
    BY <2>1, <2>8, <2>9, Zenon
  \* A transaction that owns nothing.
<1>EmptyStep.
      ASSUME NEW T, NEW R, NEW n, NEW u, TxnType(u), u.pc \in Calm \cup {"active"}, u.wset = <<>>,
             u.locked = {}, u.head = NoTuple, u.ctid = 0, u.ctid < Limit(n), Reader(u, n),
             GcRooted(u.scratch, T, R)
      PROVE  TxnInv(u, T, R, n) /\ Private(u) = {}
  <2> USE <1>EmptyStep
  <2>1. DOMAIN u.wset = {}
    OBVIOUS
  <2>2. Inserts(u) = {} /\ WrittenTuples(u) = {}
    BY <2>1, Zenon DEF Inserts, WrittenTuples
  <2>3. /\ u.pc # "lock" /\ u.pc \notin Holding /\ u.pc \notin Writing
        /\ u.pc \notin {"undo"} \cup Writing /\ u.pc \notin Writing \ {"write"} /\ u.pc \notin Publishing
    BY DEF Reading, Holding, Writing, Publishing, Calm
  <2>4. Phase(u)
    BY <2>1, <2>2, <2>3, Zenon DEF Phase
  <2>5. OwnLocks(u, T) /\ OwnWrites(u, T, R) /\ OwnNumber(u, n) /\ Publisher(u, T, R)
    BY <2>1, <2>3, Zenon DEF OwnLocks, OwnWrites, OwnNumber, Publisher, Numbered
  <2>6. Private(u) = {}
    BY Zenon DEF Private
  <2> QED
    BY <2>4, <2>5, <2>6, Zenon DEF TxnInv
  \* The transaction of a core that has just begun, or ended, one.
<1>Begun.
      ASSUME NEW T, NEW R, NEW n \in Nat, n <= MaxTick, NEW u, Shaped(u), u.pc \in {"idle", "active", "post"},
             u.snap \in BOOLEAN, u.stid \in Nat, u.ops \in Seq(Ops), u.cur = NoTuple, u.tid = 0,
             u.rset = <<>>, u.wset = <<>>, u.infos = <<>>, u.locked = {}, u.ctid = 0,
             u.rest = NoTuple, u.head = NoTuple, u.scratch = <<>>
      PROVE  TxnInv(u, T, R, n) /\ Private(u) = {}
  <2> USE <1>Begun
  <2>4. \A S : <<>> \in Seq(S)
    OBVIOUS
  <2>5. DOMAIN <<>> = {} /\ 0 \in Nat
    OBVIOUS
  <2>6. 0 < Limit(n)
    BY LimitFacts, Zenon
  <2>7. u.pc \in Calm \cup {"active"} /\ u.pc \in Reading \cup Calm /\ u.pc \notin {"version", "value"}
    BY DEF Calm, Reading
  <2>8. TxnType(u)
    BY <2>4, <2>5, <2>7, Zenon DEF TxnType
  <2>9. Reader(u, n) /\ GcRooted(u.scratch, T, R)
    BY <2>5, <2>6, Zenon DEF Reader, GcRooted
  <2> QED
    BY <2>6, <2>7, <2>8, <2>9, <1>EmptyStep, Zenon
  \* Begin keeps the invariant: a new transaction owns nothing.
<1>BeginAction.
      ASSUME OccInv, NEW c \in Cores, Begin(c)
      PROVE  OccInv'
  <2> USE <1>BeginAction
  <2> DEFINE j == Head(prog[c])
             s == IF j.snap THEN ComputeReadOnlyTid(done + 1) ELSE MAX_TID
             z == {h.id : h \in hist}
  <2>1. /\ txn[c].pc = "idle" /\ prog[c] # <<>> /\ Enter(c) /\ guard'[c] = tick
        /\ txn' = [txn EXCEPT ![c] = [NoTxn EXCEPT !.pc = "active", !.snap = j.snap, !.ops = j.ops,
                                                   !.user = j.abort, !.stid = s, !.after = z]]
        /\ UNCHANGED <<prog, dbvars, gcvars, lastTid>>
    BY Zenon DEF Begin
  <2>2. /\ UNCHANGED <<tuple, tree, tick, done, queue, lastTid, prog>>
        /\ \E g : guard' = [guard EXCEPT ![c] = g]
    BY <2>1, Zenon DEF Enter, dbvars, gcvars
  <2>3. guard' \in [Cores -> Nat] /\ \A d \in Cores : d # c => guard'[d] = guard[d]
    BY <2>1, <2>2, TypeFacts, Zenon
  <2>4. j.snap \in BOOLEAN /\ j.ops \in Seq(Ops)
    <3>1. prog[c] \in Seq([snap : BOOLEAN, abort : BOOLEAN, ops : Seq(Ops)])
      BY TypeFacts, Zenon
    <3>2. j \in [snap : BOOLEAN, abort : BOOLEAN, ops : Seq(Ops)]
      BY ONLY <2>1, <3>1, SeqHead, Zenon
    <3> QED
      BY ONLY <3>2
  <2>5. /\ done + 1 \in Nat /\ done + 1 > 0 /\ tick \in Nat /\ tick <= MaxTick /\ done < tick /\ tick # NoGuard
    BY TypeFacts DEF NoGuard
  <2>6. s \in Nat /\ (j.snap => s < MakeTid(0, 0, done + 1))
    <3>1. ComputeReadOnlyTid(done + 1) \in Nat /\ ComputeReadOnlyTid(done + 1) < MakeTid(0, 0, done + 1)
      BY <2>5, <1>SnapshotBelow, Zenon
    <3>2. MAX_TID \in Nat
      BY <2>5, LimitFacts, Zenon
    <3> QED
      BY <3>1, <3>2, Zenon
  <2>7. TxnInv(txn[c], tuple, tree, tick) /\ GcRooted(queue[c], tuple, tree) /\ lastTid[c] < Limit(tick)
    BY CoreFacts, Zenon
  <2>8. txn[c].locked = {} /\ Private(txn[c]) = {}
    <3>1. txn[c].pc \in Calm
      BY <2>1 DEF Calm
    <3> QED
      BY <2>7, <3>1, CalmFacts, Zenon
  <2> HIDE DEF s, z, j
  <2>9. ASSUME NEW u, u = [NoTxn EXCEPT !.pc = "active", !.snap = j.snap, !.ops = j.ops,
                                        !.user = j.abort, !.stid = s, !.after = z],
               txn' = [txn EXCEPT ![c] = u]
        PROVE  OccInv'
    <3>1. /\ TxnInv(u, tuple, tree, tick) /\ Private(u) = {} /\ u.pc = "active" /\ u.snap = j.snap
          /\ u.stid = s /\ u.ctid = 0 /\ u.locked = {}
      <4>1. Shaped(u)
        BY ONLY <2>9, Zenon DEF Shaped, NoTxn
      <4>2. /\ u.pc = "active" /\ u.ops = j.ops /\ u.infos = <<>> /\ u.snap = j.snap /\ u.stid = s
            /\ u.cur = NoTuple /\ u.tid = 0 /\ u.rset = <<>> /\ u.wset = <<>>
            /\ u.locked = {} /\ u.ctid = 0 /\ u.rest = NoTuple /\ u.head = NoTuple /\ u.scratch = <<>>
        BY ONLY <2>9, Zenon DEF NoTxn
      <4>3. u.pc \in {"active", "post"} /\ u.snap \in BOOLEAN /\ u.stid \in Nat /\ u.ops \in Seq(Ops)
        BY <2>4, <2>6, <4>2, Zenon
      <4>4. TxnInv(u, tuple, tree, tick) /\ Private(u) = {}
        BY ONLY <2>5, <4>1, <4>2, <4>3, <1>Begun, Zenon
      <4> QED
        BY <4>2, <4>4, Zenon
    <3>2. u.pc \notin {"idle", "post", "clean"} /\ tick <= tick
      BY <2>5, <3>1
    <3>3. Guarded(tick, u, tick, done)
      BY ONLY <2>5, <2>6, <3>1, <3>2, Zenon DEF Guarded
    <3> QED
      <4>1. /\ queue' \in [Cores -> Seq(GcEntry)] /\ lastTid' \in [Cores -> Nat]
            /\ prog' \in [Cores -> Seq([snap : BOOLEAN, abort : BOOLEAN, ops : Seq(Ops)])]
            /\ GcRooted(queue'[c], tuple, tree) /\ lastTid'[c] < Limit(tick) /\ prog'[c] # <<>>
        BY <2>1, <2>2, <2>7, TypeFacts, Zenon
      <4>2. \A d \in Cores : d # c => /\ guard'[d] = guard[d] /\ queue'[d] = queue[d]
                                      /\ lastTid'[d] = lastTid[d] /\ prog'[d] = prog[d]
        BY <2>2, <2>3, Zenon
      <4>3. Guarded(guard'[c], u, tick, done) /\ Private(u) = Private(txn[c]) /\ u.locked = txn[c].locked
        BY <2>1, <2>8, <3>1, <3>3, Zenon
      <4> QED
        BY ONLY OccInv, c \in Cores, <2>2, <2>3, <2>9, <3>1, <4>1, <4>2, <4>3, <1>Local, Zenon
  <2> QED
    BY <2>1, <2>9, Zenon
  \* End keeps the invariant: nothing is owned at the end of a region.
<1>EndAction.
      ASSUME OccInv, NEW c \in Cores, End(c)
      PROVE  OccInv'
  <2> USE <1>EndAction
  <2>1. /\ txn[c].pc = "end" /\ guard' = [guard EXCEPT ![c] = NoGuard]
        /\ prog' = [prog EXCEPT ![c] = Tail(@)]
        /\ txn' = [txn EXCEPT ![c] = [NoTxn EXCEPT !.pc = "post"]]
        /\ UNCHANGED <<tuple, tree, tick, done, queue, lastTid>>
    BY Zenon DEF End, Exit, dbvars, gcvars
  <2>2. TxnInv(txn[c], tuple, tree, tick) /\ GcRooted(queue[c], tuple, tree) /\ lastTid[c] < Limit(tick)
        /\ Guarded(guard[c], txn[c], tick, done)
    BY CoreFacts, Zenon
  <2>3. txn[c].locked = {} /\ Private(txn[c]) = {} /\ guard[c] # NoGuard
    <3>1. txn[c].pc \in Calm /\ txn[c].pc \notin {"idle", "post", "clean"}
      BY <2>1 DEF Calm
    <3> QED
      BY <2>2, <3>1, CalmFacts, Zenon DEF Guarded
  <2>4. prog[c] \in Seq([snap : BOOLEAN, abort : BOOLEAN, ops : Seq(Ops)]) /\ prog[c] # <<>>
    BY <2>3, TypeFacts, Zenon DEF OccInv, CoreInv
  <2>5. Tail(prog[c]) \in Seq([snap : BOOLEAN, abort : BOOLEAN, ops : Seq(Ops)])
    BY <2>4, SeqHead, Zenon
  <2>6. /\ prog' \in [Cores -> Seq([snap : BOOLEAN, abort : BOOLEAN, ops : Seq(Ops)])]
        /\ guard' \in [Cores -> Nat] /\ guard'[c] = NoGuard
        /\ \A d \in Cores : d # c => guard'[d] = guard[d] /\ prog'[d] = prog[d]
    <3>1. NoGuard \in Nat
      BY DEF NoGuard
    <3> QED
      BY <2>1, <2>5, <3>1, TypeFacts, Zenon
  <2>7. ASSUME NEW u, u = [NoTxn EXCEPT !.pc = "post"], txn' = [txn EXCEPT ![c] = u]
        PROVE  OccInv'
    <3>1. Shaped(u)
      BY ONLY <2>7, Zenon DEF Shaped, NoTxn
    <3>2. /\ u.pc = "post" /\ u.ops = <<>> /\ u.infos = <<>> /\ u.snap = FALSE /\ u.stid = 0
          /\ u.cur = NoTuple /\ u.tid = 0 /\ u.rset = <<>> /\ u.wset = <<>>
          /\ u.locked = {} /\ u.ctid = 0 /\ u.rest = NoTuple /\ u.head = NoTuple /\ u.scratch = <<>>
      BY ONLY <2>7, Zenon DEF NoTxn
    <3>3. tick \in Nat /\ tick <= MaxTick /\ <<>> \in Seq(Ops) /\ 0 \in Nat
      BY TypeFacts
    <3>4. TxnInv(u, tuple, tree, tick) /\ Private(u) = {}
      <4>1. u.pc \in {"active", "post"} /\ u.snap \in BOOLEAN /\ u.stid \in Nat /\ u.ops \in Seq(Ops)
        BY <3>2, <3>3, Zenon
      <4> QED
        BY ONLY <3>1, <3>2, <3>3, <4>1, <1>Begun, Zenon
    <3>5. u.pc \in {"idle", "post", "clean"}
      BY <3>2
    <3>6. Guarded(NoGuard, u, tick, done)
      BY <3>2, <3>5, Zenon DEF Guarded
    <3> QED
      <4>1. /\ queue' \in [Cores -> Seq(GcEntry)] /\ lastTid' \in [Cores -> Nat]
            /\ GcRooted(queue'[c], tuple, tree) /\ lastTid'[c] < Limit(tick)
            /\ Guarded(guard'[c], u, tick, done) /\ (guard'[c] # NoGuard => prog'[c] # <<>>)
        BY <2>1, <2>2, <2>6, <3>6, TypeFacts, Zenon
      <4>2. \A d \in Cores : d # c => /\ guard'[d] = guard[d] /\ queue'[d] = queue[d]
                                      /\ lastTid'[d] = lastTid[d] /\ prog'[d] = prog[d]
        BY <2>1, <2>6, Zenon
      <4>3. /\ Private(u) = Private(txn[c]) /\ u.locked = txn[c].locked
            /\ UNCHANGED <<tuple, tree, tick, done>>
        BY <2>1, <2>3, <3>2, <3>4, Zenon
      <4> QED
        BY ONLY OccInv, c \in Cores, <2>6, <2>7, <3>4, <4>1, <4>2, <4>3, <1>Local, Zenon
  <2> QED
    BY <2>1, <2>7, Zenon
  \* The tuples and the index of a loaded database.
<1>InitDatabase.
      ASSUME Loading, OccInit
      PROVE  /\ DOMAIN tree \subseteq Keys /\ tree \in [DOMAIN tree -> Tuples]
             /\ \A j, k \in DOMAIN tree : tree[j] = tree[k] => j = k
             /\ tuple \in [Tuples -> TupleRec]
             /\ \A p \in Tuples : ~tuple[p].locked /\ tuple[p].version \in {MIN_TID, MakeTid(0, 1, 1)}
             /\ \A k \in DOMAIN tree : tuple[tree[k]].version = MakeTid(0, 1, 1)
  <2> USE <1>InitDatabase
  <2>1. scen.init \in [Keys -> Nat]
    BY OccAssumption DEF OccInit
  <2>2. Loads(scen.init) /\ tree = InitTree(scen.init)
    BY <2>1, Zenon DEF Loading, OccInit
  <2>3. /\ DOMAIN tree \subseteq Keys /\ tree \in [DOMAIN tree -> Tuples]
        /\ \A j, k \in DOMAIN tree : tree[j] = tree[k] => j = k
    BY ONLY <2>2, Zenon DEF Loads
  <2>4. PICK x : x = MakeTid(0, 1, 1)
    BY Zenon
  <2>5. 0 \in Cores /\ 1 \in Nat /\ 1 < NumIds
    BY Constants DEF Cores
  <2>6. x \in Nat /\ MIN_TID \in Nat /\ NoValue \in Nat /\ NoTuple \in Tuples \cup {NoTuple}
    BY ONLY <2>4, <2>5, TidBounds DEF MIN_TID, NoValue
  <2> DEFINE Held(p) == \E k \in DOMAIN tree : tree[k] = p
             Val(p) == scen.init[CHOOSE k \in DOMAIN tree : tree[k] = p]
             d(p) == IF Held(p) THEN Newest(x, Val(p), NoTuple) ELSE Older(MIN_TID, NoValue, NoTuple)
  <2>7. tuple = [p \in Tuples |-> d(p)]
    BY ONLY OccInit, <2>4, Zenon DEF OccInit, Newest, Older
  <2>8. \A p : Held(p) => Val(p) \in Nat
    BY ONLY <2>1, <2>3, Zenon
  <2>9. \A p : Held(p) => d(p) \in TupleRec /\ ~d(p).locked /\ d(p).version = x
    <3> SUFFICES ASSUME NEW p, Held(p) PROVE d(p) \in TupleRec /\ ~d(p).locked /\ d(p).version = x
      BY Zenon
    <3>1. d(p) = Newest(x, Val(p), NoTuple) /\ Val(p) \in Nat
      BY <2>8, Zenon
    <3> HIDE DEF d, Val
    <3>2. PICK v \in Nat : v = Val(p)
      BY <3>1, Zenon
    <3>3. PICK e : e = Newest(x, v, NoTuple)
      BY Zenon
    <3>4. e \in TupleRec /\ ~e.locked /\ e.version = x
      BY ONLY <2>6, <3>2, <3>3, NewTuple
    <3> QED
      BY ONLY <3>1, <3>2, <3>3, <3>4, Zenon
  <2>10. \A p : ~Held(p) => d(p) \in TupleRec /\ ~d(p).locked /\ d(p).version = MIN_TID
    <3> SUFFICES ASSUME NEW p, ~Held(p) PROVE d(p) \in TupleRec /\ ~d(p).locked /\ d(p).version = MIN_TID
      BY Zenon
    <3>1. d(p) = Older(MIN_TID, NoValue, NoTuple)
      BY Zenon
    <3> HIDE DEF d, Val
    <3>2. PICK e : e = Older(MIN_TID, NoValue, NoTuple)
      BY Zenon
    <3>3. e \in TupleRec /\ ~e.locked /\ e.version = MIN_TID
      BY ONLY <2>6, <3>2, NewTuple
    <3> QED
      BY ONLY <3>1, <3>2, <3>3, Zenon
  <2> HIDE DEF d, Val
  <2>11. \A p \in Tuples : /\ tuple[p] \in TupleRec /\ ~tuple[p].locked
                           /\ tuple[p].version \in {MIN_TID, x}
                           /\ Held(p) => tuple[p].version = x
    BY ONLY <2>7, <2>9, <2>10, Zenon
  <2>12. tuple \in [Tuples -> TupleRec]
    BY ONLY <2>7, <2>11, Zenon
  <2>13. \A k \in DOMAIN tree : tree[k] \in Tuples /\ Held(tree[k])
    BY ONLY <2>3, Zenon
  <2> QED
    BY ONLY <2>3, <2>4, <2>11, <2>12, <2>13, Zenon
  \* No transaction: the state of a core between two of them.
<1>InitTxn.
      ASSUME NEW T, NEW R, NEW n \in Nat, n <= MaxTick
      PROVE  TxnInv(NoTxn, T, R, n) /\ Private(NoTxn) = {} /\ Shaped(NoTxn) /\ NoTxn.locked = {}
             /\ NoTxn.pc = "idle" /\ NoTxn.ctid = 0
  <2> USE <1>InitTxn
  <2>1. PICK u : u = NoTxn
    BY Zenon
  <2>2. Shaped(u)
    BY ONLY <2>1, Zenon DEF Shaped, NoTxn
  <2>3. /\ u.pc = "idle" /\ u.snap = FALSE /\ u.stid = 0 /\ u.ops = <<>> /\ u.cur = NoTuple
        /\ u.tid = 0 /\ u.rset = <<>> /\ u.wset = <<>> /\ u.infos = <<>> /\ u.locked = {} /\ u.ctid = 0
        /\ u.rest = NoTuple /\ u.head = NoTuple /\ u.scratch = <<>>
    BY ONLY <2>1, Zenon DEF NoTxn
  <2>4. u.pc \in {"idle", "active", "post"} /\ u.snap \in BOOLEAN /\ u.stid \in Nat /\ u.ops \in Seq(Ops)
    <3>1. 0 \in Nat /\ <<>> \in Seq(Ops)
      OBVIOUS
    <3> QED
      BY ONLY <2>3, <3>1, Zenon
  <2>5. TxnInv(u, T, R, n) /\ Private(u) = {}
    BY ONLY n \in Nat, n <= MaxTick, <2>2, <2>3, <2>4, <1>Begun, Zenon
  <2> QED
    BY ONLY <2>1, <2>2, <2>3, <2>5, Zenon
  \* The invariant holds of a loaded database.
<1>InitInv.
      ASSUME Loading, OccInit
      PROVE  OccInv
  <2> USE <1>InitInv
  <2>1. tick = 1 /\ done = 0 /\ guard = [c \in Cores |-> NoGuard]
    BY Zenon DEF OccInit, ClockInit
  <2>2. PICK x : x = MakeTid(0, 1, 1)
    BY Zenon
  <2>3. 0 \in Cores /\ 1 \in Nat /\ 1 < NumIds /\ 1 <= MaxTick
    BY Constants DEF Cores
  <2>4. x \in Nat /\ x < Limit(1) /\ 0 < x
    <3>1. /\ x \in Nat /\ MakeTid(0, 0, 1) \in Nat /\ x < MakeTid(0, 0, 1 + 1)
          /\ MakeTid(0, 0, 1) <= x /\ MakeTid(0, 0, 1) < x
      BY ONLY <2>2, <2>3, TidBounds
    <3> QED
      BY <3>1 DEF Limit
  <2>5. Limit(1) \in Nat /\ Limit(1) <= MAX_TID /\ 0 < Limit(1) /\ MAX_TID \in Nat
    BY ONLY <2>3, LimitFacts, Zenon
  <2>6. x # MIN_TID /\ x # MAX_TID /\ MIN_TID < Limit(1)
    BY ONLY <2>4, <2>5 DEF MIN_TID
  <2>7. /\ DOMAIN tree \subseteq Keys /\ tree \in [DOMAIN tree -> Tuples]
        /\ \A j, k \in DOMAIN tree : tree[j] = tree[k] => j = k
        /\ tuple \in [Tuples -> TupleRec]
        /\ \A p \in Tuples : ~tuple[p].locked /\ tuple[p].version \in {MIN_TID, x}
        /\ \A k \in DOMAIN tree : tuple[tree[k]].version = x
    BY ONLY Loading, OccInit, <2>2, <1>InitDatabase, Zenon
  <2>8. /\ txn = [c \in Cores |-> NoTxn] /\ queue = [c \in Cores |-> <<>>]
        /\ lastTid = [c \in Cores |-> MIN_TID]
    BY Zenon DEF OccInit
  <2>9. OccType
    <3>1. prog \in [Cores -> Seq([snap : BOOLEAN, abort : BOOLEAN, ops : Seq(Ops)])]
      <4>1. scen \in Scenarios /\ prog = scen.progs
        BY Zenon DEF OccInit
      <4> QED
        BY ONLY <4>1, OccAssumption, Zenon
    <3>2. guard \in [Cores -> Nat] /\ lastTid \in [Cores -> Nat] /\ queue \in [Cores -> Seq(GcEntry)]
      <4>1. NoGuard \in Nat /\ MIN_TID \in Nat /\ <<>> \in Seq(GcEntry)
        BY DEF NoGuard, MIN_TID
      <4> QED
        BY ONLY <2>1, <2>8, <4>1, Zenon
    <3>3. tick \in Nat /\ done \in Nat /\ done < tick /\ tick <= MaxTick
      BY ONLY <2>1, <2>3
    <3>4. DOMAIN txn = Cores /\ txn = [c \in Cores |-> txn[c]]
      BY ONLY <2>8, Zenon
    <3> QED
      BY ONLY <2>7, <3>1, <3>2, <3>3, <3>4, Zenon DEF OccType
  <2>10. \A c \in Cores : CoreInv(c) /\ Private(txn[c]) = {}
    <3> SUFFICES ASSUME NEW c \in Cores PROVE CoreInv(c) /\ Private(txn[c]) = {}
      BY Zenon
    <3>1. txn[c] = NoTxn /\ guard[c] = NoGuard /\ queue[c] = <<>> /\ lastTid[c] = MIN_TID
      BY ONLY c \in Cores, <2>1, <2>8, Zenon
    <3>2. /\ TxnInv(NoTxn, tuple, tree, tick) /\ Private(NoTxn) = {} /\ NoTxn.pc = "idle" /\ NoTxn.ctid = 0
      BY ONLY <2>1, <2>3, <1>InitTxn, Zenon
    <3>3. Guarded(NoGuard, NoTxn, tick, done)
      BY ONLY <3>2 DEF Guarded
    <3>4. GcRooted(<<>>, tuple, tree)
      <4>1. DOMAIN <<>> = {}
        OBVIOUS
      <4> QED
        BY ONLY <4>1, Zenon DEF GcRooted
    <3> QED
      BY ONLY <2>1, <2>6, <3>1, <3>2, <3>3, <3>4, Zenon DEF CoreInv
  <2>11. TreeInv
    BY ONLY <2>6, <2>7, Zenon DEF TreeInv
  <2>12. TupleInv
    <3>1. \A p \in Tuples : tuple[p].version = MAX_TID \/ tuple[p].version < Limit(tick)
      BY ONLY <2>1, <2>4, <2>6, <2>7, Zenon
    <3> QED
      BY ONLY <2>7, <3>1, Zenon DEF TupleInv
  <2>13. Exclusive
    BY ONLY <2>10, Zenon DEF Exclusive
  <2> QED
    BY ONLY <2>9, <2>10, <2>11, <2>12, <2>13, Zenon DEF OccInv
  \* A transaction that has a TID above all it will overwrite.
<1>GenStep.
      ASSUME NEW T, NEW R, NEW n, NEW t, NEW u, TxnInv(t, T, R, n), t.pc = "gen", u.pc = "validate",
             u.ctid # 0, u.ctid < Limit(n), Above(t, T, u.ctid), u.scratch = t.scratch, u.rset = t.rset,
             u.locked = t.locked, u.wset = t.wset, u.head = t.head, u.snap = t.snap, u.tid = t.tid, TxnType(u)
      PROVE  TxnInv(u, T, R, n)
  <2> USE <1>GenStep
  <2>1. /\ TxnType(t) /\ Phase(t) /\ OwnLocks(t, T) /\ OwnWrites(t, T, R)
        /\ GcRooted(t.scratch, T, R) /\ Reader(t, n)
    BY Zenon DEF TxnInv
  <2>2. Inserts(u) = Inserts(t) /\ WrittenTuples(u) = WrittenTuples(t)
    BY SameWrites, Zenon
  <2>3. /\ u.pc \notin Reading /\ u.pc \notin Writing /\ u.pc \notin Calm /\ u.pc # "lock"
        /\ u.pc \notin {"undo"} \cup Writing /\ u.pc \notin Writing \ {"write"} /\ u.pc \notin Publishing
        /\ u.pc \notin Publishing \cup {"write", "write2"} /\ t.pc \notin Writing
        /\ t.pc \in {"lock"} \cup Holding /\ t.pc \in Holding /\ t.pc \notin Publishing
    BY DEF Reading, Holding, Writing, Publishing, Calm
  <2>4. Phase(u)
    BY <2>1, <2>2, <2>3, Zenon DEF Phase
  <2>5. OwnLocks(u, T)
    BY <2>1, <2>2, <2>3, Zenon DEF OwnLocks
  <2>6. OwnWrites(u, T, R)
    BY <2>1, <2>3, Zenon DEF OwnWrites, Above
  <2>7. OwnNumber(u, n) /\ Publisher(u, T, R) /\ GcRooted(u.scratch, T, R) /\ Reader(u, n)
    BY <2>1, <2>3, Zenon DEF OwnNumber, Publisher, Reader
  <2> QED
    BY <2>4, <2>5, <2>6, <2>7, Zenon DEF TxnInv
  \* The versions, and the next TID of a core.
<1>GenNumber.
      ASSUME Sorting, NEW c \in Cores, NEW e \in Nat, e <= MaxTick, NEW x \in Nat, x < Limit(e),
             NEW V, \A v \in V : v \in Nat /\ (v = MAX_TID \/ v < Limit(e)),
             NEW own, own = IF EpochId(x) = e THEN x ELSE MakeTid(0, 0, e),
             NEW K, K = ({own} \cup V) \ {MAX_TID},
             NEW m, m = NumId(Max(K)) + 1, m < NumIds, NEW new, new = MakeTid(c, m, e)
      PROVE  /\ new \in Nat /\ new # 0 /\ new < Limit(e) /\ MakeTid(0, 0, e) <= new
             /\ \A v \in V : v = MAX_TID \/ v <= new
  <2> USE <1>GenNumber
  <2>1. /\ Limit(e) \in Nat /\ Limit(e) <= MAX_TID /\ MAX_TID \in Nat
        /\ MakeTid(0, 0, e) \in Nat /\ MakeTid(0, 0, e) < Limit(e)
    <3>1. e + 1 \in Nat /\ e < e + 1
      OBVIOUS
    <3>2. MakeTid(0, 0, e) \in Nat /\ MakeTid(0, 0, e) < MakeTid(0, 0, e + 1)
      BY <3>1, TidOrder, Zenon
    <3> QED
      BY <3>2, LimitFacts, Zenon DEF Limit
  <2>2. own \in Nat /\ own < Limit(e) /\ MakeTid(0, 0, e) <= own
    <3>1. CASE EpochId(x) = e
      <4>1. MakeTid(0, 0, e) <= x
        BY <3>1, TidEpoch, Zenon
      <4> QED
        BY <3>1, <4>1, Zenon
    <3>2. CASE EpochId(x) # e
      BY ONLY <2>1, <3>2, own = IF EpochId(x) = e THEN x ELSE MakeTid(0, 0, e)
    <3> QED
      BY <3>1, <3>2, Zenon
  <2>3. K \in SUBSET (0 .. Limit(e)) /\ own \in K /\ \A v \in K : v \in Nat /\ v < Limit(e)
    BY ONLY <2>1, <2>2, K = ({own} \cup V) \ {MAX_TID},
            \A v \in V : v \in Nat /\ (v = MAX_TID \/ v < Limit(e))
  <2> DEFINE y == Max(K)
  <2>4. y \in K /\ \A v \in K : v <= y
    BY <2>1, <2>3, Zenon DEF Sorting
  <2> HIDE DEF y
  <2>5. y \in Nat /\ y < Limit(e) /\ MakeTid(0, 0, e) <= y
    BY ONLY <2>1, <2>2, <2>3, <2>4
  <2>6. NumId(y) \in Nat /\ y < MakeTid(c, NumId(y) + 1, e)
    BY <2>5, <1>TidNext, Zenon DEF Limit
  <2>7. m \in Nat /\ m = NumId(y) + 1
    BY <2>6 DEF y
  <2>8. /\ MakeTid(c, m, e) \in Nat /\ MakeTid(0, 0, e) <= MakeTid(c, m, e)
        /\ MakeTid(c, m, e) < MakeTid(0, 0, e + 1)
    BY <2>7, TidBounds, Zenon
  <2>9. new \in Nat /\ new < Limit(e) /\ MakeTid(0, 0, e) <= new /\ y < new
    BY <2>6, <2>7, <2>8, Zenon DEF Limit
  <2>10. \A v \in V : v = MAX_TID \/ v \in K
    BY Zenon
  <2>11. ASSUME NEW v \in V, v # MAX_TID PROVE v <= new
    <3>1. v \in Nat /\ v <= y
      BY <2>3, <2>4, <2>10, <2>11, Zenon
    <3> QED
      BY ONLY <2>5, <2>9, <3>1
  <2>12. new # 0
    BY ONLY <2>5, <2>9
  <2> QED
    BY <2>9, <2>11, <2>12, Zenon
  \* gen_commit_tid keeps the invariant: its TID is above every version it will
  \* replace, below the next tick's, and the core's own last.
<1>GenAction.
      ASSUME Sorting, OccInv, NEW c \in Cores, gen_commit_tid(c)
      PROVE  OccInv'
  <2> USE <1>GenAction
  <2> SUFFICES ASSUME NEW t, t = txn[c] PROVE OccInv'
    BY Zenon
  <2> DEFINE V == {t.rset[i].tid : i \in DOMAIN t.rset}
                  \cup {tuple[t.wset[i].tuple].version : i \in {j \in DOMAIN t.wset : ~t.wset[j].insert}}
  <2>1. \E own, K, m, new :
          /\ t.pc = "gen" /\ UNCHANGED <<prog, dbvars, gcvars, clockvars>>
          /\ own = IF EpochId(lastTid[c]) = tick THEN lastTid[c] ELSE MakeTid(0, 0, tick)
          /\ K = ({own} \cup V) \ {MAX_TID} /\ m = NumId(Max(K)) + 1 /\ m < NumIds
          /\ new = MakeTid(c, m, tick)
          /\ txn' = [txn EXCEPT ![c].pc = "validate", ![c].ctid = new]
          /\ lastTid' = [lastTid EXCEPT ![c] = new]
    <3> DEFINE own == IF EpochId(lastTid[c]) = tick THEN lastTid[c] ELSE MakeTid(0, 0, tick)
               A == {own} \cup {t.rset[i].tid : i \in DOMAIN t.rset}
                          \cup {tuple[t.wset[i].tuple].version :
                                  i \in {j \in DOMAIN t.wset : ~t.wset[j].insert}}
               K == A \ {MAX_TID}
               m == NumId(Max(K)) + 1
               new == MakeTid(c, m, tick)
    <3>1. /\ t.pc = "gen" /\ UNCHANGED <<prog, dbvars, gcvars, clockvars>>
          /\ m < NumIds /\ txn' = [txn EXCEPT ![c].pc = "validate", ![c].ctid = new]
          /\ lastTid' = [lastTid EXCEPT ![c] = new]
      BY Zenon DEF gen_commit_tid
    <3> HIDE DEF own
    <3>2. K = ({own} \cup V) \ {MAX_TID}
      BY Zenon
    <3> HIDE DEF V, K
    <3> QED
      BY <3>1, <3>2, Zenon DEF own
  <2>2. /\ TxnInv(t, tuple, tree, tick) /\ TxnType(t) /\ Phase(t) /\ OwnLocks(t, tuple) /\ Reader(t, tick)
        /\ Guarded(guard[c], t, tick, done) /\ Shaped(t)
        /\ GcRooted(queue[c], tuple, tree) /\ lastTid[c] < Limit(tick) /\ tuple \in [Tuples -> TupleRec]
    BY CoreFacts, Zenon
  <2>3. \A v \in V : v \in Nat /\ (v = MAX_TID \/ v < Limit(tick))
    <3>1. \A p \in Tuples : tuple[p].version \in Nat /\ (tuple[p].version = MAX_TID \/ tuple[p].version < Limit(tick))
      <4>1. \A p \in Tuples : tuple[p].version \in Nat
        BY <2>2 DEF TupleRec
      <4> QED
        BY <4>1, Zenon DEF OccInv, TupleInv
    <3>2. \A i \in DOMAIN t.wset : t.wset[i].tuple \in Tuples
      BY <2>2, EntryTypes, Zenon
    <3>3. \A i \in DOMAIN t.rset : t.rset[i].tid \in Nat /\ t.rset[i].tid < Limit(tick)
      <4>1. \A i \in DOMAIN t.rset : t.rset[i] \in ReadEntry
        BY <2>2, SeqLen, Zenon DEF TxnType
      <4>2. \A i \in DOMAIN t.rset : t.rset[i].tid \in Nat
        BY <4>1 DEF ReadEntry
      <4> QED
        BY <2>2, <4>2, Zenon DEF Reader
    <3> QED
      BY <3>1, <3>2, <3>3, Zenon
  <2>4. \A i \in DOMAIN t.wset : tuple[t.wset[i].tuple].version = MAX_TID
                                 \/ tuple[t.wset[i].tuple].version \in V
    <3>1. t.pc \in Holding /\ t.pc \notin Writing
      <4>1. t.pc = "gen"
        BY <2>1, Zenon
      <4> QED
        BY ONLY <4>1 DEF Holding, Writing, Publishing
    <3>2. t.locked = WrittenTuples(t)
      BY <2>2, <3>1, Zenon DEF Phase
    <3>3. ASSUME NEW i \in DOMAIN t.wset, t.wset[i].insert PROVE tuple[t.wset[i].tuple].version = MAX_TID
      <4>1. t.wset[i].tuple \in Inserts(t) /\ t.wset[i].tuple \in t.locked
        BY <3>2, <3>3, Zenon DEF Inserts, WrittenTuples
      <4> QED
        BY <2>2, <3>1, <4>1, Zenon DEF OwnLocks
    <3> QED
      BY <3>3, Zenon
  <2> HIDE DEF V
  <2>5. PICK own, K, m, new :
          /\ t.pc = "gen" /\ UNCHANGED <<prog, dbvars, gcvars, clockvars>>
          /\ own = IF EpochId(lastTid[c]) = tick THEN lastTid[c] ELSE MakeTid(0, 0, tick)
          /\ K = ({own} \cup V) \ {MAX_TID} /\ m = NumId(Max(K)) + 1 /\ m < NumIds
          /\ new = MakeTid(c, m, tick)
          /\ txn' = [txn EXCEPT ![c].pc = "validate", ![c].ctid = new]
          /\ lastTid' = [lastTid EXCEPT ![c] = new]
    BY <2>1, Zenon
  <2>6. lastTid \in [Cores -> Nat] /\ tick \in Nat /\ tick <= MaxTick /\ lastTid[c] \in Nat
        /\ guard[c] \in Nat
    BY TypeFacts, Zenon
  <2>7. /\ new \in Nat /\ new # 0 /\ new < Limit(tick) /\ MakeTid(0, 0, tick) <= new
        /\ \A v \in V : v = MAX_TID \/ v <= new
    <3>1. lastTid[c] < Limit(tick) /\ own = (IF EpochId(lastTid[c]) = tick THEN lastTid[c] ELSE MakeTid(0, 0, tick))
          /\ K = ({own} \cup V) \ {MAX_TID} /\ m = NumId(Max(K)) + 1 /\ m < NumIds
          /\ new = MakeTid(c, m, tick)
      BY <2>2, <2>5, Zenon
    <3> QED
      BY ONLY Sorting, c \in Cores, <2>3, <2>6, <3>1, <1>GenNumber
  <2>8. ASSUME NEW u, u = [t EXCEPT !.pc = "validate", !.ctid = new] PROVE OccInv'
    <3>1. Shaped(u)
      BY ONLY <2>2, <2>8, Zenon DEF Shaped
    <3>2. /\ u.pc = "validate" /\ u.ops = t.ops /\ u.infos = t.infos /\ u.snap = t.snap /\ u.stid = t.stid
          /\ u.cur = t.cur /\ u.tid = t.tid /\ u.rset = t.rset /\ u.wset = t.wset
          /\ u.locked = t.locked /\ u.ctid = new /\ u.rest = t.rest /\ u.head = t.head
          /\ u.scratch = t.scratch
      BY ONLY <2>2, <2>8 DEF Shaped
    <3>3. TxnType(u)
      <4>1. u.pc \in Holding /\ u.pc \notin {"version", "value"}
        BY <3>2 DEF Holding
      <4> QED
        BY ONLY <2>2, <2>7, <3>1, <3>2, <4>1, Zenon DEF TxnType
    <3>4. Above(t, tuple, u.ctid)
      BY ONLY <2>4, <2>7, <3>2, Zenon DEF Above
    <3>5. u.ctid # 0 /\ u.ctid < Limit(tick) /\ t.pc = "gen"
      BY <2>5, <2>7, <3>2, Zenon
    <3>6. TxnInv(u, tuple, tree, tick)
      BY ONLY <2>2, <3>2, <3>3, <3>4, <3>5, <1>GenStep, Zenon
    <3>7. Guarded(guard[c], u, tick, done)
      <4>1. t.pc \notin {"idle", "post", "clean"} /\ u.pc \notin {"idle", "post", "clean"}
        BY <3>2, <3>5
      <4>2. guard[c] # NoGuard /\ guard[c] <= tick
        BY <2>2, <4>1, Zenon DEF Guarded
      <4>3. MakeTid(0, 0, guard[c]) \in Nat /\ MakeTid(0, 0, tick) \in Nat
            /\ MakeTid(0, 0, guard[c]) <= MakeTid(0, 0, tick)
        BY <2>6, <4>2, TidOrder, Zenon
      <4>4. MakeTid(0, 0, guard[c]) <= u.ctid
        BY ONLY <2>7, <3>2, <4>3
      <4> QED
        BY ONLY <2>2, <3>2, <4>1, <4>2, <4>4, Zenon DEF Guarded
    <3>8. txn' = [txn EXCEPT ![c] = u]
      <4>1. DOMAIN txn = Cores /\ txn = [e \in Cores |-> txn[e]]
        BY TypeFacts, Zenon
      <4> QED
        BY ONLY <2>5, <2>8, <4>1, t = txn[c], Zenon
    <3>9. UNCHANGED <<tuple, tree, tick, done, guard, prog, queue>>
      BY <2>5, Zenon DEF dbvars, clockvars, gcvars
    <3>10. lastTid' \in [Cores -> Nat] /\ lastTid'[c] = new
           /\ \A d \in Cores : d # c => lastTid'[d] = lastTid[d]
      BY <2>5, <2>6, <2>7, Zenon
    <3>11. guard[c] # NoGuard => prog[c] # <<>>
      BY Zenon DEF OccInv, CoreInv
    <3>12. Private(u) = Private(t)
      BY ONLY <3>2, SamePrivate, Zenon
    <3> QED
      BY <2>2, <2>7, <3>2, <3>6, <3>7, <3>8, <3>9, <3>10, <3>11, <3>12, TypeFacts, <1>Local, Zenon
  <2> QED
    BY <2>8, Zenon
<1> QED
  BY <1>PostAction, <1>BeginAction, <1>EndAction, <1>GenAction, <1>InitInv, Zenon

\* The ticker keeps the invariant: a tick is over only when the guards of it
\* are gone.
LEMMA TickerActions ==
    ASSUME OccInv, TickerStep
    PROVE  OccInv'
  \* Small steps of numbers.
<1>Successors.
      \A a, b \in Nat : a <= b => a + 1 \in Nat /\ b + 1 \in Nat /\ a + 1 <= b + 1
    OBVIOUS
  \* The invariant survives the clock.
<1>TickFrame.
      ASSUME NEW n \in Nat, NEW m \in Nat, n <= m, m <= MaxTick, NEW T, NEW R, NEW t, TxnInv(t, T, R, n)
      PROVE  TxnInv(t, T, R, m)
  <2> USE <1>TickFrame
  <2>1. Limit(n) \in Nat /\ Limit(m) \in Nat /\ Limit(n) <= Limit(m)
    <3>1. n + 1 \in Nat /\ m + 1 \in Nat /\ n + 1 <= m + 1
      OBVIOUS
    <3> QED
      BY <3>1, TidOrder, Zenon DEF Limit
  <2>2. t.ctid \in Nat /\ t.tid \in Nat /\ t.rset \in Seq(ReadEntry)
    BY Zenon DEF TxnInv, TxnType
  <2>3. t.ctid < Limit(n) /\ t.tid < Limit(n) /\ \A i \in DOMAIN t.rset : t.rset[i].tid < Limit(n)
    BY Zenon DEF TxnInv, OwnNumber, Reader
  <2>4. \A i \in DOMAIN t.rset : t.rset[i].tid \in Nat
    <3>1. \A i \in DOMAIN t.rset : t.rset[i] \in ReadEntry
      BY ONLY <2>2, SeqLen, Zenon
    <3> QED
      BY ONLY <3>1 DEF ReadEntry
  <2>5. t.ctid < Limit(m) /\ t.tid < Limit(m)
    BY ONLY <2>1, <2>2, <2>3
  <2>6. \A i \in DOMAIN t.rset : t.rset[i].tid < Limit(m)
    BY ONLY <2>1, <2>3, <2>4
  <2> QED
    BY <2>5, <2>6, Zenon DEF TxnInv, OwnNumber, Reader
  \* A step of the ticker keeps the invariant.
<1>TickerAction.
      ASSUME OccInv, TickerStep
      PROVE  OccInv'
  <2> USE <1>TickerAction
  <2>1. /\ tick \in Nat /\ done \in Nat /\ done < tick /\ tick <= MaxTick /\ guard \in [Cores -> Nat]
        /\ UNCHANGED <<prog, txn, tuple, tree, queue, lastTid, guard>>
    BY TypeFacts, Zenon DEF TickerStep, dbvars, gcvars, Advance, Complete
  <2>2. /\ tick' \in Nat /\ done' \in Nat /\ done' < tick' /\ tick' <= MaxTick
        /\ tick <= tick' /\ done <= done'
        /\ \A d \in Cores : guard[d] # NoGuard /\ done < guard[d] /\ guard[d] <= tick
                              => done' < guard[d] /\ guard[d] <= tick'
    <3>1. MaxTick \in Nat
      BY Constants, Zenon
    <3>2. \/ done = tick - 1 /\ tick < MaxTick /\ tick' = tick + 1 /\ done' = done
          \/ /\ done = tick - 2 /\ done' = tick - 1 /\ tick' = tick
             /\ \A c \in Cores : guard[c] \in {NoGuard, tick}
      BY Zenon DEF TickerStep, Advance, Complete
    <3> QED
      BY ONLY <2>1, <3>1, <3>2
  <2>3. Limit(tick) \in Nat /\ Limit(tick') \in Nat /\ Limit(tick) <= Limit(tick')
    <3>1. tick + 1 \in Nat /\ tick' + 1 \in Nat /\ tick + 1 <= tick' + 1
      <4>1. tick \in Nat /\ tick' \in Nat /\ tick <= tick'
        BY <2>1, <2>2, Zenon
      <4> QED
        BY ONLY <4>1, <1>Successors, Zenon
    <3> QED
      BY <3>1, TidOrder, Zenon DEF Limit
  <2>4. /\ MakeTid(0, 0, done + 1) \in Nat /\ MakeTid(0, 0, done' + 1) \in Nat
        /\ MakeTid(0, 0, done + 1) <= MakeTid(0, 0, done' + 1)
    <3>1. done + 1 \in Nat /\ done' + 1 \in Nat /\ done + 1 <= done' + 1
      <4>1. done \in Nat /\ done' \in Nat /\ done <= done'
        BY <2>1, <2>2, Zenon
      <4> QED
        BY ONLY <4>1, <1>Successors, Zenon
    <3> QED
      BY <3>1, TidOrder, Zenon
  <2>5. ASSUME NEW d \in Cores PROVE CoreInv(d)'
    <3>1. /\ TxnInv(txn[d], tuple, tree, tick) /\ Guarded(guard[d], txn[d], tick, done)
          /\ GcRooted(queue[d], tuple, tree) /\ lastTid[d] < Limit(tick)
          /\ guard[d] # NoGuard => prog[d] # <<>>
      BY Zenon DEF OccInv, CoreInv
    <3>2. TxnInv(txn[d], tuple, tree, tick')
      BY <2>1, <2>2, <3>1, <1>TickFrame, Zenon
    <3>3. txn[d].stid \in Nat
      BY <3>1, Zenon DEF TxnInv, TxnType
    <3>4. txn[d].stid < MakeTid(0, 0, done + 1) => txn[d].stid < MakeTid(0, 0, done' + 1)
      BY ONLY <2>4, <3>3
    <3>5. Guarded(guard[d], txn[d], tick', done')
      BY ONLY <2>2, <2>5, <3>1, <3>4, Zenon DEF Guarded
    <3>6. lastTid[d] < Limit(tick')
      <4>1. lastTid[d] \in Nat
        BY TypeFacts, Zenon
      <4> QED
        BY ONLY <2>3, <3>1, <4>1
    <3>7. /\ tuple' = tuple /\ tree' = tree /\ txn'[d] = txn[d] /\ guard'[d] = guard[d]
          /\ queue'[d] = queue[d] /\ lastTid'[d] = lastTid[d] /\ prog'[d] = prog[d]
      BY <2>1, Zenon
    <3> QED
      BY ONLY <3>1, <3>2, <3>5, <3>6, <3>7, Zenon DEF CoreInv
  <2>6. OccType'
    BY <2>1, <2>2, Zenon DEF OccInv, OccType
  <2>7. TreeInv' /\ Exclusive'
    BY <2>1, Zenon DEF OccInv, TreeInv, Exclusive
  <2>8. TupleInv'
    <3>1. \A p \in Tuples : tuple[p].version \in Nat
      <4>1. tuple \in [Tuples -> TupleRec]
        BY Zenon DEF OccInv, OccType
      <4> QED
        BY ONLY <4>1 DEF TupleRec
    <3>2. ASSUME NEW p \in Tuples
          PROVE  tuple[p].version < Limit(tick) => tuple[p].version < Limit(tick')
      BY ONLY <2>3, <3>1, <3>2
    <3> QED
      BY <2>1, <3>2, Zenon DEF OccInv, TupleInv
  <2> QED
    BY <2>5, <2>6, <2>7, <2>8, Zenon DEF OccInv
<1> QED
  BY <1>TickerAction, Zenon

\* What the operations on a tuple do to it.
LEMMA TupleOps ==
    ASSUME NEW d \in TupleRec
    PROVE  /\ unlock(d) \in TupleRec /\ ~unlock(d).locked
           /\ unlock(d).version = d.version /\ unlock(d).latest = d.latest
           /\ clear_latest(d) \in TupleRec /\ ~clear_latest(d).latest
           /\ clear_latest(d).version = d.version /\ clear_latest(d).locked = d.locked
           /\ clear_latest(d).intent = d.intent
           /\ lock(d, TRUE) \in TupleRec /\ lock(d, TRUE).locked /\ lock(d, TRUE).intent
           /\ lock(d, TRUE).version = d.version /\ lock(d, TRUE).latest = d.latest
<1>1. /\ Formed(d) /\ d.locked \in BOOLEAN /\ d.intent \in BOOLEAN /\ d.modifying \in BOOLEAN
      /\ d.latest \in BOOLEAN /\ d.deleting \in BOOLEAN /\ d.hver \in Nat /\ d.version \in Nat
      /\ d.val \in Nat /\ d.alloc \in Nat /\ d.next \in Tuples \cup {NoTuple}
      /\ d.freed \in BOOLEAN
  BY TupleFields, Zenon
<1>2. unlock(d) \in TupleRec /\ ~unlock(d).locked
      /\ unlock(d).version = d.version /\ unlock(d).latest = d.latest
  <2>1. ASSUME NEW h, h \in Nat, NEW e, e = [d EXCEPT !.locked = FALSE, !.intent = FALSE, !.modifying = FALSE, !.hver = h]
        PROVE  e \in TupleRec /\ e.locked = FALSE /\ e.version = d.version /\ e.latest = d.latest
    <3>1. e \in TupleRec
      BY ONLY d \in TupleRec, <2>1, Zenon DEF TupleRec
    <3>2. e.locked = FALSE /\ e.version = d.version /\ e.latest = d.latest
      BY ONLY <1>1, <2>1, Zenon DEF Formed
    <3> QED
      BY <3>1, <3>2
  <2>2. (IF d.modifying \/ d.intent THEN d.hver + 1 ELSE d.hver) \in Nat
    <3>1. d.hver + 1 \in Nat
      BY ONLY <1>1
    <3> QED
      BY <1>1, <3>1, Zenon
  <2>3. unlock(d) = [d EXCEPT !.locked = FALSE, !.intent = FALSE, !.modifying = FALSE,
                              !.hver = IF d.modifying \/ d.intent THEN d.hver + 1 ELSE d.hver]
    BY Zenon DEF unlock
  <2> QED
    BY ONLY <2>1, <2>2, <2>3, Zenon
<1>3. clear_latest(d) \in TupleRec /\ ~clear_latest(d).latest
      /\ clear_latest(d).version = d.version /\ clear_latest(d).locked = d.locked
      /\ clear_latest(d).intent = d.intent
  <2>1. ASSUME NEW e, e = [d EXCEPT !.latest = FALSE]
        PROVE  /\ e \in TupleRec /\ e.latest = FALSE /\ e.version = d.version
               /\ e.locked = d.locked /\ e.intent = d.intent
    <3>1. e \in TupleRec
      BY ONLY d \in TupleRec, <2>1, Zenon DEF TupleRec
    <3>2. e.latest = FALSE /\ e.version = d.version /\ e.locked = d.locked /\ e.intent = d.intent
      BY ONLY <1>1, <2>1, Zenon DEF Formed
    <3> QED
      BY <3>1, <3>2
  <2> QED
    BY <2>1, Zenon DEF clear_latest
<1>4. lock(d, TRUE) \in TupleRec /\ lock(d, TRUE).locked /\ lock(d, TRUE).intent
      /\ lock(d, TRUE).version = d.version /\ lock(d, TRUE).latest = d.latest
  <2>1. ASSUME NEW e, e = [d EXCEPT !.locked = TRUE, !.intent = TRUE]
        PROVE  /\ e \in TupleRec /\ e.locked = TRUE /\ e.intent = TRUE
               /\ e.version = d.version /\ e.latest = d.latest
    <3>1. e \in TupleRec
      BY ONLY d \in TupleRec, <2>1, Zenon DEF TupleRec
    <3>2. e.locked = TRUE /\ e.intent = TRUE /\ e.version = d.version /\ e.latest = d.latest
      BY ONLY <1>1, <2>1, Zenon DEF Formed
    <3> QED
      BY <3>1, <3>2
  <2>2. lock(d, TRUE) = [d EXCEPT !.locked = TRUE, !.intent = TRUE]
    BY Zenon DEF lock
  <2> QED
    BY <2>1, <2>2, Zenon
<1> QED
  BY <1>2, <1>3, <1>4, Zenon

\* The database before the step.
LEMMA DbFacts ==
    ASSUME OccInv
    PROVE  /\ tuple \in [Tuples -> TupleRec] /\ DOMAIN tree \subseteq Keys /\ tree \in [DOMAIN tree -> Tuples]
           /\ \A j, k \in DOMAIN tree : tree[j] = tree[k] => j = k
           /\ \A k \in DOMAIN tree : tree[k] \in Tuples /\ tuple[tree[k]].version # MIN_TID
           /\ \A p \in Tuples : /\ tuple[p] \in TupleRec
                                /\ tuple[p].version = MIN_TID => ~tuple[p].locked
                                /\ tuple[p].version = MAX_TID \/ tuple[p].version < Limit(tick)
  BY Zenon DEF OccInv, OccType, TreeInv, TupleInv

\* The tuple whose write is carried out is locked by its transaction, the newest
\* of its record, and no newer than the transaction's number.
LEMMA FirstWrite ==
    ASSUME OccInv, NEW c \in Cores, NEW t, t = txn[c], t.pc \in Writing, t.wset # <<>>,
           NEW p, p = t.wset[1].tuple
    PROVE  /\ p \in Tuples /\ p \in t.locked /\ p \in Private(t) /\ t.wset[1] \in WriteEntry
           /\ Head(t.wset) = t.wset[1]
           /\ tuple[p] \in TupleRec /\ tuple[p].version # MIN_TID
           /\ ~t.wset[1].insert => tuple[p].version # MAX_TID
           /\ tuple[p].version = MAX_TID \/ tuple[p].version < Limit(tick)
           /\ t.ctid \in Nat /\ t.ctid # MIN_TID /\ t.ctid < Limit(tick) /\ t.ctid # MAX_TID
<1>1. /\ TxnType(t) /\ Phase(t) /\ OwnLocks(t, tuple) /\ OwnWrites(t, tuple, tree) /\ OwnNumber(t, tick)
      /\ tick \in Nat /\ tick <= MaxTick
  BY CoreFacts, Zenon
<1>2. t.pc \in Writing
  OBVIOUS
<1>3. 1 \in DOMAIN t.wset /\ t.wset[1] \in WriteEntry /\ Head(t.wset) = t.wset[1] /\ t.wset \in Seq(WriteEntry)
  <2>1. t.wset \in Seq(WriteEntry)
    BY <1>1, Zenon DEF TxnType
  <2> QED
    BY ONLY <2>1, t.wset # <<>>, SeqHead, Zenon
<1>4. p \in Tuples
  BY ONLY <1>3, p = t.wset[1].tuple DEF WriteEntry
<1>5. p \in t.locked
  <2>1. WrittenTuples(t) \subseteq t.locked
    BY <1>1, <1>2, Zenon DEF Phase
  <2> QED
    BY <1>3, <2>1, Zenon DEF WrittenTuples
<1>6. p \in Private(t)
  <2>1. p # NoTuple
    BY ONLY <1>4, Constants, Zenon
  <2> QED
    BY ONLY <1>5, <2>1, Zenon DEF Private
<1>7. tuple[p].version # MIN_TID
  BY <1>1, <1>3, Zenon DEF OwnWrites
<1>8. ASSUME ~t.wset[1].insert, tuple[p].version = MAX_TID
      PROVE  FALSE
  <2>1. p \in Inserts(t)
    BY <1>1, <1>5, <1>8, Zenon DEF OwnLocks
  <2>2. PICK i \in DOMAIN t.wset : t.wset[i].insert /\ t.wset[i].tuple = p
    BY ONLY <2>1, Zenon DEF Inserts
  <2>3. i # 1 /\ 1 < i
    <3>1. i \in 1 .. Len(t.wset) /\ Len(t.wset) \in Nat
      BY ONLY <1>3, <2>2, SeqLen, Zenon
    <3>2. i # 1
      BY ONLY <1>8, <2>2, Zenon
    <3> QED
      BY ONLY <3>1, <3>2
  <2>4. \A k, j \in DOMAIN t.wset :
           (k # j /\ t.wset[k].tuple = t.wset[j].tuple) => (t.pc \in Writing /\ k < j => t.wset[k].insert)
    BY ONLY <1>1, Zenon DEF Phase
  <2>5. t.wset[1].tuple = t.wset[i].tuple
    BY ONLY <2>2, p = t.wset[1].tuple, Zenon
  <2> QED
    BY ONLY <1>2, <1>3, <1>8, <2>2, <2>3, <2>4, <2>5, Zenon
<1>9. tuple[p] \in TupleRec /\ (tuple[p].version = MAX_TID \/ tuple[p].version < Limit(tick))
  BY <1>4, DbFacts, Zenon
<1>10. t.ctid \in Nat /\ t.ctid # 0 /\ t.ctid < Limit(tick)
  <2>1. Numbered(t)
    BY ONLY <1>2, t.wset # <<>>, Zenon DEF Numbered
  <2> QED
    BY <1>1, <2>1, Zenon DEF OwnNumber, TxnType
<1>11. t.ctid # MAX_TID /\ t.ctid # MIN_TID
  <2>1. Limit(tick) \in Nat /\ Limit(tick) <= MAX_TID /\ MAX_TID \in Nat
    BY ONLY <1>1, LimitFacts, Zenon
  <2>2. \A a, b, m \in Nat : a < b /\ b <= m => a # m
    BY ONLY SMT
  <2> QED
    BY ONLY <1>10, <2>1, <2>2, Zenon DEF MIN_TID
<1> QED
  BY ONLY <1>3, <1>4, <1>5, <1>6, <1>7, <1>8, <1>9, <1>10, <1>11, Zenon

\* A transaction that installs a newer version has made it, and locked the one
\* that it replaces.
Installs(t, T, p, h) ==
    /\ t.wset # <<>> /\ t.pc \in Writing /\ t.rest = p /\ T[p].version # MAX_TID
    /\ h \in Tuples /\ h \in Private(t) /\ h \notin t.locked
    /\ T[h].latest /\ T[h].version = t.ctid

\* A transaction that publishes has a new head of its own, numbered as the
\* transaction is.
LEMMA PublishHead ==
    ASSUME OccInv, NEW c \in Cores, NEW t, t = txn[c], t.pc \in Publishing,
           NEW p, p = t.wset[1].tuple, NEW h, h = t.head
    PROVE  Installs(t, tuple, p, h)
<1>1. TxnType(t) /\ Phase(t) /\ Publisher(t, tuple, tree)
  BY CoreFacts, Zenon
<1>2. t.pc \in Writing \ {"write"} /\ t.pc \in Writing
  BY ONLY t.pc \in Publishing DEF Publishing, Writing
<1>3. t.wset # <<>> /\ ~t.wset[1].insert /\ h # NoTuple /\ h \notin t.locked /\ t.rest = p
  BY ONLY <1>1, <1>2, t.pc \in Publishing, p = t.wset[1].tuple, h = t.head, Zenon DEF Phase
<1>4. h \in Tuples /\ h \in Private(t)
  <2>1. t.head \in Tuples \cup {NoTuple}
    BY ONLY <1>1, Zenon DEF TxnType
  <2> QED
    BY ONLY <1>3, <2>1, h = t.head, Zenon DEF Private
<1>5. tuple[h].latest /\ tuple[h].version = t.ctid
  BY ONLY <1>1, t.pc \in Publishing, h = t.head, Zenon DEF Publisher
<1>6. tuple[p].version # MAX_TID
  BY ONLY OccInv, c \in Cores, t = txn[c], <1>2, <1>3, p = t.wset[1].tuple, FirstWrite, Zenon
<1> QED
  BY ONLY <1>2, <1>3, <1>4, <1>5, <1>6, Zenon DEF Installs

\* A guard of a later tick than any that is over has numbers above them.
LEMMA Snapshots ==
    ASSUME OccInv
    PROVE  SnapshotSettled
<1> SUFFICES ASSUME NEW c \in Cores, NEW d \in Cores, guard[c] # NoGuard, txn[c].snap, txn[d].ctid # 0
             PROVE  txn[d].ctid > txn[c].stid
  BY Zenon DEF SnapshotSettled
<1>1. /\ TxnType(txn[c]) /\ Guarded(guard[c], txn[c], tick, done)
      /\ TxnType(txn[d]) /\ Guarded(guard[d], txn[d], tick, done)
  BY CoreFacts, Zenon
<1>2. txn[c].stid \in Nat /\ txn[d].ctid \in Nat
  BY ONLY <1>1, Zenon DEF TxnType
<1>3. txn[c].stid < MakeTid(0, 0, done + 1)
  BY ONLY <1>1, guard[c] # NoGuard, txn[c].snap, Zenon DEF Guarded
<1>4. done < guard[d] /\ MakeTid(0, 0, guard[d]) <= txn[d].ctid
  BY ONLY <1>1, txn[d].ctid # 0, Zenon DEF Guarded
<1>5. done + 1 \in Nat /\ guard[d] \in Nat /\ done + 1 <= guard[d]
  <2>1. guard[d] \in Nat /\ done \in Nat
    BY TypeFacts, Zenon
  <2> QED
    BY ONLY <1>4, <2>1
<1>6. /\ MakeTid(0, 0, done + 1) \in Nat /\ MakeTid(0, 0, guard[d]) \in Nat
      /\ MakeTid(0, 0, done + 1) <= MakeTid(0, 0, guard[d])
  BY ONLY <1>5, TidOrder, Zenon
<1> QED
  BY ONLY <1>2, <1>3, <1>4, <1>6

\* Two locks are never held by two transactions, as what they own is disjoint.
LEMMA Owners ==
    ASSUME Counting, OccInv
    PROVE  LocksOwned
<1>1. Exclusive /\ TupleInv /\ TreeInv /\ NoTuple \notin Tuples
  BY Constants, Zenon DEF OccInv
<1>2. ASSUME NEW p \in Tuples, NEW owners, owners = {c \in Cores : p \in txn[c].locked \cup {txn[c].head}}
      PROVE  Cardinality(owners) <= 1 /\ (tuple[p].locked => Cardinality(owners) = 1)
  <2>1. \A c \in Cores : c \in owners <=> p \in Private(txn[c])
    BY ONLY <1>1, <1>2, Zenon DEF Private
  <2>2. \A c, d \in owners : c = d
    BY ONLY <1>1, <1>2, <2>1, Zenon DEF Exclusive
  <2>3. owners = {} \/ \E c : owners = {c}
    <3>1. ASSUME NEW c \in owners PROVE owners = {c}
      BY ONLY <3>1, <2>2
    <3> QED
      BY ONLY <3>1
  <2>4. tuple[p].locked => owners # {}
    BY ONLY <1>1, <1>2, <2>1, Zenon DEF TupleInv
  <2>5. Cardinality(owners) = 1 \/ (owners = {} /\ Cardinality(owners) = 0)
    BY ONLY Counting, <2>3, Zenon DEF Counting
  <2> QED
    BY ONLY <2>4, <2>5
<1>3. ASSUME NEW c \in Cores, NEW p \in txn[c].locked
      PROVE  tuple[p].locked /\ tuple[p].intent
  <2>1. OwnLocks(txn[c], tuple)
    BY <1>3, CoreFacts, Zenon
  <2> QED
    BY ONLY <1>3, <2>1, Zenon DEF OwnLocks
<1>4. ASSUME NEW k \in DOMAIN tree, tuple[tree[k]].version = MAX_TID
      PROVE  \E c \in Cores : txn[c].pc \notin {"idle", "end", "post"} /\ tree[k] \in txn[c].locked
  <2>1. PICK c \in Cores : tree[k] \in txn[c].locked
    BY ONLY <1>1, <1>4, Zenon DEF TreeInv
  <2>2. Phase(txn[c])
    BY CoreFacts, Zenon
  <2>3. txn[c].pc \notin Calm
    BY ONLY <2>1, <2>2, Zenon DEF Phase
  <2>4. txn[c].pc \notin {"idle", "end", "post"}
    BY ONLY <2>3, Zenon DEF Calm
  <2> QED
    BY ONLY <2>1, <2>4, Zenon
<1> QED
  BY ONLY <1>2, <1>3, <1>4, Zenon DEF LocksOwned

\* A tuple keeps its version, is numbered for the first time, or gets a newer one.
Elder(d, x) == d.version \in {MIN_TID, MAX_TID} \/ x.version = d.version \/ x.version > d.version

Ages(T, S) == \A p \in Tuples : Elder(T[p], S[p])

\* The keys that stay in the index keep their tuples.
Agrees(R, Q) == \A k \in DOMAIN R \cap DOMAIN Q : Q[k] = R[k]

\* The step of VersionForward, from the tuples T and the index R to S and Q.
Forward(T, R, S, Q) ==
    \A k \in DOMAIN R \cap DOMAIN Q :
       T[R[k]].version # MAX_TID /\ S[Q[k]].version # T[R[k]].version
         => S[Q[k]].version > T[R[k]].version

\* No step replaces a version that can be read by an older one.
LEMMA NextForward ==
    ASSUME OccInv, [OccNext]_occvars
    PROVE  Forward(tuple, tree, tuple', tree')
  \* Versions of the tuples that only grow are versions of the keys that only
  \* grow.
<1>Aging.
      ASSUME OccInv, NEW S, NEW Q, Ages(tuple, S), Agrees(tree, Q)
      PROVE  Forward(tuple, tree, S, Q)
  <2> USE <1>Aging
  <2>1. \A k \in DOMAIN tree : tree[k] \in Tuples /\ tuple[tree[k]].version # MIN_TID
    BY DbFacts, Zenon
  <2> QED
    BY ONLY <2>1, Ages(tuple, S), Agrees(tree, Q), Zenon DEF Ages, Agrees, Elder, Forward
  \* Nothing is older or newer than itself.
<1>Ageless.
      ASSUME NEW T, NEW R
      PROVE  Ages(T, T) /\ Agrees(R, R) /\ \A k : Agrees(R, Without(R, k))
  <2> USE <1>Ageless
  <2>1. \A k : Agrees(R, Without(R, k))
    BY Zenon DEF Agrees, Without
  <2> QED
    BY <2>1, Zenon DEF Ages, Agrees, Elder
  \* A step that changes one tuple.
<1>AgesOne.
      ASSUME NEW T \in [Tuples -> TupleRec], NEW q, NEW x, q \in Tuples => Elder(T[q], x),
             NEW S, S = [T EXCEPT ![q] = x]
      PROVE  Ages(T, S)
  BY <1>AgesOne, Zenon DEF Ages, Elder
  \* A step that changes one tuple and a fresh one.
<1>AgesTwo.
      ASSUME NEW T \in [Tuples -> TupleRec], NEW q, NEW x, Elder(T[q], x),
             NEW r, NEW y, T[r].version = MIN_TID, NEW S, S = [T EXCEPT ![q] = x, ![r] = y]
      PROVE  Ages(T, S)
  <2> USE <1>AgesTwo
  <2>1. \A p \in Tuples : S[p] = IF p = r THEN y ELSE IF p = q THEN x ELSE T[p]
    BY Zenon
  <2> QED
    BY <2>1, Zenon DEF Ages, Elder
  \* Most steps leave versions alone; a lock, a removal or a new tuple does not
  \* change a version that can be read.
<1>VersionKept.
      ASSUME OccInv, NEW q, NEW x,
             q \in Tuples => x \in {lock(tuple[q], TRUE), unlock(tuple[q]), clear_latest(tuple[q]),
                                    unlock(clear_latest(tuple[q]))}
      PROVE  q \in Tuples => Elder(tuple[q], x)
  <2> USE <1>VersionKept
  <2> SUFFICES ASSUME q \in Tuples PROVE Elder(tuple[q], x)
    BY Zenon
  <2>1. tuple[q] \in TupleRec
    BY DbFacts, Zenon
  <2>2. /\ unlock(tuple[q]).version = tuple[q].version /\ clear_latest(tuple[q]) \in TupleRec
        /\ clear_latest(tuple[q]).version = tuple[q].version /\ lock(tuple[q], TRUE).version = tuple[q].version
    BY ONLY <2>1, TupleOps, Zenon
  <2>3. unlock(clear_latest(tuple[q])).version = clear_latest(tuple[q]).version
    BY ONLY <2>2, TupleOps, Zenon
  <2>4. x.version = tuple[q].version
    BY ONLY q \in Tuples, <2>2, <2>3, Zenon,
            q \in Tuples => x \in {lock(tuple[q], TRUE), unlock(tuple[q]), clear_latest(tuple[q]),
                                   unlock(clear_latest(tuple[q]))}
  <2> QED
    BY ONLY <2>4, Zenon DEF Elder
  \* The index does not change but for a key that leaves it.
<1>OneForward.
      ASSUME OccInv, NEW q, NEW x, q \in Tuples => Elder(tuple[q], x), NEW S, S = [tuple EXCEPT ![q] = x],
             NEW Q, Agrees(tree, Q)
      PROVE  Forward(tuple, tree, S, Q)
  <2> USE <1>OneForward
  <2>1. tuple \in [Tuples -> TupleRec]
    BY DbFacts, Zenon
  <2>2. Ages(tuple, S)
    BY ONLY <2>1, q \in Tuples => Elder(tuple[q], x), S = [tuple EXCEPT ![q] = x], <1>AgesOne, Zenon
  <2> QED
    BY ONLY OccInv, <2>2, Agrees(tree, Q), <1>Aging, Zenon
  \* undo, unlock_tuples: locks are given back, tentative tuples leave the index.
<1>ReleaseForward.
      ASSUME OccInv, NEW c \in Cores, undo(c) \/ unlock_tuples(c)
      PROVE  Forward(tuple, tree, tuple', tree')
  <2> USE <1>ReleaseForward
  <2>1. \/ tuple' = tuple /\ tree' = tree
        \/ \E p, r : Release(c, p, r)
    BY Zenon DEF undo, unlock_tuples, dbvars
  <2>2. ASSUME tuple' = tuple, tree' = tree PROVE Forward(tuple, tree, tuple', tree')
    <3>1. Ages(tuple, tuple) /\ Agrees(tree, tree)
      BY ONLY <1>Ageless, Zenon
    <3> QED
      BY ONLY OccInv, <2>2, <3>1, <1>Aging, Zenon
  <2>3. ASSUME NEW p, NEW r, Release(c, p, r) PROVE Forward(tuple, tree, tuple', tree')
    <3>1. PICK x : /\ x \in {unlock(tuple[p]), unlock(clear_latest(tuple[p]))}
                   /\ tuple' = [tuple EXCEPT ![p] = x]
                   /\ tree' = tree \/ \E k : tree' = Without(tree, k)
      BY ONLY <2>3, Zenon DEF Release
    <3>2. Agrees(tree, tree')
      BY ONLY <3>1, <1>Ageless, Zenon
    <3>3. p \in Tuples => Elder(tuple[p], x)
      BY ONLY OccInv, <3>1, <1>VersionKept, Zenon
    <3> QED
      BY ONLY OccInv, <3>1, <3>2, <3>3, <1>OneForward, Zenon
  <2> QED
    BY ONLY <2>1, <2>2, <2>3, Zenon
  \* handle_last_tuple_in_group and unlock_head: only the lock changes.
<1>LockForward.
      ASSUME OccInv, NEW c \in Cores, handle_last_tuple_in_group(c) \/ unlock_head(c)
      PROVE  Forward(tuple, tree, tuple', tree')
  <2> USE <1>LockForward
  <2>1. /\ tree' = tree
        /\ \/ tuple' = tuple
           \/ \E p, x : /\ x \in {lock(tuple[p], TRUE), unlock(tuple[p])}
                        /\ tuple' = [tuple EXCEPT ![p] = x]
    <3>1. CASE handle_last_tuple_in_group(c)
      BY ONLY <3>1, Zenon DEF handle_last_tuple_in_group
    <3>2. CASE unlock_head(c)
      BY ONLY <3>2, Zenon DEF unlock_head
    <3> QED
      BY ONLY handle_last_tuple_in_group(c) \/ unlock_head(c), <3>1, <3>2, Zenon
  <2>2. Ages(tuple, tuple) /\ Agrees(tree, tree)
    BY ONLY <1>Ageless, Zenon
  <2>3. ASSUME tuple' = tuple PROVE Forward(tuple, tree, tuple', tree')
    BY ONLY OccInv, <2>1, <2>2, <2>3, <1>Aging, Zenon
  <2>4. ASSUME NEW p, NEW x, x \in {lock(tuple[p], TRUE), unlock(tuple[p])}, tuple' = [tuple EXCEPT ![p] = x]
        PROVE  Forward(tuple, tree, tuple', tree')
    <3>1. p \in Tuples => Elder(tuple[p], x)
      BY ONLY OccInv, <2>4, <1>VersionKept, Zenon
    <3> QED
      BY ONLY OccInv, <2>1, <2>2, <2>4, <3>1, <1>OneForward, Zenon
  <2> QED
    BY ONLY <2>1, <2>3, <2>4, Zenon
  \* try_insert_new_tuple: the key is new.
<1>InsertForward.
      ASSUME OccInv, NEW c \in Cores, try_insert_new_tuple(c)
      PROVE  Forward(tuple, tree, tuple', tree')
  <2> USE <1>InsertForward
  <2>1. \/ tuple' = tuple /\ tree' = tree
        \/ \E k, p, x : /\ k \notin DOMAIN tree /\ p \in Allocatable
                        /\ tuple' = [tuple EXCEPT ![p] = x] /\ tree' = With(tree, k, p)
    <3>1. CASE Op(c).k \in DOMAIN tree
      BY ONLY try_insert_new_tuple(c), <3>1, Zenon DEF try_insert_new_tuple, dbvars
    <3>2. CASE Op(c).k \notin DOMAIN tree
      <4>1. \E p \in Allocatable : /\ tuple' = [tuple EXCEPT ![p] = alloc_first(Op(c).v)]
                                   /\ tree' = With(tree, Op(c).k, p)
        BY ONLY try_insert_new_tuple(c), <3>2, Zenon DEF try_insert_new_tuple
      <4> QED
        BY ONLY <3>2, <4>1, Zenon
    <3> QED
      BY ONLY <3>1, <3>2, Zenon
  <2>2. ASSUME tuple' = tuple, tree' = tree PROVE Forward(tuple, tree, tuple', tree')
    <3>1. Ages(tuple, tuple) /\ Agrees(tree, tree)
      BY ONLY <1>Ageless, Zenon
    <3> QED
      BY ONLY OccInv, <2>2, <3>1, <1>Aging, Zenon
  <2>3. ASSUME NEW k, NEW p, NEW x, k \notin DOMAIN tree, p \in Allocatable,
               tuple' = [tuple EXCEPT ![p] = x], tree' = With(tree, k, p)
        PROVE  Forward(tuple, tree, tuple', tree')
    <3>1. Agrees(tree, tree')
      BY ONLY <2>3, Zenon DEF Agrees, With
    <3>2. p \in Tuples => Elder(tuple[p], x)
      BY ONLY <2>3, Zenon DEF Allocatable, Unused, Elder
    <3> QED
      BY ONLY OccInv, <2>3, <3>1, <3>2, <1>OneForward, Zenon
  <2> QED
    BY ONLY <2>1, <2>2, <2>3, Zenon
  \* clean_up_to_including: memory is freed, deleted records leave the index.
<1>CleanForward.
      ASSUME OccInv, NEW c \in Cores, clean_up_to_including(c)
      PROVE  Forward(tuple, tree, tuple', tree')
  <2> USE <1>CleanForward
  <2>1. \/ tuple' = tuple /\ tree' = tree
        \/ \E p : tuple' = [tuple EXCEPT ![p].freed = TRUE] /\ tree' = tree
        \/ \E p, k : tuple' = [tuple EXCEPT ![p] = clear_latest(tuple[p])] /\ tree' = Without(tree, k)
    BY Zenon DEF clean_up_to_including, dbvars
  <2>2. Ages(tuple, tuple) /\ Agrees(tree, tree) /\ \A k : Agrees(tree, Without(tree, k))
    BY ONLY <1>Ageless, Zenon
  <2>3. ASSUME tuple' = tuple, tree' = tree PROVE Forward(tuple, tree, tuple', tree')
    BY ONLY OccInv, <2>2, <2>3, <1>Aging, Zenon
  <2>4. ASSUME NEW p, tuple' = [tuple EXCEPT ![p].freed = TRUE], tree' = tree
        PROVE  Forward(tuple, tree, tuple', tree')
    <3>1. tuple \in [Tuples -> TupleRec] /\ \A q \in Tuples : tuple[q] \in TupleRec
      BY DbFacts, Zenon
    <3>2. PICK x : x = [tuple[p] EXCEPT !.freed = TRUE]
      BY Zenon
    <3>3. tuple' = [tuple EXCEPT ![p] = x]
      BY ONLY <2>4, <3>1, <3>2, Zenon
    <3>4. p \in Tuples => x.version = tuple[p].version
      BY ONLY <3>1, <3>2 DEF TupleRec
    <3>5. p \in Tuples => Elder(tuple[p], x)
      BY ONLY <3>4, Zenon DEF Elder
    <3> QED
      BY ONLY OccInv, <2>2, <2>4, <3>3, <3>5, <1>OneForward, Zenon
  <2>5. ASSUME NEW p, NEW k, tuple' = [tuple EXCEPT ![p] = clear_latest(tuple[p])], tree' = Without(tree, k)
        PROVE  Forward(tuple, tree, tuple', tree')
    <3>1. PICK x : x = clear_latest(tuple[p])
      BY Zenon
    <3>2. p \in Tuples => Elder(tuple[p], x)
      BY ONLY OccInv, <3>1, <1>VersionKept, Zenon
    <3> QED
      BY ONLY OccInv, <2>2, <2>5, <3>1, <3>2, <1>OneForward, Zenon
  <2> QED
    BY ONLY <2>1, <2>3, <2>4, <2>5, Zenon
  \* The tuple that a transaction is writing has an older version than its own,
  \* or none yet.
<1>WriterAges.
      ASSUME OccInv, NEW c \in Cores, NEW t, t = txn[c], t.pc \in Writing, t.wset # <<>>,
             NEW p, p = t.wset[1].tuple
      PROVE  /\ p \in Tuples /\ tuple[p].version \in Nat /\ t.ctid \in Nat /\ Head(t.wset) = t.wset[1]
             /\ tuple[p].version = MAX_TID \/ tuple[p].version <= t.ctid
  <2> USE <1>WriterAges
  <2>1. TxnType(t) /\ OwnWrites(t, tuple, tree)
    BY CoreFacts, Zenon
  <2>2. /\ p \in Tuples /\ tuple[p] \in TupleRec /\ t.ctid \in Nat /\ Head(t.wset) = t.wset[1]
    BY ONLY OccInv, c \in Cores, t = txn[c], t.pc \in Writing, t.wset # <<>>, p = t.wset[1].tuple,
            FirstWrite, Zenon
  <2>3. tuple[p].version \in Nat
    BY ONLY <2>2 DEF TupleRec
  <2>4. Numbered(t)
    BY ONLY t.pc \in Writing, t.wset # <<>>, Zenon DEF Numbered
  <2>5. 1 \in DOMAIN t.wset
    <3>1. t.wset \in Seq(WriteEntry)
      BY ONLY <2>1, Zenon DEF TxnType
    <3> QED
      BY ONLY <3>1, t.wset # <<>>, SeqHead, Zenon
  <2>6. tuple[p].version = MAX_TID \/ tuple[p].version <= t.ctid
    BY ONLY <2>1, <2>4, <2>5, p = t.wset[1].tuple, Zenon DEF OwnWrites
  <2> QED
    BY ONLY <2>2, <2>3, <2>6, Zenon
  \* write_version and write_insert: the transaction's number is put on its tuple.
<1>NumberForward.
      ASSUME OccInv, NEW c \in Cores, write_version(c) \/ write_insert(c)
      PROVE  Forward(tuple, tree, tuple', tree')
  <2> USE <1>NumberForward
  <2>1. PICK t : t = txn[c]
    BY Zenon
  <2>2. PICK p : p = t.wset[1].tuple
    BY Zenon
  <2>3. t.pc \in Writing /\ t.wset # <<>>
    <3>1. CASE write_version(c)
      <4>1. t.pc = "write2" /\ Phase(t)
        BY <2>1, <3>1, CoreFacts, Zenon DEF write_version
      <4>2. t.pc \in Writing \ {"write"}
        BY ONLY <4>1 DEF Writing, Publishing
      <4> QED
        BY ONLY <4>1, <4>2, Zenon DEF Phase
    <3>2. CASE write_insert(c)
      BY ONLY <2>1, <3>2, Zenon DEF write_insert, Writing
    <3> QED
      BY ONLY write_version(c) \/ write_insert(c), <3>1, <3>2, Zenon
  <2>4. /\ p \in Tuples /\ tuple[p].version \in Nat /\ t.ctid \in Nat /\ Head(t.wset) = t.wset[1]
        /\ tuple[p].version = MAX_TID \/ tuple[p].version <= t.ctid
    BY ONLY OccInv, c \in Cores, <2>1, <2>2, <2>3, <1>WriterAges, Zenon
  <2>5. tree' = tree
    BY Zenon DEF write_version, write_insert
  <2>6. tuple \in [Tuples -> TupleRec] /\ tuple[p] \in TupleRec
    BY <2>4, DbFacts, Zenon
  <2>7. PICK x : tuple' = [tuple EXCEPT ![p] = x] /\ x.version = t.ctid
    <3>1. CASE write_version(c)
      <4>1. tuple' = [tuple EXCEPT ![p].version = t.ctid, ![p].deleting = Head(t.wset).val = NoValue]
        BY ONLY <2>1, <2>2, <2>4, <3>1, Zenon DEF write_version
      <4>2. PICK x : x = [tuple[p] EXCEPT !.version = t.ctid, !.deleting = Head(t.wset).val = NoValue]
        BY Zenon
      <4>3. tuple' = [tuple EXCEPT ![p] = x]
        BY ONLY <2>4, <2>6, <4>1, <4>2, Zenon
      <4>4. x.version = t.ctid
        BY ONLY <2>6, <4>2 DEF TupleRec
      <4> QED
        BY ONLY <4>3, <4>4, Zenon
    <3>2. CASE write_insert(c)
      <4>1. tuple' = [tuple EXCEPT ![p].version = t.ctid]
        BY ONLY <2>1, <2>2, <2>4, <3>2, Zenon DEF write_insert
      <4>2. PICK x : x = [tuple[p] EXCEPT !.version = t.ctid]
        BY Zenon
      <4>3. tuple' = [tuple EXCEPT ![p] = x]
        BY ONLY <2>4, <2>6, <4>1, <4>2, Zenon
      <4>4. x.version = t.ctid
        BY ONLY <2>6, <4>2 DEF TupleRec
      <4> QED
        BY ONLY <4>3, <4>4, Zenon
    <3> QED
      BY ONLY write_version(c) \/ write_insert(c), <3>1, <3>2, Zenon
  <2>8. Elder(tuple[p], x)
    BY ONLY <2>4, <2>7 DEF Elder
  <2>9. Agrees(tree, tree)
    BY ONLY <1>Ageless, Zenon
  <2> QED
    BY ONLY OccInv, <2>5, <2>7, <2>8, <2>9, <1>OneForward, Zenon
  \* write_value and write_replace: the spilled tuple and the new head are fresh.
<1>FreshForward.
      ASSUME OccInv, NEW c \in Cores, write_value(c) \/ write_replace(c)
      PROVE  Forward(tuple, tree, tuple', tree')
  <2> USE <1>FreshForward
  <2>1. tuple \in [Tuples -> TupleRec] /\ Agrees(tree, tree)
    BY DbFacts, <1>Ageless, Zenon
  <2>2. PICK p : p = txn[c].wset[1].tuple
    BY Zenon
  <2>3. txn[c].pc \in Writing /\ txn[c].wset # <<>>
    <3>1. txn[c].pc = "write" /\ txn[c].wset # <<>>
      BY Zenon DEF write_value, write_replace
    <3> QED
      BY ONLY <3>1, Zenon DEF Writing
  <2>4. p \in Tuples /\ Head(txn[c].wset) = txn[c].wset[1]
    BY ONLY OccInv, c \in Cores, <2>2, <2>3, <1>WriterAges, Zenon
  <2>5. tuple[p] \in TupleRec
    BY ONLY <2>1, <2>4, Zenon
  <2>6. /\ tree' = tree
        /\ \E x : /\ x.version = tuple[p].version
                  /\ \/ tuple' = [tuple EXCEPT ![p] = x]
                     \/ \E y : Unused # {} /\ tuple' = [tuple EXCEPT ![p] = x, ![Fresh] = y]
    <3>1. CASE write_value(c)
      <4>1. /\ tree' = tree
            /\ \E v, r, y : LET x == [tuple[p] EXCEPT !.modifying = TRUE, !.val = v, !.next = r]
                            IN  \/ tuple' = [tuple EXCEPT ![p] = x]
                                \/ Unused # {} /\ tuple' = [tuple EXCEPT ![p] = x, ![Fresh] = y]
        BY ONLY <2>2, <2>4, <3>1, Zenon DEF write_value
      <4>2. \A v, r : [tuple[p] EXCEPT !.modifying = TRUE, !.val = v, !.next = r].version = tuple[p].version
        BY ONLY <2>5 DEF TupleRec
      <4> QED
        BY ONLY <4>1, <4>2, Zenon
    <3>2. CASE write_replace(c)
      <4>1. /\ tree' = tree /\ Unused # {}
            /\ \E y : tuple' = [tuple EXCEPT ![p] = clear_latest(tuple[p]), ![Fresh] = y]
        BY ONLY <2>2, <2>4, <3>2, Zenon DEF write_replace
      <4>2. clear_latest(tuple[p]).version = tuple[p].version
        BY ONLY <2>5, TupleOps, Zenon
      <4> QED
        BY ONLY <4>1, <4>2, Zenon
    <3> QED
      BY ONLY write_value(c) \/ write_replace(c), <3>1, <3>2, Zenon
  <2>7. PICK x : /\ x.version = tuple[p].version
                 /\ \/ tuple' = [tuple EXCEPT ![p] = x]
                    \/ \E y : Unused # {} /\ tuple' = [tuple EXCEPT ![p] = x, ![Fresh] = y]
    BY ONLY <2>6, Zenon
  <2>8. Elder(tuple[p], x) /\ p \in Tuples
    BY ONLY <2>4, <2>7, Zenon DEF Elder
  <2>9. Ages(tuple, tuple')
    <3>1. CASE tuple' = [tuple EXCEPT ![p] = x]
      BY ONLY <2>1, <2>8, <3>1, <1>AgesOne, Zenon
    <3>2. ASSUME NEW y, Unused # {}, tuple' = [tuple EXCEPT ![p] = x, ![Fresh] = y]
          PROVE  Ages(tuple, tuple')
      <4>1. tuple[Fresh].version = MIN_TID
        BY ONLY <3>2, Zenon DEF Fresh, Unused
      <4> QED
        BY ONLY <2>1, <2>8, <3>2, <4>1, <1>AgesTwo, Zenon
    <3> QED
      BY ONLY <2>7, <3>1, <3>2, Zenon
  <2> QED
    BY ONLY OccInv, <2>1, <2>6, <2>9, <1>Aging, Zenon
  \* publish: the key gets the new head, under the transaction's own number.
<1>PublishForward.
      ASSUME OccInv, NEW c \in Cores, publish(c)
      PROVE  Forward(tuple, tree, tuple', tree')
  <2> USE <1>PublishForward
  <2>1. PICK t : t = txn[c]
    BY Zenon
  <2>2. PICK p : p = t.wset[1].tuple
    BY Zenon
  <2>3. PICK h : h = t.head
    BY Zenon
  <2>4. t.pc = "publish"
    BY ONLY publish(c), <2>1, Zenon DEF publish
  <2>5. t.pc \in Publishing
    BY ONLY <2>4, Zenon DEF Publishing
  <2>6. Installs(t, tuple, p, h)
    BY ONLY OccInv, c \in Cores, <2>1, <2>2, <2>3, <2>5, PublishHead
  <2>7. t.pc \in Writing /\ t.wset # <<>> /\ t.rest = p /\ h \in Tuples /\ tuple[h].version = t.ctid
    BY ONLY <2>6, Zenon DEF Installs
  <2>8. /\ p \in Tuples /\ tuple[p].version \in Nat /\ t.ctid \in Nat /\ Head(t.wset) = t.wset[1]
        /\ tuple[p].version = MAX_TID \/ tuple[p].version <= t.ctid
    BY ONLY OccInv, c \in Cores, <2>1, <2>2, <2>7, <1>WriterAges, Zenon
  <2>9. PICK k : k = t.wset[1].key
    BY Zenon
  <2>10. k \in DOMAIN tree /\ tree[k] = p
    <3>1. Publisher(t, tuple, tree)
      BY <2>1, CoreFacts, Zenon
    <3> QED
      BY ONLY <2>4, <2>5, <2>7, <2>9, <3>1, Zenon DEF Publisher
  <2>11. tuple' = [tuple EXCEPT ![h] = lock(tuple[h], TRUE)] /\ tree' = With(tree, k, h)
    BY ONLY publish(c), <2>1, <2>3, <2>8, <2>9, Zenon DEF publish
  <2>12. tuple \in [Tuples -> TupleRec] /\ tuple[h] \in TupleRec
         /\ \A j \in DOMAIN tree : tree[j] \in Tuples /\ tuple[tree[j]].version # MIN_TID
    BY <2>7, DbFacts, Zenon
  <2>13. \A q \in Tuples : tuple'[q].version = tuple[q].version
    <3>1. lock(tuple[h], TRUE).version = tuple[h].version
      BY ONLY <2>12, TupleOps, Zenon
    <3> QED
      BY ONLY <2>11, <2>12, <3>1, Zenon
  <2>14. \A j \in DOMAIN tree : tree'[j] = IF j = k THEN h ELSE tree[j]
    BY ONLY <2>11, Zenon DEF With
  <2>15. tuple'[tree'[k]].version = t.ctid
    BY ONLY <2>7, <2>10, <2>13, <2>14, Zenon
  <2>16. tuple[p].version # MAX_TID /\ t.ctid # tuple[p].version => t.ctid > tuple[p].version
    BY ONLY <2>8
  <2>17. \A j \in DOMAIN tree : j # k => tuple'[tree'[j]].version = tuple[tree[j]].version
    BY ONLY <2>12, <2>13, <2>14, Zenon
  <2> QED
    BY ONLY <2>10, <2>15, <2>16, <2>17, Zenon DEF Forward
  \* Every other step leaves the tuples and the index alone.
<1>StillForward.
      ASSUME OccInv, tuple' = tuple, tree' = tree
      PROVE  Forward(tuple, tree, tuple', tree')
  <2> USE <1>StillForward
  <2>1. Ages(tuple, tuple) /\ Agrees(tree, tree)
    BY ONLY <1>Ageless, Zenon
  <2> QED
    BY ONLY OccInv, tuple' = tuple, tree' = tree, <2>1, <1>Aging, Zenon
  \* Every step of a core moves versions forward.
<1>CoreForward.
      ASSUME OccInv, NEW c \in Cores, CoreStep(c)
      PROVE  Forward(tuple, tree, tuple', tree')
  <2> USE <1>CoreForward
  <2>1. ASSUME Begin(c) \/ abort(c) \/ End(c) \/ post(c)
        PROVE  tuple' = tuple /\ tree' = tree
    BY ONLY <2>1, Zenon DEF Begin, abort, End, post, dbvars
  <2>2. ASSUME do_search(c) \/ record_at_version(c) \/ record_at_value(c)
        PROVE  tuple' = tuple /\ tree' = tree
    BY ONLY <2>2, Zenon DEF do_search, record_at_version, record_at_value, dbvars
  <2>3. ASSUME do_tree_put(c) \/ commit(c) \/ gen_commit_tid(c)
        PROVE  tuple' = tuple /\ tree' = tree
    BY ONLY <2>3, Zenon DEF do_tree_put, commit, gen_commit_tid, dbvars
  <2>4. ASSUME validate(c) \/ ExtractVersionNumber(c) \/ validate_node(c)
        PROVE  tuple' = tuple /\ tree' = tree
    BY ONLY <2>4, Zenon DEF validate, ExtractVersionNumber, validate_node, dbvars
  <2>5. ASSUME tuple' = tuple, tree' = tree PROVE Forward(tuple, tree, tuple', tree')
    BY ONLY OccInv, <2>5, <1>StillForward, Zenon
  <2>6. ASSUME undo(c) \/ unlock_tuples(c) PROVE Forward(tuple, tree, tuple', tree')
    BY ONLY OccInv, c \in Cores, <2>6, <1>ReleaseForward, Zenon
  <2>7. ASSUME handle_last_tuple_in_group(c) \/ unlock_head(c) PROVE Forward(tuple, tree, tuple', tree')
    BY ONLY OccInv, c \in Cores, <2>7, <1>LockForward, Zenon
  <2>8. ASSUME try_insert_new_tuple(c) PROVE Forward(tuple, tree, tuple', tree')
    BY ONLY OccInv, c \in Cores, <2>8, <1>InsertForward, Zenon
  <2>9. ASSUME clean_up_to_including(c) PROVE Forward(tuple, tree, tuple', tree')
    BY ONLY OccInv, c \in Cores, <2>9, <1>CleanForward, Zenon
  <2>10. ASSUME write_version(c) \/ write_insert(c) PROVE Forward(tuple, tree, tuple', tree')
    BY ONLY OccInv, c \in Cores, <2>10, <1>NumberForward, Zenon
  <2>11. ASSUME write_value(c) \/ write_replace(c) PROVE Forward(tuple, tree, tuple', tree')
    BY ONLY OccInv, c \in Cores, <2>11, <1>FreshForward, Zenon
  <2>12. ASSUME publish(c) PROVE Forward(tuple, tree, tuple', tree')
    BY ONLY OccInv, c \in Cores, <2>12, <1>PublishForward, Zenon
  <2> QED
    BY ONLY CoreStep(c), <2>1, <2>2, <2>3, <2>4, <2>5, <2>6, <2>7, <2>8, <2>9, <2>10, <2>11, <2>12,
            Zenon DEF CoreStep
  \* Every step moves versions forward, the ticker's included.
<1>NextForwardStep.
      ASSUME OccInv, [OccNext]_occvars
      PROVE  Forward(tuple, tree, tuple', tree')
  <2> USE <1>NextForwardStep
  <2>1. ASSUME UNCHANGED occvars PROVE Forward(tuple, tree, tuple', tree')
    <3>1. tuple' = tuple /\ tree' = tree
      BY ONLY <2>1, Zenon DEF occvars
    <3> QED
      BY ONLY OccInv, <3>1, <1>StillForward, Zenon
  <2>2. ASSUME TickerStep PROVE Forward(tuple, tree, tuple', tree')
    <3>1. tuple' = tuple /\ tree' = tree
      BY ONLY <2>2, Zenon DEF TickerStep, dbvars
    <3> QED
      BY ONLY OccInv, <3>1, <1>StillForward, Zenon
  <2>3. ASSUME NEW c \in Cores, CoreStep(c) PROVE Forward(tuple, tree, tuple', tree')
    BY ONLY OccInv, <2>3, <1>CoreForward, Zenon
  <2> QED
    BY ONLY [OccNext]_occvars, <2>1, <2>2, <2>3, Zenon DEF OccNext
<1> QED
  BY <1>NextForwardStep, Zenon

=============================================================================
