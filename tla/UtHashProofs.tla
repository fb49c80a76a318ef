----------------------------- MODULE UtHashProofs -----------------------------
(***************************************************************************)
(* Calls of uthash that do not overlap keep a table of any size right: the *)
(* list is in the order of the additions, every bucket holds its items,    *)
(* counts them and keeps to its bound, and a lookup finds what is there.   *)
(***************************************************************************)
EXTENDS UtHash, FiniteSetTheorems, SequenceTheorems, WellFoundedInduction, TLAPS

Size == Cardinality(Items)

\* x is the item of S with the highest, or the lowest, r; NULL if S is empty.
Highest(x, S, r) == IF S = {} THEN x = NULL ELSE x \in S /\ \A j \in S : r[j] <= r[x]
Lowest(x, S, r) == IF S = {} THEN x = NULL ELSE x \in S /\ \A j \in S : r[x] <= r[j]

Distinct(S, r) == \A i, j \in S : r[i] = r[j] => i = j
Above(S, r, i) == {j \in S : r[j] > r[i]}
Below(S, r, i) == {j \in S : r[j] < r[i]}
-----------------------------------------------------------------------------
\* A nonempty set of naturals has a least element.
LEMMA LeastElement ==
    ASSUME NEW T \in SUBSET Nat, T # {}
    PROVE  \E x \in T : \A y \in T : x <= y
<1>1. PICK x \in T : \A y \in T : ~(<<y, x>> \in OpToRel(<, Nat))
  BY WFMin, NatLessThanWellFounded, Zenon
<1>2. \A y \in T : ~(y < x)
  BY <1>1 DEF OpToRel
<1> QED
  BY <1>2

\* So has a nonempty bounded one a greatest element.
LEMMA GreatestElement ==
    ASSUME NEW N \in Nat, NEW T \in SUBSET (0 .. N), T # {}
    PROVE  \E x \in T : \A y \in T : y <= x
<1>a. \A t \in T : t \in Nat /\ t <= N
  OBVIOUS
<1> DEFINE U == {N - t : t \in T}
<1>1. U \in SUBSET Nat
  BY <1>a
<1>0. U # {}
  OBVIOUS
<1>2. PICK u \in U : \A v \in U : u <= v
  BY <1>0, <1>1, LeastElement
<1>3. PICK x \in T : u = N - x
  OBVIOUS
<1>4. \A y \in T : N - x <= N - y
  BY <1>2, <1>3
<1>5. \A y \in T : y <= x
  <2> HIDE DEF U
  <2> QED
    BY <1>a, <1>4
<1> QED
  BY <1>5

\* A nonempty set of places has a first and a last one.
LEMMA MinMax ==
    ASSUME NEW N \in Nat, NEW P \in SUBSET (0 .. N), P # {}
    PROVE  /\ Min(P) \in P /\ \A n \in P : Min(P) <= n
           /\ Max(P) \in P /\ \A n \in P : n <= Max(P)
<1>1. \E x \in P : \A y \in P : x <= y
  BY LeastElement
<1>2. \E x \in P : \A y \in P : y <= x
  BY GreatestElement
<1>3. \E x \in P : \A y \in P : x >= y
  BY <1>2
<1> QED
  BY <1>1, <1>3 DEF Min, Max

LEMMA SizeNat == Size \in Nat
  BY UtHashAssumption, FS_CardinalityType DEF Size
-----------------------------------------------------------------------------
(***************************************************************************)
(* Paths.                                                                  *)
(***************************************************************************)
\* The next item on a path, or NULL.
Onward(x, succ) == IF x = NULL THEN NULL ELSE succ[x]

\* f is a path from i of N steps.
IsPath(f, N, i, succ) ==
    f = [n \in 0 .. N |-> IF n = 0 THEN i ELSE Onward(f[n - 1], succ)]

\* There is one, of any length.
LEMMA PathExists ==
    ASSUME NEW i, NEW succ, NEW N \in Nat
    PROVE  \E f : IsPath(f, N, i, succ)
<1> DEFINE Good(m) == \E f : f = [n \in 0 .. m |-> IF n = 0 THEN i ELSE Onward(f[n - 1], succ)]
           Bad == {m \in Nat : ~Good(m)}
<1>1. Good(0)
  <2> DEFINE f == [n \in 0 .. 0 |-> i]
  <2>1. f = [n \in 0 .. 0 |-> IF n = 0 THEN i ELSE Onward(f[n - 1], succ)]
    OBVIOUS
  <2> QED
    BY <2>1
<1>2. ASSUME NEW m \in Nat, Good(m) PROVE Good(m + 1)
  <2>1. PICK f : f = [n \in 0 .. m |-> IF n = 0 THEN i ELSE Onward(f[n - 1], succ)]
    BY <1>2
  <2> DEFINE g == [n \in 0 .. m + 1 |-> IF n = m + 1 THEN Onward(f[m], succ) ELSE f[n]]
  <2>2. \A n \in 0 .. m + 1 : g[n] = IF n = 0 THEN i ELSE Onward(g[n - 1], succ)
    <3> TAKE n \in 0 .. m + 1
    <3>1. CASE n = m + 1
      BY <3>1
    <3>2. CASE n \in 0 .. m
      <4>1. f[n] = IF n = 0 THEN i ELSE Onward(f[n - 1], succ)
        BY <2>1, <3>2
      <4>2. n # 0 => n - 1 \in 0 .. m /\ n - 1 # m + 1
        BY <3>2
      <4> QED
        BY <3>2, <4>1, <4>2
    <3> QED
      BY <3>1, <3>2
  <2>3. g = [n \in 0 .. m + 1 |-> IF n = 0 THEN i ELSE Onward(g[n - 1], succ)]
    <3>1. g = [n \in 0 .. m + 1 |-> g[n]]
      OBVIOUS
    <3> HIDE DEF g
    <3> QED
      BY <2>2, <3>1
  <2> QED
    BY <2>3
<1>3. Bad = {}
  <2> HIDE DEF Good
  <2>1. SUFFICES ASSUME Bad # {} PROVE FALSE
    OBVIOUS
  <2>2. PICK m \in Bad : \A k \in Bad : m <= k
    BY <2>1, LeastElement
  <2>3. m # 0 /\ m - 1 \in Nat /\ Good(m - 1)
    BY <1>1, <2>2
  <2> QED
    BY <1>2, <2>2, <2>3
<1> QED
  BY <1>3 DEF IsPath

\* What Path is.
LEMMA PathSteps ==
    ASSUME NEW i, NEW succ
    PROVE  /\ DOMAIN Path(i, succ) = 0 .. Size
           /\ Path(i, succ)[0] = i
           /\ \A n \in 0 .. Size - 1 :
                 Path(i, succ)[n + 1] = Onward(Path(i, succ)[n], succ)
<1> DEFINE p == Path(i, succ)
<1>1. p = [n \in 0 .. Size |-> IF n = 0 THEN i ELSE Onward(p[n - 1], succ)]
  <2>1. \E f : IsPath(f, Size, i, succ)
    BY PathExists, SizeNat
  <2>2. p = CHOOSE f : IsPath(f, Size, i, succ)
    BY DEF Path, Onward, Size, IsPath
  <2>3. IsPath(p, Size, i, succ)
    BY <2>1, <2>2
  <2> QED
    BY <2>3 DEF IsPath
<1> HIDE DEF p
<1>2. p[0] = i
  BY <1>1, SizeNat
<1>3. ASSUME NEW n \in 0 .. Size - 1 PROVE p[n + 1] = Onward(p[n], succ)
  <2>1. n + 1 \in 0 .. Size /\ n + 1 # 0 /\ (n + 1) - 1 = n
    BY SizeNat
  <2> QED
    BY <1>1, <2>1
<1> QED
  BY <1>1, <1>2, <1>3 DEF p
-----------------------------------------------------------------------------
(***************************************************************************)
(* A chain whose items a rank puts in order, the highest one first.        *)
(***************************************************************************)
Ranks(T, r) == T \in SUBSET Items /\ r \in [Items -> Nat] /\ Distinct(T, r)

SortedBy(T, r, i, succ) ==
    /\ Highest(i, T, r)
    /\ \A j \in T : Highest(succ[j], Below(T, r, j), r)

\* The path along it stays in it ...
LEMMA SortedWithin ==
    ASSUME NEW T, NEW r, Ranks(T, r), NEW i, NEW succ, SortedBy(T, r, i, succ)
    PROVE  \A n \in 0 .. Size : Path(i, succ)[n] \in T \cup {NULL}
<1> DEFINE p == Path(i, succ)
           Bad == {n \in 0 .. Size : p[n] \notin T \cup {NULL}}
<1>1. p[0] = i /\ \A n \in 0 .. Size - 1 : p[n + 1] = Onward(p[n], succ)
  BY PathSteps
<1> HIDE DEF p
<1>2. SUFFICES ASSUME Bad # {} PROVE FALSE
  BY DEF p
<1>3. PICK n \in Bad : \A m \in Bad : n <= m
  <2>1. Bad \in SUBSET Nat
    BY SizeNat
  <2> HIDE DEF Bad
  <2> QED
    BY <1>2, <2>1, LeastElement
<1>4. CASE n = 0
  BY <1>1, <1>3, <1>4 DEF SortedBy, Highest
<1>5. CASE n # 0
  <2>1. n - 1 \in 0 .. Size - 1 /\ n = (n - 1) + 1
    BY <1>3, <1>5, SizeNat
  <2>2. n - 1 \notin Bad /\ n - 1 \in 0 .. Size
    BY <1>3, <2>1, SizeNat
  <2>3. p[n - 1] \in T \cup {NULL}
    BY <2>2
  <2>4. p[n] = Onward(p[n - 1], succ)
    BY <1>1, <2>1
  <2>5. p[n] \in T \cup {NULL}
    BY <2>3, <2>4 DEF Onward, SortedBy, Highest, Below
  <2> QED
    BY <1>3, <2>5
<1> QED
  BY <1>4, <1>5

\* ... descends, without a gap ...
LEMMA SortedDescends ==
    ASSUME NEW T, NEW r, Ranks(T, r), NEW i, NEW succ, SortedBy(T, r, i, succ)
    PROVE  \A n \in 0 .. Size : \A m \in 0 .. n - 1 :
               Path(i, succ)[n] # NULL =>
                   /\ Path(i, succ)[m] # NULL
                   /\ r[Path(i, succ)[n]] < r[Path(i, succ)[m]]
<1> DEFINE p == Path(i, succ)
           Falls(m, n) == p[n] # NULL => p[m] # NULL /\ r[p[n]] < r[p[m]]
           Bad == {n \in 0 .. Size : \E m \in 0 .. n - 1 : ~Falls(m, n)}
<1>1. /\ \A n \in 0 .. Size - 1 : p[n + 1] = Onward(p[n], succ)
      /\ \A n \in 0 .. Size : p[n] \in T \cup {NULL}
  BY PathSteps, SortedWithin
<1> HIDE DEF p
<1>2. SUFFICES ASSUME Bad # {} PROVE FALSE
  BY DEF p
<1>3. PICK n \in Bad : \A k \in Bad : n <= k
  <2>1. Bad \in SUBSET Nat
    BY SizeNat
  <2> HIDE DEF Bad
  <2> QED
    BY <1>2, <2>1, LeastElement
<1>4. PICK m \in 0 .. n - 1 : ~Falls(m, n)
  BY <1>3
<1>5. n - 1 \in 0 .. Size - 1 /\ n = (n - 1) + 1 /\ n - 1 \in 0 .. Size /\ n \in 0 .. Size
  BY <1>3, <1>4, SizeNat
<1>6. p[n] = Onward(p[n - 1], succ) /\ p[n - 1] \in T \cup {NULL} /\ p[n] # NULL
  BY <1>1, <1>4, <1>5
<1>7. p[n - 1] # NULL /\ p[n - 1] \in T
  BY <1>6 DEF Onward
<1>8. p[n] \in T /\ r[p[n]] < r[p[n - 1]]
  BY <1>6, <1>7 DEF Onward, SortedBy, Highest, Below
<1>9. CASE m = n - 1
  BY <1>4, <1>7, <1>8, <1>9
<1>10. CASE m # n - 1
  <2>1. m \in 0 .. (n - 1) - 1 /\ m \in 0 .. Size
    BY <1>4, <1>5, <1>10, SizeNat
  <2>2. n - 1 \notin Bad
    BY <1>3, <1>5
  <2>3. Falls(m, n - 1)
    BY <1>5, <2>1, <2>2
  <2>4. p[m] # NULL /\ r[p[n - 1]] < r[p[m]] /\ p[m] \in T
    BY <1>1, <1>7, <2>1, <2>3
  <2>5. r[p[m]] \in Nat /\ r[p[n]] \in Nat /\ r[p[n - 1]] \in Nat
    BY <1>7, <1>8, <2>4 DEF Ranks
  <2> QED
    BY <1>4, <1>8, <2>4, <2>5
<1> QED
  BY <1>9, <1>10

\* ... ends ...
LEMMA SortedEnds ==
    ASSUME NEW T, NEW r, Ranks(T, r), NEW i, NEW succ, SortedBy(T, r, i, succ)
    PROVE  Path(i, succ)[Size] = NULL
<1> DEFINE p == Path(i, succ)
<1>0. \A n \in 0 .. Size : p[n] \in T \cup {NULL}
  BY SortedWithin
<1>1. \A n \in 0 .. Size : \A m \in 0 .. n - 1 :
          p[n] # NULL => p[m] # NULL /\ r[p[n]] < r[p[m]]
  BY SortedDescends
<1> HIDE DEF p
<1>2. SUFFICES ASSUME p[Size] # NULL PROVE FALSE
  BY DEF p
<1>3. \A n \in 0 .. Size : p[n] \in T /\ p[n] # NULL
  <2> TAKE n \in 0 .. Size
  <2>1. n = Size \/ n \in 0 .. Size - 1
    BY SizeNat
  <2>2. p[n] # NULL
    BY <1>1, <1>2, <2>1, SizeNat
  <2> QED
    BY <1>0, <2>2
<1> DEFINE f == [n \in 0 .. Size |-> p[n]]
<1>4. f \in [0 .. Size -> Items]
  BY <1>3 DEF Ranks
<1>5. IsFiniteSet(0 .. Size) /\ Cardinality(0 .. Size) = Size + 1
  BY SizeNat, FS_Interval
<1>6. PICK m, n \in 0 .. Size : m # n /\ f[m] = f[n]
  <2> HIDE DEF f
  <2>1. Cardinality(Items) < Cardinality(0 .. Size) /\ IsFiniteSet(Items)
    BY <1>5, SizeNat, UtHashAssumption DEF Size
  <2> QED
    BY <1>4, <1>5, <2>1, FS_PigeonHole
<1>7. p[m] = p[n] /\ r[p[m]] \in Nat
  BY <1>3, <1>6 DEF Ranks
<1>8. m \in 0 .. n - 1 \/ n \in 0 .. m - 1
  BY <1>6, SizeNat
<1> QED
  BY <1>1, <1>3, <1>7, <1>8

\* ... and comes to all of it.
LEMMA SortedCovers ==
    ASSUME NEW T, NEW r, Ranks(T, r), NEW i, NEW succ, SortedBy(T, r, i, succ), NEW j \in T
    PROVE  \E n \in 0 .. Size : Path(i, succ)[n] = j
<1> DEFINE p == Path(i, succ)
           Ahead(n) == p[n] # NULL /\ r[j] < r[p[n]]
           Bad == {n \in 0 .. Size : ~Ahead(n)}
<1>0. /\ p[0] = i /\ \A n \in 0 .. Size - 1 : p[n + 1] = Onward(p[n], succ)
      /\ \A n \in 0 .. Size : p[n] \in T \cup {NULL}
      /\ p[Size] = NULL
  BY PathSteps, SortedWithin, SortedEnds
<1> HIDE DEF p
<1>1. SUFFICES ASSUME \A n \in 0 .. Size : p[n] # j PROVE FALSE
  BY DEF p
<1>2. j # NULL /\ \A k \in T : k # NULL /\ r[k] \in Nat
  BY UtHashAssumption DEF Ranks
<1>3. Bad # {}
  BY <1>0, SizeNat
<1>4. PICK n \in Bad : \A m \in Bad : n <= m
  <2>1. Bad \in SUBSET Nat
    BY SizeNat
  <2> HIDE DEF Bad
  <2> QED
    BY <1>3, <2>1, LeastElement
<1>5. n # 0
  <2>1. p[0] \in T /\ r[j] <= r[p[0]]
    BY <1>0 DEF SortedBy, Highest
  <2>2. r[j] # r[p[0]]
    BY <1>1, <2>1, SizeNat DEF Ranks, Distinct
  <2> QED
    BY <1>2, <1>4, <2>1, <2>2
<1>6. n - 1 \in 0 .. Size - 1 /\ n - 1 \in 0 .. Size /\ n = (n - 1) + 1
  BY <1>4, <1>5, SizeNat
<1>7. p[n - 1] # NULL /\ r[j] < r[p[n - 1]] /\ p[n - 1] \in T
  <2>1. n - 1 \notin Bad
    BY <1>4, <1>6
  <2> QED
    BY <1>0, <1>6, <2>1
<1>8. p[n] = succ[p[n - 1]]
  BY <1>0, <1>6, <1>7 DEF Onward
<1>9. j \in Below(T, r, p[n - 1])
  BY <1>7 DEF Below
<1>10. p[n] \in T /\ r[j] <= r[p[n]]
  BY <1>7, <1>8, <1>9 DEF SortedBy, Highest, Below
<1>11. r[j] # r[p[n]]
  BY <1>1, <1>4, <1>10 DEF Ranks, Distinct
<1> QED
  BY <1>2, <1>4, <1>10, <1>11
-----------------------------------------------------------------------------
\* The places of a path that ends are its first ones.
LEMMA FirstPlaces ==
    ASSUME NEW p, DOMAIN p = 0 .. Size, p[Size] = NULL,
           \A n \in 0 .. Size : \A m \in 0 .. n - 1 : p[n] # NULL => p[m] # NULL
    PROVE  /\ IsFiniteSet(Places(p)) /\ Cardinality(Places(p)) \in 0 .. Size
           /\ Places(p) = 0 .. Cardinality(Places(p)) - 1
<1> DEFINE End == {n \in 0 .. Size : p[n] = NULL}
<1>1. PICK k \in End : \A n \in End : k <= n
  <2>1. End \in SUBSET Nat /\ End # {}
    BY SizeNat
  <2> HIDE DEF End
  <2> QED
    BY <2>1, LeastElement
<1>2. k \in 0 .. Size /\ p[k] = NULL
  BY <1>1
<1>3. Places(p) = 0 .. k - 1
  <2>1. ASSUME NEW n \in 0 .. Size, p[n] # NULL PROVE n \in 0 .. k - 1
    <3>1. ~(k \in 0 .. n - 1)
      BY <1>2, <2>1
    <3>2. n # k
      BY <1>2, <2>1
    <3> QED
      BY <1>2, <3>1, <3>2, SizeNat
  <2>2. ASSUME NEW n \in 0 .. k - 1 PROVE n \in 0 .. Size /\ p[n] # NULL
    BY <1>1, <1>2, SizeNat
  <2>3. \A n : n \in Places(p) <=> n \in 0 .. k - 1
    BY <2>1, <2>2 DEF Places
  <2> QED
    BY <2>3
<1>4. IsFiniteSet(0 .. k - 1) /\ Cardinality(0 .. k - 1) = k
  <2>1. k - 1 \in Int /\ (0 > k - 1 <=> k = 0) /\ (k - 1) - 0 + 1 = k
    BY <1>2, SizeNat
  <2> QED
    BY <2>1, FS_Interval
<1> QED
  BY <1>2, <1>3, <1>4

\* The items at the places P of a path.
Picked(p, P) == {p[n] : n \in P}

\* On a sorted path, the last of some places has the lowest rank, the first the
\* highest, and there is one item at each.
LEMMA SortedPicked ==
    ASSUME NEW T, NEW r, Ranks(T, r), NEW i, NEW succ, SortedBy(T, r, i, succ),
           NEW P \in SUBSET Places(Path(i, succ))
    PROVE  /\ Lowest(LastOf(Path(i, succ), P), Picked(Path(i, succ), P), r)
           /\ Highest(FirstOf(Path(i, succ), P), Picked(Path(i, succ), P), r)
           /\ Cardinality(Picked(Path(i, succ), P)) = Cardinality(P)
<1> DEFINE p == Path(i, succ)
<1>0. DOMAIN p = 0 .. Size /\ p[Size] = NULL
  BY PathSteps, SortedEnds
<1>1. \A n \in 0 .. Size : p[n] \in T \cup {NULL}
  BY SortedWithin
<1>2. \A n \in 0 .. Size : \A m \in 0 .. n - 1 :
          p[n] # NULL => p[m] # NULL /\ r[p[n]] < r[p[m]]
  BY SortedDescends
<1>3. IsFiniteSet(Places(p))
  BY <1>0, <1>2, FirstPlaces
<1> HIDE DEF p
<1>4. P \in SUBSET (0 .. Size) /\ \A n \in P : p[n] # NULL /\ p[n] \in T /\ r[p[n]] \in Nat
  BY <1>0, <1>1 DEF p, Places, Ranks
<1>5. \A m, n \in P : m < n => r[p[n]] < r[p[m]]
  <2> TAKE m, n \in P
  <2>1. m < n => m \in 0 .. n - 1 /\ n \in 0 .. Size
    BY <1>4, SizeNat
  <2> QED
    BY <1>2, <1>4, <2>1
<1>6. P # {} => /\ Min(P) \in P /\ \A n \in P : Min(P) <= n
                /\ Max(P) \in P /\ \A n \in P : n <= Max(P)
  BY <1>4, SizeNat, MinMax
<1>7. ASSUME P # {} PROVE \A n \in P : r[p[Max(P)]] <= r[p[n]] /\ r[p[n]] <= r[p[Min(P)]]
  <2> TAKE n \in P
  <2> DEFINE lo == Min(P)
             hi == Max(P)
  <2>1. lo \in P /\ hi \in P /\ lo <= n /\ n <= hi
    BY <1>6, <1>7
  <2> HIDE DEF lo, hi
  <2>2. (n = hi \/ n < hi) /\ (n = lo \/ lo < n)
    BY <1>4, <2>1, SizeNat
  <2>3. /\ n < hi => r[p[hi]] < r[p[n]]
        /\ lo < n => r[p[n]] < r[p[lo]]
    BY <1>5, <2>1
  <2>4. r[p[hi]] \in Nat /\ r[p[n]] \in Nat /\ r[p[lo]] \in Nat
    BY <1>4, <2>1
  <2>5. r[p[hi]] <= r[p[n]]
    BY <2>2, <2>3, <2>4
  <2>6. r[p[n]] <= r[p[lo]]
    BY <2>2, <2>3, <2>4
  <2> QED
    BY <2>5, <2>6 DEF lo, hi
<1>8. Lowest(LastOf(p, P), Picked(p, P), r)
  BY <1>6, <1>7 DEF Lowest, LastOf, Picked
<1>9. Highest(FirstOf(p, P), Picked(p, P), r)
  BY <1>6, <1>7 DEF Highest, FirstOf, Picked
<1>10. Cardinality(Picked(p, P)) = Cardinality(P)
  <2> DEFINE f == [n \in P |-> p[n]]
  <2>1. f \in Surjection(P, Picked(p, P))
    BY DEF Picked, Surjection
  <2>2. f \in Injection(P, Picked(p, P))
    <3>1. \A m, n \in P : p[m] = p[n] => m = n
      <4> TAKE m, n \in P
      <4>1. m = n \/ m < n \/ n < m
        BY <1>4, SizeNat
      <4> QED
        BY <1>4, <1>5, <4>1
    <3> QED
      BY <3>1 DEF Picked, Injection, IsInjective
  <2>3. IsFiniteSet(P)
    BY <1>3, FS_Subset DEF p
  <2> QED
    BY <2>1, <2>2, <2>3, FS_Surjection
<1> QED
  BY <1>8, <1>9, <1>10 DEF p

\* All of its places have all of its items.
LEMMA SortedAll ==
    ASSUME NEW T, NEW r, Ranks(T, r), NEW i, NEW succ, SortedBy(T, r, i, succ)
    PROVE  /\ Picked(Path(i, succ), Places(Path(i, succ))) = T
           /\ Cardinality(Places(Path(i, succ))) = Cardinality(T)
<1> DEFINE p == Path(i, succ)
<1>1. DOMAIN p = 0 .. Size /\ \A n \in 0 .. Size : p[n] \in T \cup {NULL}
  BY PathSteps, SortedWithin
<1>2. \A j \in T : \E n \in 0 .. Size : p[n] = j
  BY SortedCovers
<1>3. NULL \notin T
  BY UtHashAssumption DEF Ranks
<1>4. Picked(p, Places(p)) = T
  <2> HIDE DEF p
  <2>1. \A j : j \in Picked(p, Places(p)) <=> j \in T
    BY <1>1, <1>2, <1>3 DEF Picked, Places
  <2> QED
    BY <2>1
<1>5. Cardinality(Picked(p, Places(p))) = Cardinality(Places(p))
  BY SortedPicked
<1> QED
  BY <1>4, <1>5

\* The back pointers of a sorted chain, each to the next higher item, follow the walk.
LEMMA SortedBack ==
    ASSUME NEW T, NEW r, Ranks(T, r), NEW i, NEW succ, SortedBy(T, r, i, succ),
           NEW prev, \A j \in T : Lowest(prev[j], Above(T, r, j), r)
    PROVE  Linked(Walk(Path(i, succ)), prev)
<1> DEFINE p == Path(i, succ)
           k == Cardinality(Places(p))
<1>0. DOMAIN p = 0 .. Size /\ p[0] = i /\ p[Size] = NULL
      /\ \A n \in 0 .. Size - 1 : p[n + 1] = Onward(p[n], succ)
  BY PathSteps, SortedEnds
<1>1. \A n \in 0 .. Size : p[n] \in T \cup {NULL}
  BY SortedWithin
<1>2. \A n \in 0 .. Size : \A m \in 0 .. n - 1 :
          p[n] # NULL => p[m] # NULL /\ r[p[n]] < r[p[m]]
  BY SortedDescends
<1>3. k \in 0 .. Size /\ Places(p) = 0 .. k - 1
  BY <1>0, <1>2, FirstPlaces
<1> HIDE DEF p
<1>4. \A n \in 0 .. k - 1 : p[n] # NULL /\ p[n] \in T /\ r[p[n]] \in Nat
  BY <1>0, <1>1, <1>3, SizeNat DEF Places, Ranks
<1> HIDE DEF k
<1>5. ASSUME NEW n \in 1 .. k PROVE prev[p[n - 1]] = IF n = 1 THEN NULL ELSE p[n - 2]
  <2>1. n - 1 \in 0 .. k - 1 /\ n - 1 \in 0 .. Size
    BY <1>3, SizeNat
  <2>2. p[n - 1] \in T /\ Lowest(prev[p[n - 1]], Above(T, r, p[n - 1]), r)
    BY <1>4, <2>1
  <2>3. CASE n = 1
    <3>1. p[n - 1] = i
      BY <1>0, <2>3
    <3>2. \A j \in T : r[j] <= r[i] /\ r[j] \in Nat /\ r[i] \in Nat
      BY <2>2, <3>1 DEF SortedBy, Highest, Ranks
    <3>3. Above(T, r, p[n - 1]) = {}
      BY <3>1, <3>2 DEF Above
    <3> QED
      BY <2>2, <2>3, <3>3 DEF Lowest
  <2>4. CASE n # 1
    <3>1. n - 2 \in 0 .. k - 1 /\ n - 2 \in 0 .. Size - 1 /\ n - 2 \in 0 .. (n - 1) - 1
          /\ n - 1 = (n - 2) + 1
      BY <1>3, <2>4, SizeNat
    <3> DEFINE x == p[n - 2]
               y == p[n - 1]
    <3>2. x \in T /\ x # NULL /\ r[x] \in Nat /\ y \in T /\ r[y] \in Nat /\ r[y] < r[x]
      BY <1>2, <1>4, <2>1, <3>1
    <3>3. y = succ[x]
      BY <1>0, <3>1, <3>2 DEF Onward
    <3>4. Lowest(prev[y], Above(T, r, y), r)
      BY <2>2
    <3> HIDE DEF x, y
    <3>5. x \in Above(T, r, y)
      BY <3>2 DEF Above
    <3>6. prev[y] \in T /\ r[y] < r[prev[y]] /\ r[prev[y]] <= r[x] /\ r[prev[y]] \in Nat
      BY <3>2, <3>4, <3>5 DEF Lowest, Above, Ranks
    <3>7. Highest(y, Below(T, r, x), r)
      BY <3>2, <3>3 DEF SortedBy
    <3>8. ~(r[prev[y]] < r[x])
      BY <3>2, <3>6, <3>7 DEF Highest, Below
    <3>9. r[prev[y]] = r[x]
      BY <3>2, <3>6, <3>8
    <3>10. prev[y] = x
      BY <3>2, <3>6, <3>9 DEF Ranks, Distinct
    <3> QED
      BY <2>4, <3>10 DEF x, y
  <2> QED
    BY <2>3, <2>4
<1>6. DOMAIN Walk(p) = 1 .. k /\ \A n \in 1 .. k : Walk(p)[n] = p[n - 1]
  BY DEF Walk, k
<1>7. ASSUME NEW n \in 1 .. k
      PROVE  prev[Walk(p)[n]] = IF n = 1 THEN NULL ELSE Walk(p)[n - 1]
  <2>1. n # 1 => n - 1 \in 1 .. k /\ (n - 1) - 1 = n - 2
    BY <1>3, SizeNat
  <2> QED
    BY <1>5, <1>6, <2>1
<1> QED
  BY <1>6, <1>7 DEF Linked, p
-----------------------------------------------------------------------------
(***************************************************************************)
(* The buckets of table t, with the handles h, when they hold the items S. *)
(***************************************************************************)
Handles == [tbl : BOOLEAN, prev : Items \cup {NULL}, next : Items \cup {NULL},
            hh_prev : Items \cup {NULL}, hh_next : Items \cup {NULL}]

\* The parts of a UT_hash_table, of 'num_buckets' buckets.
TableShape(t) ==
    /\ DOMAIN t = {"num_items", "tail", "num_buckets", "buckets", "ineff_expands", "noexpand"}
    /\ t.num_buckets \in Nat /\ t.num_buckets >= NumBuckets
    /\ DOMAIN t.buckets = 0 .. t.num_buckets - 1
    /\ \A b \in 0 .. t.num_buckets - 1 :
          DOMAIN t.buckets[b] = {"hh_head", "count", "expand_mult"}

\* The items of S that hash to bucket b.
In(t, S, b) == {i \in S : Bucket(i, t) = b}

\* Every bucket is a doubly linked chain of its items, in the order of a rank ...
Chains(h, t, S, r) ==
    /\ \A b \in 0 .. t.num_buckets - 1 : Highest(t.buckets[b].hh_head, In(t, S, b), r)
    /\ \A i \in S :
          /\ h[i].tbl
          /\ Highest(h[i].hh_next, Below(In(t, S, Bucket(i, t)), r, i), r)
          /\ Lowest(h[i].hh_prev, Above(In(t, S, Bucket(i, t)), r, i), r)

\* ... and counts them.
Counts(t, S) ==
    /\ \A b \in 0 .. t.num_buckets - 1 : t.buckets[b].count = Cardinality(In(t, S, b))
    /\ t.num_items = Cardinality(S)

Right(h, t, S, r) ==
    /\ h \in [Items -> Handles] /\ TableShape(t)
    /\ Ranks(S, r) /\ Chains(h, t, S, r) /\ Counts(t, S)

LEMMA BucketRange ==
    ASSUME NEW t, TableShape(t)
    PROVE  /\ \A i \in Items : Bucket(i, t) \in 0 .. t.num_buckets - 1
           /\ \A k \in DOMAIN HashOf : HashOf[k] % t.num_buckets \in 0 .. t.num_buckets - 1
<1>1. t.num_buckets \in Nat \ {0}
  BY UtHashAssumption DEF TableShape
<1>2. \A x \in Nat : x % t.num_buckets \in 0 .. t.num_buckets - 1
  BY <1>1
<1>3. \A i \in Items : HashOf[KeyOf[i]] \in Nat
  BY UtHashAssumption
<1> QED
  BY <1>2, <1>3, UtHashAssumption DEF Bucket

\* A chain of a bucket that is right is sorted.
LEMMA BucketSorted ==
    ASSUME NEW h, NEW t, NEW S, NEW r, Right(h, t, S, r), NEW b \in 0 .. t.num_buckets - 1
    PROVE  /\ Ranks(In(t, S, b), r)
           /\ SortedBy(In(t, S, b), r, t.buckets[b].hh_head, [i \in Items |-> h[i].hh_next])
<1>1. Ranks(In(t, S, b), r)
  BY DEF Right, Ranks, Distinct, In
<1>2. \A i \in In(t, S, b) : i \in Items /\ i \in S /\ Bucket(i, t) = b
  BY DEF Right, Ranks, In
<1>3. \A i \in In(t, S, b) :
          Highest([j \in Items |-> h[j].hh_next][i], Below(In(t, S, b), r, i), r)
  BY <1>2 DEF Right, Chains
<1> QED
  BY <1>1, <1>3 DEF SortedBy, Right, Chains

\* So a lookup or a walk in it comes to an end, and to its items.
LEMMA BucketVisited ==
    ASSUME NEW h, NEW t, NEW S, NEW r, Right(h, t, S, r), NEW b \in 0 .. t.num_buckets - 1
    PROVE  /\ BucketPath(h, t, b)[Size] = NULL
           /\ Picked(BucketPath(h, t, b), Places(BucketPath(h, t, b))) = In(t, S, b)
           /\ Cardinality(Places(BucketPath(h, t, b))) = Cardinality(In(t, S, b))
           /\ Linked(Walk(BucketPath(h, t, b)), [i \in Items |-> h[i].hh_prev])
<1> DEFINE T == In(t, S, b)
           succ == [i \in Items |-> h[i].hh_next]
           prev == [i \in Items |-> h[i].hh_prev]
<1>1. Ranks(T, r) /\ SortedBy(T, r, t.buckets[b].hh_head, succ)
  BY BucketSorted
<1>2. \A i \in T : Lowest(prev[i], Above(T, r, i), r)
  <2>1. \A i \in T : i \in Items /\ i \in S /\ Bucket(i, t) = b
    BY DEF Right, Ranks, In
  <2> QED
    BY <2>1 DEF Right, Chains
<1>3. BucketPath(h, t, b) = Path(t.buckets[b].hh_head, succ)
  BY DEF BucketPath
<1> HIDE DEF T, succ, prev
<1>4. Linked(Walk(Path(t.buckets[b].hh_head, succ)), prev)
  BY <1>1, <1>2, SortedBack
<1>5. /\ Path(t.buckets[b].hh_head, succ)[Size] = NULL
      /\ Picked(Path(t.buckets[b].hh_head, succ), Places(Path(t.buckets[b].hh_head, succ))) = T
      /\ Cardinality(Places(Path(t.buckets[b].hh_head, succ))) = Cardinality(T)
  BY <1>1, SortedEnds, SortedAll
<1> QED
  BY <1>3, <1>4, <1>5 DEF T, prev
-----------------------------------------------------------------------------
(***************************************************************************)
(* An item that is hashed.                                                 *)
(***************************************************************************)
LEMMA HashedRight ==
    ASSUME NEW h, NEW t, NEW S, NEW r, Right(h, t, S, r), NEW i \in Items \ S,
           NEW N \in Nat, \A j \in Items : r[j] <= N
    PROVE  Right(Chained(h, t, i), Counted(t, i), S \cup {i}, [r EXCEPT ![i] = N + 1])
<1> DEFINE g == Chained(h, t, i)
           u == Counted(t, i)
           q == [r EXCEPT ![i] = N + 1]
           b == Bucket(i, t)
           old == t.buckets[b].hh_head
           T == In(t, S, b)
<1>1. /\ S \subseteq Items /\ r \in [Items -> Nat] /\ h \in [Items -> Handles]
      /\ TableShape(t) /\ Distinct(S, r) /\ i \in Items /\ i \notin S /\ NULL \notin Items
  BY UtHashAssumption DEF Right, Ranks
<1>2. b \in 0 .. t.num_buckets - 1
  BY <1>1, BucketRange
<1>3. Ranks(S \cup {i}, q)
  BY <1>1 DEF Ranks, Distinct
<1>4. /\ DOMAIN u = DOMAIN t /\ u.num_buckets = t.num_buckets
      /\ u.num_items = t.num_items + 1
      /\ DOMAIN u.buckets = DOMAIN t.buckets
      /\ u.buckets[b].hh_head = i /\ u.buckets[b].count = t.buckets[b].count + 1
      /\ \A d \in DOMAIN t.buckets : /\ d # b => u.buckets[d] = t.buckets[d]
                                     /\ DOMAIN u.buckets[d] = DOMAIN t.buckets[d]
  <2> HIDE DEF b
  <2>1. u = [t EXCEPT !.num_items = @ + 1, !.buckets[b].hh_head = i, !.buckets[b].count = @ + 1]
    BY DEF Counted, b
  <2> HIDE DEF u
  <2> QED
    BY <1>1, <1>2, <2>1 DEF TableShape
<1>5. TableShape(u)
  BY <1>1, <1>4 DEF TableShape
<1>6. \A j : Bucket(j, u) = Bucket(j, t)
  BY <1>4 DEF Bucket
<1>7. \A d : In(u, S \cup {i}, d) = In(t, S, d) \cup (IF d = b THEN {i} ELSE {})
  BY <1>6 DEF In
<1>8. Highest(old, T, r) /\ T \subseteq S
  BY <1>2 DEF Right, Chains, In
<1>9. old \in Items \cup {NULL} /\ old # i
  BY <1>1, <1>8 DEF Highest
<1>10. /\ g \in [Items -> Handles]
       /\ g[i].tbl = TRUE /\ g[i].hh_prev = NULL /\ g[i].hh_next = old
       /\ \A j \in Items \ {i} :
             /\ g[j].tbl = h[j].tbl /\ g[j].hh_next = h[j].hh_next
             /\ g[j].hh_prev = IF j = old THEN i ELSE h[j].hh_prev
  <2> HIDE DEF old
  <2>1. g = [j \in Items |->
            IF j = i THEN [h[i] EXCEPT !.tbl = TRUE, !.hh_prev = NULL, !.hh_next = old]
            ELSE IF j = old THEN [h[j] EXCEPT !.hh_prev = i] ELSE h[j]]
    BY DEF Chained, old, b
  <2> HIDE DEF g
  <2>2. h[i] \in Handles /\ g[i] = [h[i] EXCEPT !.tbl = TRUE, !.hh_prev = NULL, !.hh_next = old]
    BY <1>1, <2>1
  <2>3. g[i] \in Handles /\ g[i].tbl = TRUE /\ g[i].hh_prev = NULL /\ g[i].hh_next = old
    BY <1>9, <2>2 DEF Handles
  <2>4. ASSUME NEW j \in Items \ {i}
        PROVE  /\ g[j] \in Handles
               /\ g[j].tbl = h[j].tbl /\ g[j].hh_next = h[j].hh_next
               /\ g[j].hh_prev = IF j = old THEN i ELSE h[j].hh_prev
    <3>1. h[j] \in Handles /\ g[j] = IF j = old THEN [h[j] EXCEPT !.hh_prev = i] ELSE h[j]
      BY <1>1, <2>1
    <3> QED
      BY <1>1, <3>1 DEF Handles
  <2> QED
    BY <2>1, <2>3, <2>4
<1>11. \A d \in 0 .. t.num_buckets - 1 : Highest(t.buckets[d].hh_head, In(t, S, d), r)
  BY DEF Right, Chains
<1>12. \A j \in S : /\ h[j].tbl
                    /\ Highest(h[j].hh_next, Below(In(t, S, Bucket(j, t)), r, j), r)
                    /\ Lowest(h[j].hh_prev, Above(In(t, S, Bucket(j, t)), r, j), r)
  BY DEF Right, Chains
<1>13. Counts(t, S) /\ IsFiniteSet(S) /\ \A d : IsFiniteSet(In(t, S, d))
  BY <1>1, UtHashAssumption, FS_Subset DEF Right, In
<1>14. /\ q[i] = N + 1 /\ \A j \in Items \ {i} : q[j] = r[j]
       /\ \A j \in Items : r[j] \in Nat /\ r[j] < N + 1
  BY <1>1
<1> HIDE DEF g, u, q, b, old, T
<1>15. \A d \in 0 .. t.num_buckets - 1 : u.buckets[d].count = Cardinality(In(u, S \cup {i}, d))
  <2> TAKE d \in 0 .. t.num_buckets - 1
  <2>1. CASE d = b
    <3>1. i \notin In(t, S, d)
      BY <1>1 DEF In
    <3>2. In(u, S \cup {i}, d) = In(t, S, d) \cup {i}
      BY <1>7, <2>1
    <3>3. Cardinality(In(t, S, d) \cup {i}) = Cardinality(In(t, S, d)) + 1
      BY <1>13, <3>1, FS_AddElement
    <3> QED
      BY <1>2, <1>4, <1>13, <2>1, <3>2, <3>3 DEF Counts
  <2>2. CASE d # b
    <3>1. In(u, S \cup {i}, d) = In(t, S, d)
      BY <1>7, <2>2
    <3>2. u.buckets[d] = t.buckets[d]
      BY <1>1, <1>4, <2>2 DEF TableShape
    <3> QED
      BY <1>13, <3>1, <3>2 DEF Counts
  <2> QED
    BY <2>1, <2>2
<1>16. Counts(u, S \cup {i})
  <2>1. Cardinality(S \cup {i}) = Cardinality(S) + 1
    BY <1>1, <1>13, FS_AddElement
  <2> QED
    BY <1>4, <1>13, <1>15, <2>1 DEF Counts
<1>17. \A d \in 0 .. u.num_buckets - 1 :
           Highest(u.buckets[d].hh_head, In(u, S \cup {i}, d), q)
  <2> TAKE d \in 0 .. u.num_buckets - 1
  <2>1. d \in DOMAIN t.buckets /\ d \in 0 .. t.num_buckets - 1
    BY <1>1, <1>4 DEF TableShape
  <2>2. CASE d = b
    <3>1. In(u, S \cup {i}, d) = In(t, S, d) \cup {i} /\ In(t, S, d) \subseteq Items \ {i}
      BY <1>1, <1>7, <2>2 DEF In
    <3>2. \A j \in In(t, S, d) \cup {i} : q[j] <= q[i]
      BY <1>14, <3>1
    <3>3. u.buckets[d].hh_head = i
      BY <1>4, <2>2
    <3> QED
      BY <3>1, <3>2, <3>3 DEF Highest
  <2>3. CASE d # b
    <3>1. In(u, S \cup {i}, d) = In(t, S, d) /\ u.buckets[d] = t.buckets[d]
      BY <1>4, <1>7, <2>1, <2>3
    <3>2. In(t, S, d) \subseteq Items \ {i}
      BY <1>1 DEF In
    <3> QED
      BY <1>11, <1>14, <2>1, <3>1, <3>2 DEF Highest
  <2> QED
    BY <2>2, <2>3
<1>18. ASSUME NEW j \in S \cup {i}
       PROVE  /\ g[j].tbl
              /\ Highest(g[j].hh_next, Below(In(u, S \cup {i}, Bucket(j, u)), q, j), q)
              /\ Lowest(g[j].hh_prev, Above(In(u, S \cup {i}, Bucket(j, u)), q, j), q)
  <2>1. T = In(t, S, b) /\ T \subseteq Items \ {i}
    BY <1>1 DEF In, T
  <2>2. CASE j = i
    <3>1. In(u, S \cup {i}, Bucket(j, u)) = T \cup {i}
      BY <1>6, <1>7, <2>1, <2>2 DEF b
    <3>2. Below(T \cup {i}, q, i) = T /\ Above(T \cup {i}, q, i) = {}
      BY <1>14, <2>1 DEF Below, Above
    <3>3. Highest(old, T, q)
      BY <1>8, <1>14, <2>1 DEF Highest
    <3>4. Lowest(g[i].hh_prev, Above(T \cup {i}, q, i), q)
      BY <1>10, <3>2 DEF Lowest
    <3>5. Highest(g[i].hh_next, Below(T \cup {i}, q, i), q) /\ g[i].tbl
      BY <1>10, <3>2, <3>3
    <3> QED
      BY <2>2, <3>1, <3>4, <3>5
  <2>3. CASE j # i
    <3> DEFINE V == In(t, S, Bucket(j, t))
               W == In(u, S \cup {i}, Bucket(j, u))
    <3>1. V \subseteq Items \ {i} /\ W = V \cup (IF Bucket(j, t) = b THEN {i} ELSE {})
      BY <1>1, <1>6, <1>7 DEF In
    <3>2. /\ j \in S /\ j \in Items \ {i} /\ j \in V
          /\ Highest(h[j].hh_next, Below(V, r, j), r) /\ Lowest(h[j].hh_prev, Above(V, r, j), r)
      BY <1>1, <1>12, <2>3 DEF In
    <3> HIDE DEF V, W
    <3>3. Below(W, q, j) = Below(V, r, j) /\ Below(V, r, j) \subseteq Items \ {i}
      BY <1>14, <3>1, <3>2 DEF Below
    <3>4. Highest(g[j].hh_next, Below(W, q, j), q)
      BY <1>10, <1>14, <3>2, <3>3 DEF Highest
    <3>5. CASE Bucket(j, t) # b
      <4>1. Above(W, q, j) = Above(V, r, j) /\ Above(V, r, j) \subseteq Items \ {i}
        BY <1>14, <3>1, <3>2, <3>5 DEF Above
      <4>2. j # old
        BY <1>8, <2>1, <3>2, <3>5, <1>1 DEF Highest, In, T
      <4>3. Lowest(g[j].hh_prev, Above(W, q, j), q)
        BY <1>10, <1>14, <3>2, <4>1, <4>2 DEF Lowest
      <4> QED
        BY <1>10, <1>12, <3>2, <3>4, <4>3 DEF W
    <3>6. CASE Bucket(j, t) = b
      <4>1. V = T /\ Above(W, q, j) = Above(V, r, j) \cup {i}
            /\ Above(V, r, j) \subseteq Items \ {i}
        BY <1>14, <2>1, <3>1, <3>2, <3>6 DEF Above, V
      <4>2. CASE j = old
        <5>1. Above(V, r, j) = {}
          BY <1>8, <1>14, <2>1, <3>1, <3>2, <4>1, <4>2 DEF Highest, Above
        <5>2. g[j].hh_prev = i /\ Above(W, q, j) = {i}
          BY <1>10, <3>2, <4>1, <4>2, <5>1
        <5>3. Lowest(g[j].hh_prev, Above(W, q, j), q)
          BY <1>14, <5>2 DEF Lowest
        <5> QED
          BY <1>10, <1>12, <3>2, <3>4, <5>3 DEF W
      <4>3. CASE j # old
        <5>1. old \in T /\ r[j] <= r[old] /\ r[j] # r[old]
          BY <1>1, <1>8, <3>2, <4>1, <4>3 DEF Highest, Distinct
        <5>2. old \in Above(V, r, j)
          <6>1. r[j] \in Nat /\ r[old] \in Nat
            BY <1>14, <2>1, <3>2, <5>1
          <6>2. r[old] > r[j]
            BY <5>1, <6>1
          <6> QED
            BY <4>1, <5>1, <6>2 DEF Above
        <5>3. Lowest(h[j].hh_prev, Above(W, q, j), q)
          BY <1>14, <3>2, <4>1, <5>2 DEF Lowest
        <5> QED
          BY <1>10, <1>12, <3>2, <3>4, <4>3, <5>3 DEF W
      <4> QED
        BY <4>2, <4>3
    <3> QED
      BY <3>5, <3>6
  <2> QED
    BY <2>2, <2>3
<1>19. Chains(g, u, S \cup {i}, q)
  BY <1>17, <1>18 DEF Chains
<1> QED
  BY <1>3, <1>5, <1>10, <1>16, <1>19 DEF Right, g, u, q
-----------------------------------------------------------------------------
(***************************************************************************)
(* An item that leaves its bucket.                                         *)
(***************************************************************************)
\* The pointers of a sorted chain agree.
LEMMA Neighbours ==
    ASSUME NEW T, NEW r, Ranks(T, r), NEW next, NEW prev,
           \A j \in T : Highest(next[j], Below(T, r, j), r) /\ Lowest(prev[j], Above(T, r, j), r),
           NEW i \in T, NEW j \in T
    PROVE  next[j] = i <=> prev[i] = j
<1>0. /\ i # NULL /\ j # NULL /\ r[i] \in Nat /\ r[j] \in Nat
      /\ \A k \in T : r[k] \in Nat /\ (r[k] = r[i] => k = i) /\ (r[k] = r[j] => k = j)
  BY UtHashAssumption DEF Ranks, Distinct
<1>1. Highest(next[j], Below(T, r, j), r) /\ Lowest(prev[i], Above(T, r, i), r)
  OBVIOUS
<1>2. ASSUME next[j] = i PROVE prev[i] = j
  <2>1. i \in Below(T, r, j) /\ \A k \in Below(T, r, j) : r[k] <= r[i]
    BY <1>0, <1>1, <1>2 DEF Highest
  <2>2. j \in Above(T, r, i)
    BY <1>0, <2>1 DEF Below, Above
  <2>3. prev[i] \in T /\ r[prev[i]] > r[i] /\ r[prev[i]] <= r[j]
    BY <1>1, <2>2 DEF Lowest, Above
  <2>4. ~(r[prev[i]] < r[j])
    BY <1>0, <2>1, <2>3 DEF Below
  <2> QED
    BY <1>0, <2>3, <2>4
<1>3. ASSUME prev[i] = j PROVE next[j] = i
  <2>1. j \in Above(T, r, i) /\ \A k \in Above(T, r, i) : r[j] <= r[k]
    BY <1>0, <1>1, <1>3 DEF Lowest
  <2>2. i \in Below(T, r, j)
    BY <1>0, <2>1 DEF Below, Above
  <2>3. next[j] \in T /\ r[next[j]] < r[j] /\ r[i] <= r[next[j]]
    BY <1>1, <2>2 DEF Highest, Below
  <2>4. ~(r[i] < r[next[j]])
    BY <1>0, <2>1, <2>3 DEF Above
  <2> QED
    BY <1>0, <2>3, <2>4
<1> QED
  BY <1>2, <1>3

\* Without i, the next item below j is the one below i if i was next, and else the same;
\* and so above.
LEMMA Bypassed ==
    ASSUME NEW T, NEW r, Ranks(T, r), NEW next, NEW prev,
           \A j \in T : Highest(next[j], Below(T, r, j), r) /\ Lowest(prev[j], Above(T, r, j), r),
           NEW i \in T, NEW j \in T, j # i
    PROVE  /\ Highest(IF j = prev[i] THEN next[i] ELSE next[j], Below(T \ {i}, r, j), r)
           /\ Lowest(IF j = next[i] THEN prev[i] ELSE prev[j], Above(T \ {i}, r, j), r)
<1>0. /\ i # NULL /\ r[i] \in Nat /\ r[j] \in Nat
      /\ \A k \in T : r[k] \in Nat /\ (r[k] = r[i] => k = i)
  BY UtHashAssumption DEF Ranks, Distinct
<1>1. next[j] = i <=> prev[i] = j
  BY Neighbours
<1>2. next[i] = j <=> prev[j] = i
  BY Neighbours
<1>3. /\ Highest(next[j], Below(T, r, j), r) /\ Lowest(prev[j], Above(T, r, j), r)
      /\ Highest(next[i], Below(T, r, i), r) /\ Lowest(prev[i], Above(T, r, i), r)
  OBVIOUS
<1>4. Below(T \ {i}, r, j) = Below(T, r, j) \ {i} /\ Above(T \ {i}, r, j) = Above(T, r, j) \ {i}
  BY DEF Below, Above
<1>5. Highest(IF j = prev[i] THEN next[i] ELSE next[j], Below(T \ {i}, r, j), r)
  <2>1. CASE j = prev[i]
    <3>1. next[j] = i
      BY <1>1, <2>1
    <3>2. i \in Below(T, r, j) /\ \A k \in Below(T, r, j) : r[k] <= r[i]
      BY <1>0, <1>3, <3>1 DEF Highest
    <3>3. Below(T, r, j) \ {i} = Below(T, r, i)
      BY <1>0, <3>2 DEF Below
    <3> QED
      BY <1>3, <1>4, <2>1, <3>3
  <2>2. CASE j # prev[i]
    <3>1. next[j] # i
      BY <1>1, <2>2
    <3>2. Highest(next[j], Below(T, r, j) \ {i}, r)
      BY <1>3, <3>1 DEF Highest
    <3> QED
      BY <1>4, <2>2, <3>2
  <2> QED
    BY <2>1, <2>2
<1>6. Lowest(IF j = next[i] THEN prev[i] ELSE prev[j], Above(T \ {i}, r, j), r)
  <2>1. CASE j = next[i]
    <3>1. prev[j] = i
      BY <1>2, <2>1
    <3>2. i \in Above(T, r, j) /\ \A k \in Above(T, r, j) : r[i] <= r[k]
      BY <1>0, <1>3, <3>1 DEF Lowest
    <3>3. Above(T, r, j) \ {i} = Above(T, r, i)
      BY <1>0, <3>2 DEF Above
    <3> QED
      BY <1>3, <1>4, <2>1, <3>3
  <2>2. CASE j # next[i]
    <3>1. prev[j] # i
      BY <1>2, <2>2
    <3>2. Lowest(prev[j], Above(T, r, j) \ {i}, r)
      BY <1>3, <3>1 DEF Lowest
    <3> QED
      BY <1>4, <2>2, <3>2
  <2> QED
    BY <2>1, <2>2
<1> QED
  BY <1>5, <1>6

LEMMA UnhashedRight ==
    ASSUME NEW h, NEW t, NEW S, NEW r, Right(h, t, S, r), NEW i \in S
    PROVE  Right([Unchain(h, i) EXCEPT ![i] = NoHandle], Uncounted(h, t, i), S \ {i}, r)
<1> DEFINE g == [Unchain(h, i) EXCEPT ![i] = NoHandle]
           u == Uncounted(h, t, i)
           b == Bucket(i, t)
           T == In(t, S, b)
           next == [j \in Items |-> h[j].hh_next]
           prev == [j \in Items |-> h[j].hh_prev]
<1>1. /\ S \subseteq Items /\ r \in [Items -> Nat] /\ h \in [Items -> Handles]
      /\ TableShape(t) /\ Distinct(S, r) /\ i \in Items /\ NULL \notin Items
  BY UtHashAssumption DEF Right, Ranks
<1>2. b \in 0 .. t.num_buckets - 1 /\ i \in T /\ T \subseteq Items /\ Ranks(T, r)
  <2>1. b \in 0 .. t.num_buckets - 1
    BY <1>1, BucketRange
  <2>2. i \in T /\ T \subseteq Items
    BY <1>1 DEF In
  <2> QED
    BY <2>1, <2>2, BucketSorted
<1>3. Ranks(S \ {i}, r)
  BY <1>1 DEF Ranks, Distinct
<1>4. /\ DOMAIN u = DOMAIN t /\ u.num_buckets = t.num_buckets
      /\ u.num_items = t.num_items - 1
      /\ DOMAIN u.buckets = DOMAIN t.buckets
      /\ u.buckets[b].hh_head = IF t.buckets[b].hh_head = i THEN next[i]
                                 ELSE t.buckets[b].hh_head
      /\ u.buckets[b].count = t.buckets[b].count - 1
      /\ \A d \in DOMAIN t.buckets : /\ d # b => u.buckets[d] = t.buckets[d]
                                     /\ DOMAIN u.buckets[d] = DOMAIN t.buckets[d]
  <2> HIDE DEF b
  <2>1. u = [t EXCEPT !.num_items = @ - 1, !.buckets[b].count = @ - 1,
                      !.buckets[b].hh_head = IF @ = i THEN h[i].hh_next ELSE @]
    BY DEF Uncounted, b
  <2>2. next[i] = h[i].hh_next
    BY <1>1
  <2> HIDE DEF u, next
  <2> QED
    BY <1>1, <1>2, <2>1, <2>2 DEF TableShape
<1>5. TableShape(u)
  BY <1>1, <1>4 DEF TableShape
<1>6. \A j : Bucket(j, u) = Bucket(j, t)
  BY <1>4 DEF Bucket
<1>7. \A d : In(u, S \ {i}, d) = In(t, S, d) \ {i} /\ (d # b => i \notin In(t, S, d))
  BY <1>6 DEF In
<1>8. \A j \in T : Highest(next[j], Below(T, r, j), r) /\ Lowest(prev[j], Above(T, r, j), r)
  <2>1. \A j \in T : j \in S /\ j \in Items /\ Bucket(j, t) = b
    BY <1>1 DEF In
  <2> QED
    BY <2>1 DEF Right, Chains
<1>9. next[i] \in T \cup {NULL} /\ prev[i] \in T \cup {NULL}
  BY <1>2, <1>8 DEF Highest, Lowest, Below, Above
<1>10. /\ g \in [Items -> Handles]
       /\ \A j \in Items \ {i} :
             /\ g[j].tbl = h[j].tbl
             /\ g[j].hh_next = IF j = prev[i] THEN next[i] ELSE h[j].hh_next
             /\ g[j].hh_prev = IF j = next[i] THEN prev[i] ELSE h[j].hh_prev
  <2>0. next[i] = h[i].hh_next /\ prev[i] = h[i].hh_prev
    BY <1>1
  <2>1. DOMAIN g = Items /\ g[i] = NoHandle /\ g = [j \in Items |-> g[j]]
    BY <1>1 DEF Unchain
  <2>2. \A j \in Items \ {i} : g[j] = [h[j] EXCEPT
            !.hh_next = IF j = h[i].hh_prev THEN h[i].hh_next ELSE @,
            !.hh_prev = IF j = h[i].hh_next THEN h[i].hh_prev ELSE @]
    BY DEF Unchain
  <2> HIDE DEF g, next, prev
  <2>3. NoHandle \in Handles
    BY DEF NoHandle, Handles
  <2>4. ASSUME NEW j \in Items \ {i}
        PROVE  /\ g[j] \in Handles
               /\ g[j].tbl = h[j].tbl
               /\ g[j].hh_next = IF j = prev[i] THEN next[i] ELSE h[j].hh_next
               /\ g[j].hh_prev = IF j = next[i] THEN prev[i] ELSE h[j].hh_prev
    <3>1. h[j] \in Handles /\ next[i] \in Items \cup {NULL} /\ prev[i] \in Items \cup {NULL}
      BY <1>1, <1>2, <1>9
    <3>2. g[j] = [h[j] EXCEPT !.hh_next = IF j = prev[i] THEN next[i] ELSE @,
                              !.hh_prev = IF j = next[i] THEN prev[i] ELSE @]
      BY <2>0, <2>2
    <3> QED
      BY <3>1, <3>2 DEF Handles
  <2> QED
    BY <2>1, <2>3, <2>4
<1>11. \A d \in 0 .. t.num_buckets - 1 : Highest(t.buckets[d].hh_head, In(t, S, d), r)
  BY DEF Right, Chains
<1>12. \A j \in S : /\ h[j].tbl
                    /\ Highest(h[j].hh_next, Below(In(t, S, Bucket(j, t)), r, j), r)
                    /\ Lowest(h[j].hh_prev, Above(In(t, S, Bucket(j, t)), r, j), r)
  BY DEF Right, Chains
<1>13. Counts(t, S) /\ IsFiniteSet(S) /\ \A d : IsFiniteSet(In(t, S, d))
  BY <1>1, UtHashAssumption, FS_Subset DEF Right, In
<1>14. \A j \in T : next[j] = h[j].hh_next /\ prev[j] = h[j].hh_prev
  BY <1>2
<1> HIDE DEF g, u, b, T, next, prev
<1>15. \A d \in 0 .. t.num_buckets - 1 : u.buckets[d].count = Cardinality(In(u, S \ {i}, d))
  <2> TAKE d \in 0 .. t.num_buckets - 1
  <2>1. CASE d = b
    <3>1. i \in In(t, S, d)
      BY <1>2, <2>1 DEF T
    <3>2. Cardinality(In(t, S, d) \ {i}) = Cardinality(In(t, S, d)) - 1
      BY <1>13, <3>1, FS_RemoveElement
    <3> QED
      BY <1>2, <1>4, <1>7, <1>13, <2>1, <3>2 DEF Counts
  <2>2. CASE d # b
    <3>1. In(u, S \ {i}, d) = In(t, S, d)
      BY <1>7, <2>2
    <3>2. u.buckets[d] = t.buckets[d]
      BY <1>1, <1>4, <2>2 DEF TableShape
    <3> QED
      BY <1>13, <3>1, <3>2 DEF Counts
  <2> QED
    BY <2>1, <2>2
<1>16. Counts(u, S \ {i})
  <2>1. Cardinality(S \ {i}) = Cardinality(S) - 1
    BY <1>13, FS_RemoveElement
  <2> QED
    BY <1>4, <1>13, <1>15, <2>1 DEF Counts
<1>17. \A d \in 0 .. u.num_buckets - 1 :
           Highest(u.buckets[d].hh_head, In(u, S \ {i}, d), r)
  <2> TAKE d \in 0 .. u.num_buckets - 1
  <2>1. d \in DOMAIN t.buckets /\ d \in 0 .. t.num_buckets - 1
    BY <1>1, <1>4 DEF TableShape
  <2>2. Highest(t.buckets[d].hh_head, In(t, S, d), r)
    BY <1>11, <2>1
  <2>3. CASE d = b
    <3> DEFINE x == t.buckets[b].hh_head
    <3>1. Highest(x, T, r) /\ In(u, S \ {i}, d) = T \ {i}
      BY <1>7, <2>2, <2>3 DEF T
    <3>2. u.buckets[d].hh_head = IF x = i THEN next[i] ELSE x
      BY <1>4, <2>3
    <3> HIDE DEF x
    <3>3. CASE x # i
      BY <3>1, <3>2, <3>3 DEF Highest
    <3>4. CASE x = i
      <4>1. \A j \in T : r[j] <= r[i] /\ r[j] \in Nat /\ (r[j] = r[i] => j = i)
        BY <1>2, <3>1, <3>4 DEF Highest, Ranks, Distinct
      <4>2. Below(T, r, i) = T \ {i}
        BY <1>2, <4>1 DEF Below
      <4> QED
        BY <1>2, <1>8, <3>1, <3>2, <3>4, <4>2
    <3> QED
      BY <3>3, <3>4
  <2>4. CASE d # b
    <3>1. In(u, S \ {i}, d) = In(t, S, d)
      BY <1>7, <2>4
    <3>2. u.buckets[d] = t.buckets[d]
      BY <1>4, <2>1, <2>4
    <3> QED
      BY <2>2, <3>1, <3>2
  <2> QED
    BY <2>3, <2>4
<1>18. ASSUME NEW j \in S \ {i}
       PROVE  /\ g[j].tbl
              /\ Highest(g[j].hh_next, Below(In(u, S \ {i}, Bucket(j, u)), r, j), r)
              /\ Lowest(g[j].hh_prev, Above(In(u, S \ {i}, Bucket(j, u)), r, j), r)
  <2>1. j \in Items \ {i} /\ g[j].tbl
    BY <1>1, <1>10, <1>12
  <2>2. CASE Bucket(j, t) = b
    <3>1. j \in T /\ In(u, S \ {i}, Bucket(j, u)) = T \ {i}
      BY <1>6, <1>7, <2>2 DEF T, In
    <3>2. /\ Highest(IF j = prev[i] THEN next[i] ELSE next[j], Below(T \ {i}, r, j), r)
          /\ Lowest(IF j = next[i] THEN prev[i] ELSE prev[j], Above(T \ {i}, r, j), r)
      BY <1>2, <1>8, <2>1, <3>1, Bypassed
    <3>3. /\ g[j].hh_next = IF j = prev[i] THEN next[i] ELSE next[j]
          /\ g[j].hh_prev = IF j = next[i] THEN prev[i] ELSE prev[j]
      BY <1>10, <1>14, <2>1, <3>1
    <3> QED
      BY <2>1, <3>1, <3>2, <3>3
  <2>3. CASE Bucket(j, t) # b
    <3>1. In(u, S \ {i}, Bucket(j, u)) = In(t, S, Bucket(j, t))
      BY <1>6, <1>7, <2>3
    <3>2. j \notin T /\ j # NULL
      BY <1>1, <2>1, <2>3 DEF T, In
    <3>3. j # prev[i] /\ j # next[i]
      BY <1>9, <3>2
    <3> QED
      BY <1>10, <1>12, <2>1, <3>1, <3>3
  <2> QED
    BY <2>2, <2>3
<1>19. Chains(g, u, S \ {i}, r)
  BY <1>17, <1>18 DEF Chains
<1> QED
  BY <1>3, <1>5, <1>10, <1>16, <1>19 DEF Right, g, u
-----------------------------------------------------------------------------
(***************************************************************************)
(* The expansion of the buckets.                                           *)
(***************************************************************************)
LEMMA Division ==
    ASSUME NEW x \in Nat, NEW n \in Nat \ {0}
    PROVE  x = n * (x \div n) + (x % n) /\ x % n \in 0 .. n - 1 /\ x \div n \in Int
  OBVIOUS

\* A remainder by n is one by 2 n, by n.
LEMMA Halved ==
    ASSUME NEW x \in Nat, NEW n \in Nat \ {0}
    PROVE  x % (2 * n) \in 0 .. 2 * n - 1 /\ (x % (2 * n)) % n = x % n
<1> DEFINE q == x \div (2 * n)
           y == x % (2 * n)
           a == y \div n
           z == y % n
           b == x \div n
           w == x % n
<1>1. x = (2 * n) * q + y /\ y \in 0 .. 2 * n - 1 /\ q \in Int
  <2>1. 2 * n \in Nat \ {0}
    OBVIOUS
  <2> QED
    BY <2>1, Division
<1>2. y = n * a + z /\ z \in 0 .. n - 1 /\ a \in Int
  OBVIOUS
<1>3. x = n * b + w /\ w \in 0 .. n - 1 /\ b \in Int
  OBVIOUS
<1> HIDE DEF q, y, a, z, b, w
<1> DEFINE d == 2 * q + a - b
<1>4. d \in Int /\ n * d = w - z
  <2>1. (2 * n) * q = n * (2 * q)
    BY <1>1
  <2>2. n * d = n * (2 * q) + n * a - n * b
    BY <1>1, <1>2, <1>3
  <2>3. n * (2 * q) \in Int /\ n * a \in Int /\ n * b \in Int
    BY <1>1, <1>2, <1>3
  <2> QED
    BY <1>1, <1>2, <1>3, <2>1, <2>2, <2>3
<1> HIDE DEF d
<1>5. w - z < n /\ z - w < n
  BY <1>2, <1>3
<1>6. d >= 1 => n * d >= n
  BY <1>4
<1>7. d <= -1 => n * d <= -n
  BY <1>4
<1>8. d = 0
  <2>1. w \in Int /\ z \in Int
    BY <1>2, <1>3
  <2>2. ~(d >= 1)
    BY <1>4, <1>5, <1>6, <2>1
  <2>3. ~(d <= -1)
    BY <1>4, <1>5, <1>7, <2>1
  <2> QED
    BY <1>4, <2>2, <2>3
<1>9. w = z
  BY <1>2, <1>3, <1>4, <1>8
<1> QED
  BY <1>1, <1>9 DEF y, z, w

\* The items of S that go to the new bucket b.
NewIn(t, S, b) == {i \in S : NewBucket(i, t) = b}

\* They are what is moved there, all from one old bucket, whose path meets the higher
\* ones first.
LEMMA MovedItems ==
    ASSUME NEW h, NEW t, NEW S, NEW r, Right(h, t, S, r), NEW b \in 0 .. 2 * t.num_buckets - 1
    PROVE  /\ Picked(OldPath(h, t, b), Moved(h, t, b)) = NewIn(t, S, b)
           /\ \A n \in Moved(h, t, b) :
                 /\ Picked(OldPath(h, t, b), {m \in Moved(h, t, b) : m < n})
                       = Above(NewIn(t, S, b), r, OldPath(h, t, b)[n])
                 /\ Picked(OldPath(h, t, b), {m \in Moved(h, t, b) : m > n})
                       = Below(NewIn(t, S, b), r, OldPath(h, t, b)[n])
<1> DEFINE c == b % t.num_buckets
           p == OldPath(h, t, b)
           moved == Moved(h, t, b)
           T == In(t, S, c)
           succ == [i \in Items |-> h[i].hh_next]
<1>1. t.num_buckets \in Nat \ {0} /\ S \subseteq Items /\ TableShape(t)
  BY UtHashAssumption DEF Right, TableShape, Ranks
<1>2. c \in 0 .. t.num_buckets - 1
  BY <1>1
<1>3. p = Path(t.buckets[c].hh_head, succ) /\ p = BucketPath(h, t, c)
  BY DEF OldPath, BucketPath
<1>4. Ranks(T, r) /\ SortedBy(T, r, t.buckets[c].hh_head, succ)
  BY <1>2, BucketSorted
<1>5. Picked(p, Places(p)) = T
  BY <1>2, <1>3, BucketVisited
<1>6. \A i \in S : NewBucket(i, t) = b => Bucket(i, t) = c
  <2> TAKE i \in S
  <2>1. HashOf[KeyOf[i]] \in Nat
    BY <1>1, UtHashAssumption
  <2> QED
    BY <1>1, <2>1, Halved DEF NewBucket, Bucket
<1>7. NewIn(t, S, b) = {i \in T : NewBucket(i, t) = b}
  BY <1>6 DEF NewIn, In
<1>8. moved = {n \in Places(p) : NewBucket(p[n], t) = b}
  BY DEF Moved
<1>9. DOMAIN p = 0 .. Size
  BY <1>3, PathSteps
<1>10. \A n \in 0 .. Size : \A m \in 0 .. n - 1 :
           p[n] # NULL => p[m] # NULL /\ r[p[n]] < r[p[m]]
  <2> HIDE DEF T, succ, p
  <2> QED
    BY <1>3, <1>4, SortedDescends
<1> HIDE DEF c, p, moved, T, succ
<1>11. Picked(p, moved) = NewIn(t, S, b)
  BY <1>5, <1>7, <1>8 DEF Picked
<1>12. /\ moved \subseteq 0 .. Size
       /\ \A n \in moved : p[n] # NULL /\ p[n] \in T /\ r[p[n]] \in Nat
  BY <1>4, <1>5, <1>8, <1>9 DEF Places, Picked, Ranks
<1>13. \A m, n \in moved : m < n <=> r[p[n]] < r[p[m]]
  <2> TAKE m, n \in moved
  <2>1. m \in 0 .. n - 1 \/ m = n \/ n \in 0 .. m - 1
    BY <1>12, SizeNat
  <2>2. m < n => r[p[n]] < r[p[m]]
    BY <1>10, <1>12, SizeNat
  <2>3. n < m => r[p[m]] < r[p[n]]
    BY <1>10, <1>12, SizeNat
  <2> QED
    BY <1>12, <2>1, <2>2, <2>3, SizeNat
<1>14. ASSUME NEW n \in moved
       PROVE  /\ Picked(p, {m \in moved : m < n}) = Above(NewIn(t, S, b), r, p[n])
              /\ Picked(p, {m \in moved : m > n}) = Below(NewIn(t, S, b), r, p[n])
  <2>1. \A m \in moved : /\ m < n <=> r[p[m]] > r[p[n]]
                         /\ m > n <=> r[p[m]] < r[p[n]]
    BY <1>12, <1>13, SizeNat
  <2>2. NewIn(t, S, b) = {p[m] : m \in moved}
    BY <1>11 DEF Picked
  <2> QED
    BY <2>1, <2>2 DEF Picked, Above, Below
<1> QED
  BY <1>11, <1>14 DEF p, moved

\* The rank that the expansion turns round.
Turned(r, N) == [i \in Items |-> N - r[i]]

LEMMA TurnedRank ==
    ASSUME NEW S, NEW r, Ranks(S, r), NEW N \in Nat, \A i \in Items : r[i] <= N
    PROVE  /\ Ranks(S, Turned(r, N)) /\ \A i \in Items : Turned(r, N)[i] <= N
           /\ \A T \in SUBSET S : \A x :
                 /\ Lowest(x, T, r) => Highest(x, T, Turned(r, N))
                 /\ Highest(x, T, r) => Lowest(x, T, Turned(r, N))
           /\ \A T \in SUBSET S : \A x \in S :
                 /\ Above(T, r, x) = Below(T, Turned(r, N), x)
                 /\ Below(T, r, x) = Above(T, Turned(r, N), x)
<1> DEFINE q == Turned(r, N)
<1>1. /\ S \subseteq Items /\ r \in [Items -> Nat] /\ Distinct(S, r)
      /\ \A i \in Items : r[i] \in Nat /\ q[i] = N - r[i] /\ q[i] \in Nat /\ q[i] <= N
      /\ q = [i \in Items |-> q[i]]
  BY DEF Turned, Ranks
<1> HIDE DEF q
<1>2. Ranks(S, q)
  BY <1>1 DEF Ranks, Distinct
<1>3. \A i, j \in Items : (r[i] <= r[j] <=> q[j] <= q[i]) /\ (r[i] < r[j] <=> q[j] < q[i])
  BY <1>1
<1>4. ASSUME NEW T \in SUBSET S, NEW x
      PROVE  /\ Lowest(x, T, r) => Highest(x, T, q)
             /\ Highest(x, T, r) => Lowest(x, T, q)
  BY <1>1, <1>3 DEF Lowest, Highest
<1>5. ASSUME NEW T \in SUBSET S, NEW x \in S
      PROVE  Above(T, r, x) = Below(T, q, x) /\ Below(T, r, x) = Above(T, q, x)
  <2>1. T \subseteq Items /\ x \in Items
    BY <1>1
  <2>2. \A j \in T : (r[j] > r[x] <=> q[j] < q[x]) /\ (r[j] < r[x] <=> q[j] > q[x])
    BY <1>1, <1>3, <2>1
  <2> QED
    BY <2>2 DEF Above, Below
<1> QED
  BY <1>1, <1>2, <1>4, <1>5 DEF q

\* The first and the last of some of the places that are moved.
LEMMA MovedPicked ==
    ASSUME NEW h, NEW t, NEW S, NEW r, Right(h, t, S, r), NEW b \in 0 .. 2 * t.num_buckets - 1,
           NEW P \in SUBSET Moved(h, t, b)
    PROVE  /\ Lowest(LastOf(OldPath(h, t, b), P), Picked(OldPath(h, t, b), P), r)
           /\ Highest(FirstOf(OldPath(h, t, b), P), Picked(OldPath(h, t, b), P), r)
           /\ Cardinality(Picked(OldPath(h, t, b), P)) = Cardinality(P)
<1> DEFINE c == b % t.num_buckets
           p == OldPath(h, t, b)
           T == In(t, S, c)
           succ == [i \in Items |-> h[i].hh_next]
<1>1. t.num_buckets \in Nat \ {0}
  BY UtHashAssumption DEF Right, TableShape
<1>2. c \in 0 .. t.num_buckets - 1
  BY <1>1
<1>3. p = Path(t.buckets[c].hh_head, succ)
  BY DEF OldPath, BucketPath
<1>4. Ranks(T, r) /\ SortedBy(T, r, t.buckets[c].hh_head, succ)
  BY <1>2, BucketSorted
<1>5. P \in SUBSET Places(p)
  BY DEF Moved
<1> HIDE DEF T, succ, p
<1>6. /\ Lowest(LastOf(p, P), Picked(p, P), r)
      /\ Highest(FirstOf(p, P), Picked(p, P), r)
      /\ Cardinality(Picked(p, P)) = Cardinality(P)
  BY <1>3, <1>4, <1>5, SortedPicked
<1> QED
  BY <1>6 DEF p

LEMMA ExpandedRight ==
    ASSUME NEW h, NEW t, NEW S, NEW r, Right(h, t, S, r),
           NEW N \in Nat, \A i \in Items : r[i] <= N
    PROVE  Right([i \in Items |-> NewHandle(h, t, i)], NewBuckets(h, t), S, Turned(r, N))
<1> DEFINE g == [i \in Items |-> NewHandle(h, t, i)]
           u == NewBuckets(h, t)
           q == Turned(r, N)
           twice == 2 * t.num_buckets
<1>1. /\ S \subseteq Items /\ r \in [Items -> Nat] /\ h \in [Items -> Handles]
      /\ TableShape(t) /\ Ranks(S, r) /\ NULL \notin Items
      /\ t.num_buckets \in Nat \ {0} /\ t.num_buckets >= NumBuckets /\ NumBuckets \in Nat
  BY UtHashAssumption DEF Right, Ranks, TableShape
<1>2. /\ Ranks(S, q)
      /\ \A T \in SUBSET S : \A x :
            /\ Lowest(x, T, r) => Highest(x, T, q)
            /\ Highest(x, T, r) => Lowest(x, T, q)
      /\ \A T \in SUBSET S : \A x \in S :
            Above(T, r, x) = Below(T, q, x) /\ Below(T, r, x) = Above(T, q, x)
  BY <1>1, TurnedRank
<1>3. /\ DOMAIN u = DOMAIN t /\ u.num_buckets = twice /\ u.num_items = t.num_items
      /\ DOMAIN u.buckets = 0 .. twice - 1
      /\ \A b \in 0 .. twice - 1 :
            /\ DOMAIN u.buckets[b] = {"hh_head", "count", "expand_mult"}
            /\ u.buckets[b].hh_head = LastOf(OldPath(h, t, b), Moved(h, t, b))
            /\ u.buckets[b].count = Cardinality(Moved(h, t, b))
  BY <1>1 DEF NewBuckets, TableShape
<1> HIDE DEF u, q, g
<1>4. TableShape(u)
  BY <1>1, <1>3 DEF TableShape
<1>5. \A i : Bucket(i, u) = NewBucket(i, t)
  BY <1>3 DEF Bucket, NewBucket
<1>6. \A b : In(u, S, b) = NewIn(t, S, b) /\ NewIn(t, S, b) \subseteq S
  BY <1>5 DEF In, NewIn
<1>7. \A i \in Items : NewBucket(i, t) \in 0 .. twice - 1
  <2> TAKE i \in Items
  <2>1. HashOf[KeyOf[i]] \in Nat
    BY UtHashAssumption
  <2> QED
    BY <1>1, <2>1, Halved DEF NewBucket
<1>8. \A b \in 0 .. twice - 1 :
          /\ Highest(u.buckets[b].hh_head, NewIn(t, S, b), q)
          /\ u.buckets[b].count = Cardinality(NewIn(t, S, b))
  <2> TAKE b \in 0 .. twice - 1
  <2>1. Picked(OldPath(h, t, b), Moved(h, t, b)) = NewIn(t, S, b)
    BY MovedItems
  <2>2. /\ Lowest(LastOf(OldPath(h, t, b), Moved(h, t, b)), NewIn(t, S, b), r)
        /\ Cardinality(NewIn(t, S, b)) = Cardinality(Moved(h, t, b))
    BY <2>1, MovedPicked
  <2> QED
    BY <1>2, <1>3, <1>6, <2>2
<1>9. ASSUME NEW i \in Items
      PROVE  /\ NewHandle(h, t, i) \in Handles
             /\ NewHandle(h, t, i).tbl = h[i].tbl /\ NewHandle(h, t, i).prev = h[i].prev
             /\ NewHandle(h, t, i).next = h[i].next
             /\ i \in S =>
                   /\ Highest(NewHandle(h, t, i).hh_next, Below(NewIn(t, S, NewBucket(i, t)), q, i), q)
                   /\ Lowest(NewHandle(h, t, i).hh_prev, Above(NewIn(t, S, NewBucket(i, t)), q, i), q)
  <2> DEFINE b     == NewBucket(i, t)
             p     == OldPath(h, t, b)
             moved == Moved(h, t, b)
             T     == NewIn(t, S, b)
             n     == CHOOSE m \in moved : p[m] = i
             after == FirstOf(p, {m \in moved : m > n})
             before == LastOf(p, {m \in moved : m < n})
  <2>1. b \in 0 .. twice - 1 /\ h[i] \in Handles
    BY <1>1, <1>7
  <2>2. /\ Picked(p, moved) = T
        /\ \A m \in moved : /\ Picked(p, {k \in moved : k < m}) = Above(T, r, p[m])
                            /\ Picked(p, {k \in moved : k > m}) = Below(T, r, p[m])
    BY <2>1, MovedItems
  <2>3. \A P \in SUBSET moved : Lowest(LastOf(p, P), Picked(p, P), r)
                               /\ Highest(FirstOf(p, P), Picked(p, P), r)
    BY <2>1, MovedPicked
  <2>4. NewHandle(h, t, i) = IF \E m \in moved : p[m] = i
                             THEN [h[i] EXCEPT !.hh_prev = after, !.hh_next = before]
                             ELSE h[i]
    BY DEF NewHandle
  <2>5. i \in T <=> i \in S
    BY DEF NewIn
  <2>6. T \subseteq S
    BY <1>6
  <2> HIDE DEF b, p, moved, T, n, after, before
  <2>7. CASE \E m \in moved : p[m] = i
    <3>1. n \in moved /\ p[n] = i
      BY <2>7 DEF n
    <3>2. i \in S
      BY <2>2, <2>5, <3>1 DEF Picked
    <3>3. Lowest(before, Above(T, r, i), r)
      <4> DEFINE P == {m \in moved : m < n}
      <4>1. Lowest(LastOf(p, P), Picked(p, P), r)
        BY <2>3
      <4>2. Picked(p, P) = Above(T, r, i)
        BY <2>2, <3>1
      <4> QED
        BY <4>1, <4>2 DEF before
    <3>4. Highest(after, Below(T, r, i), r)
      <4> DEFINE P == {m \in moved : m > n}
      <4>1. Highest(FirstOf(p, P), Picked(p, P), r)
        BY <2>3
      <4>2. Picked(p, P) = Below(T, r, i)
        BY <2>2, <3>1
      <4> QED
        BY <4>1, <4>2 DEF after
    <3>5. Above(T, r, i) \in SUBSET S /\ Below(T, r, i) \in SUBSET S
      BY <2>6 DEF Above, Below
    <3>6. Highest(before, Below(T, q, i), q) /\ Lowest(after, Above(T, q, i), q)
      <4>1. Highest(before, Above(T, r, i), q) /\ Lowest(after, Below(T, r, i), q)
        BY <1>2, <3>3, <3>4, <3>5
      <4>2. Above(T, r, i) = Below(T, q, i) /\ Below(T, r, i) = Above(T, q, i)
        BY <1>2, <2>6, <3>2
      <4> QED
        BY <4>1, <4>2
    <3>7. before \in Items \cup {NULL} /\ after \in Items \cup {NULL}
      BY <1>1, <3>3, <3>4, <3>5 DEF Lowest, Highest
    <3>8. NewHandle(h, t, i) = [h[i] EXCEPT !.hh_prev = after, !.hh_next = before]
      BY <2>4, <2>7
    <3>9. /\ NewHandle(h, t, i) \in Handles
          /\ NewHandle(h, t, i).tbl = h[i].tbl /\ NewHandle(h, t, i).prev = h[i].prev
          /\ NewHandle(h, t, i).next = h[i].next
          /\ NewHandle(h, t, i).hh_prev = after /\ NewHandle(h, t, i).hh_next = before
      BY <2>1, <3>7, <3>8 DEF Handles
    <3> QED
      BY <3>6, <3>9 DEF T, b
  <2>8. CASE ~\E m \in moved : p[m] = i
    <3>1. i \notin S
      BY <2>2, <2>5, <2>8 DEF Picked
    <3> QED
      BY <2>1, <2>4, <2>8, <3>1
  <2> QED
    BY <2>7, <2>8
<1>10. g \in [Items -> Handles] /\ \A i \in Items : g[i] = NewHandle(h, t, i)
  BY <1>9 DEF g
<1>11. \A i \in S : h[i].tbl
  BY DEF Right, Chains
<1>12. Chains(g, u, S, q)
  <2>1. \A b \in 0 .. u.num_buckets - 1 : Highest(u.buckets[b].hh_head, In(u, S, b), q)
    BY <1>3, <1>6, <1>8
  <2>2. ASSUME NEW i \in S
        PROVE  /\ g[i].tbl
               /\ Highest(g[i].hh_next, Below(In(u, S, Bucket(i, u)), q, i), q)
               /\ Lowest(g[i].hh_prev, Above(In(u, S, Bucket(i, u)), q, i), q)
    <3>1. i \in Items
      BY <1>1
    <3> QED
      BY <1>5, <1>6, <1>9, <1>10, <1>11, <3>1
  <2> QED
    BY <2>1, <2>2 DEF Chains
<1>13. Counts(u, S)
  <2>1. t.num_items = Cardinality(S)
    BY DEF Right, Counts
  <2> QED
    BY <1>3, <1>6, <1>8, <2>1 DEF Counts
<1> QED
  BY <1>2, <1>4, <1>10, <1>12, <1>13 DEF Right, g, u, q
-----------------------------------------------------------------------------
(***************************************************************************)
(* The invariant of calls that do not overlap.                             *)
(***************************************************************************)
\* The items in the buckets: the last one added is not, until its call ends, and one that
\* is deleted still is.
Hashed ==
    {i \in Items : (i \in ToSet(order) \/ i = deleting) /\ \A c \in Adders : adding[c] # i}

\* An item is behind the tail.
Unlinked == \E c \in Adders : adding[c] # NULL /\ ~linked[c]

\* At most one call is under way.
Calls ==
    /\ order \in Seq(Items) /\ \A m, n \in 1 .. Len(order) : order[m] = order[n] => m = n
    /\ adding \in [Adders -> Items \cup {NULL}] /\ linked \in [Adders -> BOOLEAN]
    /\ deleting \in Items \cup {NULL}
    /\ \A c \in Adders :
          /\ linked[c] => adding[c] # NULL
          /\ adding[c] # NULL =>
                /\ Len(order) > (IF linked[c] THEN 0 ELSE 1)
                /\ adding[c] = order[Len(order)] /\ deleting = NULL
                /\ \A d \in Adders : adding[d] # NULL => d = c
    /\ deleting # NULL => Len(order) > 0 /\ deleting \notin ToSet(order)

\* The list is linked in the order of the additions.
List ==
    /\ hh \in [Items -> Handles]
    /\ socketfds = IF Len(order) = 0 THEN NULL ELSE order[1]
    /\ \A n \in 1 .. Len(order) :
          /\ hh[order[n]].next = IF n = Len(order) THEN NULL ELSE order[n + 1]
          /\ hh[order[n]].prev =
                IF n = 1 \/ (n = Len(order) /\ Unlinked) THEN NULL ELSE order[n - 1]
    /\ \A i \in Items : i \notin ToSet(order) /\ i # deleting =>
                           hh[i].next = NULL /\ hh[i].prev = NULL
    /\ Len(order) > 0 =>
          /\ tbl.tail = IF Unlinked THEN order[Len(order) - 1] ELSE order[Len(order)]
          /\ hh[order[1]].tbl

\* Until an expansion, a chain has the latest addition first.
Latest(r) ==
    tbl.num_buckets = NumBuckets =>
        \A m, n \in 1 .. Len(order) :
            m < n /\ order[m] \in Hashed /\ order[n] \in Hashed => r[order[m]] < r[order[n]]

Ranked(r) ==
    /\ Right(hh, tbl, Hashed, r) /\ Latest(r)
    /\ \E N \in Nat : \A i \in Items : r[i] <= N

Buckets == \E r : Ranked(r)

Sound == up /\ Calls /\ List /\ Buckets

HashInv == raced \/ Sound

LEMMA HashedItems == Hashed \subseteq Items
  BY DEF Hashed

\* A table that is right can be used.
LEMMA TableUsable ==
    ASSUME Calls, List, Buckets, Len(order) > 0
    PROVE  Usable
<1>1. PICK r : Right(hh, tbl, Hashed, r)
  BY DEF Buckets, Ranked
<1>2. socketfds # NULL /\ hh[socketfds].tbl
  BY UtHashAssumption DEF Calls, List
<1>3. ASSUME NEW b \in 0 .. tbl.num_buckets - 1
      PROVE  /\ BucketPath(hh, tbl, b)[Size] = NULL
             /\ \A n \in Places(BucketPath(hh, tbl, b)) : hh[BucketPath(hh, tbl, b)[n]].tbl
  <2> DEFINE p == BucketPath(hh, tbl, b)
  <2>1. p[Size] = NULL /\ Picked(p, Places(p)) = In(tbl, Hashed, b)
    BY <1>1, <1>3, BucketVisited
  <2>2. \A i \in Hashed : hh[i].tbl
    BY <1>1 DEF Right, Chains
  <2> HIDE DEF p
  <2>3. \A n \in Places(p) : p[n] \in Hashed
    BY <2>1 DEF Picked, In
  <2> QED
    BY <2>1, <2>2, <2>3 DEF p
<1> QED
  BY <1>2, <1>3 DEF Usable, Size

\* A lookup finds an item that is in a bucket, and of those with its key the one that
\* comes first.
LEMMA Found ==
    ASSUME NEW r, Ranked(r), Calls, List, Len(order) > 0, NEW k \in DOMAIN HashOf
    PROVE  Highest(Find(k), {i \in Hashed : KeyOf[i] = k}, r)
<1> DEFINE b == HashOf[k] % tbl.num_buckets
           p == BucketPath(hh, tbl, b)
           hits == {n \in Places(p) : KeyOf[p[n]] = k}
           T == In(tbl, Hashed, b)
           succ == [i \in Items |-> hh[i].hh_next]
<1>0. Right(hh, tbl, Hashed, r) /\ TableShape(tbl)
  BY DEF Ranked, Right
<1>1. b \in 0 .. tbl.num_buckets - 1
  BY <1>0, BucketRange
<1>2. Picked(p, Places(p)) = T
  BY <1>0, <1>1, BucketVisited
<1>3. Ranks(T, r) /\ SortedBy(T, r, tbl.buckets[b].hh_head, succ)
  BY <1>0, <1>1, BucketSorted
<1>4. p = Path(tbl.buckets[b].hh_head, succ)
  BY DEF BucketPath
<1>5. Find(k) = FirstOf(p, hits)
  <2>1. socketfds # NULL
    BY UtHashAssumption DEF Calls, List
  <2> QED
    BY <2>1 DEF Find
<1>6. \A i \in Hashed : KeyOf[i] = k => i \in T
  BY DEF In, Bucket
<1> HIDE DEF p, T, succ
<1>7. Highest(FirstOf(p, hits), Picked(p, hits), r)
  BY <1>3, <1>4, SortedPicked
<1>8. Picked(p, hits) = {i \in T : KeyOf[i] = k}
  BY <1>2 DEF Picked
<1>9. {i \in T : KeyOf[i] = k} = {i \in Hashed : KeyOf[i] = k}
  BY <1>6 DEF T, In
<1> QED
  BY <1>5, <1>7, <1>8, <1>9

\* Steps that leave buckets and chains alone leave them right.
LEMMA SameRight ==
    ASSUME NEW h, NEW t, NEW S, NEW r, Right(h, t, S, r), NEW g \in [Items -> Handles], NEW u,
           TableShape(u), u.num_buckets = t.num_buckets, u.buckets = t.buckets,
           u.num_items = t.num_items,
           \A i \in S : /\ g[i].tbl = h[i].tbl
                        /\ g[i].hh_prev = h[i].hh_prev /\ g[i].hh_next = h[i].hh_next
    PROVE  Right(g, u, S, r)
<1>1. \A i : Bucket(i, u) = Bucket(i, t)
  BY DEF Bucket
<1>2. \A b : In(u, S, b) = In(t, S, b)
  BY <1>1 DEF In
<1>3. Chains(g, u, S, r)
  <2>1. \A b \in 0 .. u.num_buckets - 1 : Highest(u.buckets[b].hh_head, In(u, S, b), r)
    BY <1>2 DEF Right, Chains
  <2>2. \A i \in S : /\ g[i].tbl
                     /\ Highest(g[i].hh_next, Below(In(u, S, Bucket(i, u)), r, i), r)
                     /\ Lowest(g[i].hh_prev, Above(In(u, S, Bucket(i, u)), r, i), r)
    BY <1>1, <1>2 DEF Right, Chains
  <2> QED
    BY <2>1, <2>2 DEF Chains
<1>4. Counts(u, S)
  BY <1>2 DEF Right, Counts
<1> QED
  BY <1>3, <1>4 DEF Right

\* A new table is right for no items.
LEMMA NewRight ==
    ASSUME NEW h \in [Items -> Handles], NEW x
    PROVE  Right(h, NewTable(x), {}, [i \in Items |-> 0])
<1> DEFINE t == NewTable(x)
<1>1. TableShape(t)
  BY UtHashAssumption DEF TableShape, NewTable, EmptyBucket
<1>2. Ranks({}, [i \in Items |-> 0])
  BY DEF Ranks, Distinct
<1>3. \A b \in 0 .. t.num_buckets - 1 : t.buckets[b].hh_head = NULL /\ t.buckets[b].count = 0
  BY UtHashAssumption DEF NewTable, EmptyBucket
<1>4. t.num_items = 0
  BY DEF NewTable
<1> HIDE DEF t
<1>5. \A b : In(t, {}, b) = {}
  BY DEF In
<1>6. Chains(h, t, {}, [i \in Items |-> 0])
  BY <1>3, <1>5 DEF Chains, Highest
<1>7. Counts(t, {})
  BY <1>3, <1>4, <1>5, FS_EmptySet DEF Counts
<1> QED
  BY <1>1, <1>2, <1>6, <1>7 DEF Right, t

\* What RemoveFirst leaves of a sequence without repetitions.
LEMMA Removed ==
    ASSUME NEW s \in Seq(Items), \A m, n \in 1 .. Len(s) : s[m] = s[n] => m = n,
           NEW k \in 1 .. Len(s)
    PROVE  /\ RemoveFirst(s, s[k]) \in Seq(Items)
           /\ Len(RemoveFirst(s, s[k])) = Len(s) - 1
           /\ \A n \in 1 .. Len(s) - 1 :
                 RemoveFirst(s, s[k])[n] = IF n < k THEN s[n] ELSE s[n + 1]
<1> DEFINE I == {n \in 1 .. Len(s) : s[n] = s[k]}
<1>1. I = {k}
  OBVIOUS
<1>2. Min(I) = k
  BY <1>1 DEF Min
<1>3. RemoveFirst(s, s[k]) = SubSeq(s, 1, k - 1) \o SubSeq(s, k + 1, Len(s))
  BY <1>1, <1>2 DEF RemoveFirst, RemoveAt, SelectInSeq
<1>4. /\ SubSeq(s, 1, k - 1) \in Seq(Items) /\ Len(SubSeq(s, 1, k - 1)) = k - 1
      /\ \A n \in 1 .. k - 1 : SubSeq(s, 1, k - 1)[n] = s[n]
  OBVIOUS
<1>5. /\ SubSeq(s, k + 1, Len(s)) \in Seq(Items) /\ Len(SubSeq(s, k + 1, Len(s))) = Len(s) - k
      /\ \A n \in 1 .. Len(s) - k : SubSeq(s, k + 1, Len(s))[n] = s[k + n]
  OBVIOUS
<1> DEFINE a == SubSeq(s, 1, k - 1)
           b == SubSeq(s, k + 1, Len(s))
<1> HIDE DEF a, b
<1>6. /\ a \in Seq(Items) /\ Len(a) = k - 1 /\ \A n \in 1 .. k - 1 : a[n] = s[n]
      /\ b \in Seq(Items) /\ Len(b) = Len(s) - k /\ \A n \in 1 .. Len(s) - k : b[n] = s[k + n]
  BY <1>4, <1>5 DEF a, b
<1>7. a \o b \in Seq(Items) /\ Len(a \o b) = Len(s) - 1
  BY <1>6
<1>8. ASSUME NEW n \in 1 .. Len(s) - 1
      PROVE  (a \o b)[n] = IF n < k THEN s[n] ELSE s[n + 1]
  <2>1. CASE n < k
    BY <1>6, <2>1
  <2>2. CASE ~(n < k)
    <3>1. n - (k - 1) \in 1 .. Len(s) - k /\ k + (n - (k - 1)) = n + 1
      BY <2>2
    <3>2. (a \o b)[n] = b[n - (k - 1)]
      BY <1>6, <2>2
    <3> QED
      BY <1>6, <2>2, <3>1, <3>2
  <2> QED
    BY <2>1, <2>2
<1>9. RemoveFirst(s, s[k]) = a \o b
  BY <1>3 DEF a, b
<1> QED
  BY <1>7, <1>8, <1>9

\* What is left alone when a doubled table's handles are written.
LEMMA NewHandleKeeps ==
    ASSUME NEW h, NEW t, NEW i, h[i] \in Handles
    PROVE  /\ NewHandle(h, t, i).tbl = h[i].tbl
           /\ NewHandle(h, t, i).prev = h[i].prev /\ NewHandle(h, t, i).next = h[i].next
<1>1. ASSUME NEW x, NEW y
      PROVE  LET g == [h[i] EXCEPT !.hh_prev = x, !.hh_next = y]
             IN  g.tbl = h[i].tbl /\ g.prev = h[i].prev /\ g.next = h[i].next
  BY DEF Handles
<1> QED
  BY <1>1 DEF NewHandle
-----------------------------------------------------------------------------
(***************************************************************************)
(* Every step of a call keeps it.                                          *)
(***************************************************************************)
LEMMA Ordered ==
    ASSUME order \in Seq(Items)
    PROVE  /\ \A i : i \in ToSet(order) <=> \E n \in 1 .. Len(order) : order[n] = i
           /\ \A n \in 1 .. Len(order) : order[n] \in Items /\ order[n] # NULL
           /\ ToSet(order) \subseteq Items /\ Len(order) \in Nat
<1>1. \A n \in 1 .. Len(order) : order[n] \in Items /\ order[n] # NULL
  BY UtHashAssumption
<1>2. \A i : i \in ToSet(order) <=> \E n \in 1 .. Len(order) : order[n] = i
  <2>1. DOMAIN order = 1 .. Len(order)
    OBVIOUS
  <2> QED
    BY <2>1 DEF ToSet
<1>3. ToSet(order) \subseteq Items
  BY <1>1, <1>2
<1> QED
  BY <1>1, <1>2, <1>3

\* Between the calls, the items in the buckets are those in the list.
LEMMA Idle ==
    ASSUME Calls, List, ~Busy
    PROVE  /\ deleting = NULL /\ \A c \in Adders : adding[c] = NULL /\ ~linked[c]
           /\ ~Unlinked /\ Hashed = ToSet(order)
           /\ socketfds = NULL <=> Len(order) = 0
<1>1. deleting = NULL /\ \A c \in Adders : adding[c] = NULL
  BY DEF Busy
<1>2. \A c \in Adders : ~linked[c]
  BY <1>1 DEF Calls
<1>3. Hashed = ToSet(order)
  BY <1>1, Ordered, UtHashAssumption DEF Hashed, Calls
<1>4. socketfds = NULL <=> Len(order) = 0
  BY Ordered DEF Calls, List
<1> QED
  BY <1>1, <1>2, <1>3, <1>4 DEF Unlinked

\* HASH_ADD of the first item.
LEMMA AddFirstKeeps ==
    ASSUME Sound, NEW c \in Adders, NEW i \in Items, AddLink(c, i), ~Busy, socketfds = NULL
    PROVE  Sound'
<1>1. /\ deleting = NULL /\ \A d \in Adders : adding[d] = NULL /\ ~linked[d]
      /\ ~Unlinked /\ Len(order) = 0 /\ order \in Seq(Items)
  BY Idle DEF Sound, Calls
<1>2. /\ socketfds' = i /\ tbl' = NewTable(i) /\ hh' = [hh EXCEPT ![i].tbl = TRUE]
      /\ linked' = [linked EXCEPT ![c] = TRUE] /\ adding' = [adding EXCEPT ![c] = i]
      /\ order' = Append(order, i) /\ up' = up /\ deleting' = NULL
  BY <1>1 DEF AddLink
<1>3. /\ adding \in [Adders -> Items \cup {NULL}] /\ linked \in [Adders -> BOOLEAN]
      /\ hh \in [Items -> Handles] /\ i # NULL
  BY UtHashAssumption DEF Sound, Calls, List
<1>4. order' \in Seq(Items) /\ Len(order') = 1 /\ order'[1] = i
  BY <1>1, <1>2
<1>5. /\ adding'[c] = i /\ linked'[c]
      /\ \A d \in Adders : d # c => adding'[d] = NULL /\ ~linked'[d]
  BY <1>1, <1>2, <1>3
<1>6. adding' \in [Adders -> Items \cup {NULL}] /\ linked' \in [Adders -> BOOLEAN]
  BY <1>2, <1>3
<1>7. Calls'
  BY <1>2, <1>3, <1>4, <1>5, <1>6 DEF Calls
<1>8. ~Unlinked'
  BY <1>5 DEF Unlinked
<1>9. /\ hh' \in [Items -> Handles] /\ hh'[i].tbl
      /\ \A j \in Items : hh'[j].next = hh[j].next /\ hh'[j].prev = hh[j].prev
  BY <1>2, <1>3 DEF Handles
<1>10. \A j \in Items : hh[j].next = NULL /\ hh[j].prev = NULL
  <2>1. \A j \in Items : j \notin ToSet(order)
    BY <1>1, Ordered
  <2> QED
    BY <1>1, <1>3, <2>1, UtHashAssumption DEF Sound, List
<1>11. tbl'.tail = i
  BY <1>2 DEF NewTable
<1>12. List'
  BY <1>2, <1>4, <1>8, <1>9, <1>10, <1>11 DEF List
<1>13. Hashed' = {}
  <2>1. \A j \in ToSet(order)' : j = i
    BY <1>4 DEF ToSet
  <2> QED
    BY <1>2, <1>3, <1>5, <2>1, UtHashAssumption DEF Hashed
<1>14. Right(hh', tbl', Hashed', [j \in Items |-> 0])
  BY <1>2, <1>9, <1>13, NewRight
<1>15. Ranked([j \in Items |-> 0])'
  BY <1>13, <1>14 DEF Ranked, Latest
<1> QED
  BY <1>2, <1>7, <1>12, <1>15 DEF Sound, Buckets

\* HASH_ADD of another item, the tail's next ...
LEMMA AddLinkKeeps ==
    ASSUME Sound, NEW c \in Adders, NEW i \in Items, AddLink(c, i), ~Busy, socketfds # NULL
    PROVE  Sound'
<1> DEFINE L == Len(order)
           last == order[Len(order)]
<1>1. /\ deleting = NULL /\ \A d \in Adders : adding[d] = NULL /\ ~linked[d]
      /\ ~Unlinked /\ L # 0 /\ order \in Seq(Items) /\ Hashed = ToSet(order)
  BY Idle DEF Sound, Calls
<1>2. /\ \A n \in 1 .. L : order[n] \in Items /\ order[n] # NULL
      /\ L \in Nat \ {0} /\ L \in 1 .. L
      /\ \A m, n \in 1 .. L : order[m] = order[n] => m = n
      /\ \A j : j \in ToSet(order) <=> \E n \in 1 .. L : order[n] = j
  BY <1>1, Ordered DEF Sound, Calls
<1>3. tbl.tail = last /\ last \in Items
  BY <1>1, <1>2 DEF Sound, List
<1>4. /\ socketfds' = socketfds /\ tbl' = tbl /\ hh' = [hh EXCEPT ![last].next = i]
      /\ linked' = linked /\ adding' = [adding EXCEPT ![c] = i]
      /\ order' = Append(order, i) /\ up' = up /\ deleting' = NULL
      /\ i \notin ToSet(order)
  BY <1>1, <1>3 DEF AddLink
<1>5. /\ adding \in [Adders -> Items \cup {NULL}] /\ linked \in [Adders -> BOOLEAN]
      /\ hh \in [Items -> Handles] /\ i # NULL
  BY UtHashAssumption DEF Sound, Calls, List
<1>6. /\ order' \in Seq(Items) /\ Len(order') = L + 1 /\ order'[L + 1] = i
      /\ \A n \in 1 .. L : order'[n] = order[n]
  BY <1>1, <1>4, AppendProperties
<1>7. /\ adding'[c] = i /\ ~linked'[c]
      /\ \A d \in Adders : d # c => adding'[d] = NULL /\ ~linked'[d]
      /\ adding' \in [Adders -> Items \cup {NULL}] /\ linked' \in [Adders -> BOOLEAN]
  BY <1>1, <1>4, <1>5
<1>8. \A n \in 1 .. L : order[n] # i
  BY <1>2, <1>4
<1>9. \A m, n \in 1 .. L + 1 : order'[m] = order'[n] => m = n
  <2> TAKE m, n \in 1 .. L + 1
  <2>1. (m \in 1 .. L \/ m = L + 1) /\ (n \in 1 .. L \/ n = L + 1)
    BY <1>2
  <2> QED
    BY <1>2, <1>6, <1>8, <2>1
<1>10. Calls'
  BY <1>2, <1>4, <1>5, <1>6, <1>7, <1>9 DEF Calls
<1>11. Unlinked'
  BY <1>5, <1>7 DEF Unlinked
<1>12. /\ hh' \in [Items -> Handles] /\ hh'[last].next = i
       /\ \A j \in Items : /\ j # last => hh'[j].next = hh[j].next
                           /\ hh'[j].prev = hh[j].prev /\ hh'[j].tbl = hh[j].tbl
                           /\ hh'[j].hh_prev = hh[j].hh_prev /\ hh'[j].hh_next = hh[j].hh_next
  BY <1>3, <1>4, <1>5 DEF Handles
<1>13. \A j : j \in ToSet(order)' <=> j \in ToSet(order) \/ j = i
  <2>1. DOMAIN order' = 1 .. L + 1
    BY <1>6
  <2>2. \A n : n \in 1 .. L + 1 <=> n \in 1 .. L \/ n = L + 1
    BY <1>2
  <2> QED
    BY <1>2, <1>6, <2>1, <2>2 DEF ToSet
<1>14. hh[i].next = NULL /\ hh[i].prev = NULL
  BY <1>1, <1>4, <1>5 DEF Sound, List
<1>15. \A n \in 1 .. L + 1 :
          /\ hh'[order'[n]].next = IF n = L + 1 THEN NULL ELSE order'[n + 1]
          /\ hh'[order'[n]].prev = IF n = 1 \/ n = L + 1 THEN NULL ELSE order'[n - 1]
  <2> TAKE n \in 1 .. L + 1
  <2>1. CASE n = L + 1
    <3>1. i # last
      BY <1>2, <1>8
    <3> QED
      BY <1>2, <1>6, <1>12, <1>14, <2>1, <3>1
  <2>2. CASE n \in 1 .. L - 1
    <3>1. n \in 1 .. L /\ n + 1 \in 1 .. L /\ n # L /\ n # L + 1
      BY <1>2, <2>2
    <3>2. n # 1 => n - 1 \in 1 .. L
      BY <1>2, <2>2
    <3>3. order[n] # last
      BY <1>2, <3>1
    <3>4. /\ hh[order[n]].next = order[n + 1]
          /\ hh[order[n]].prev = IF n = 1 THEN NULL ELSE order[n - 1]
      BY <3>1 DEF Sound, List
    <3> QED
      BY <1>2, <1>6, <1>12, <3>1, <3>2, <3>3, <3>4
  <2>3. CASE n = L
    <3>1. n # L + 1 /\ n \in 1 .. L /\ order[n] = last
      BY <1>2, <2>3
    <3>2. n # 1 => n - 1 \in 1 .. L
      BY <1>2, <2>3
    <3>3. hh[order[n]].prev = IF n = 1 THEN NULL ELSE order[n - 1]
      BY <1>1, <3>1 DEF Sound, List
    <3>4. order'[n] = last /\ order'[n + 1] = i
      BY <1>6, <2>3, <3>1
    <3>5. n # 1 => order'[n - 1] = order[n - 1]
      BY <1>6, <3>2
    <3>6. hh'[last].next = i /\ hh'[last].prev = hh[last].prev
      BY <1>3, <1>12
    <3> QED
      BY <3>1, <3>3, <3>4, <3>5, <3>6
  <2> QED
    BY <1>2, <2>1, <2>2, <2>3
<1>16. List'
  <2>1. socketfds' = order'[1] /\ hh'[order'[1]].tbl
    BY <1>1, <1>2, <1>4, <1>6, <1>12 DEF Sound, List
  <2>2. tbl'.tail = order'[Len(order') - 1]
    BY <1>2, <1>3, <1>4, <1>6
  <2>3. \A j \in Items : j \notin ToSet(order)' /\ j # deleting' => hh'[j].next = NULL /\ hh'[j].prev = NULL
    <3> TAKE j \in Items
    <3>1. j \notin ToSet(order)' => j \notin ToSet(order) /\ j # last
      BY <1>2, <1>13
    <3>2. j \notin ToSet(order) => hh[j].next = NULL /\ hh[j].prev = NULL
      BY <1>1, UtHashAssumption DEF Sound, List
    <3> QED
      BY <1>12, <3>1, <3>2
  <2> QED
    BY <1>2, <1>6, <1>11, <1>12, <1>15, <2>1, <2>2, <2>3 DEF List
<1>17. Hashed' = Hashed
  <2>1. \A j \in Items : j \in Hashed' <=> j \in ToSet(order)
    BY <1>4, <1>5, <1>7, <1>13, UtHashAssumption DEF Hashed
  <2> QED
    BY <1>1, <2>1 DEF Hashed
<1>18. PICK r : Ranked(r)
  BY DEF Sound, Buckets
<1>19. Right(hh', tbl', Hashed', r)
  <2>1. Right(hh, tbl, Hashed, r) /\ TableShape(tbl)
    BY <1>18 DEF Ranked, Right
  <2>2. Right(hh', tbl, Hashed, r)
    BY <1>12, <2>1, HashedItems, SameRight
  <2> QED
    BY <1>4, <1>17, <2>2
<1>20. Latest(r)'
  <2>1. \A n \in 1 .. L + 1 : order'[n] \in Hashed' => n \in 1 .. L
    <3> TAKE n \in 1 .. L + 1
    <3>1. n = L + 1 => order'[n] \notin Hashed'
      BY <1>1, <1>4, <1>6, <1>17
    <3> QED
      BY <1>2, <3>1
  <2>2. Latest(r)
    BY <1>18 DEF Ranked
  <2> QED
    BY <1>4, <1>6, <1>17, <2>1, <2>2 DEF Latest
<1>21. Ranked(r)'
  BY <1>18, <1>19, <1>20 DEF Ranked
<1> QED
  BY <1>4, <1>10, <1>16, <1>21 DEF Sound, Buckets

\* ... the tail ...
LEMMA AddTailKeeps ==
    ASSUME Sound, NEW c \in Adders, AddTail(c)
    PROVE  Sound'
<1> DEFINE L == Len(order)
           i == order[Len(order)]
           last == order[Len(order) - 1]
<1>1. /\ adding[c] = i /\ ~linked[c] /\ deleting = NULL /\ L > 1
      /\ \A d \in Adders : d # c => adding[d] = NULL /\ ~linked[d]
      /\ order \in Seq(Items) /\ Unlinked
  BY DEF AddTail, Sound, Calls, Unlinked
<1>2. /\ \A n \in 1 .. L : order[n] \in Items /\ order[n] # NULL
      /\ L \in Nat /\ L \in 1 .. L /\ L - 1 \in 1 .. L /\ 1 \in 1 .. L
      /\ \A m, n \in 1 .. L : order[m] = order[n] => m = n
      /\ \A j : j \in ToSet(order) <=> \E n \in 1 .. L : order[n] = j
  BY <1>1, Ordered DEF Sound, Calls
<1>3. tbl.tail = last /\ last \in Items /\ i \in Items /\ i # NULL
  BY <1>1, <1>2 DEF Sound, List
<1>4. /\ socketfds' = socketfds /\ tbl' = [tbl EXCEPT !.tail = i]
      /\ hh' = [hh EXCEPT ![i].prev = last]
      /\ linked' = [linked EXCEPT ![c] = TRUE] /\ adding' = adding
      /\ order' = order /\ up' = up /\ deleting' = deleting
  BY <1>1, <1>3 DEF AddTail
<1>5. /\ adding \in [Adders -> Items \cup {NULL}] /\ linked \in [Adders -> BOOLEAN]
      /\ hh \in [Items -> Handles]
  BY DEF Sound, Calls, List
<1>6. /\ linked'[c] /\ linked' \in [Adders -> BOOLEAN]
      /\ \A d \in Adders : d # c => adding'[d] = NULL /\ ~linked'[d]
  BY <1>1, <1>4, <1>5
<1>7. Calls'
  BY <1>1, <1>2, <1>3, <1>4, <1>5, <1>6 DEF Calls
<1>8. ~Unlinked'
  BY <1>6 DEF Unlinked
<1>9. /\ hh' \in [Items -> Handles] /\ hh'[i].prev = last
      /\ \A j \in Items : /\ j # i => hh'[j].prev = hh[j].prev
                          /\ hh'[j].next = hh[j].next /\ hh'[j].tbl = hh[j].tbl
                          /\ hh'[j].hh_prev = hh[j].hh_prev /\ hh'[j].hh_next = hh[j].hh_next
  BY <1>3, <1>4, <1>5 DEF Handles
<1>10. ToSet(order)' = ToSet(order) /\ Hashed' = Hashed
  BY <1>4 DEF Hashed
<1>11. \A n \in 1 .. L :
          /\ hh'[order[n]].next = IF n = L THEN NULL ELSE order[n + 1]
          /\ hh'[order[n]].prev = IF n = 1 THEN NULL ELSE order[n - 1]
  <2> TAKE n \in 1 .. L
  <2>1. /\ hh[order[n]].next = IF n = L THEN NULL ELSE order[n + 1]
        /\ hh[order[n]].prev = IF n = 1 \/ n = L THEN NULL ELSE order[n - 1]
    BY <1>1 DEF Sound, List
  <2>2. order[n] \in Items /\ (order[n] = i <=> n = L)
    BY <1>2
  <2> QED
    BY <1>1, <1>2, <1>9, <2>1, <2>2
<1>12. TableShape(tbl) /\ tbl'.tail = i
       /\ TableShape(tbl') /\ tbl'.num_buckets = tbl.num_buckets
       /\ tbl'.buckets = tbl.buckets /\ tbl'.num_items = tbl.num_items
  <2>1. TableShape(tbl)
    BY DEF Sound, Buckets, Ranked, Right
  <2> QED
    BY <1>4, <2>1 DEF TableShape
<1>13. List'
  <2>1. socketfds' = order'[1] /\ hh'[order'[1]].tbl
    BY <1>1, <1>2, <1>4, <1>9 DEF Sound, List
  <2>2. \A j \in Items : j \notin ToSet(order)' /\ j # deleting' => hh'[j].next = NULL /\ hh'[j].prev = NULL
    <3> TAKE j \in Items
    <3>1. j \notin ToSet(order) => hh[j].next = NULL /\ hh[j].prev = NULL
      BY <1>1, UtHashAssumption DEF Sound, List
    <3>2. i \in ToSet(order)
      BY <1>2
    <3> QED
      BY <1>9, <1>10, <3>1, <3>2
  <2> QED
    BY <1>1, <1>2, <1>4, <1>8, <1>9, <1>11, <1>12, <2>1, <2>2 DEF List
<1>14. PICK r : Ranked(r)
  BY DEF Sound, Buckets
<1>15. Right(hh', tbl', Hashed', r)
  <2>1. Right(hh, tbl, Hashed, r)
    BY <1>14 DEF Ranked
  <2>2. Right(hh', tbl', Hashed, r)
    BY <1>9, <1>12, <2>1, HashedItems, SameRight
  <2> QED
    BY <1>10, <2>2
<1>16. Latest(r)'
  <2>1. Latest(r)
    BY <1>14 DEF Ranked
  <2> QED
    BY <1>4, <1>10, <1>12, <2>1 DEF Latest
<1>17. Ranked(r)'
  BY <1>14, <1>15, <1>16 DEF Ranked
<1> QED
  BY <1>4, <1>7, <1>13, <1>17 DEF Sound, Buckets

\* ... and its bucket, and the doubling.
LEMMA AddBucketKeeps ==
    ASSUME Sound, NEW c \in Adders, AddBucket(c)
    PROVE  Sound'
<1> DEFINE L == Len(order)
           i == adding[c]
           h == Chained(hh, tbl, i)
           t == Counted(tbl, i)
<1>1. /\ i = order[L] /\ linked[c] /\ deleting = NULL /\ L > 0
      /\ \A d \in Adders : d # c => adding[d] = NULL /\ ~linked[d]
      /\ order \in Seq(Items)
  BY DEF AddBucket, Sound, Calls
<1>2. /\ \A n \in 1 .. L : order[n] \in Items /\ order[n] # NULL
      /\ L \in Nat /\ L \in 1 .. L /\ 1 \in 1 .. L
      /\ \A m, n \in 1 .. L : order[m] = order[n] => m = n
      /\ \A j : j \in ToSet(order) <=> \E n \in 1 .. L : order[n] = j
  BY <1>1, Ordered DEF Sound, Calls
<1>3. i \in Items /\ i # NULL /\ ~Unlinked /\ i \notin Hashed /\ i \in ToSet(order)
  BY <1>1, <1>2 DEF Unlinked, Hashed
<1>4. /\ socketfds' = socketfds /\ order' = order /\ up' = up /\ deleting' = deleting
      /\ linked' = [linked EXCEPT ![c] = FALSE] /\ adding' = [adding EXCEPT ![c] = NULL]
      /\ \/ /\ hh' = [j \in Items |-> NewHandle(h, t, j)]
            /\ tbl' = NewBuckets(h, t)
         \/ hh' = h /\ tbl' = t
  BY DEF AddBucket
<1>5. /\ adding \in [Adders -> Items \cup {NULL}] /\ linked \in [Adders -> BOOLEAN]
      /\ hh \in [Items -> Handles]
  BY DEF Sound, Calls, List
<1>6. /\ adding' \in [Adders -> Items \cup {NULL}] /\ linked' \in [Adders -> BOOLEAN]
      /\ \A d \in Adders : adding'[d] = NULL /\ ~linked'[d]
  BY <1>1, <1>4, <1>5
<1>7. Calls'
  BY <1>1, <1>4, <1>6 DEF Calls, Sound
<1>8. ~Unlinked'
  BY <1>6 DEF Unlinked
<1>9. ToSet(order)' = ToSet(order) /\ Hashed' = Hashed \cup {i}
  <2>1. ToSet(order)' = ToSet(order)
    BY <1>4
  <2>2. \A j \in Items : j \in Hashed <=> j \in ToSet(order) /\ j # i
    BY <1>1, UtHashAssumption DEF Hashed
  <2>3. \A j \in Items : j \in Hashed' <=> j \in ToSet(order)
    BY <1>1, <1>4, <1>6, <2>1, UtHashAssumption DEF Hashed
  <2>4. \A j : j \in Hashed' <=> j \in Hashed \cup {i}
    <3>1. Hashed' \subseteq Items /\ Hashed \subseteq Items
      BY DEF Hashed
    <3> QED
      BY <1>3, <2>2, <2>3, <3>1
  <2> QED
    BY <2>1, <2>4
<1>10. /\ h \in [Items -> Handles]
       /\ \A j \in Items : /\ h[j].next = hh[j].next /\ h[j].prev = hh[j].prev
                           /\ hh[j].tbl => h[j].tbl
  <2>1. tbl.buckets[Bucket(i, tbl)].hh_head \in Items \cup {NULL}
    <3>1. PICK r : Right(hh, tbl, Hashed, r)
      BY DEF Sound, Buckets, Ranked
    <3>2. Bucket(i, tbl) \in 0 .. tbl.num_buckets - 1
      BY <1>3, <3>1, BucketRange DEF Right
    <3> QED
      BY <3>1, <3>2, HashedItems DEF Right, Chains, Highest, In
  <2> DEFINE old == tbl.buckets[Bucket(i, tbl)].hh_head
  <2> HIDE DEF old
  <2>2. ASSUME NEW j \in Items
        PROVE  LET g == IF j = i THEN [hh[i] EXCEPT !.tbl = TRUE, !.hh_prev = NULL, !.hh_next = old]
                        ELSE IF j = old THEN [hh[j] EXCEPT !.hh_prev = i] ELSE hh[j]
               IN  /\ g \in Handles /\ g.next = hh[j].next /\ g.prev = hh[j].prev
                   /\ hh[j].tbl => g.tbl
    <3>1. hh[j] \in Handles /\ old \in Items \cup {NULL}
      BY <1>5, <2>1 DEF old
    <3> QED
      BY <1>3, <3>1 DEF Handles
  <2> QED
    BY <2>2 DEF Chained, old
<1>11. PICK r : Ranked(r)
  BY DEF Sound, Buckets
<1>12. PICK N \in Nat : \A j \in Items : r[j] <= N
  BY <1>11 DEF Ranked
<1>13. PICK q : q = [r EXCEPT ![i] = N + 1]
  OBVIOUS
<1>14. /\ r \in [Items -> Nat] /\ TableShape(tbl)
       /\ q[i] = N + 1 /\ \A j \in Items : j # i => q[j] = r[j] /\ q[j] <= N
  BY <1>3, <1>11, <1>12, <1>13 DEF Ranked, Right, Ranks
<1>15. Right(h, t, Hashed', q)
  <2>1. Right(hh, tbl, Hashed, r) /\ i \in Items \ Hashed
    BY <1>3, <1>11 DEF Ranked
  <2>2. Right(h, t, Hashed \cup {i}, [r EXCEPT ![i] = N + 1])
    BY <1>12, <2>1, HashedRight
  <2> QED
    BY <1>9, <1>13, <2>2
<1>16. t.tail = tbl.tail /\ t.num_buckets = tbl.num_buckets
  BY <1>14 DEF Counted, TableShape
<1>17. \A j \in Items : q[j] <= N + 1
  BY <1>12, <1>14
<1>18. /\ hh' \in [Items -> Handles] /\ tbl'.tail = tbl.tail /\ Buckets'
       /\ \A j \in Items : hh'[j].next = hh[j].next /\ hh'[j].prev = hh[j].prev
       /\ \A j \in Items : hh[j].tbl => hh'[j].tbl
  <2>1. CASE hh' = h /\ tbl' = t
    <3>1. /\ \A j \in Items : hh'[j].next = hh[j].next /\ hh'[j].prev = hh[j].prev
          /\ \A j \in Items : hh[j].tbl => hh'[j].tbl
          /\ hh' \in [Items -> Handles] /\ tbl'.tail = tbl.tail
      BY <1>10, <1>16, <2>1
    <3>2. Latest(q)'
      <4>1. SUFFICES ASSUME tbl.num_buckets = NumBuckets, NEW m \in 1 .. L, NEW n \in 1 .. L, m < n,
                            order[m] \in Hashed', order[n] \in Hashed'
                     PROVE  q[order[m]] < q[order[n]]
        BY <1>4, <1>16, <2>1 DEF Latest
      <4>2. m # L /\ order[m] # i /\ order[m] \in Hashed /\ order[m] \in Items
        BY <1>1, <1>2, <1>9, <4>1
      <4>3. q[order[m]] = r[order[m]] /\ r[order[m]] \in Nat /\ r[order[m]] <= N
        BY <1>12, <1>14, <4>2
      <4>4. CASE n = L
        BY <1>1, <1>12, <1>14, <4>3, <4>4
      <4>5. CASE n # L
        <5>1. order[n] # i /\ order[n] \in Hashed /\ order[n] \in Items
          BY <1>1, <1>2, <1>9, <4>1, <4>5
        <5>2. r[order[m]] < r[order[n]]
          BY <1>11, <4>1, <4>2, <5>1 DEF Ranked, Latest
        <5> QED
          BY <1>14, <4>3, <5>1, <5>2
      <4> QED
        BY <4>4, <4>5
    <3>3. Ranked(q)'
      <4>1. Right(hh', tbl', Hashed', q)
        BY <1>15, <2>1
      <4>2. N + 1 \in Nat
        BY <1>12
      <4> QED
        BY <1>17, <3>2, <4>1, <4>2 DEF Ranked
    <3> QED
      BY <3>1, <3>3 DEF Buckets
  <2>2. CASE hh' = [j \in Items |-> NewHandle(h, t, j)] /\ tbl' = NewBuckets(h, t)
    <3>1. \A j \in Items : /\ hh'[j].next = hh[j].next /\ hh'[j].prev = hh[j].prev
                           /\ hh[j].tbl => hh'[j].tbl
      <4> TAKE j \in Items
      <4> HIDE DEF h, t
      <4>1. hh'[j] = NewHandle(h, t, j) /\ h[j] \in Handles
        BY <1>10, <2>2
      <4>2. /\ NewHandle(h, t, j).tbl = h[j].tbl
            /\ NewHandle(h, t, j).prev = h[j].prev /\ NewHandle(h, t, j).next = h[j].next
        BY <4>1, NewHandleKeeps
      <4> QED
        BY <1>10, <4>1, <4>2
    <3>2. PICK p : p = Turned(q, N + 1)
      OBVIOUS
    <3>3. Right(hh', tbl', Hashed', p)
      <4> HIDE DEF h, t
      <4>1. N + 1 \in Nat
        BY <1>12
      <4>2. Right([j \in Items |-> NewHandle(h, t, j)], NewBuckets(h, t), Hashed', Turned(q, N + 1))
        BY <1>15, <1>17, <4>1, ExpandedRight
      <4> QED
        BY <2>2, <3>2, <4>2
    <3>4. tbl'.tail = t.tail /\ tbl'.num_buckets = 2 * t.num_buckets
      <4>1. TableShape(t)
        BY <1>15 DEF Right
      <4> HIDE DEF t
      <4> QED
        BY <2>2, <4>1 DEF NewBuckets, TableShape
    <3>5. tbl'.num_buckets # NumBuckets
      BY <1>14, <1>16, <3>4, UtHashAssumption DEF TableShape
    <3>6. \E M \in Nat : \A j \in Items : p[j] <= M
      <4>1. q \in [Items -> Nat]
        BY <1>15 DEF Right, Ranks
      <4>2. \A j \in Items : p[j] <= N + 1
        BY <1>12, <1>17, <3>2, <4>1 DEF Turned
      <4> QED
        BY <1>12, <4>2
    <3>7. Ranked(p)'
      BY <3>3, <3>5, <3>6 DEF Ranked, Latest
    <3>8. hh' \in [Items -> Handles]
      BY <3>3 DEF Right
    <3> QED
      BY <1>16, <3>1, <3>4, <3>7, <3>8 DEF Buckets
  <2> QED
    BY <1>4, <2>1, <2>2
<1>19. List'
  <2>1. socketfds' = order'[1] /\ hh'[order'[1]].tbl
    BY <1>1, <1>2, <1>4, <1>18 DEF Sound, List
  <2>2. \A n \in 1 .. L :
          /\ hh[order[n]].next = IF n = L THEN NULL ELSE order[n + 1]
          /\ hh[order[n]].prev = IF n = 1 THEN NULL ELSE order[n - 1]
    BY <1>3 DEF Sound, List
  <2>3. \A n \in 1 .. L :
          /\ hh'[order[n]].next = IF n = L THEN NULL ELSE order[n + 1]
          /\ hh'[order[n]].prev = IF n = 1 THEN NULL ELSE order[n - 1]
    BY <1>2, <1>18, <2>2
  <2>4. tbl'.tail = order[L]
    BY <1>1, <1>3, <1>18 DEF Sound, List
  <2>5. \A j \in Items : j \notin ToSet(order) /\ j # deleting => hh'[j].next = NULL /\ hh'[j].prev = NULL
    BY <1>18 DEF Sound, List
  <2> QED
    BY <1>1, <1>4, <1>8, <1>9, <1>18, <2>1, <2>3, <2>4, <2>5 DEF List
<1> QED
  BY <1>4, <1>7, <1>18, <1>19 DEF Sound

\* The item that HASH_DELETE is given is in the list.
LEMMA Deletable ==
    ASSUME Sound, ~Busy, Usable, NEW i \in Items, i = Find(KeyOf[i])
    PROVE  \E k \in 1 .. Len(order) : order[k] = i
<1>1. PICK r : Ranked(r)
  BY DEF Sound, Buckets
<1>2. Len(order) > 0 /\ Hashed = ToSet(order) /\ order \in Seq(Items)
  <2>1. Len(order) # 0
    BY Idle DEF Sound, Usable
  <2> QED
    BY <2>1, Idle DEF Sound, Calls
<1>3. KeyOf[i] \in DOMAIN HashOf /\ i # NULL
  BY UtHashAssumption
<1>4. Highest(Find(KeyOf[i]), {j \in Hashed : KeyOf[j] = KeyOf[i]}, r)
  BY <1>1, <1>2, <1>3, Found DEF Sound
<1>5. i \in Hashed
  BY <1>3, <1>4 DEF Highest
<1> QED
  BY <1>2, <1>5, Ordered

\* HASH_DELETE of the only item ...
LEMMA DeleteLastKeeps ==
    ASSUME Sound, NEW i \in Items, DeleteLast(i), ~Busy
    PROVE  Sound'
<1> DEFINE L == Len(order)
<1>1. /\ deleting = NULL /\ \A c \in Adders : adding[c] = NULL /\ ~linked[c]
      /\ ~Unlinked /\ order \in Seq(Items)
  BY Idle DEF Sound, Calls
<1>2. /\ \A n \in 1 .. L : order[n] \in Items /\ order[n] # NULL
      /\ \A m, n \in 1 .. L : order[m] = order[n] => m = n
      /\ \A j : j \in ToSet(order) <=> \E n \in 1 .. L : order[n] = j
      /\ L \in Nat
  BY <1>1, Ordered DEF Sound, Calls
<1>3. /\ socketfds' = NULL /\ tbl' = NewTable(NULL)
      /\ hh' = [j \in Items |-> IF j = i THEN NoHandle ELSE [hh[j] EXCEPT !.tbl = FALSE]]
      /\ order' = RemoveFirst(order, i) /\ up' = up /\ adding' = adding /\ linked' = linked
      /\ deleting' = deleting /\ hh[i].prev = NULL /\ hh[i].next = NULL
  BY DEF DeleteLast
<1>4. PICK k \in 1 .. L : order[k] = i
  BY Deletable DEF DeleteLast
<1>5. /\ hh[i].next = IF k = L THEN NULL ELSE order[k + 1]
      /\ hh[i].prev = IF k = 1 THEN NULL ELSE order[k - 1]
  BY <1>1, <1>4 DEF Sound, List
<1>6. k = 1 /\ L = 1
  <2>1. k # L => k + 1 \in 1 .. L
    BY <1>2
  <2>2. k # 1 => k - 1 \in 1 .. L
    BY <1>2
  <2> QED
    BY <1>2, <1>3, <1>5, <2>1, <2>2
<1>7. order' \in Seq(Items) /\ Len(order') = 0
  <2>1. /\ RemoveFirst(order, order[k]) \in Seq(Items)
        /\ Len(RemoveFirst(order, order[k])) = L - 1
    BY <1>1, <1>2, Removed
  <2> QED
    BY <1>3, <1>4, <1>6, <2>1
<1>8. \A j : j \notin ToSet(order)'
  <2>1. DOMAIN order' = 1 .. 0
    BY <1>7
  <2> QED
    BY <2>1 DEF ToSet
<1>9. Calls'
  BY <1>1, <1>3, <1>7 DEF Sound, Calls
<1>10. /\ hh' \in [Items -> Handles]
       /\ \A j \in Items : hh'[j].next = NULL /\ hh'[j].prev = NULL
  <2> SUFFICES ASSUME NEW j \in Items
               PROVE  LET g == IF j = i THEN NoHandle ELSE [hh[j] EXCEPT !.tbl = FALSE]
                      IN  g \in Handles /\ g.next = NULL /\ g.prev = NULL
    BY <1>3
  <2>1. CASE j = i
    BY <2>1 DEF NoHandle, Handles
  <2>2. CASE j # i
    <3>1. hh[j] \in Handles
      BY DEF Sound, List
    <3>2. j \notin ToSet(order) /\ j # deleting
      BY <1>1, <1>2, <1>4, <1>6, <2>2, UtHashAssumption
    <3>3. hh[j].next = NULL /\ hh[j].prev = NULL
      BY <3>2 DEF Sound, List
    <3> QED
      BY <2>2, <3>1, <3>3 DEF Handles
  <2> QED
    BY <2>1, <2>2
<1>11. List'
  BY <1>3, <1>7, <1>10 DEF List
<1>12. Hashed' = {}
  BY <1>1, <1>3, <1>8, UtHashAssumption DEF Hashed
<1>13. Right(hh', tbl', Hashed', [j \in Items |-> 0])
  BY <1>3, <1>10, <1>12, NewRight
<1>14. Ranked([j \in Items |-> 0])'
  BY <1>12, <1>13 DEF Ranked, Latest
<1> QED
  BY <1>3, <1>9, <1>11, <1>14 DEF Sound, Buckets

\* ... of another one, the list ...
LEMMA DeleteUnlinkKeeps ==
    ASSUME Sound, NEW i \in Items, DeleteUnlink(i), ~Busy
    PROVE  Sound'
<1> DEFINE L == Len(order)
           prev == hh[i].prev
           next == hh[i].next
<1>1. /\ deleting = NULL /\ \A c \in Adders : adding[c] = NULL /\ ~linked[c]
      /\ ~Unlinked /\ order \in Seq(Items) /\ Hashed = ToSet(order)
  BY Idle DEF Sound, Calls
<1>2. /\ \A n \in 1 .. L : order[n] \in Items /\ order[n] # NULL
      /\ \A m, n \in 1 .. L : order[m] = order[n] => m = n
      /\ \A j : j \in ToSet(order) <=> \E n \in 1 .. L : order[n] = j
      /\ L \in Nat
  BY <1>1, Ordered DEF Sound, Calls
<1>3. /\ socketfds' = IF prev = NULL THEN next ELSE socketfds
      /\ tbl' = IF tbl.tail = i THEN [tbl EXCEPT !.tail = prev] ELSE tbl
      /\ hh' = [j \in Items |-> [hh[j] EXCEPT
                   !.next = IF j = prev THEN next ELSE @,
                   !.prev = IF j = next THEN prev ELSE @]]
      /\ order' = RemoveFirst(order, i) /\ up' = up /\ adding' = adding /\ linked' = linked
      /\ deleting' = i /\ (prev # NULL \/ next # NULL)
  BY DEF DeleteUnlink, MoveTail
<1>4. PICK k \in 1 .. L : order[k] = i
  BY Deletable DEF DeleteUnlink
<1>5. /\ next = IF k = L THEN NULL ELSE order[k + 1]
      /\ prev = IF k = 1 THEN NULL ELSE order[k - 1]
      /\ i # NULL
  BY <1>1, <1>2, <1>4 DEF Sound, List
<1>6. L > 1 /\ L - 1 \in Nat /\ k \in Nat
  <2>1. ~(k = 1 /\ k = L)
    BY <1>3, <1>5
  <2> HIDE DEF L
  <2> QED
    BY <1>2, <2>1
<1>7. /\ order' \in Seq(Items) /\ Len(order') = L - 1
      /\ \A n \in 1 .. L - 1 : order'[n] = IF n < k THEN order[n] ELSE order[n + 1]
  <2>1. /\ RemoveFirst(order, order[k]) \in Seq(Items)
        /\ Len(RemoveFirst(order, order[k])) = L - 1
        /\ \A n \in 1 .. L - 1 :
              RemoveFirst(order, order[k])[n] = IF n < k THEN order[n] ELSE order[n + 1]
    BY <1>1, <1>2, Removed
  <2> QED
    BY <1>3, <1>4, <2>1
<1>8. \A n \in 1 .. L - 1 : n \in 1 .. L /\ n + 1 \in 1 .. L /\ n # k + L
  BY <1>2, <1>6
<1>9. \A m, n \in 1 .. L - 1 : order'[m] = order'[n] => m = n
  <2> TAKE m, n \in 1 .. L - 1
  <2> DEFINE a == IF m < k THEN m ELSE m + 1
             b == IF n < k THEN n ELSE n + 1
  <2>1. order'[m] = order[a] /\ order'[n] = order[b] /\ a \in 1 .. L /\ b \in 1 .. L
    BY <1>7, <1>8
  <2>2. a = b => m = n
    BY <1>6
  <2> HIDE DEF a, b
  <2> QED
    BY <1>2, <2>1, <2>2
<1>10. \A j : j \in ToSet(order)' <=> j \in ToSet(order) /\ j # i
  <2>0. DOMAIN order' = 1 .. L - 1
    BY <1>7
  <2>1. \A n \in 1 .. L - 1 : order'[n] # i /\ order'[n] \in ToSet(order)
    <3> TAKE n \in 1 .. L - 1
    <3>1. n < k \/ n + 1 # k
      BY <1>6
    <3> QED
      BY <1>2, <1>4, <1>6, <1>7, <1>8, <3>1
  <2>2. ASSUME NEW m \in 1 .. L, m # k PROVE \E n \in 1 .. L - 1 : order'[n] = order[m]
    <3>1. CASE m < k
      <4>1. m \in 1 .. L - 1
        BY <1>2, <3>1
      <4> QED
        BY <1>7, <3>1, <4>1
    <3>2. CASE ~(m < k)
      <4>1. m - 1 \in 1 .. L - 1 /\ ~(m - 1 < k) /\ (m - 1) + 1 = m
        BY <1>2, <2>2, <3>2
      <4> QED
        BY <1>7, <4>1
    <3> QED
      BY <3>1, <3>2
  <2>3. \A j : j \in ToSet(order)' <=> \E n \in 1 .. L - 1 : order'[n] = j
    BY <2>0 DEF ToSet
  <2>4. ASSUME NEW j \in ToSet(order), j # i PROVE j \in ToSet(order)'
    <3>1. PICK m \in 1 .. L : order[m] = j
      BY <1>2
    <3> QED
      BY <1>4, <2>2, <2>3, <2>4, <3>1
  <2>5. \A j : j \in ToSet(order)' => j \in ToSet(order) /\ j # i
    BY <2>1, <2>3
  <2> QED
    BY <2>4, <2>5
<1>11. Calls'
  <2>1. i \notin ToSet(order)' /\ i \in Items /\ Len(order') > 0
    BY <1>6, <1>7, <1>10
  <2>2. \A m, n \in 1 .. Len(order') : order'[m] = order'[n] => m = n
    BY <1>7, <1>9
  <2>3. /\ adding' \in [Adders -> Items \cup {NULL}] /\ linked' \in [Adders -> BOOLEAN]
        /\ \A c \in Adders : adding'[c] = NULL /\ ~linked'[c]
    BY <1>1, <1>3 DEF Sound, Calls
  <2> QED
    BY <1>3, <1>7, <2>1, <2>2, <2>3 DEF Calls
<1>12. \A j \in Items : hh[j] \in Handles
  BY DEF Sound, List
<1>13. prev \in Items \cup {NULL} /\ next \in Items \cup {NULL} /\ ~Unlinked'
  BY <1>1, <1>3, <1>12 DEF Handles, Unlinked
<1>14. /\ hh' \in [Items -> Handles]
       /\ \A j \in Items :
             /\ hh'[j].next = IF j = prev THEN next ELSE hh[j].next
             /\ hh'[j].prev = IF j = next THEN prev ELSE hh[j].prev
             /\ hh'[j].tbl = hh[j].tbl
             /\ hh'[j].hh_prev = hh[j].hh_prev /\ hh'[j].hh_next = hh[j].hh_next
  <2> HIDE DEF prev, next
  <2>1. ASSUME NEW j \in Items
        PROVE  LET g == [hh[j] EXCEPT !.next = IF j = prev THEN next ELSE @,
                                      !.prev = IF j = next THEN prev ELSE @]
               IN  /\ g \in Handles
                   /\ g.next = IF j = prev THEN next ELSE hh[j].next
                   /\ g.prev = IF j = next THEN prev ELSE hh[j].prev
                   /\ g.tbl = hh[j].tbl
                   /\ g.hh_prev = hh[j].hh_prev /\ g.hh_next = hh[j].hh_next
    BY <1>12, <1>13 DEF Handles
  <2> QED
    BY <1>3, <2>1
<1>15. \A n \in 1 .. L :
          /\ hh[order[n]].next = IF n = L THEN NULL ELSE order[n + 1]
          /\ hh[order[n]].prev = IF n = 1 THEN NULL ELSE order[n - 1]
          /\ order[n] = prev <=> n = k - 1
          /\ order[n] = next <=> n = k + 1
  <2> TAKE n \in 1 .. L
  <2>1. /\ hh[order[n]].next = IF n = L THEN NULL ELSE order[n + 1]
        /\ hh[order[n]].prev = IF n = 1 THEN NULL ELSE order[n - 1]
    BY <1>1 DEF Sound, List
  <2>2. /\ k # L => k + 1 \in 1 .. L
        /\ k # 1 => k - 1 \in 1 .. L
    BY <1>2
  <2>3. order[n] = prev <=> n = k - 1
    BY <1>2, <1>5, <2>2
  <2>4. order[n] = next <=> n = k + 1
    BY <1>2, <1>5, <2>2
  <2> QED
    BY <2>1, <2>3, <2>4
<1>16. \A n \in 1 .. L - 1 :
          /\ hh'[order'[n]].next = IF n = L - 1 THEN NULL ELSE order'[n + 1]
          /\ hh'[order'[n]].prev = IF n = 1 THEN NULL ELSE order'[n - 1]
  <2> TAKE n \in 1 .. L - 1
  <2> DEFINE m == IF n < k THEN n ELSE n + 1
  <2>1. /\ order'[n] = order[m] /\ m \in 1 .. L /\ order[m] \in Items
        /\ n # L - 1 => order'[n + 1] = IF n + 1 < k THEN order[n + 1] ELSE order[n + 2]
        /\ n # 1 => order'[n - 1] = IF n - 1 < k THEN order[n - 1] ELSE order[n]
    <3>1. n # L - 1 => n + 1 \in 1 .. L - 1 /\ (n + 1) + 1 = n + 2
      BY <1>6
    <3>2. n # 1 => n - 1 \in 1 .. L - 1 /\ (n - 1) + 1 = n
      BY <1>6
    <3> QED
      BY <1>2, <1>7, <1>8, <3>1, <3>2
  <2>2. hh'[order'[n]].next = IF m = k - 1 THEN next ELSE IF m = L THEN NULL ELSE order[m + 1]
    <3> HIDE DEF m, prev, next
    <3>1. hh'[order[m]].next = IF order[m] = prev THEN next ELSE hh[order[m]].next
      BY <1>14, <2>1
    <3> QED
      BY <1>15, <2>1, <3>1
  <2>3. hh'[order'[n]].prev = IF m = k + 1 THEN prev ELSE IF m = 1 THEN NULL ELSE order[m - 1]
    <3> HIDE DEF m, prev, next
    <3>1. hh'[order[m]].prev = IF order[m] = next THEN prev ELSE hh[order[m]].prev
      BY <1>14, <2>1
    <3> QED
      BY <1>15, <2>1, <3>1
  <2>4. hh'[order'[n]].next = IF n = L - 1 THEN NULL ELSE order'[n + 1]
    <3>1. CASE n + 1 < k
      BY <1>6, <2>1, <2>2, <3>1
    <3>2. CASE n + 1 = k
      <4>1. m = k - 1 /\ (n = L - 1 <=> k = L) /\ k + 1 = n + 2
        BY <1>2, <1>6, <3>2
      <4> QED
        BY <1>5, <2>1, <2>2, <3>2, <4>1
    <3>3. CASE n + 1 > k
      <4>1. m = n + 1 /\ m # k - 1 /\ (m = L <=> n = L - 1) /\ m + 1 = n + 2
        BY <1>2, <1>6, <3>3
      <4> QED
        BY <1>6, <2>1, <2>2, <3>3, <4>1
    <3> QED
      BY <1>6, <3>1, <3>2, <3>3
  <2>5. hh'[order'[n]].prev = IF n = 1 THEN NULL ELSE order'[n - 1]
    <3>1. CASE n < k
      BY <1>6, <2>1, <2>3, <3>1
    <3>2. CASE n = k
      BY <1>5, <1>6, <2>1, <2>3, <3>2
    <3>3. CASE n > k
      <4>1. m = n + 1 /\ m # k + 1 /\ m # 1 /\ m - 1 = n /\ n # 1 /\ ~(n - 1 < k)
        BY <1>2, <1>6, <3>3
      <4> QED
        BY <2>1, <2>3, <4>1
    <3> QED
      BY <1>6, <3>1, <3>2, <3>3
  <2> QED
    BY <2>4, <2>5
<1>17. Hashed' = Hashed
  <2>1. \A j \in Items : j \in Hashed' <=> j \in ToSet(order)
    BY <1>1, <1>2, <1>3, <1>4, <1>10, UtHashAssumption DEF Hashed
  <2> QED
    BY <1>1, <2>1 DEF Hashed
<1>18. PICK r : Ranked(r)
  BY DEF Sound, Buckets
<1>19. /\ TableShape(tbl) /\ TableShape(tbl') /\ tbl'.num_buckets = tbl.num_buckets
       /\ tbl'.buckets = tbl.buckets /\ tbl'.num_items = tbl.num_items
       /\ tbl'.tail = IF tbl.tail = i THEN prev ELSE tbl.tail
  <2> HIDE DEF prev
  <2>1. TableShape(tbl)
    BY <1>18 DEF Ranked, Right
  <2> QED
    BY <1>3, <2>1 DEF TableShape
<1>20. List'
  <2>1. 1 \in 1 .. L - 1 /\ L - 1 \in 1 .. L - 1 /\ L # 0 /\ L \in 1 .. L /\ L - 1 + 1 = L
    BY <1>6
  <2>2. socketfds' = order'[1]
    <3>1. socketfds = order[1]
      BY <2>1 DEF Sound, List
    <3>2. k = 1 => next = order[2]
      BY <1>5, <1>6
    <3>3. k # 1 => prev = order[k - 1] /\ k - 1 \in 1 .. L /\ 1 < k
      BY <1>2, <1>5
    <3>4. CASE k = 1
      <4>1. order'[1] = order[2] /\ prev = NULL
        BY <1>5, <1>7, <2>1, <3>4
      <4> QED
        BY <1>3, <3>2, <3>4, <4>1
    <3>5. CASE k # 1
      <4>1. order'[1] = order[1] /\ prev # NULL
        BY <1>2, <1>7, <2>1, <3>3, <3>5
      <4> QED
        BY <1>3, <3>1, <4>1
    <3> QED
      BY <3>4, <3>5
  <2>3. tbl'.tail = order'[L - 1]
    <3>1. tbl.tail = order[L]
      BY <1>1, <1>6 DEF Sound, List
    <3>2. CASE k = L
      BY <1>4, <1>5, <1>6, <1>7, <1>19, <2>1, <3>1, <3>2
    <3>3. CASE k # L
      <4>1. tbl.tail # i
        BY <1>2, <1>4, <2>1, <3>1, <3>3
      <4>2. ~(L - 1 < k)
        BY <1>2, <3>3
      <4> QED
        BY <1>7, <1>19, <2>1, <3>1, <4>1, <4>2
    <3> QED
      BY <3>2, <3>3
  <2>4. hh'[order'[1]].tbl
    <3>1. order'[1] \in Hashed
      <4>1. order'[1] = IF 1 < k THEN order[1] ELSE order[2]
        BY <1>7, <2>1
      <4>2. 1 \in 1 .. L /\ 2 \in 1 .. L
        BY <1>6
      <4> QED
        BY <1>1, <1>2, <4>1, <4>2
    <3>2. hh[order'[1]].tbl
      BY <1>18, <3>1 DEF Ranked, Right, Chains
    <3> QED
      BY <1>14, <3>1, <3>2, HashedItems
  <2>5. ASSUME NEW j \in Items, j \notin ToSet(order)', j # deleting'
        PROVE  hh'[j].next = NULL /\ hh'[j].prev = NULL
    <3>1. j \notin ToSet(order) /\ j # deleting /\ j # prev /\ j # next
      <4>1. j \notin ToSet(order) /\ j # NULL
        BY <1>3, <1>10, <2>5, UtHashAssumption
      <4>2. /\ k # L => k + 1 \in 1 .. L
            /\ k # 1 => k - 1 \in 1 .. L
        BY <1>2
      <4> QED
        BY <1>1, <1>2, <1>5, <4>1, <4>2
    <3>2. hh[j].next = NULL /\ hh[j].prev = NULL
      BY <3>1 DEF Sound, List
    <3> QED
      BY <1>14, <3>1, <3>2
  <2> QED
    BY <1>6, <1>7, <1>13, <1>14, <1>16, <2>1, <2>2, <2>3, <2>4, <2>5 DEF List
<1>21. Right(hh', tbl', Hashed', r)
  <2>1. Right(hh, tbl, Hashed, r)
    BY <1>18 DEF Ranked
  <2>2. Right(hh', tbl', Hashed, r)
    BY <1>14, <1>19, <2>1, HashedItems, SameRight
  <2> QED
    BY <1>17, <2>2
<1>22. Latest(r)'
  <2>1. SUFFICES ASSUME tbl.num_buckets = NumBuckets, NEW m \in 1 .. L - 1, NEW n \in 1 .. L - 1,
                        m < n, order'[m] \in Hashed, order'[n] \in Hashed
                 PROVE  r[order'[m]] < r[order'[n]]
    BY <1>7, <1>17, <1>19 DEF Latest
  <2> DEFINE a == IF m < k THEN m ELSE m + 1
             b == IF n < k THEN n ELSE n + 1
  <2>2. a \in 1 .. L /\ b \in 1 .. L /\ order'[m] = order[a] /\ order'[n] = order[b]
    BY <1>7, <1>8
  <2>3. a < b
    BY <1>6, <2>1
  <2> HIDE DEF a, b
  <2>4. Latest(r)
    BY <1>18 DEF Ranked
  <2> QED
    BY <2>1, <2>2, <2>3, <2>4 DEF Latest
<1>23. Ranked(r)'
  BY <1>18, <1>21, <1>22 DEF Ranked
<1> QED
  BY <1>3, <1>11, <1>20, <1>23 DEF Sound, Buckets

\* ... and its bucket.
LEMMA DeleteBucketKeeps ==
    ASSUME Sound, DeleteBucket
    PROVE  Sound'
<1> DEFINE L == Len(order)
           i == deleting
<1>1. /\ i # NULL /\ i \in Items /\ L > 0 /\ i \notin ToSet(order) /\ order \in Seq(Items)
      /\ \A c \in Adders : adding[c] = NULL /\ ~linked[c]
  BY DEF DeleteBucket, Sound, Calls
<1>2. /\ \A n \in 1 .. L : order[n] \in Items /\ order[n] # i
      /\ L \in Nat /\ 1 \in 1 .. L
  BY <1>1, Ordered
<1>3. /\ hh' = [Unchain(hh, i) EXCEPT ![i] = NoHandle] /\ tbl' = Uncounted(hh, tbl, i)
      /\ deleting' = NULL /\ up' = up /\ socketfds' = socketfds /\ adding' = adding
      /\ linked' = linked /\ order' = order
  BY DEF DeleteBucket
<1>4. ~Unlinked /\ ~Unlinked' /\ ToSet(order)' = ToSet(order)
  BY <1>1, <1>3 DEF Unlinked
<1>5. Calls'
  BY <1>1, <1>3 DEF Sound, Calls
<1>6. i \in Hashed /\ Hashed' = Hashed \ {i}
  <2>1. \A j \in Items : j \in Hashed <=> j \in ToSet(order) \/ j = i
    BY <1>1, UtHashAssumption DEF Hashed
  <2>2. \A j \in Items : j \in Hashed' <=> j \in ToSet(order)
    BY <1>1, <1>3, <1>4, UtHashAssumption DEF Hashed
  <2>3. Hashed \subseteq Items /\ Hashed' \subseteq Items
    BY DEF Hashed
  <2>4. \A j : j \in Hashed' <=> j \in Hashed \ {i}
    BY <1>1, <2>1, <2>2, <2>3
  <2> QED
    BY <1>1, <2>1, <2>4
<1>7. PICK r : Ranked(r)
  BY DEF Sound, Buckets
<1>8. Right(hh', tbl', Hashed', r)
  <2>1. Right(hh, tbl, Hashed, r)
    BY <1>7 DEF Ranked
  <2>2. Right([Unchain(hh, i) EXCEPT ![i] = NoHandle], Uncounted(hh, tbl, i), Hashed \ {i}, r)
    BY <1>6, <2>1, UnhashedRight
  <2> QED
    BY <1>3, <1>6, <2>2
<1>9. tbl'.tail = tbl.tail /\ tbl'.num_buckets = tbl.num_buckets
  <2>1. TableShape(tbl)
    BY <1>7 DEF Ranked, Right
  <2> QED
    BY <1>3, <2>1 DEF Uncounted, TableShape
<1>10. /\ hh' \in [Items -> Handles] /\ hh'[i].next = NULL /\ hh'[i].prev = NULL
       /\ \A j \in Items : j # i =>
             hh'[j].next = hh[j].next /\ hh'[j].prev = hh[j].prev /\ hh'[j].tbl = hh[j].tbl
  <2>1. hh' \in [Items -> Handles]
    BY <1>8 DEF Right
  <2>2. hh'[i].next = NULL /\ hh'[i].prev = NULL
    BY <1>1, <1>3 DEF Unchain, NoHandle
  <2>3. ASSUME NEW j \in Items, j # i
        PROVE  hh'[j].next = hh[j].next /\ hh'[j].prev = hh[j].prev /\ hh'[j].tbl = hh[j].tbl
    <3>1. hh[j] \in Handles
      BY DEF Sound, List
    <3>2. ASSUME NEW x, NEW y
          PROVE  LET g == [hh[j] EXCEPT !.hh_next = x, !.hh_prev = y]
                 IN  g.next = hh[j].next /\ g.prev = hh[j].prev /\ g.tbl = hh[j].tbl
      BY <3>1 DEF Handles
    <3> DEFINE x == IF j = hh[i].hh_prev THEN hh[i].hh_next ELSE hh[j].hh_next
               y == IF j = hh[i].hh_next THEN hh[i].hh_prev ELSE hh[j].hh_prev
    <3>3. hh'[j] = [hh[j] EXCEPT !.hh_next = x, !.hh_prev = y]
      BY <1>3, <2>3 DEF Unchain
    <3> HIDE DEF x, y
    <3> QED
      BY <3>2, <3>3
  <2> QED
    BY <2>1, <2>2, <2>3
<1>11. List'
  <2>1. \A n \in 1 .. L :
          /\ hh'[order[n]].next = IF n = L THEN NULL ELSE order[n + 1]
          /\ hh'[order[n]].prev = IF n = 1 THEN NULL ELSE order[n - 1]
    <3>1. \A n \in 1 .. L :
          /\ hh[order[n]].next = IF n = L THEN NULL ELSE order[n + 1]
          /\ hh[order[n]].prev = IF n = 1 THEN NULL ELSE order[n - 1]
      BY <1>4 DEF Sound, List
    <3> QED
      BY <1>2, <1>10, <3>1
  <2>2. \A j \in Items : j \notin ToSet(order) => hh'[j].next = NULL /\ hh'[j].prev = NULL
    BY <1>10 DEF Sound, List
  <2>3. socketfds' = order[1] /\ hh'[order[1]].tbl /\ tbl'.tail = order[L]
    BY <1>1, <1>2, <1>3, <1>4, <1>9, <1>10 DEF Sound, List
  <2> QED
    BY <1>1, <1>3, <1>4, <1>10, <2>1, <2>2, <2>3 DEF List
<1>12. Latest(r)'
  BY <1>3, <1>6, <1>7, <1>9 DEF Ranked, Latest
<1>13. Ranked(r)'
  BY <1>7, <1>8, <1>12 DEF Ranked
<1> QED
  BY <1>3, <1>5, <1>11, <1>13 DEF Sound, Buckets

\* No call meets a corrupt table.
LEMMA NeverCorrupt ==
    ASSUME Sound
    PROVE  ~Corrupt
<1>1. SUFFICES ASSUME ~Usable, Busy \/ socketfds # NULL PROVE FALSE
  BY DEF Corrupt
<1>2. Len(order) \in Nat
  BY DEF Sound, Calls
<1>3. Busy => Len(order) > 0
  <2>1. ASSUME NEW c \in Adders, adding[c] # NULL PROVE Len(order) > 0
    BY <1>2, <2>1 DEF Sound, Calls
  <2> QED
    BY <2>1 DEF Busy, Sound, Calls
<1>4. socketfds # NULL => Len(order) > 0
  BY <1>2 DEF Sound, List
<1> QED
  BY <1>1, <1>3, <1>4, TableUsable DEF Sound

LEMMA HashInvInit == Init => HashInv
<1> SUFFICES ASSUME Init PROVE Sound
  BY DEF HashInv
<1>1. order \in Seq(Items) /\ Len(order) = 0
  BY DEF Init
<1>2. Calls
  BY <1>1 DEF Init, Calls
<1>3. hh \in [Items -> Handles] /\ \A i \in Items : hh[i].next = NULL /\ hh[i].prev = NULL
  BY DEF Init, NoHandle, Handles
<1>4. List
  BY <1>1, <1>3 DEF Init, List
<1>5. Hashed = {}
  <2>1. \A i : i \notin ToSet(order)
    BY <1>1, Ordered
  <2> QED
    BY <2>1, UtHashAssumption DEF Init, Hashed
<1>6. Right(hh, tbl, Hashed, [i \in Items |-> 0])
  BY <1>3, <1>5, NewRight DEF Init
<1>7. Ranked([i \in Items |-> 0])
  BY <1>5, <1>6 DEF Ranked, Latest
<1> QED
  BY <1>2, <1>4, <1>7 DEF Init, Sound, Buckets

LEMMA HashInvNext == HashInv /\ [Next]_vars => HashInv'
<1> SUFFICES ASSUME HashInv, [Next]_vars, ~raced' PROVE Sound'
  BY DEF HashInv
<1>1. CASE UNCHANGED vars
  <2>1. Sound
    BY <1>1 DEF HashInv, vars
  <2>2. /\ up' = up /\ socketfds' = socketfds /\ hh' = hh /\ tbl' = tbl /\ adding' = adding
        /\ linked' = linked /\ deleting' = deleting /\ order' = order
    BY <1>1 DEF vars
  <2>3. Hashed' = Hashed /\ Unlinked' = Unlinked
    BY <2>2 DEF Hashed, Unlinked
  <2>4. Calls' /\ List'
    BY <2>1, <2>2, <2>3 DEF Sound, Calls, List
  <2>5. PICK r : Ranked(r)
    BY <2>1 DEF Sound, Buckets
  <2>6. Ranked(r)'
    BY <2>2, <2>3, <2>5 DEF Ranked, Latest
  <2> QED
    BY <2>1, <2>2, <2>4, <2>6 DEF Sound, Buckets
<1>2. ASSUME NEW c \in Adders, AddTail(c) PROVE Sound'
  BY <1>2, AddTailKeeps DEF AddTail, HashInv
<1>3. ASSUME NEW c \in Adders, AddBucket(c) PROVE Sound'
  <2>1. raced' = raced
    BY <1>3 DEF AddBucket
  <2> QED
    BY <1>3, <2>1, AddBucketKeeps DEF HashInv
<1>4. ASSUME NEW c \in Adders, NEW i \in Items, AddLink(c, i) PROVE Sound'
  <2>1. Sound /\ ~Busy
    BY <1>4 DEF AddLink, HashInv
  <2> QED
    BY <1>4, <2>1, AddFirstKeeps, AddLinkKeeps
<1>5. ASSUME NEW i \in Items, DeleteLast(i) PROVE Sound'
  <2>1. Sound /\ ~Busy
    BY <1>5 DEF DeleteLast, HashInv
  <2> QED
    BY <1>5, <2>1, DeleteLastKeeps
<1>6. ASSUME NEW i \in Items, DeleteUnlink(i) PROVE Sound'
  <2>1. Sound /\ ~Busy
    BY <1>6 DEF DeleteUnlink, HashInv
  <2> QED
    BY <1>6, <2>1, DeleteUnlinkKeeps
<1>7. CASE DeleteBucket
  BY <1>7, DeleteBucketKeeps DEF DeleteBucket, HashInv
<1>8. CASE Corrupt
  BY <1>8, NeverCorrupt DEF Corrupt, HashInv
<1>9. CASE Down
  BY <1>1, <1>9 DEF Down
<1> QED
  BY <1>1, <1>2, <1>3, <1>4, <1>5, <1>6, <1>7, <1>8, <1>9 DEF Next

\* Calls that do not overlap keep HashInv.
LEMMA HashInvHolds == Spec => []HashInv
  BY HashInvInit, HashInvNext, PTL DEF Spec
-----------------------------------------------------------------------------
(***************************************************************************)
(* What it says of walks, lookups and counts.                              *)
(***************************************************************************)
\* An item has one place in the order, so there are no more than Size.
LEMMA OrderSize ==
    ASSUME Calls
    PROVE  /\ Cardinality(ToSet(order)) = Len(order) /\ IsFiniteSet(ToSet(order))
           /\ Len(order) <= Size /\ Len(order) \in Nat
<1> DEFINE L == Len(order)
           S == ToSet(order)
<1>1. order \in Seq(Items) /\ L \in Nat /\ \A m, n \in 1 .. L : order[m] = order[n] => m = n
  BY DEF Calls
<1>2. S \subseteq Items /\ \A i : i \in S <=> \E n \in 1 .. L : order[n] = i
  BY <1>1, Ordered
<1>3. order \in [1 .. L -> S]
  BY <1>1, <1>2
<1> HIDE DEF S
<1>4. order \in Injection(1 .. L, S) /\ order \in Surjection(1 .. L, S)
  <2>1. DOMAIN order = 1 .. L
    BY <1>3
  <2>2. order \in Injection(1 .. L, S)
    BY <1>1, <1>3, <2>1 DEF Injection, IsInjective
  <2>3. order \in Surjection(1 .. L, S)
    BY <1>2, <1>3 DEF Surjection
  <2> QED
    BY <2>2, <2>3
<1>5. IsFiniteSet(S) /\ Cardinality(S) <= Size
  <2>1. S \in SUBSET Items /\ IsFiniteSet(Items)
    BY <1>2, UtHashAssumption
  <2> QED
    BY <2>1, FS_Subset DEF Size
<1>6. IsFiniteSet(1 .. L) /\ Cardinality(1 .. L) = L
  <2>1. L \in Int /\ 1 \in Int /\ (IF 1 > L THEN 0 ELSE L - 1 + 1) = L
    BY <1>1
  <2> HIDE DEF L
  <2> QED
    BY <2>1, FS_Interval
<1>7. Cardinality(1 .. L) = Cardinality(S)
  BY <1>4, <1>5, FS_Injection
<1> QED
  BY <1>1, <1>5, <1>6, <1>7 DEF S

\* The walk along hh.next takes the items in their order.
LEMMA OrderWalked ==
    ASSUME Calls, List
    PROVE  ByOrder = order
<1> DEFINE L == Len(order)
           succ == [i \in Items |-> hh[i].next]
           p == Path(socketfds, succ)
           Bad == {n \in 0 .. Size : p[n] # IF n < L THEN order[n + 1] ELSE NULL}
<1>1. /\ order \in Seq(Items) /\ L \in Nat /\ L <= Size
      /\ \A n \in 1 .. L : order[n] \in Items /\ order[n] # NULL
      /\ Size \in Nat
  BY OrderSize, Ordered, SizeNat DEF Calls
<1>2. DOMAIN p = 0 .. Size /\ p[0] = socketfds /\ \A n \in 0 .. Size - 1 : p[n + 1] = Onward(p[n], succ)
  BY PathSteps
<1>3. \A n \in 1 .. L : succ[order[n]] = IF n = L THEN NULL ELSE order[n + 1]
  BY <1>1 DEF List
<1>4. socketfds = IF L = 0 THEN NULL ELSE order[1]
  BY DEF List
<1> HIDE DEF p, succ
<1>5. Bad = {}
  <2>1. SUFFICES ASSUME Bad # {} PROVE FALSE
    OBVIOUS
  <2>2. PICK n \in Bad : \A m \in Bad : n <= m
    <3>1. Bad \in SUBSET Nat
      BY <1>1
    <3> HIDE DEF Bad
    <3> QED
      BY <2>1, <3>1, LeastElement
  <2>3. n # 0
    BY <1>1, <1>2, <1>4, <2>2
  <2>4. n - 1 \in 0 .. Size - 1 /\ n = (n - 1) + 1 /\ n - 1 \in 0 .. Size /\ n - 1 \notin Bad
    BY <1>1, <2>2, <2>3
  <2>5. p[n - 1] = IF n - 1 < L THEN order[n] ELSE NULL
    BY <2>4
  <2>6. p[n] = Onward(p[n - 1], succ)
    BY <1>2, <2>4
  <2>7. CASE n - 1 < L
    <3>1. n \in 1 .. L /\ (n = L <=> ~(n < L))
      BY <1>1, <2>2, <2>3, <2>7
    <3>2. p[n] = IF n = L THEN NULL ELSE order[n + 1]
      BY <1>1, <1>3, <2>5, <2>6, <2>7, <3>1 DEF Onward
    <3> QED
      BY <2>2, <3>1, <3>2
  <2>8. CASE ~(n - 1 < L)
    <3>1. ~(n < L)
      BY <1>1, <2>2, <2>8
    <3> QED
      BY <2>2, <2>5, <2>6, <2>8, <3>1 DEF Onward
  <2> QED
    BY <2>7, <2>8
<1>6. \A n \in 0 .. Size : p[n] = IF n < L THEN order[n + 1] ELSE NULL
  BY <1>5
<1>7. Places(p) = 0 .. L - 1
  <2>1. \A n : n \in Places(p) <=> n \in 0 .. Size /\ p[n] # NULL
    BY <1>2 DEF Places
  <2>2. \A n \in 0 .. Size : p[n] # NULL <=> n < L
    <3> TAKE n \in 0 .. Size
    <3>1. n < L => n + 1 \in 1 .. L
      BY <1>1
    <3> QED
      BY <1>1, <1>6, <3>1
  <2>3. \A n : n \in Places(p) <=> n \in 0 .. L - 1
    BY <1>1, <2>1, <2>2
  <2> QED
    BY <2>3
<1>8. Cardinality(Places(p)) = L
  <2>1. L - 1 \in Int /\ (0 > L - 1 <=> L = 0) /\ (L - 1) - 0 + 1 = L
    BY <1>1
  <2>2. Cardinality(0 .. L - 1) = L
    <3> HIDE DEF L
    <3> QED
      BY <2>1, FS_Interval
  <2> QED
    BY <1>7, <2>2
<1>9. Walk(p) = order
  <2>1. Walk(p) = [n \in 1 .. L |-> p[n - 1]]
    BY <1>8 DEF Walk
  <2>2. \A n \in 1 .. L : p[n - 1] = order[n]
    <3> TAKE n \in 1 .. L
    <3>1. n - 1 \in 0 .. Size /\ n - 1 < L /\ (n - 1) + 1 = n
      BY <1>1
    <3> QED
      BY <1>6, <3>1
  <2>3. order = [n \in 1 .. L |-> order[n]]
    BY <1>1
  <2> HIDE DEF L
  <2> QED
    BY <2>1, <2>2, <2>3
<1> QED
  BY <1>9 DEF ByOrder, p, succ

\* The walk along hh.next that sendPackets and TAPHandle take visits each item in the
\* order of its addition, as long as no two calls have overlapped.
THEOREM WalkInOrder == Spec => []WalkUnlessRaced
<1>1. HashInv => WalkUnlessRaced
  BY OrderWalked DEF HashInv, Sound, WalkUnlessRaced
<1> QED
  BY <1>1, HashInvHolds, PTL

\* HASH_FIND finds an item if one has the key, through any expansion, and the most
\* recent one until the first, as long as no two calls have overlapped.
THEOREM FindFindsKey == Spec => []FindUnlessRaced
<1>1. ASSUME Sound, ~Busy, NEW k \in DOMAIN HashOf
      PROVE  LET same == {n \in DOMAIN order : KeyOf[order[n]] = k}
             IN  IF same = {} THEN Find(k) = NULL
                 ELSE IF tbl.num_buckets = NumBuckets THEN Find(k) = order[Max(same)]
                 ELSE \E n \in same : Find(k) = order[n]
  <2> DEFINE L == Len(order)
             same == {n \in DOMAIN order : KeyOf[order[n]] = k}
             held == {i \in Hashed : KeyOf[i] = k}
  <2>1. order \in Seq(Items) /\ L \in Nat /\ DOMAIN order = 1 .. L
    BY <1>1 DEF Sound, Calls
  <2>2. Hashed = ToSet(order) /\ (socketfds = NULL <=> L = 0)
    BY <1>1, Idle DEF Sound
  <2>3. \A i : i \in held <=> \E n \in same : order[n] = i
    BY <2>1, <2>2, Ordered
  <2>4. CASE L = 0
    <3>1. same = {}
      BY <2>1, <2>4
    <3>2. Find(k) = NULL
      BY <2>2, <2>4 DEF Find
    <3> QED
      BY <3>1, <3>2
  <2>5. CASE L # 0
    <3>1. PICK r : Ranked(r)
      BY <1>1 DEF Sound, Buckets
    <3>2. Highest(Find(k), held, r)
      BY <1>1, <2>1, <2>5, <3>1, Found DEF Sound
    <3>3. CASE same = {}
      BY <2>3, <3>2, <3>3 DEF Highest
    <3>4. CASE same # {}
      <4>1. PICK n \in same : Find(k) = order[n]
        <5> HIDE DEF held
        <5> QED
          BY <2>3, <3>2, <3>4 DEF Highest
      <4>2. ASSUME tbl.num_buckets = NumBuckets PROVE Find(k) = order[Max(same)]
        <5> DEFINE hi == Max(same)
        <5>1. hi \in same /\ n <= hi
          <6>1. same \in SUBSET (0 .. L)
            BY <2>1
          <6> HIDE DEF same
          <6> QED
            BY <2>1, <3>4, <6>1, MinMax
        <5> HIDE DEF hi
        <5>2. order[hi] \in held /\ order[n] \in Hashed /\ order[hi] \in Hashed
          BY <2>3, <5>1
        <5>3. r[order[hi]] <= r[order[n]]
          BY <3>2, <4>1, <5>2 DEF Highest
        <5>4. r[order[hi]] \in Nat /\ r[order[n]] \in Nat
          BY <3>1, <5>2, HashedItems DEF Ranked, Right, Ranks
        <5>5. ~(n < hi)
          BY <2>1, <3>1, <4>2, <5>1, <5>2, <5>3, <5>4 DEF Ranked, Latest
        <5>6. n = hi
          BY <2>1, <5>1, <5>5
        <5> QED
          BY <4>1, <5>6 DEF hi
      <4> QED
        BY <3>4, <4>1, <4>2
    <3> QED
      BY <3>3, <3>4
  <2> QED
    BY <2>4, <2>5
<1>2. HashInv => FindUnlessRaced
  BY <1>1 DEF HashInv, FindUnlessRaced
<1> QED
  BY <1>2, HashInvHolds, PTL

\* There is one place of one bucket for each item that is hashed.
LEMMA PlacesCounted ==
    ASSUME NEW r, Right(hh, tbl, Hashed, r)
    PROVE  LET p(b) == BucketPath(hh, tbl, b)
               all  == 0 .. tbl.num_buckets - 1
           IN  Cardinality({bn \in all \X (0 .. Size) : bn[2] \in Places(p(bn[1]))})
                  = Cardinality(Hashed)
<1> DEFINE p(b) == BucketPath(hh, tbl, b)
           all == 0 .. tbl.num_buckets - 1
           S == {bn \in all \X (0 .. Size) : bn[2] \in Places(p(bn[1]))}
           f == [bn \in S |-> p(bn[1])[bn[2]]]
           succ == [i \in Items |-> hh[i].hh_next]
<1>1. /\ IsFiniteSet(Hashed) /\ \A i \in Hashed : Bucket(i, tbl) \in all
  <2>1. \A i \in Items : Bucket(i, tbl) \in all
    BY BucketRange DEF Right
  <2> QED
    BY <2>1, HashedItems, UtHashAssumption, FS_Subset
<1>2. ASSUME NEW b \in all
      PROVE  /\ Picked(p(b), Places(p(b))) = In(tbl, Hashed, b)
             /\ Places(p(b)) \subseteq 0 .. Size
             /\ \A m, n \in Places(p(b)) : p(b)[m] = p(b)[n] => m = n
  <2> DEFINE T == In(tbl, Hashed, b)
             i == tbl.buckets[b].hh_head
             w == Path(i, succ)
  <2>1. Picked(p(b), Places(p(b))) = T
    BY <1>2, BucketVisited
  <2>2. Ranks(T, r) /\ SortedBy(T, r, i, succ)
    BY <1>2, BucketSorted
  <2>3. p(b) = w
    BY DEF BucketPath
  <2> HIDE DEF T, i, succ
  <2>4. DOMAIN w = 0 .. Size
    BY PathSteps
  <2>5. \A n \in 0 .. Size : \A m \in 0 .. n - 1 : w[n] # NULL => w[m] # NULL /\ r[w[n]] < r[w[m]]
    BY <2>2, SortedDescends
  <2>6. \A n \in 0 .. Size : w[n] \in T \cup {NULL}
    BY <2>2, SortedWithin
  <2> HIDE DEF w
  <2>7. \A n \in Places(w) : n \in 0 .. Size /\ w[n] # NULL /\ r[w[n]] \in Nat
    BY <2>2, <2>4, <2>6 DEF Places, Ranks
  <2>8. ASSUME NEW m \in Places(w), NEW n \in Places(w), w[m] = w[n] PROVE m = n
    <3>1. ~(m < n)
      <4>1. m < n => m \in 0 .. n - 1
        BY <2>7, SizeNat
      <4> QED
        BY <2>5, <2>7, <2>8, <4>1
    <3>2. ~(n < m)
      <4>1. n < m => n \in 0 .. m - 1
        BY <2>7, SizeNat
      <4> QED
        BY <2>5, <2>7, <2>8, <4>1
    <3> QED
      BY <2>7, <3>1, <3>2, SizeNat
  <2> HIDE DEF p
  <2>9. Places(w) \subseteq 0 .. Size
    BY <2>7
  <2> QED
    BY <2>1, <2>3, <2>8, <2>9 DEF T
<1> HIDE DEF p, succ, all
<1>3. \A bn \in S : /\ bn[1] \in all /\ bn[2] \in Places(p(bn[1])) /\ bn = <<bn[1], bn[2]>>
                    /\ p(bn[1])[bn[2]] \in In(tbl, Hashed, bn[1])
  BY <1>2 DEF Picked
<1>4. f \in Injection(S, Hashed)
  <2>1. \A bn \in S : f[bn] \in Hashed /\ Bucket(f[bn], tbl) = bn[1]
    BY <1>3 DEF In
  <2>2. ASSUME NEW x \in S, NEW y \in S, f[x] = f[y] PROVE x = y
    <3>1. x[1] = y[1]
      BY <2>1, <2>2
    <3>2. p(x[1])[x[2]] = p(x[1])[y[2]]
      BY <2>2, <3>1
    <3>3. x[2] = y[2]
      BY <1>2, <1>3, <3>1, <3>2
    <3> QED
      BY <1>3, <3>1, <3>3
  <2>3. f \in [S -> Hashed]
    BY <2>1
  <2>4. \A x, y \in DOMAIN f : f[x] = f[y] => x = y
    <3> HIDE DEF S
    <3> QED
      BY <2>2
  <2> HIDE DEF f
  <2> QED
    BY <2>3, <2>4 DEF Injection, IsInjective
<1>5. f \in Surjection(S, Hashed)
  <2>1. ASSUME NEW i \in Hashed PROVE \E bn \in S : f[bn] = i
    <3> DEFINE b == Bucket(i, tbl)
    <3>1. b \in all /\ i \in In(tbl, Hashed, b)
      BY <1>1 DEF In
    <3> HIDE DEF b
    <3>2. PICK n \in Places(p(b)) : p(b)[n] = i
      BY <1>2, <3>1 DEF Picked
    <3>3. <<b, n>> \in S
      BY <1>2, <3>1
    <3> QED
      BY <3>2, <3>3
  <2>2. f \in [S -> Hashed]
    BY <1>4 DEF Injection
  <2> HIDE DEF f, S
  <2> QED
    BY <2>1, <2>2 DEF Surjection
<1>6. Cardinality(S) = Cardinality(Hashed)
  <2> HIDE DEF f, S
  <2> QED
    BY <1>1, <1>4, <1>5, FS_Injection
<1> QED
  BY <1>6 DEF p, all

\* Calls that do not overlap never meet a corrupt table, and between them the back
\* pointers and the counts of every bucket and of the list are what HASH_FSCK wants.
THEOREM TableConsistent == Spec => []FsckUnlessRaced
<1>1. ASSUME Sound, ~Busy, socketfds # NULL PROVE Checked
  <2> DEFINE p(b) == BucketPath(hh, tbl, b)
             all == 0 .. tbl.num_buckets - 1
             L == Len(order)
             prev == [i \in Items |-> hh[i].prev]
  <2>1. PICK r : Right(hh, tbl, Hashed, r)
    BY <1>1 DEF Sound, Buckets, Ranked
  <2>2. ~Unlinked /\ Hashed = ToSet(order) /\ order \in Seq(Items)
    BY <1>1, Idle DEF Sound, Calls
  <2>3. Cardinality(Hashed) = L /\ tbl.num_items = Cardinality(Hashed)
    BY <1>1, <2>1, <2>2, OrderSize DEF Sound, Right, Counts
  <2>4. \A b \in all : /\ Linked(Walk(p(b)), [i \in Items |-> hh[i].hh_prev])
                       /\ tbl.buckets[b].count = Cardinality(Places(p(b)))
    <3> TAKE b \in all
    <3>1. /\ Cardinality(Places(p(b))) = Cardinality(In(tbl, Hashed, b))
          /\ Linked(Walk(p(b)), [i \in Items |-> hh[i].hh_prev])
      BY <2>1, BucketVisited
    <3> QED
      BY <2>1, <3>1 DEF Right, Counts
  <2>5. tbl.num_items =
          Cardinality({bn \in all \X (0 .. Cardinality(Items)) : bn[2] \in Places(p(bn[1]))})
    BY <2>1, <2>3, PlacesCounted DEF Size
  <2>6. ByOrder = order
    BY <1>1, OrderWalked DEF Sound
  <2>7. Linked(order, prev)
    <3>1. \A n \in 1 .. L : order[n] \in Items
      BY <2>2
    <3>2. \A n \in 1 .. L : hh[order[n]].prev = IF n = 1 THEN NULL ELSE order[n - 1]
      BY <1>1, <2>2 DEF Sound, List
    <3>3. DOMAIN order = 1 .. L
      BY <2>2
    <3> QED
      BY <3>1, <3>2, <3>3 DEF Linked
  <2> QED
    BY <2>3, <2>4, <2>5, <2>6, <2>7 DEF Checked
<1>2. HashInv => FsckUnlessRaced
  BY <1>1 DEF HashInv, Sound, FsckUnlessRaced, Fsck, Checked
<1> QED
  BY <1>2, HashInvHolds, PTL
-----------------------------------------------------------------------------
(***************************************************************************)
(* Counting the items of the buckets, for the length of the chains.        *)
(***************************************************************************)
LEMMA Times ==
    ASSUME NEW a \in Nat, NEW b \in Nat, NEW n \in Nat, a <= b
    PROVE  a * n <= b * n /\ n * a <= n * b /\ a * n = n * a /\ a * n \in Nat
<1>1. (b - a) \in Nat /\ b = a + (b - a)
  OBVIOUS
<1> DEFINE d == b - a
<1>2. d * n \in Nat /\ b * n = a * n + d * n
  BY <1>1
<1>3. a * n = n * a /\ b * n = n * b /\ a * n \in Nat
  OBVIOUS
<1> QED
  BY <1>2, <1>3

\* A quotient is below what the dividend is below the multiple of.
LEMMA Quotient ==
    ASSUME NEW x \in Nat, NEW n \in Nat \ {0}, NEW q \in Nat, x < q * n
    PROVE  x \div n \in Nat /\ x \div n < q
<1>1. x = n * (x \div n) + (x % n) /\ x % n \in 0 .. n - 1 /\ x \div n \in Int
  BY Division
<1> DEFINE d == x \div n
<1> HIDE DEF d
<1>2. d \in Nat
  BY <1>1 DEF d
<1>3. ~(q <= d)
  <2>1. SUFFICES ASSUME q <= d PROVE FALSE
    OBVIOUS
  <2>2. q * n <= n * d /\ n * d \in Nat
    BY <1>2, <2>1, Times
  <2>3. x >= n * d
    BY <1>1, <2>2 DEF d
  <2> QED
    BY <2>2, <2>3
<1> QED
  BY <1>2, <1>3 DEF d

\* The pairs of one of N numbers and one of the m of it.
Pairs(N, m) == {x \in (0 .. N - 1) \X Nat : x[2] < m[x[1]]}

\* The part b of S.
Part(S, c, b) == {i \in S : c[i] = b}

\* There is a number for each item of a part.
LEMMA Numbered ==
    ASSUME NEW N \in Nat, NEW S, IsFiniteSet(S), NEW c
    PROVE  \E e : \A b \in 0 .. N - 1 :
              e[b] \in Bijection(Part(S, c, b), 0 .. Cardinality(Part(S, c, b)) - 1)
<1> DEFINE P(b) == Part(S, c, b)
           To(b) == 0 .. Cardinality(Part(S, c, b)) - 1
           e == [b \in 0 .. N - 1 |-> CHOOSE f : f \in Bijection(P(b), To(b))]
<1>1. ASSUME NEW b PROVE \E f : f \in Bijection(P(b), To(b))
  <2>1. IsFiniteSet(P(b))
    <3>1. P(b) \in SUBSET S
      BY DEF Part
    <3> HIDE DEF P
    <3> QED
      BY <3>1, FS_Subset
  <2> DEFINE k == Cardinality(Part(S, c, b))
  <2>2. k \in Nat
    BY <2>1, FS_CardinalityType
  <2> HIDE DEF k
  <2>3. IsFiniteSet(0 .. k - 1) /\ Cardinality(0 .. k - 1) = k
    <3>1. k - 1 \in Int /\ 0 \in Int /\ (IF 0 > k - 1 THEN 0 ELSE (k - 1) - 0 + 1) = k
      BY <2>2
    <3> QED
      BY <3>1, FS_Interval
  <2>4. ExistsBijection(P(b), 0 .. k - 1)
    BY <2>1, <2>3, FS_SameCardinalityBij DEF k
  <2> QED
    BY <2>4 DEF ExistsBijection, k
<1>2. \A b \in 0 .. N - 1 : e[b] \in Bijection(P(b), To(b))
  <2> TAKE b \in 0 .. N - 1
  <2>1. e[b] = CHOOSE f : f \in Bijection(P(b), To(b))
    OBVIOUS
  <2> HIDE DEF e, P, To
  <2> QED
    BY <1>1, <2>1
<1> HIDE DEF e
<1> QED
  BY <1>2

\* As many numbers as there are, and one more for each.
LEMMA SlotsCounted ==
    ASSUME NEW N \in Nat, NEW m, \A b \in 0 .. N - 1 : m[b] \in Nat, IsFiniteSet(Pairs(N, m))
    PROVE  LET slots == {x \in (0 .. N - 1) \X Nat : x[2] <= m[x[1]]}
           IN  IsFiniteSet(slots) /\ Cardinality(slots) = Cardinality(Pairs(N, m)) + N
<1> DEFINE slots == {x \in (0 .. N - 1) \X Nat : x[2] <= m[x[1]]}
           tops == {<<b, m[b]>> : b \in 0 .. N - 1}
           f == [b \in 0 .. N - 1 |-> <<b, m[b]>>]
<1>1. slots = Pairs(N, m) \cup tops
  <2>1. \A x : x \in slots <=> x \in Pairs(N, m) \/ x \in tops
    <3>1. ASSUME NEW b \in 0 .. N - 1, NEW j \in Nat
          PROVE  j <= m[b] <=> j < m[b] \/ j = m[b]
      OBVIOUS
    <3>2. \A b, j : <<b, j>> \in tops <=> b \in 0 .. N - 1 /\ j = m[b]
      OBVIOUS
    <3> QED
      BY <3>1, <3>2 DEF Pairs
  <2> QED
    BY <2>1
<1>2. Pairs(N, m) \cap tops = {}
  BY DEF Pairs
<1>3. IsFiniteSet(0 .. N - 1) /\ Cardinality(0 .. N - 1) = N
  <2>1. N - 1 \in Int /\ 0 \in Int /\ (IF 0 > N - 1 THEN 0 ELSE (N - 1) - 0 + 1) = N
    OBVIOUS
  <2> QED
    BY <2>1, FS_Interval
<1>4. f \in Bijection(0 .. N - 1, tops)
  <2>1. f \in [0 .. N - 1 -> tops]
    OBVIOUS
  <2>2. \A a, b \in 0 .. N - 1 : f[a] = f[b] => a = b
    OBVIOUS
  <2>3. \A x \in tops : \E b \in 0 .. N - 1 : f[b] = x
    OBVIOUS
  <2> HIDE DEF f, tops
  <2> QED
    BY <2>1, <2>2, <2>3 DEF Bijection, Injection, Surjection, IsInjective
<1>5. IsFiniteSet(tops) /\ Cardinality(tops) = N
  <2> HIDE DEF f, tops
  <2> QED
    BY <1>3, <1>4, FS_Bijection DEF ExistsBijection
<1> HIDE DEF tops, slots
<1>6. /\ IsFiniteSet(slots)
      /\ Cardinality(slots) = Cardinality(Pairs(N, m)) + Cardinality(tops) - Cardinality({})
  <2>1. /\ IsFiniteSet(Pairs(N, m) \cup tops)
        /\ Cardinality(Pairs(N, m) \cup tops)
              = Cardinality(Pairs(N, m)) + Cardinality(tops) - Cardinality(Pairs(N, m) \cap tops)
    BY <1>5, FS_Union
  <2> QED
    BY <1>1, <1>2, <2>1
<1>7. Cardinality({}) = 0 /\ Cardinality(Pairs(N, m)) \in Nat
  BY FS_EmptySet, FS_CardinalityType
<1> QED
  BY <1>5, <1>6, <1>7 DEF slots

\* N parts of less than T items for each of one number and the m of the part, or of
\* T if that is 0, are less than 2 N T items, if all the m are N at most.
LEMMA ItemsBounded ==
    ASSUME NEW N \in Nat \ {0}, NEW T \in Nat \ {0}, NEW S, IsFiniteSet(S), NEW c, NEW m,
           \A i \in S : c[i] \in 0 .. N - 1, \A b \in 0 .. N - 1 : m[b] \in Nat,
           IsFiniteSet(Pairs(N, m)), Cardinality(Pairs(N, m)) <= N,
           \A b \in 0 .. N - 1 :
               \/ Cardinality(Part(S, c, b)) < (m[b] + 1) * T
               \/ Cardinality(Part(S, c, b)) = T /\ m[b] = 0
    PROVE  Cardinality(S) < (2 * N) * T
<1> DEFINE k(b) == Cardinality(Part(S, c, b))
           slots == {x \in (0 .. N - 1) \X Nat : x[2] <= m[x[1]]}
           cells == slots \X (0 .. T - 1)
<1>1. PICK e : \A b \in 0 .. N - 1 : e[b] \in Bijection(Part(S, c, b), 0 .. k(b) - 1)
  BY Numbered
<1> DEFINE at(i) == e[c[i]][i]
           g == [i \in S |-> <<<<c[i], at(i) \div T>>, at(i) % T>>]
<1>2. \A b \in 0 .. N - 1 : k(b) \in Nat
  <2> TAKE b \in 0 .. N - 1
  <2>1. Part(S, c, b) \in SUBSET S
    BY DEF Part
  <2> QED
    BY <2>1, FS_Subset, FS_CardinalityType
<1>3. ASSUME NEW i \in S
      PROVE  /\ c[i] \in 0 .. N - 1 /\ at(i) \in 0 .. k(c[i]) - 1
             /\ at(i) \in Nat /\ at(i) < (m[c[i]] + 1) * T
             /\ m[c[i]] # 0 => at(i) < (m[c[i]] + 1) * T - 1
  <2> DEFINE b == c[i]
             most == (m[b] + 1) * T
  <2>1. b \in 0 .. N - 1 /\ i \in Part(S, c, b) /\ m[b] \in Nat
    BY DEF Part
  <2>2. at(i) \in 0 .. k(b) - 1
    BY <1>1, <2>1 DEF Bijection, Injection
  <2>3. most \in Nat /\ (m[b] = 0 => most = T)
    BY <2>1
  <2>4. k(b) < most \/ (k(b) = T /\ m[b] = 0)
    BY <2>1
  <2>5. k(b) \in Nat
    BY <1>2, <2>1
  <2> HIDE DEF k, at, most
  <2>6. at(i) \in Nat /\ at(i) < most /\ (m[b] # 0 => at(i) < most - 1)
    BY <2>2, <2>3, <2>4, <2>5
  <2> QED
    BY <2>1, <2>2, <2>6 DEF most
<1>4. ASSUME NEW i \in S
      PROVE  /\ at(i) \div T \in Nat /\ at(i) \div T <= m[c[i]]
             /\ at(i) % T \in 0 .. T - 1 /\ at(i) = T * (at(i) \div T) + (at(i) % T)
  <2> HIDE DEF at
  <2>1. at(i) \in Nat /\ at(i) < (m[c[i]] + 1) * T /\ m[c[i]] \in Nat /\ m[c[i]] + 1 \in Nat
    BY <1>3
  <2>2. at(i) \div T \in Nat /\ at(i) \div T < m[c[i]] + 1
    BY <2>1, Quotient
  <2>3. at(i) % T \in 0 .. T - 1 /\ at(i) = T * (at(i) \div T) + (at(i) % T)
    BY <2>1, Division
  <2>4. at(i) \div T <= m[c[i]]
    <3> DEFINE q == at(i) \div T
    <3> HIDE DEF q
    <3> QED
      BY <2>1, <2>2 DEF q
  <2> QED
    BY <2>2, <2>3, <2>4
<1>5. g \in [S -> cells]
  BY <1>3, <1>4
<1>6. \A i, j \in S : g[i] = g[j] => i = j
  <2> SUFFICES ASSUME NEW i \in S, NEW j \in S, g[i] = g[j] PROVE i = j
    OBVIOUS
  <2>1. c[i] = c[j] /\ at(i) \div T = at(j) \div T /\ at(i) % T = at(j) % T
    OBVIOUS
  <2>2. at(i) = at(j)
    <3> HIDE DEF at
    <3> QED
      BY <1>4, <2>1
  <2>3. i \in Part(S, c, c[i]) /\ j \in Part(S, c, c[i]) /\ c[i] \in 0 .. N - 1
    BY <2>1 DEF Part
  <2> QED
    BY <1>1, <2>1, <2>2, <2>3 DEF Bijection, Injection, IsInjective
<1>7. IsFiniteSet(slots) /\ Cardinality(slots) = Cardinality(Pairs(N, m)) + N
  BY SlotsCounted
<1>8. IsFiniteSet(0 .. T - 1) /\ Cardinality(0 .. T - 1) = T
  <2>1. T - 1 \in Int /\ 0 \in Int /\ (IF 0 > T - 1 THEN 0 ELSE (T - 1) - 0 + 1) = T
    OBVIOUS
  <2> QED
    BY <2>1, FS_Interval
<1>9. IsFiniteSet(cells) /\ Cardinality(cells) = Cardinality(slots) * T
  <2> DEFINE nums == 0 .. T - 1
  <2>1. IsFiniteSet(slots) /\ IsFiniteSet(nums) /\ Cardinality(nums) = T
    BY <1>7, <1>8
  <2> HIDE DEF slots, nums
  <2>2. /\ IsFiniteSet(slots \X nums)
        /\ Cardinality(slots \X nums) = Cardinality(slots) * Cardinality(nums)
    BY <2>1, FS_Product
  <2> QED
    BY <2>1, <2>2 DEF nums
<1>10. g \in Injection(S, cells)
  <2> HIDE DEF g, cells
  <2> QED
    BY <1>5, <1>6 DEF Injection, IsInjective
<1>11. /\ Cardinality(S) <= Cardinality(slots) * T
       /\ Cardinality(S) = Cardinality(slots) * T => g \in Surjection(S, cells)
  <2> HIDE DEF g, cells
  <2> QED
    BY <1>9, <1>10, FS_Injection
<1>12. Cardinality(S) \in Nat /\ Cardinality(Pairs(N, m)) \in Nat /\ Cardinality(slots) \in Nat
  BY <1>7, FS_CardinalityType
<1>13. CASE Cardinality(Pairs(N, m)) = N
  <2>1. Pairs(N, m) # {}
    BY <1>13, FS_EmptySet
  <2>2. PICK x \in Pairs(N, m) : TRUE
    BY <2>1
  <2> DEFINE b == x[1]
             y == <<<<b, m[b]>>, T - 1>>
  <2>3. b \in 0 .. N - 1 /\ m[b] \in Nat /\ m[b] # 0
    BY <2>2 DEF Pairs
  <2>4. y \in cells
    BY <2>3
  <2>5. \A i \in S : g[i] # y
    <3> SUFFICES ASSUME NEW i \in S, g[i] = y PROVE FALSE
      OBVIOUS
    <3>1. c[i] = b /\ at(i) \div T = m[b] /\ at(i) % T = T - 1
      OBVIOUS
    <3> HIDE DEF at, b
    <3>2. at(i) = T * m[b] + (T - 1)
      BY <1>4, <3>1
    <3>3. at(i) < (m[b] + 1) * T - 1
      BY <1>3, <2>3, <3>1
    <3>4. (m[b] + 1) * T = T * m[b] + T
      BY <2>3
    <3>5. T * m[b] \in Nat
      BY <2>3
    <3> QED
      BY <3>2, <3>3, <3>4, <3>5
  <2>6. g \notin Surjection(S, cells)
    <3> HIDE DEF g, cells, y
    <3> QED
      BY <2>4, <2>5 DEF Surjection
  <2>7. Cardinality(slots) = 2 * N
    BY <1>7, <1>13
  <2> HIDE DEF g, cells, slots
  <2>8. Cardinality(S) <= (2 * N) * T /\ Cardinality(S) # (2 * N) * T /\ (2 * N) * T \in Nat
    BY <1>11, <2>6, <2>7
  <2> QED
    BY <1>12, <2>8
<1>14. CASE Cardinality(Pairs(N, m)) # N
  <2> HIDE DEF g, cells, slots
  <2>1. Cardinality(slots) <= 2 * N - 1 /\ 2 * N - 1 \in Nat
    BY <1>7, <1>12, <1>14
  <2>2. Cardinality(slots) * T <= (2 * N - 1) * T /\ Cardinality(slots) * T \in Nat
    BY <1>12, <2>1, Times
  <2>3. (2 * N - 1) * T = (2 * N) * T - T /\ (2 * N) * T \in Nat
    OBVIOUS
  <2> QED
    BY <1>11, <1>12, <2>2, <2>3
<1> QED
  BY <1>13, <1>14

\* A product is at most the other one if a factor is.
LEMMA Factor ==
    ASSUME NEW a \in Nat, NEW b \in Nat, NEW n \in Nat \ {0}, a * n <= b * n
    PROVE  a <= b
<1>1. SUFFICES ASSUME b + 1 <= a PROVE FALSE
  OBVIOUS
<1>2. (b + 1) * n <= a * n
  BY <1>1, Times
<1>3. (b + 1) * n = b * n + n /\ b * n \in Nat /\ a * n \in Nat
  OBVIOUS
<1> QED
  BY <1>2, <1>3

\* Of N parts that have at least m times I items each, where there are N times I items
\* at most, all the m are N at most.
LEMMA PairsBounded ==
    ASSUME NEW N \in Nat, NEW I \in Nat \ {0}, NEW S, IsFiniteSet(S), NEW c, NEW m,
           \A b \in 0 .. N - 1 : m[b] \in Nat /\ m[b] * I <= Cardinality(Part(S, c, b)),
           Cardinality(S) <= N * I
    PROVE  IsFiniteSet(Pairs(N, m)) /\ Cardinality(Pairs(N, m)) <= N
<1> DEFINE k(b) == Cardinality(Part(S, c, b))
           P == Pairs(N, m)
           cells == P \X (0 .. I - 1)
<1>1. PICK e : \A b \in 0 .. N - 1 : e[b] \in Bijection(Part(S, c, b), 0 .. k(b) - 1)
  BY Numbered
<1>2. \A b \in 0 .. N - 1 : k(b) \in Nat
  <2> TAKE b \in 0 .. N - 1
  <2>1. Part(S, c, b) \in SUBSET S
    BY DEF Part
  <2> QED
    BY <2>1, FS_Subset, FS_CardinalityType
<1> DEFINE num(x, n) == x[2] * I + n
           Held(i, x, n) == i \in Part(S, c, x[1]) /\ e[x[1]][i] = num(x, n)
<1>3. ASSUME NEW x \in P, NEW n \in 0 .. I - 1
      PROVE  \E i : Held(i, x, n)
  <2> DEFINE b == x[1]
             j == x[2]
  <2>1. b \in 0 .. N - 1 /\ j \in Nat /\ m[b] \in Nat /\ j < m[b] /\ m[b] * I <= k(b)
    BY DEF Pairs
  <2> HIDE DEF b, j
  <2>2. (j + 1) * I <= m[b] * I /\ (j + 1) * I = j * I + I /\ j * I \in Nat /\ m[b] * I \in Nat
    <3>1. j + 1 \in Nat /\ j + 1 <= m[b]
      BY <2>1
    <3> QED
      BY <2>1, <3>1, Times
  <2>3. j * I + n \in 0 .. k(b) - 1
    <3> HIDE DEF k
    <3>1. k(b) \in Nat
      BY <1>2, <2>1
    <3> QED
      BY <2>1, <2>2, <3>1
  <2>4. e[b] \in Bijection(Part(S, c, b), 0 .. k(b) - 1)
    BY <1>1, <2>1
  <2>5. \E i \in Part(S, c, b) : e[b][i] = j * I + n
    BY <2>3, <2>4 DEF Bijection, Surjection
  <2> QED
    BY <2>5 DEF b, j
<1>4. ASSUME NEW x \in P, NEW n \in 0 .. I - 1, NEW y \in P, NEW l \in 0 .. I - 1, NEW i,
             Held(i, x, n), Held(i, y, l)
      PROVE  x = y /\ n = l
  <2>1. /\ x[1] \in 0 .. N - 1 /\ x[2] \in Nat /\ x = <<x[1], x[2]>>
        /\ y[1] \in 0 .. N - 1 /\ y[2] \in Nat /\ y = <<y[1], y[2]>>
    BY DEF Pairs
  <2>2. x[1] = y[1]
    BY <1>4 DEF Part
  <2>3. x[2] * I + n = y[2] * I + l
    BY <1>4, <2>2
  <2>4. x[2] = y[2]
    <3>1. ASSUME NEW p \in Nat, NEW q \in Nat, NEW s \in 0 .. I - 1, NEW t \in 0 .. I - 1,
                 p * I + s = q * I + t, p < q
          PROVE  FALSE
      <4>1. (p + 1) * I <= q * I /\ (p + 1) * I = p * I + I /\ p * I \in Nat /\ q * I \in Nat
        <5>1. p + 1 \in Nat /\ p + 1 <= q
          BY <3>1
        <5> QED
          BY <5>1, Times
      <4> QED
        BY <3>1, <4>1
    <3>2. ~(x[2] < y[2]) /\ ~(y[2] < x[2])
      BY <2>1, <2>3, <3>1
    <3> QED
      BY <2>1, <3>2
  <2>5. n = l
    <3>1. x[2] * I \in Nat
      BY <2>1
    <3> QED
      BY <2>3, <2>4, <3>1
  <2> QED
    BY <2>1, <2>2, <2>4, <2>5
<1>5. \A x \in P, n \in 0 .. I - 1 : \A i : Held(i, x, n) => i \in S
  BY DEF Part
<1> DEFINE f == [z \in cells |-> CHOOSE i : Held(i, z[1], z[2])]
<1> HIDE DEF Held, P
<1>6. \A z \in cells : Held(f[z], z[1], z[2]) /\ f[z] \in S
  <2> TAKE z \in cells
  <2>1. z[1] \in P /\ z[2] \in 0 .. I - 1
    OBVIOUS
  <2> QED
    BY <1>3, <1>5, <2>1
<1>7. f \in Injection(cells, S)
  <2>1. ASSUME NEW z \in cells, NEW w \in cells, f[z] = f[w] PROVE z = w
    <3>1. z[1] = w[1] /\ z[2] = w[2]
      BY <1>4, <1>6, <2>1
    <3> QED
      BY <3>1
  <2>2. f \in [cells -> S]
    BY <1>6
  <2> HIDE DEF f, cells
  <2> QED
    BY <2>1, <2>2 DEF Injection, IsInjective
<1>8. IsFiniteSet(cells) /\ Cardinality(cells) <= Cardinality(S)
  <2> HIDE DEF f, cells
  <2> QED
    BY <1>7, FS_Injection
<1>9. IsFiniteSet(P)
  <2> DEFINE first == [x \in P |-> <<x, 0>>]
  <2>1. \A x \in P : first[x] \in cells
    OBVIOUS
  <2>2. \A x, y \in P : first[x] = first[y] => x = y
    OBVIOUS
  <2>3. first \in [P -> cells]
    BY <2>1
  <2> HIDE DEF first, cells
  <2>4. first \in Injection(P, cells)
    BY <2>2, <2>3 DEF Injection, IsInjective
  <2> QED
    BY <1>8, <2>4, FS_Injection
<1>10. IsFiniteSet(0 .. I - 1) /\ Cardinality(0 .. I - 1) = I
  <2>1. I - 1 \in Int /\ 0 \in Int /\ (IF 0 > I - 1 THEN 0 ELSE (I - 1) - 0 + 1) = I
    OBVIOUS
  <2> QED
    BY <2>1, FS_Interval
<1>11. Cardinality(cells) = Cardinality(P) * I
  BY <1>9, <1>10, FS_Product
<1>12. Cardinality(P) \in Nat /\ Cardinality(S) \in Nat
  BY <1>9, FS_CardinalityType
<1>13. Cardinality(P) * I <= N * I
  <2> HIDE DEF cells
  <2>1. Cardinality(P) * I \in Nat /\ N * I \in Nat
    BY <1>12
  <2> QED
    BY <1>8, <1>11, <1>12, <2>1
<1>14. Cardinality(P) <= N
  BY <1>12, <1>13, Factor
<1> QED
  BY <1>9, <1>14 DEF P
-----------------------------------------------------------------------------
(***************************************************************************)
(* The bound on the length of the chains.                                  *)
(***************************************************************************)
Mults(t) == [b \in 0 .. t.num_buckets - 1 |-> t.buckets[b].expand_mult]

\* An add leaves no chain at its bound, and a doubling leaves one there only if it has not
\* raised that bound; and the sum of the factors by which the bounds are raised is no more
\* than the number of buckets.
Bounded(t) ==
    /\ \A b \in 0 .. t.num_buckets - 1 :
          /\ t.buckets[b].expand_mult \in Nat
          /\ \/ t.buckets[b].count < (t.buckets[b].expand_mult + 1) * Threshold
             \/ /\ t.buckets[b].count = Threshold /\ t.buckets[b].expand_mult = 0
                /\ t.num_buckets > NumBuckets
    /\ IsFiniteSet(Pairs(t.num_buckets, Mults(t)))
    /\ Cardinality(Pairs(t.num_buckets, Mults(t))) <= t.num_buckets

BoundInv == raced \/ tbl.noexpand \/ Bounded(tbl)

\* Buckets that do not grow, or not up to their bound, stay bounded.
LEMMA StillBounded ==
    ASSUME NEW t, NEW u, Bounded(t), u.num_buckets = t.num_buckets,
           \A b \in 0 .. t.num_buckets - 1 :
               /\ t.buckets[b].count \in Int /\ u.buckets[b].count \in Int
               /\ u.buckets[b].expand_mult = t.buckets[b].expand_mult
               /\ \/ u.buckets[b].count <= t.buckets[b].count
                  \/ u.buckets[b].count < (u.buckets[b].expand_mult + 1) * Threshold
    PROVE  Bounded(u)
<1>1. Mults(u) = Mults(t)
  BY DEF Mults
<1>2. ASSUME NEW b \in 0 .. t.num_buckets - 1
      PROVE  /\ u.buckets[b].expand_mult \in Nat
             /\ \/ u.buckets[b].count < (u.buckets[b].expand_mult + 1) * Threshold
                \/ /\ u.buckets[b].count = Threshold /\ u.buckets[b].expand_mult = 0
                   /\ u.num_buckets > NumBuckets
  <2> DEFINE m == t.buckets[b].expand_mult
             x == t.buckets[b].count
             y == u.buckets[b].count
             most == (m + 1) * Threshold
  <2>1. /\ m \in Nat /\ u.buckets[b].expand_mult = m /\ x \in Int /\ y \in Int
        /\ x < most \/ (x = Threshold /\ m = 0 /\ t.num_buckets > NumBuckets)
        /\ y <= x \/ y < most
    BY DEF Bounded
  <2>2. most \in Nat /\ Threshold \in Nat /\ (m = 0 => most = Threshold)
    BY <2>1, UtHashAssumption
  <2> HIDE DEF m, x, y, most
  <2>3. y < most \/ (y = Threshold /\ m = 0 /\ t.num_buckets > NumBuckets)
    BY <2>1, <2>2
  <2> QED
    BY <2>1, <2>3 DEF most, y
<1> QED
  BY <1>1, <1>2 DEF Bounded

\* So is a new table.
LEMMA NewBounded == ASSUME NEW x PROVE Bounded(NewTable(x))
<1> DEFINE t == NewTable(x)
<1>1. /\ t.num_buckets = NumBuckets
      /\ \A b \in 0 .. NumBuckets - 1 : t.buckets[b].count = 0 /\ t.buckets[b].expand_mult = 0
  BY DEF NewTable, EmptyBucket
<1> HIDE DEF t
<1>2. Pairs(t.num_buckets, Mults(t)) = {}
  BY <1>1 DEF Pairs, Mults
<1> QED
  BY <1>1, <1>2, FS_EmptySet, UtHashAssumption DEF Bounded, t

\* What a division rounds down and up to.
LEMMA Rounded ==
    ASSUME NEW x \in Nat, NEW n \in Nat \ {0}
    PROVE  /\ x \div n \in Nat /\ (x \div n) * n <= x /\ x < (x \div n + 1) * n
           /\ x % n = 0 => (x \div n) * n = x
           /\ x % n # 0 => (x \div n) * n < x
<1> DEFINE q == x \div n
           r == x % n
<1>1. x = n * q + r /\ r \in 0 .. n - 1 /\ q \in Int
  BY Division
<1>2. q \in Nat
  <2>1. x < (x + 1) * n
    <3>1. (x + 1) * n = x * n + n /\ 1 * x <= n * x /\ x * n = n * x /\ x * n \in Nat
      BY Times
    <3> QED
      BY <3>1
  <2> QED
    BY <2>1, Quotient
<1> HIDE DEF q, r
<1>3. n * q = q * n /\ (q + 1) * n = q * n + n /\ q * n \in Nat
  BY <1>2
<1>4. q * n <= x /\ x < (q + 1) * n /\ (r = 0 => q * n = x) /\ (r # 0 => q * n < x)
  BY <1>1, <1>3
<1> QED
  BY <1>2, <1>4 DEF q, r

\* The longest chain there need be is not longer than a threshold that is enough.
LEMMA IdealEnough ==
    ASSUME NEW t, t.num_items \in Nat \ {0}, t.num_buckets \in Nat \ {0},
           NEW T \in Nat \ {0}, t.num_items <= (2 * t.num_buckets) * T
    PROVE  /\ Ideal(t) \in Nat \ {0} /\ Ideal(t) <= T
           /\ t.num_items <= (2 * t.num_buckets) * Ideal(t)
<1> DEFINE x == t.num_items
           n == 2 * t.num_buckets
           q == x \div n
           I == Ideal(t)
<1>1. x \in Nat \ {0} /\ n \in Nat \ {0} /\ x <= n * T
  OBVIOUS
<1>2. I = q + (IF x % n = 0 THEN 0 ELSE 1)
  BY DEF Ideal
<1> HIDE DEF x, n, I
<1>3. /\ q \in Nat /\ q * n <= x /\ x < (q + 1) * n
      /\ x % n = 0 => q * n = x
      /\ x % n # 0 => q * n < x
  BY <1>1, Rounded
<1> DEFINE z == x % n
<1> HIDE DEF q, z
<1>4. CASE z = 0
  <2>1. I = q /\ q * n = x
    BY <1>2, <1>3, <1>4 DEF z, q
  <2>2. q # 0 /\ n * q = q * n /\ n * T = T * n
    BY <1>1, <1>3, <2>1
  <2>3. q <= T
    BY <1>1, <1>3, <2>1, <2>2, Factor
  <2> QED
    BY <1>1, <1>3, <2>1, <2>2, <2>3 DEF x, n, I
<1>5. CASE z # 0
  <2>1. I = q + 1 /\ q * n < x
    BY <1>2, <1>3, <1>5 DEF z, q
  <2>2. n * (q + 1) = (q + 1) * n /\ q * n \in Nat /\ n * T = T * n /\ T * n \in Nat
    BY <1>1, <1>3
  <2>3. q < T
    <3>1. SUFFICES ASSUME T <= q PROVE FALSE
      BY <1>3
    <3>2. T * n <= q * n
      BY <1>1, <1>3, <3>1, Times
    <3> QED
      BY <1>1, <2>1, <2>2, <3>2
  <2>4. x <= n * I /\ I \in Nat \ {0} /\ I <= T
    BY <1>1, <1>3, <2>1, <2>2, <2>3
  <2> QED
    BY <2>4 DEF x, n, I
<1> QED
  BY <1>4, <1>5

\* The parts of the items are those that the buckets hold.
BucketOf(t) == [i \in Items |-> Bucket(i, t)]

LEMMA PartsHeld ==
    ASSUME NEW t, TableShape(t), NEW S, S \subseteq Items
    PROVE  /\ IsFiniteSet(S) /\ Cardinality(S) \in Nat
           /\ \A i \in S : BucketOf(t)[i] \in 0 .. t.num_buckets - 1
           /\ \A b : Part(S, BucketOf(t), b) = In(t, S, b)
           /\ \A b : Cardinality(In(t, S, b)) \in Nat
<1>1. IsFiniteSet(S) /\ Cardinality(S) \in Nat
  BY UtHashAssumption, FS_Subset, FS_CardinalityType
<1>2. \A i \in S : BucketOf(t)[i] = Bucket(i, t)
  BY DEF BucketOf
<1>3. \A b : Part(S, BucketOf(t), b) = In(t, S, b)
  BY <1>2 DEF Part, In
<1>4. \A b : Cardinality(In(t, S, b)) \in Nat
  <2> TAKE b
  <2>1. In(t, S, b) \in SUBSET S
    BY DEF In
  <2> QED
    BY <1>1, <2>1, FS_Subset, FS_CardinalityType
<1> QED
  BY <1>1, <1>2, <1>3, <1>4, BucketRange

\* A table that is bounded holds less than twice the threshold for each bucket ...
LEMMA BoundedHolds ==
    ASSUME NEW t, TableShape(t), NEW S, S \subseteq Items, Counts(t, S), Bounded(t)
    PROVE  t.num_items < (2 * t.num_buckets) * Threshold
<1> DEFINE c == BucketOf(t)
           m == Mults(t)
           N == t.num_buckets
<1>1. N \in Nat \ {0} /\ Threshold \in Nat \ {0} /\ t.num_items = Cardinality(S)
  BY UtHashAssumption DEF TableShape, Counts
<1>2. IsFiniteSet(S) /\ \A i \in S : c[i] \in 0 .. N - 1
  BY PartsHeld
<1>3. IsFiniteSet(Pairs(N, m)) /\ Cardinality(Pairs(N, m)) <= N
  BY DEF Bounded
<1>4. \A b \in 0 .. N - 1 : /\ m[b] = t.buckets[b].expand_mult
                            /\ Cardinality(Part(S, c, b)) = t.buckets[b].count
  BY PartsHeld DEF Mults, Counts
<1>5. \A b \in 0 .. N - 1 :
          /\ m[b] \in Nat
          /\ \/ Cardinality(Part(S, c, b)) < (m[b] + 1) * Threshold
             \/ Cardinality(Part(S, c, b)) = Threshold /\ m[b] = 0
  BY <1>4 DEF Bounded
<1> HIDE DEF c, m, N
<1>6. Cardinality(S) < (2 * N) * Threshold
  BY <1>1, <1>2, <1>3, <1>5, ItemsBounded
<1> QED
  BY <1>1, <1>6 DEF N

\* ... so a doubling, of one with an item more, leaves one that is bounded.
LEMMA DoubledBounded ==
    ASSUME NEW h, NEW t, NEW S, TableShape(t), S \subseteq Items,
           TableShape(NewBuckets(h, t)), Counts(NewBuckets(h, t), S),
           t.num_items \in Nat \ {0}, t.num_items <= (2 * t.num_buckets) * Threshold
    PROVE  Bounded(NewBuckets(h, t))
<1> DEFINE u == NewBuckets(h, t)
           c == BucketOf(u)
           m == Mults(u)
           N == u.num_buckets
           I == Ideal(t)
           k(b) == u.buckets[b].count
<1>1. t.num_buckets \in Nat \ {0} /\ Threshold \in Nat \ {0} /\ t.num_buckets >= NumBuckets
      /\ NumBuckets \in Nat \ {0}
  BY UtHashAssumption DEF TableShape
<1>2. /\ I \in Nat \ {0} /\ I <= Threshold
      /\ t.num_items <= (2 * t.num_buckets) * I
  BY <1>1, IdealEnough
<1>3. /\ N = 2 * t.num_buckets /\ u.num_items = t.num_items
      /\ \A b \in 0 .. N - 1 :
            u.buckets[b].expand_mult = IF k(b) - I > 0 THEN k(b) \div I ELSE 0
  BY DEF NewBuckets, TableShape, Excess
<1> HIDE DEF u, c, m, N, I
<1>4. N \in Nat \ {0} /\ N > NumBuckets
  BY <1>1, <1>3
<1>5. IsFiniteSet(S) /\ Cardinality(S) = u.num_items
  BY PartsHeld DEF Counts, u
<1>6. \A b \in 0 .. N - 1 : /\ k(b) = Cardinality(Part(S, c, b)) /\ k(b) \in Nat
                            /\ m[b] = u.buckets[b].expand_mult
  BY PartsHeld DEF Counts, u, N, c, m, Mults
<1>7. ASSUME NEW b \in 0 .. N - 1
      PROVE  /\ m[b] \in Nat /\ m[b] * I <= k(b)
             /\ k(b) < (m[b] + 1) * Threshold \/ (k(b) = Threshold /\ m[b] = 0)
  <2> DEFINE x == k(b)
             y == m[b]
  <2>1. x \in Nat /\ y = IF x - I > 0 THEN x \div I ELSE 0
    BY <1>3, <1>6
  <2> HIDE DEF x, y
  <2>2. CASE x - I > 0
    <3>1. y \in Nat /\ y * I <= x /\ x < (y + 1) * I
      BY <1>2, <2>1, <2>2, Rounded
    <3>2. (y + 1) * I <= (y + 1) * Threshold /\ (y + 1) * I \in Nat /\ (y + 1) * Threshold \in Nat
      <4>1. y + 1 \in Nat
        BY <3>1
      <4> QED
        BY <1>1, <1>2, <4>1, Times
    <3> QED
      BY <2>1, <3>1, <3>2 DEF x, y
  <2>3. CASE ~(x - I > 0)
    <3>1. y = 0 /\ x <= Threshold
      BY <1>1, <1>2, <2>1, <2>3
    <3>2. (y + 1) * Threshold = Threshold /\ y * I = 0
      BY <1>1, <1>2, <3>1
    <3> QED
      BY <1>1, <2>1, <3>1, <3>2 DEF x, y
  <2> QED
    BY <2>2, <2>3
<1>8. IsFiniteSet(Pairs(N, m)) /\ Cardinality(Pairs(N, m)) <= N
  <2>1. \A b \in 0 .. N - 1 : m[b] \in Nat /\ m[b] * I <= Cardinality(Part(S, c, b))
    BY <1>6, <1>7
  <2>2. Cardinality(S) <= N * I
    BY <1>2, <1>3, <1>5
  <2> HIDE DEF k
  <2> QED
    BY <1>2, <1>4, <1>5, <2>1, <2>2, PairsBounded
<1>9. \A b \in 0 .. N - 1 :
          /\ u.buckets[b].expand_mult \in Nat
          /\ \/ u.buckets[b].count < (u.buckets[b].expand_mult + 1) * Threshold
             \/ /\ u.buckets[b].count = Threshold /\ u.buckets[b].expand_mult = 0
                /\ u.num_buckets > NumBuckets
  BY <1>4, <1>6, <1>7 DEF N
<1> QED
  BY <1>8, <1>9 DEF Bounded, u, N, m

\* The counts of a table that is right.
LEMMA CountsNat ==
    ASSUME Sound
    PROVE  /\ TableShape(tbl) /\ Counts(tbl, Hashed) /\ tbl.num_items \in Nat
           /\ \A b \in 0 .. tbl.num_buckets - 1 : tbl.buckets[b].count \in Nat
<1>1. TableShape(tbl) /\ Counts(tbl, Hashed)
  BY DEF Sound, Buckets, Ranked, Right
<1>2. Cardinality(Hashed) \in Nat /\ \A b : Cardinality(In(tbl, Hashed, b)) \in Nat
  BY <1>1, HashedItems, PartsHeld
<1> QED
  BY <1>1, <1>2 DEF Counts

\* A step that only moves the tail leaves the buckets bounded.
LEMMA TailBounded ==
    ASSUME Sound, BoundInv, ~raced, NEW x, tbl' = tbl \/ tbl' = [tbl EXCEPT !.tail = x]
    PROVE  BoundInv'
<1>1. TableShape(tbl) /\ \A b \in 0 .. tbl.num_buckets - 1 : tbl.buckets[b].count \in Nat
  BY CountsNat
<1>2. /\ tbl'.num_buckets = tbl.num_buckets /\ tbl'.buckets = tbl.buckets
      /\ tbl'.noexpand = tbl.noexpand
  BY <1>1 DEF TableShape
<1>3. ASSUME Bounded(tbl) PROVE Bounded(tbl')
  BY <1>1, <1>2, <1>3, StillBounded
<1> QED
  BY <1>2, <1>3 DEF BoundInv

\* An add to a bucket doubles the buckets before one of them is over its bound.
LEMMA AddBucketBounded ==
    ASSUME Sound, Sound', BoundInv, ~raced, NEW c \in Adders, AddBucket(c)
    PROVE  BoundInv'
<1> DEFINE i == adding[c]
           h == Chained(hh, tbl, i)
           t == Counted(tbl, i)
           b == Bucket(i, tbl)
<1>1. /\ TableShape(tbl) /\ Counts(tbl, Hashed) /\ tbl.num_items \in Nat
      /\ \A d \in 0 .. tbl.num_buckets - 1 : tbl.buckets[d].count \in Nat
  BY CountsNat
<1>2. i \in Items
  <2>1. linked[c] /\ adding \in [Adders -> Items \cup {NULL}]
    BY DEF AddBucket, Sound, Calls
  <2> QED
    BY <2>1 DEF Sound, Calls
<1>3. b \in 0 .. tbl.num_buckets - 1
  BY <1>1, <1>2, BucketRange
<1>4. \/ ~(Full(t, Bucket(i, t)) /\ ~tbl.noexpand) /\ tbl' = t
      \/ ~tbl.noexpand /\ tbl' = NewBuckets(h, t)
  BY DEF AddBucket
<1>5. /\ TableShape(t) /\ t.num_buckets = tbl.num_buckets /\ t.noexpand = tbl.noexpand
      /\ t.num_items = tbl.num_items + 1
      /\ \A d \in 0 .. tbl.num_buckets - 1 :
            /\ t.buckets[d].count = tbl.buckets[d].count + (IF d = b THEN 1 ELSE 0)
            /\ t.buckets[d].expand_mult = tbl.buckets[d].expand_mult
  <2> HIDE DEF i
  <2>1. /\ DOMAIN t = DOMAIN tbl /\ t.num_buckets = tbl.num_buckets /\ t.noexpand = tbl.noexpand
        /\ t.num_items = tbl.num_items + 1 /\ DOMAIN t.buckets = DOMAIN tbl.buckets
    BY <1>1 DEF Counted, TableShape
  <2>2. ASSUME NEW d \in 0 .. tbl.num_buckets - 1
        PROVE  /\ DOMAIN t.buckets[d] = DOMAIN tbl.buckets[d]
               /\ t.buckets[d].count = tbl.buckets[d].count + (IF d = b THEN 1 ELSE 0)
               /\ t.buckets[d].expand_mult = tbl.buckets[d].expand_mult
    <3> DEFINE v == [tbl.buckets[b] EXCEPT !.hh_head = i, !.count = @ + 1]
    <3>1. t.buckets = [tbl.buckets EXCEPT ![b] = v]
      BY <1>1, <1>3 DEF Counted, TableShape
    <3>2. DOMAIN v = DOMAIN tbl.buckets[b] /\ v.count = tbl.buckets[b].count + 1
          /\ v.expand_mult = tbl.buckets[b].expand_mult
      BY <1>1, <1>3 DEF TableShape
    <3>3. d \in DOMAIN tbl.buckets
      BY <1>1 DEF TableShape
    <3>4. tbl.buckets[d].count \in Nat
      BY <1>1
    <3> HIDE DEF v, t, b
    <3>5. t.buckets[d] = IF d = b THEN v ELSE tbl.buckets[d]
      BY <3>1, <3>3
    <3> QED
      BY <3>2, <3>4, <3>5
  <2> HIDE DEF t
  <2> QED
    BY <1>1, <2>1, <2>2 DEF TableShape
<1>6. Bucket(i, t) = b
  BY <1>5 DEF Bucket
<1> HIDE DEF i, h, t, b
<1>7. ASSUME ~tbl.noexpand PROVE Bounded(tbl)
  BY <1>7 DEF BoundInv
<1>8. CASE ~(Full(t, b) /\ ~tbl.noexpand) /\ tbl' = t
  <2>1. ASSUME ~tbl.noexpand PROVE Bounded(t)
    <3>1. Bounded(tbl) /\ ~Full(t, b)
      BY <1>7, <1>8, <2>1
    <3>2. (t.buckets[b].expand_mult + 1) * Threshold \in Nat
      <4>1. t.buckets[b].expand_mult \in Nat
        BY <1>3, <1>5, <3>1 DEF Bounded
      <4> QED
        BY <4>1, UtHashAssumption
    <3>3. t.buckets[b].count < (t.buckets[b].expand_mult + 1) * Threshold
      <4>1. t.buckets[b].count \in Nat
        BY <1>1, <1>3, <1>5
      <4> QED
        BY <3>1, <3>2, <4>1 DEF Full
    <3>4. \A d \in 0 .. tbl.num_buckets - 1 :
             /\ tbl.buckets[d].count \in Int /\ t.buckets[d].count \in Int
             /\ t.buckets[d].expand_mult = tbl.buckets[d].expand_mult
             /\ \/ t.buckets[d].count <= tbl.buckets[d].count
                \/ t.buckets[d].count < (t.buckets[d].expand_mult + 1) * Threshold
      BY <1>1, <1>5, <3>3
    <3> QED
      BY <1>5, <3>1, <3>4, StillBounded
  <2> QED
    BY <1>5, <1>8, <2>1 DEF BoundInv
<1>9. CASE ~tbl.noexpand /\ tbl' = NewBuckets(h, t)
  <2>1. tbl.num_items < (2 * tbl.num_buckets) * Threshold
    BY <1>1, <1>7, <1>9, HashedItems, BoundedHolds
  <2>2. t.num_items \in Nat \ {0} /\ t.num_items <= (2 * t.num_buckets) * Threshold
    <3>1. (2 * tbl.num_buckets) * Threshold \in Nat
      <4>1. 2 * tbl.num_buckets \in Nat /\ Threshold \in Nat
        BY <1>1, UtHashAssumption DEF TableShape
      <4> QED
        BY <4>1, Times
    <3>2. t.num_items \in Nat \ {0} /\ t.num_items <= tbl.num_items + 1
      BY <1>1, <1>5
    <3>3. tbl.num_items + 1 <= (2 * tbl.num_buckets) * Threshold
      BY <1>1, <2>1, <3>1
    <3> QED
      BY <1>1, <1>5, <3>1, <3>2, <3>3
  <2>3. PICK S : S = Hashed'
    OBVIOUS
  <2>4. S \subseteq Items /\ TableShape(tbl') /\ Counts(tbl', S)
    <3>1. TableShape(tbl)' /\ Counts(tbl, Hashed)'
      BY DEF Sound, Buckets, Ranked, Right
    <3>2. Counts(tbl, Hashed)' <=> Counts(tbl', S)
      BY <2>3 DEF Counts, In, Bucket
    <3>3. S \subseteq Items
      BY <2>3 DEF Hashed
    <3> QED
      BY <3>1, <3>2, <3>3
  <2>5. Bounded(NewBuckets(h, t))
    BY <1>5, <1>9, <2>2, <2>4, DoubledBounded
  <2> QED
    BY <1>9, <2>5 DEF BoundInv
<1> QED
  BY <1>4, <1>6, <1>8, <1>9

\* A delete only shortens a chain.
LEMMA DeleteBucketBounded ==
    ASSUME Sound, BoundInv, ~raced, DeleteBucket
    PROVE  BoundInv'
<1> DEFINE b == Bucket(deleting, tbl)
<1>1. /\ TableShape(tbl)
      /\ \A d \in 0 .. tbl.num_buckets - 1 : tbl.buckets[d].count \in Nat
  BY CountsNat
<1>2. tbl' = Uncounted(hh, tbl, deleting) /\ deleting \in Items
  BY DEF DeleteBucket, Sound, Calls
<1>3. b \in 0 .. tbl.num_buckets - 1
  BY <1>1, <1>2, BucketRange
<1>4. /\ tbl'.num_buckets = tbl.num_buckets /\ tbl'.noexpand = tbl.noexpand
      /\ \A d \in 0 .. tbl.num_buckets - 1 :
            /\ tbl'.buckets[d].count = tbl.buckets[d].count - (IF d = b THEN 1 ELSE 0)
            /\ tbl'.buckets[d].expand_mult = tbl.buckets[d].expand_mult
  <2>1. tbl'.num_buckets = tbl.num_buckets /\ tbl'.noexpand = tbl.noexpand
    BY <1>1, <1>2 DEF Uncounted, TableShape
  <2>2. ASSUME NEW d \in 0 .. tbl.num_buckets - 1
        PROVE  /\ tbl'.buckets[d].count = tbl.buckets[d].count - (IF d = b THEN 1 ELSE 0)
               /\ tbl'.buckets[d].expand_mult = tbl.buckets[d].expand_mult
    <3> DEFINE x == IF tbl.buckets[b].hh_head = deleting THEN hh[deleting].hh_next
                    ELSE tbl.buckets[b].hh_head
               v == [tbl.buckets[b] EXCEPT !.count = @ - 1, !.hh_head = x]
    <3>1. tbl'.buckets = [tbl.buckets EXCEPT ![b] = v]
      BY <1>1, <1>2, <1>3 DEF Uncounted, TableShape
    <3>2. v.count = tbl.buckets[b].count - 1 /\ v.expand_mult = tbl.buckets[b].expand_mult
      BY <1>1, <1>3 DEF TableShape
    <3>3. tbl'.buckets[d] = IF d = b THEN v ELSE tbl.buckets[d]
      BY <1>1, <3>1 DEF TableShape
    <3>4. tbl.buckets[d].count \in Nat
      BY <1>1
    <3> HIDE DEF v, b
    <3> QED
      BY <3>2, <3>3, <3>4
  <2> QED
    BY <2>1, <2>2
<1> HIDE DEF b
<1>5. ASSUME Bounded(tbl) PROVE Bounded(tbl')
  <2>1. \A d \in 0 .. tbl.num_buckets - 1 :
           /\ tbl.buckets[d].count \in Int /\ tbl'.buckets[d].count \in Int
           /\ tbl'.buckets[d].expand_mult = tbl.buckets[d].expand_mult
           /\ tbl'.buckets[d].count <= tbl.buckets[d].count
    BY <1>1, <1>4
  <2> QED
    BY <1>4, <1>5, <2>1, StillBounded
<1> QED
  BY <1>4, <1>5 DEF BoundInv

LEMMA BoundInvNext == HashInv /\ HashInv' /\ BoundInv /\ [Next]_vars => BoundInv'
<1> SUFFICES ASSUME HashInv, HashInv', BoundInv, [Next]_vars, ~raced' PROVE BoundInv'
  BY DEF BoundInv
<1>1. ~raced
  BY DEF Next, vars, AddTail, AddBucket, AddLink, DeleteLast, DeleteUnlink, DeleteBucket,
         Corrupt, Down
<1>2. Sound /\ Sound'
  BY <1>1 DEF HashInv
<1>3. CASE tbl' = tbl
  BY <1>1, <1>2, <1>3, TailBounded
<1>4. ASSUME NEW x, tbl' = NewTable(x) PROVE BoundInv'
  BY <1>4, NewBounded DEF BoundInv
<1>5. ASSUME NEW c \in Adders, AddTail(c) PROVE BoundInv'
  BY <1>1, <1>2, <1>5, TailBounded DEF AddTail
<1>6. ASSUME NEW c \in Adders, AddBucket(c) PROVE BoundInv'
  BY <1>1, <1>2, <1>6, AddBucketBounded
<1>7. ASSUME NEW c \in Adders, NEW i \in Items, AddLink(c, i) PROVE BoundInv'
  BY <1>3, <1>4, <1>7 DEF AddLink
<1>8. ASSUME NEW i \in Items, DeleteLast(i) PROVE BoundInv'
  BY <1>4, <1>8 DEF DeleteLast
<1>9. ASSUME NEW i \in Items, DeleteUnlink(i) PROVE BoundInv'
  BY <1>1, <1>2, <1>9, TailBounded DEF DeleteUnlink, MoveTail
<1>10. CASE DeleteBucket
  BY <1>1, <1>2, <1>10, DeleteBucketBounded
<1>11. CASE Corrupt \/ Down \/ UNCHANGED vars
  BY <1>3, <1>11 DEF Corrupt, Down, vars
<1> QED
  BY <1>5, <1>6, <1>7, <1>8, <1>9, <1>10, <1>11 DEF Next

\* While expansion is not given up, calls that do not overlap leave every chain shorter
\* than the bound at which the next add to it doubles the buckets; only the doubling
\* itself may leave a chain of just that many items.
THEOREM ChainsStayBounded == Spec => []ChainsBounded
<1>1. Init => BoundInv
  BY NewBounded DEF Init, BoundInv
<1>2. BoundInv => ChainsBounded
  <2>1. ASSUME Bounded(tbl), NEW b \in 0 .. tbl.num_buckets - 1
        PROVE  LET count == tbl.buckets[b].count
                   most  == (tbl.buckets[b].expand_mult + 1) * Threshold
               IN  count < most \/ (count = most /\ tbl.num_buckets > NumBuckets)
    <3>1. (0 + 1) * Threshold = Threshold
      BY UtHashAssumption
    <3> QED
      BY <2>1, <3>1 DEF Bounded
  <2> QED
    BY <2>1 DEF BoundInv, ChainsBounded
<1> QED
  BY <1>1, <1>2, BoundInvNext, HashInvHolds, PTL DEF Spec
=============================================================================
