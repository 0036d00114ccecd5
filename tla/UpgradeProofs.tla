---------------------------- MODULE UpgradeProofs ----------------------------
(***************************************************************************)
(* The version that a run installs and the one it upgrades to, for every   *)
(* catalogue and all options; and the upgrade to it (what the selection    *)
(* leaves in config.Upgrade.ReleaseName), for ever so many polls, restarts *)
(* and rounds of the operator.                                             *)
(*                                                                         *)
(* Selection: the version installed is what the options describe, and an   *)
(* upgrade follows an edge of it.  Managed upgrade: the run succeeds only  *)
(* by an upgrade that was completed, nothing of its own commences before   *)
(* the test load is in place, and it never watches an operator that it has *)
(* scaled down.                                                            *)
(***************************************************************************)
EXTENDS ManagedUpgrade, VersionSelection, FiniteSetTheorems, WellFoundedInduction, TLAPS

-----------------------------------------------------------------------------
(* Numbers and orders.                                                     *)

\* A set of naturals has a least element: the induction of the proofs below.
LEMMA LeastOf ==
  ASSUME NEW T \in SUBSET Nat, T # {}
  PROVE  Min(T) \in T /\ \A y \in T : Min(T) <= y
<1>1. PICK x \in T : \A y \in T : ~ (<<y, x>> \in OpToRel(<, Nat))
  BY NatLessThanWellFounded, WFMin, Zenon
<1>2. \A y \in T : ~ (y < x)
  BY <1>1 DEF OpToRel
<1>3. \A y \in T : x <= y
  BY <1>2
<1>4. \E z \in T : \A y \in T : z <= y
  BY <1>3
<1>5. Min(T) \in T /\ \A y \in T : Min(T) <= y
  BY <1>4, Zenon DEF Min
<1>6. QED BY <1>5

\* The elements of S that R puts before x.
Before(S, R, x) == {y \in S : <<y, x>> \in R}

\* R is a strict total order on S.
Orders(R, S) ==
  /\ \A x \in S : <<x, x>> \notin R
  /\ \A x, y, z \in S : <<x, y>> \in R /\ <<y, z>> \in R => <<x, z>> \in R
  /\ \A x, y \in S : x # y => <<x, y>> \in R \/ <<y, x>> \in R

\* How many come before an element of a finite set grows along its order, and is
\* each number below the size of the set for just one element.
LEMMA Ranked ==
  ASSUME NEW S, IsFiniteSet(S), NEW R, Orders(R, S)
  PROVE  /\ \A x \in S : Cardinality(Before(S, R, x)) \in 0 .. Cardinality(S) - 1
         /\ \A x, y \in S :
              <<x, y>> \in R <=> Cardinality(Before(S, R, x)) < Cardinality(Before(S, R, y))
         /\ \A k \in 0 .. Cardinality(S) - 1 : \E x \in S : Cardinality(Before(S, R, x)) = k
<1> DEFINE c(x) == Cardinality(Before(S, R, x))
           n == Cardinality(S)
<1>1. \A x \in S : /\ IsFiniteSet(Before(S, R, x)) /\ c(x) \in Nat /\ c(x) <= n
                   /\ c(x) = n => Before(S, R, x) = S
  <2> SUFFICES ASSUME NEW x \in S
               PROVE  /\ IsFiniteSet(Before(S, R, x)) /\ c(x) \in Nat /\ c(x) <= n
                      /\ c(x) = n => Before(S, R, x) = S
    OBVIOUS
  <2>1. Before(S, R, x) \in SUBSET S
    BY DEF Before
  <2>2. /\ IsFiniteSet(Before(S, R, x)) /\ c(x) <= n
        /\ n = c(x) => S = Before(S, R, x)
    BY <2>1, FS_Subset
  <2>3. c(x) \in Nat
    BY <2>2, FS_CardinalityType
  <2>4. QED BY <2>2, <2>3
<1>2. n \in Nat
  BY FS_CardinalityType
<1>3. \A x \in S : c(x) \in 0 .. n - 1
  <2> SUFFICES ASSUME NEW x \in S PROVE c(x) \in 0 .. n - 1
    OBVIOUS
  <2>1. x \notin Before(S, R, x)
    BY DEF Before, Orders
  <2>2. c(x) # n
    BY <1>1, <2>1
  <2> HIDE DEF c, n
  <2>3. QED BY <1>1, <1>2, <2>2
<1>4. ASSUME NEW x \in S, NEW y \in S, <<x, y>> \in R PROVE c(x) < c(y)
  <2>1. Before(S, R, x) \in SUBSET Before(S, R, y)
    BY <1>4 DEF Before, Orders
  <2>2. x \in Before(S, R, y) /\ x \notin Before(S, R, x)
    BY <1>4 DEF Before, Orders
  <2>3. IsFiniteSet(Before(S, R, y))
    BY <1>1
  <2>4. c(x) <= c(y) /\ (c(y) = c(x) => Before(S, R, y) = Before(S, R, x))
    BY <2>1, <2>3, FS_Subset
  <2>5. c(x) # c(y)
    BY <2>2, <2>4
  <2> HIDE DEF c
  <2>6. QED BY <1>1, <2>4, <2>5
<1>5. \A x, y \in S : c(x) = c(y) => x = y
  <2> SUFFICES ASSUME NEW x \in S, NEW y \in S, c(x) = c(y), x # y PROVE FALSE
    OBVIOUS
  <2>1. <<x, y>> \in R \/ <<y, x>> \in R
    BY DEF Orders
  <2> HIDE DEF c
  <2>2. c(x) < c(y) \/ c(y) < c(x)
    BY <1>4, <2>1
  <2>3. QED BY <1>1, <2>2
<1>6. \A x, y \in S : <<x, y>> \in R <=> c(x) < c(y)
  <2> SUFFICES ASSUME NEW x \in S, NEW y \in S, c(x) < c(y) PROVE <<x, y>> \in R
    BY <1>4
  <2>1. CASE x = y
    <3> HIDE DEF c
    <3>1. QED BY <1>1, <2>1
  <2>2. CASE <<y, x>> \in R
    <3>1. c(y) < c(x)
      BY <1>4, <2>2
    <3> HIDE DEF c
    <3>2. QED BY <1>1, <3>1
  <2>3. QED BY <2>1, <2>2 DEF Orders
<1>7. \A k \in 0 .. n - 1 : \E x \in S : c(x) = k
  <2> DEFINE f == [x \in S |-> c(x)]
             T == 0 .. n - 1
  <2>1. f \in Injection(S, T)
    BY <1>3, <1>5 DEF Injection, IsInjective
  <2>2. IsFiniteSet(T) /\ Cardinality(T) = n
    <3>1. 0 \in Int /\ n - 1 \in Int
      BY <1>2
    <3> HIDE DEF n
    <3>2. IsFiniteSet(0 .. n - 1) /\ Cardinality(0 .. n - 1) = IF 0 > n - 1 THEN 0 ELSE n - 1 - 0 + 1
      BY <3>1, FS_Interval
    <3>3. QED BY <1>2, <3>2
  <2> HIDE DEF f, T
  <2>3. f \in Surjection(S, T)
    BY <2>1, <2>2, FS_Injection
  <2>4. \A k \in T : \E x \in S : f[x] = k
    BY <2>3 DEF Surjection
  <2>5. \A x \in S : f[x] = c(x)
    BY DEF f
  <2>6. QED BY <2>4, <2>5 DEF T
<1>8. QED BY <1>3, <1>6, <1>7

-----------------------------------------------------------------------------
(* Versions and the lists of them.                                         *)

\* The order of versions is a strict total one.
LEMMA LessOrders ==
  ASSUME NEW a \in Version, NEW b \in Version, NEW c \in Version
  PROVE  /\ ~Less(a, a)
         /\ Less(a, b) /\ Less(b, c) => Less(a, c)
         /\ a # b => Less(a, b) \/ Less(b, a)
<1>1. /\ a.minor \in Nat /\ a.patch \in Nat /\ a.pre \in 1 .. 5
      /\ b.minor \in Nat /\ b.patch \in Nat /\ b.pre \in 1 .. 5
      /\ c.minor \in Nat /\ c.patch \in Nat /\ c.pre \in 1 .. 5
  BY DEF Version, Dated, Candidate, Bare, Release
<1>2. ~Less(a, a) /\ (Less(a, b) /\ Less(b, c) => Less(a, c))
  BY <1>1 DEF Less
<1>3. a # b => a.minor # b.minor \/ a.patch # b.patch \/ a.pre # b.pre
  BY DEF Version
<1>4. a # b => Less(a, b) \/ Less(b, a)
  BY <1>1, <1>3 DEF Less
<1>5. QED BY <1>2, <1>4

\* Entries that a provider may list: finitely many, no version twice.
Listing(S) ==
  /\ IsFiniteSet(S)
  /\ \A e \in S : e \in Entry
  /\ \A e, f \in S : e.v = f.v => e = f

\* The entries that are older, and newer, than a version.
Older(S, v) == {f \in S : Less(f.v, v)}
Newer(S, v) == {f \in S : Less(v, f.v)}

\* Some of the entries may be listed too.
LEMMA SomeListed ==
  ASSUME NEW S, Listing(S), NEW T \in SUBSET S
  PROVE  Listing(T) /\ Cardinality(T) \in Nat /\ Cardinality(T) <= Cardinality(S)
<1>1. IsFiniteSet(T) /\ Cardinality(T) <= Cardinality(S)
  BY FS_Subset DEF Listing
<1>2. Cardinality(T) \in Nat
  BY <1>1, FS_CardinalityType
<1>3. QED BY <1>1, <1>2 DEF Listing

\* How many entries are older than one of them.
LEMMA OlderCounted ==
  ASSUME NEW S, Listing(S)
  PROVE  /\ Cardinality(S) \in Nat
         /\ \A e \in S : Cardinality(Older(S, e.v)) \in 0 .. Cardinality(S) - 1
         /\ \A e, f \in S : Less(e.v, f.v) <=>
              Cardinality(Older(S, e.v)) < Cardinality(Older(S, f.v))
         /\ \A k \in 0 .. Cardinality(S) - 1 :
              \E e \in S : Cardinality(Older(S, e.v)) = k
<1> DEFINE R == {r \in S \X S : Less(r[1].v, r[2].v)}
<1>1. \A e, f \in S : <<e, f>> \in R <=> Less(e.v, f.v)
  OBVIOUS
<1> HIDE DEF R
<1>2. \A e \in S : e.v \in Version
  BY DEF Listing, Entry
<1>3. Orders(R, S)
  <2>1. \A e \in S : <<e, e>> \notin R
    BY <1>1, <1>2, LessOrders
  <2>2. \A e, f, g \in S : <<e, f>> \in R /\ <<f, g>> \in R => <<e, g>> \in R
    <3> SUFFICES ASSUME NEW e \in S, NEW f \in S, NEW g \in S,
                        Less(e.v, f.v), Less(f.v, g.v)
                 PROVE  Less(e.v, g.v)
      BY <1>1
    <3>1. e.v \in Version /\ f.v \in Version /\ g.v \in Version
      BY <1>2
    <3>2. QED BY <3>1, LessOrders
  <2>3. \A e, f \in S : e # f => <<e, f>> \in R \/ <<f, e>> \in R
    <3> SUFFICES ASSUME NEW e \in S, NEW f \in S, e # f
                 PROVE  Less(e.v, f.v) \/ Less(f.v, e.v)
      BY <1>1
    <3>1. e.v \in Version /\ f.v \in Version /\ e.v # f.v
      BY <1>2 DEF Listing
    <3>2. QED BY <3>1, LessOrders
  <2>4. QED BY <2>1, <2>2, <2>3 DEF Orders
<1>4. \A e \in S : Before(S, R, e) = Older(S, e.v)
  BY <1>1 DEF Before, Older
<1>5. IsFiniteSet(S)
  BY DEF Listing
<1>6. /\ \A x \in S : Cardinality(Before(S, R, x)) \in 0 .. Cardinality(S) - 1
      /\ \A x, y \in S :
           <<x, y>> \in R <=> Cardinality(Before(S, R, x)) < Cardinality(Before(S, R, y))
      /\ \A k \in 0 .. Cardinality(S) - 1 : \E x \in S : Cardinality(Before(S, R, x)) = k
  BY <1>3, <1>5, Ranked
<1>7. Cardinality(S) \in Nat
  BY <1>5, FS_CardinalityType
<1>8. QED BY <1>1, <1>4, <1>6, <1>7, Zenon

\* Whatever is not older than an entry is newer, or that entry.
LEMMA NewerCounted ==
  ASSUME NEW S, Listing(S), NEW e \in S
  PROVE  Cardinality(Newer(S, e.v)) = Cardinality(S) - 1 - Cardinality(Older(S, e.v))
<1>1. IsFiniteSet(S)
  BY DEF Listing
<1>2. IsFiniteSet(Older(S, e.v)) /\ IsFiniteSet(Newer(S, e.v))
  <2>1. Older(S, e.v) \in SUBSET S /\ Newer(S, e.v) \in SUBSET S
    BY DEF Older, Newer
  <2>2. QED BY <1>1, <2>1, FS_Subset
<1>3. \A f \in S : f.v \in Version
  BY DEF Listing, Entry
<1>4. S \ {e} = Older(S, e.v) \cup Newer(S, e.v)
  <2>1. \A f \in S : f # e <=> Less(f.v, e.v) \/ Less(e.v, f.v)
    <3> SUFFICES ASSUME NEW f \in S PROVE f # e <=> Less(f.v, e.v) \/ Less(e.v, f.v)
      OBVIOUS
    <3>1. f.v \in Version /\ e.v \in Version /\ (f # e => f.v # e.v)
      BY <1>3 DEF Listing
    <3>2. QED BY <3>1, LessOrders
  <2>2. QED BY <2>1 DEF Older, Newer
<1>5. Older(S, e.v) \cap Newer(S, e.v) = {}
  <2>1. \A f \in S : ~ (Less(f.v, e.v) /\ Less(e.v, f.v))
    BY <1>3, LessOrders
  <2>2. QED BY <2>1 DEF Older, Newer
<1>6. Cardinality(S \ {e}) = Cardinality(S) - 1
  BY <1>1, FS_RemoveElement
<1>7. Cardinality(Older(S, e.v) \cup Newer(S, e.v)) =
        Cardinality(Older(S, e.v)) + Cardinality(Newer(S, e.v))
          - Cardinality(Older(S, e.v) \cap Newer(S, e.v))
  BY <1>2, FS_Union
<1>8. Cardinality(Older(S, e.v) \cap Newer(S, e.v)) = 0
  BY <1>5, FS_EmptySet
<1>9. /\ Cardinality(Older(S, e.v)) \in Nat /\ Cardinality(Newer(S, e.v)) \in Nat
      /\ Cardinality(S) \in Nat
  BY <1>1, <1>2, FS_CardinalityType
<1> DEFINE o == Cardinality(Older(S, e.v))
           w == Cardinality(Newer(S, e.v))
           n == Cardinality(S)
<1> HIDE DEF o, w, n
<1>10. n - 1 = o + w - 0
  BY <1>4, <1>6, <1>7, <1>8 DEF o, w, n
<1>11. o \in Nat /\ w \in Nat /\ n \in Nat
  BY <1>9 DEF o, w, n
<1>12. w = n - 1 - o
  BY <1>10, <1>11
<1>13. QED BY <1>12 DEF o, w, n

\* A list of all the entries, each of them once.
Enumerates(l, S) ==
  /\ Cardinality(S) \in Nat
  /\ l \in [1 .. Cardinality(S) -> S]
  /\ \A e \in S : \E i \in 1 .. Cardinality(S) : l[i] = e

\* Such a list is a sequence of the entries, as long as there are of them.
LEMMA Enumerated ==
  ASSUME NEW S, NEW l, Enumerates(l, S)
  PROVE  ToSet(l) = S /\ l \in Seq(S) /\ DOMAIN l = 1 .. Len(l) /\ Len(l) = Cardinality(S)
<1> DEFINE n == Cardinality(S)
<1>1. n \in Nat /\ l \in [1 .. n -> S] /\ \A e \in S : \E i \in 1 .. n : l[i] = e
  BY DEF Enumerates
<1> HIDE DEF n
<1>2. l \in Seq(S) /\ Len(l) = n /\ DOMAIN l = 1 .. n
  BY <1>1
<1>3. ToSet(l) = S
  BY <1>1 DEF ToSet
<1>4. QED BY <1>2, <1>3 DEF n

\* SetToSeqs puts the elements of a finite set in an order.
LEMMA Permuted ==
  ASSUME NEW S, IsFiniteSet(S), NEW l \in SetToSeqs(S)
  PROVE  Enumerates(l, S)
<1> DEFINE n == Cardinality(S)
<1>1. n \in Nat
  BY FS_CardinalityType
<1>2. l \in [1 .. n -> S] /\ \A i, j \in 1 .. n : i # j => l[i] # l[j]
  BY DEF SetToSeqs
<1>3. l \in Injection(1 .. n, S)
  BY <1>2 DEF Injection, IsInjective
<1>4. Cardinality(1 .. n) = Cardinality(S)
  <2>1. Cardinality(1 .. n) = IF 1 > n THEN 0 ELSE n - 1 + 1
    <3> HIDE DEF n
    <3>1. QED BY <1>1, FS_Interval
  <2>2. QED BY <1>1, <2>1
<1>5. l \in Surjection(1 .. n, S)
  BY <1>3, <1>4, FS_Injection
<1>6. \A e \in S : \E i \in 1 .. n : l[i] = e
  BY <1>5 DEF Surjection
<1>7. QED BY <1>1, <1>2, <1>6 DEF Enumerates

\* SortVersions sorts: as many entries are older as stand before.
LEMMA AscendingSorts ==
  ASSUME NEW S, Listing(S)
  PROVE  /\ Enumerates(Ascending(S), S)
         /\ \A i \in 1 .. Cardinality(S) :
              Cardinality(Older(S, Ascending(S)[i].v)) = i - 1
<1> DEFINE n == Cardinality(S)
           c(e) == Cardinality(Older(S, e.v))
           l == [i \in 1 .. n |-> CHOOSE e \in S : c(e) = i - 1]
<1>1. n \in Nat /\ (\A e \in S : c(e) \in 0 .. n - 1)
      /\ (\A e, f \in S : Less(e.v, f.v) <=> c(e) < c(f))
      /\ \A k \in 0 .. n - 1 : \E e \in S : c(e) = k
  BY OlderCounted
<1>2. Ascending(S) = l
  BY DEF Ascending, Older
<1>3. \A i \in 1 .. n : l[i] \in S /\ c(l[i]) = i - 1
  <2> SUFFICES ASSUME NEW i \in 1 .. n PROVE l[i] \in S /\ c(l[i]) = i - 1
    OBVIOUS
  <2>1. i - 1 \in 0 .. n - 1
    BY <1>1
  <2> HIDE DEF c
  <2>2. \E e \in S : c(e) = i - 1
    BY <1>1, <2>1
  <2>3. l[i] = CHOOSE e \in S : c(e) = i - 1
    OBVIOUS
  <2> HIDE DEF l
  <2>4. QED BY <2>2, <2>3
<1>4. \A e \in S : \E i \in 1 .. n : l[i] = e
  <2> SUFFICES ASSUME NEW e \in S PROVE \E i \in 1 .. n : l[i] = e
    OBVIOUS
  <2> DEFINE i == c(e) + 1
  <2> HIDE DEF c, l
  <2>1. i \in 1 .. n /\ i - 1 = c(e)
    BY <1>1
  <2>2. l[i] \in S /\ c(l[i]) = c(e)
    BY <1>3, <2>1
  <2>3. ~Less(l[i].v, e.v) /\ ~Less(e.v, l[i].v)
    BY <1>1, <2>2
  <2>4. l[i].v \in Version /\ e.v \in Version
    BY <2>2 DEF Listing, Entry
  <2>5. l[i].v = e.v
    BY <2>3, <2>4, LessOrders
  <2>6. l[i] = e
    BY <2>2, <2>5 DEF Listing
  <2>7. QED BY <2>1, <2>6
<1>5. l \in [1 .. n -> S]
  <2>1. \A i \in 1 .. n : l[i] \in S
    BY <1>3
  <2>2. l = [i \in 1 .. n |-> l[i]]
    OBVIOUS
  <2> HIDE DEF l
  <2>3. QED BY <2>1, <2>2
<1> HIDE DEF l
<1>6. QED BY <1>1, <1>2, <1>3, <1>4, <1>5 DEF Enumerates

\* The list that OCM's versions are sorted to: as many are newer as stand before,
\* and what stands later is older.
Descending(l, S) ==
  /\ Enumerates(l, S)
  /\ \A i \in 1 .. Cardinality(S) : Cardinality(Newer(S, l[i].v)) = i - 1
  /\ \A i, j \in 1 .. Cardinality(S) : i < j => Less(l[j].v, l[i].v)

\* OCM's versions, sorted and reversed, are such a list.
LEMMA ReverseDescends ==
  ASSUME NEW S, Listing(S)
  PROVE  Descending(Reverse(Ascending(S)), S)
<1> DEFINE n == Cardinality(S)
           a == Ascending(S)
           l == Reverse(a)
<1>1. /\ Enumerates(a, S)
      /\ \A i \in 1 .. n : Cardinality(Older(S, a[i].v)) = i - 1
  BY AscendingSorts
<1> HIDE DEF a
<1>2. n \in Nat /\ (\A i \in 1 .. n : a[i] \in S) /\ Len(a) = n
      /\ \A e \in S : \E i \in 1 .. n : a[i] = e
  <2>1. Len(a) = n
    BY <1>1, Enumerated
  <2>2. QED BY <1>1, <2>1 DEF Enumerates
<1> HIDE DEF n
<1>3. l = [i \in 1 .. n |-> a[(n - i) + 1]]
  BY <1>2 DEF Reverse
<1> HIDE DEF l
<1>4. \A i \in 1 .. n : /\ (n - i) + 1 \in 1 .. n
                        /\ l[i] = a[(n - i) + 1] /\ l[i] \in S
  <2> SUFFICES ASSUME NEW i \in 1 .. n
               PROVE  /\ (n - i) + 1 \in 1 .. n
                      /\ l[i] = a[(n - i) + 1] /\ l[i] \in S
    OBVIOUS
  <2>1. (n - i) + 1 \in 1 .. n
    BY <1>2
  <2>2. l[i] = a[(n - i) + 1]
    BY <1>3
  <2>3. QED BY <1>2, <2>1, <2>2
<1>5. \A e \in S : \E i \in 1 .. n : l[i] = e
  <2> SUFFICES ASSUME NEW e \in S PROVE \E i \in 1 .. n : l[i] = e
    OBVIOUS
  <2>1. PICK j \in 1 .. n : a[j] = e
    BY <1>2
  <2>2. (n - j) + 1 \in 1 .. n /\ (n - ((n - j) + 1)) + 1 = j
    BY <1>2
  <2>3. l[(n - j) + 1] = a[j]
    BY <1>4, <2>2
  <2>4. QED BY <2>1, <2>2, <2>3
<1>6. Enumerates(l, S)
  <2>1. l \in [1 .. n -> S]
    <3>1. l = [i \in 1 .. n |-> l[i]]
      BY <1>3
    <3>2. QED BY <1>4, <3>1
  <2>2. QED BY <1>2, <1>5, <2>1 DEF Enumerates, n
<1>7. \A i \in 1 .. n : Cardinality(Older(S, l[i].v)) = n - i
  <2> SUFFICES ASSUME NEW i \in 1 .. n PROVE Cardinality(Older(S, l[i].v)) = n - i
    OBVIOUS
  <2>1. Cardinality(Older(S, a[(n - i) + 1].v)) = ((n - i) + 1) - 1
    BY <1>1, <1>4 DEF n
  <2>2. ((n - i) + 1) - 1 = n - i
    BY <1>2
  <2>3. QED BY <1>4, <2>1, <2>2
<1>8. \A i \in 1 .. n : Cardinality(Newer(S, l[i].v)) = i - 1
  <2> SUFFICES ASSUME NEW i \in 1 .. n PROVE Cardinality(Newer(S, l[i].v)) = i - 1
    OBVIOUS
  <2>1. l[i] \in S
    BY <1>4
  <2>2. Cardinality(Newer(S, l[i].v)) = n - 1 - Cardinality(Older(S, l[i].v))
    BY <2>1, NewerCounted DEF n
  <2>3. Cardinality(Older(S, l[i].v)) = n - i
    BY <1>7
  <2>4. QED BY <1>2, <2>2, <2>3
<1>9. \A i, j \in 1 .. n : i < j => Less(l[j].v, l[i].v)
  <2> SUFFICES ASSUME NEW i \in 1 .. n, NEW j \in 1 .. n, i < j PROVE Less(l[j].v, l[i].v)
    OBVIOUS
  <2>1. l[i] \in S /\ l[j] \in S
    BY <1>4
  <2>2. Less(l[j].v, l[i].v) <=>
          Cardinality(Older(S, l[j].v)) < Cardinality(Older(S, l[i].v))
    BY <2>1, OlderCounted
  <2>3. n - j < n - i
    BY <1>2
  <2>4. QED BY <1>7, <2>2, <2>3
<1>10. QED BY <1>6, <1>8, <1>9 DEF Descending, l, a, n

-----------------------------------------------------------------------------
(* What is found in a list.                                                *)

\* Entries that are listed are as many as their versions.
LEMMA VersionsCounted ==
  ASSUME NEW S, Listing(S), NEW T \in SUBSET S
  PROVE  /\ IsFiniteSet({e.v : e \in T})
         /\ Cardinality({e.v : e \in T}) = Cardinality(T)
         /\ \A w \in {e.v : e \in T} : w \in Version
<1> DEFINE g == [e \in T |-> e.v]
           B == {e.v : e \in T}
<1>1. IsFiniteSet(T)
  BY FS_Subset DEF Listing
<1>2. \A e, f \in T : e.v = f.v => e = f
  BY DEF Listing
<1>3. g \in Bijection(T, B)
  BY <1>2 DEF Bijection, Injection, Surjection, IsInjective
<1>4. \A w \in B : w \in Version
  BY DEF Listing, Entry
<1> HIDE DEF g, B
<1>5. IsFiniteSet(B) /\ Cardinality(B) = Cardinality(T)
  BY <1>1, <1>3, FS_Bijection DEF ExistsBijection
<1>6. QED BY <1>4, <1>5 DEF B

\* As many versions are newer than one as entries are.
LEMMA NewerVersions ==
  ASSUME NEW S, Listing(S), NEW v
  PROVE  Cardinality({w \in {e.v : e \in S} : Less(v, w)}) = Cardinality(Newer(S, v))
<1>1. {w \in {e.v : e \in S} : Less(v, w)} = {e.v : e \in Newer(S, v)}
  BY DEF Newer
<1>2. Newer(S, v) \in SUBSET S
  BY DEF Newer
<1>3. Cardinality({e.v : e \in Newer(S, v)}) = Cardinality(Newer(S, v))
  BY <1>2, VersionsCounted
<1>4. QED BY <1>1, <1>3

\* Of finitely many versions there is a newest.
LEMMA NewestFound ==
  ASSUME NEW V \in SUBSET Version, IsFiniteSet(V), V # {}
  PROVE  /\ Newest(V) \in V /\ \A w \in V : ~Less(Newest(V), w)
         /\ NewestOf(V) = Newest(V)
<1> DEFINE R == {r \in V \X V : Less(r[1], r[2])}
           n == Cardinality(V)
           c(v) == Cardinality(Before(V, R, v))
<1>1. \A v, w \in V : <<v, w>> \in R <=> Less(v, w)
  OBVIOUS
<1> HIDE DEF R
<1>2. Orders(R, V)
  <2>1. \A u, v, w \in V : Less(u, v) /\ Less(v, w) => Less(u, w)
    BY LessOrders
  <2>2. \A u, v \in V : ~Less(u, u) /\ (u # v => Less(u, v) \/ Less(v, u))
    BY LessOrders
  <2>3. QED BY <1>1, <2>1, <2>2 DEF Orders
<1>3. /\ \A v \in V : c(v) \in 0 .. n - 1
      /\ \A v, w \in V : <<v, w>> \in R <=> c(v) < c(w)
      /\ \A k \in 0 .. n - 1 : \E v \in V : c(v) = k
  BY <1>2, Ranked
<1>4. n \in Nat /\ n # 0
  BY FS_CardinalityType, FS_EmptySet
<1> HIDE DEF c, n
<1>5. n - 1 \in 0 .. n - 1
  BY <1>4
<1>6. PICK v \in V : c(v) = n - 1
  BY <1>3, <1>5
<1>7. \A w \in V : ~Less(v, w)
  <2> SUFFICES ASSUME NEW w \in V, Less(v, w) PROVE FALSE
    OBVIOUS
  <2>1. c(v) < c(w) /\ c(w) \in 0 .. n - 1
    BY <1>1, <1>3
  <2>2. QED BY <1>4, <1>6, <2>1
<1>8. Newest(V) \in V /\ \A w \in V : ~Less(Newest(V), w)
  BY <1>7, Zenon DEF Newest
<1>9. NewestOf(V) = Newest(V)
  BY DEF NewestOf
<1>10. QED BY <1>8, <1>9

\* The newest of some of the listed versions, if there are any.
LEMMA NewestListed ==
  ASSUME NEW S, Listing(S), NEW T \in SUBSET S
  PROVE  LET V == {e.v : e \in T}
         IN  \/ T = {} /\ NewestOf(V) = None
             \/ /\ T # {} /\ NewestOf(V) = Newest(V)
                /\ NewestOf(V) \in V /\ \A w \in V : ~Less(NewestOf(V), w)
<1> DEFINE V == {e.v : e \in T}
<1>1. CASE T = {}
  BY <1>1 DEF NewestOf
<1>2. CASE T # {}
  <2>1. IsFiniteSet(V) /\ V \in SUBSET Version /\ V # {}
    BY <1>2, VersionsCounted
  <2> HIDE DEF V
  <2>2. QED BY <1>2, <2>1, NewestFound DEF V
<1>3. QED BY <1>1, <1>2

\* The place of the first entry that is wanted.
LEMMA PlaceFound ==
  ASSUME NEW l, Len(l) \in Nat, DOMAIN l = 1 .. Len(l), NEW W
  PROVE  \/ Place(l, W) = 0 /\ \A i \in 1 .. Len(l) : l[i] \notin W
         \/ /\ Place(l, W) \in 1 .. Len(l) /\ l[Place(l, W)] \in W
            /\ \A i \in 1 .. Len(l) : l[i] \in W => Place(l, W) <= i
<1> DEFINE at == {i \in DOMAIN l : l[i] \in W}
<1>1. Place(l, W) = IF at = {} THEN 0 ELSE Min(at)
  BY DEF Place
<1>2. CASE at = {}
  BY <1>1, <1>2
<1>3. CASE at # {}
  <2>1. at \in SUBSET Nat
    OBVIOUS
  <2>2. Min(at) \in at /\ \A y \in at : Min(at) <= y
    <3> HIDE DEF at
    <3> QED BY <1>3, <2>1, LeastOf
  <2>3. Place(l, W) = Min(at)
    BY <1>1, <1>3
  <2>4. Place(l, W) \in at /\ \A y \in at : Place(l, W) <= y
    BY <2>2, <2>3
  <2>5. QED BY <2>4
<1>4. QED BY <1>2, <1>3

\* The first entry that is wanted is one of those; in a descending list, the newest
\* of them.
LEMMA FirstFound ==
  ASSUME NEW S, Listing(S), NEW l, Enumerates(l, S), NEW W
  PROVE  \/ First(l, W) = None /\ S \cap W = {}
         \/ \E e \in S \cap W :
              /\ First(l, W) = e.v /\ First(l, W) # None
              /\ Descending(l, S) => \A f \in S \cap W : ~Less(e.v, f.v)
<1> DEFINE p == Place(l, W)
<1>1. /\ Len(l) \in Nat /\ DOMAIN l = 1 .. Len(l) /\ Len(l) = Cardinality(S)
      /\ \A i \in 1 .. Len(l) : l[i] \in S
      /\ \A e \in S : \E i \in 1 .. Len(l) : l[i] = e
  BY Enumerated DEF Enumerates
<1>2. \/ p = 0 /\ \A i \in 1 .. Len(l) : l[i] \notin W
      \/ /\ p \in 1 .. Len(l) /\ l[p] \in W
         /\ \A i \in 1 .. Len(l) : l[i] \in W => p <= i
  BY <1>1, PlaceFound
<1>3. First(l, W) = IF p = 0 THEN None ELSE l[p].v
  BY DEF First
<1> HIDE DEF p
<1>4. CASE p = 0
  BY <1>1, <1>2, <1>3, <1>4
<1>5. CASE p # 0
  <2>1. p \in 1 .. Len(l) /\ l[p] \in S \cap W /\ First(l, W) = l[p].v
    BY <1>1, <1>2, <1>3, <1>5
  <2>2. l[p].v \in Version
    BY <2>1 DEF Listing, Entry
  <2>3. First(l, W) # None
    BY <2>1, <2>2, NoneAssumption
  <2>4. ASSUME Descending(l, S), NEW f \in S \cap W PROVE ~Less(l[p].v, f.v)
    <3>1. PICK i \in 1 .. Len(l) : l[i] = f
      BY <1>1
    <3>2. p <= i
      BY <1>2, <1>5, <3>1
    <3>3. p = i \/ p < i
      BY <2>1, <3>2
    <3>4. f.v \in Version
      BY DEF Listing, Entry
    <3>5. CASE p = i
      BY <2>2, <3>1, <3>5, LessOrders
    <3>6. CASE p < i
      <4>1. Less(f.v, l[p].v)
        BY <1>1, <2>1, <2>4, <3>1, <3>6 DEF Descending
      <4>2. QED BY <2>2, <3>4, <4>1, LessOrders
    <3>7. QED BY <3>3, <3>5, <3>6
  <2>5. QED BY <2>1, <2>3, <2>4
<1>6. QED BY <1>4, <1>5

-----------------------------------------------------------------------------
(* What the selectors answer.                                              *)

\* A provider lists some of a catalogue, each version once; OCM's list descends.
LEMMA ProviderLists ==
  ASSUME NEW catalogue \in Catalogues, NEW l \in Versions(catalogue)
  PROVE  \E S \in SUBSET catalogue :
           /\ Listing(S) /\ Enumerates(l, S)
           /\ request.provider = "ocm" => Descending(l, S)
<1>1. Listing(catalogue)
  BY CatalogueAssumption DEF Listing
<1>2. CASE request.provider = "ocm"
  <2> DEFINE S == {e \in catalogue : Group(e.v) \in {"stable", Channel}}
  <2>1. S \in SUBSET catalogue
    OBVIOUS
  <2>2. l = Reverse(Ascending(S))
    BY <1>2 DEF Versions, OCMVersions
  <2> HIDE DEF S
  <2>3. Listing(S)
    BY <1>1, <2>1, SomeListed
  <2>4. Descending(l, S)
    BY <2>2, <2>3, ReverseDescends
  <2>5. QED BY <2>1, <2>3, <2>4 DEF Descending
<1>3. CASE request.provider # "ocm"
  <2> DEFINE S == {e \in catalogue : Group(e.v) = Channel}
  <2>1. S \in SUBSET catalogue
    OBVIOUS
  <2>2. l \in SetToSeqs(S)
    BY <1>3 DEF Versions, ROSAVersions
  <2> HIDE DEF S
  <2>3. Listing(S)
    BY <1>1, <2>1, SomeListed
  <2>4. Enumerates(l, S)
    BY <2>2, <2>3, Permuted DEF Listing
  <2>5. QED BY <1>3, <2>1, <2>3, <2>4
<1>4. QED BY <1>2, <1>3

NewestAmong(V) == {v \in V : Cardinality({w \in V : Less(v, w)}) = 0}

\* What a selector may answer from the list l of the entries S: nothing, or one of
\* them, which is what the options describe.
Chosen(answer, l, S) ==
  /\ Enumerates(answer.list, S)
  /\ \/ answer.version = None
     \/ /\ answer.version \in {e.v : e \in S}
        /\ Descending(l, S) /\ Cardinality({e \in S : e.default}) = 1 =>
             answer.version \in Asked(S)

\* A list with one default has the one that Asked speaks of.
LEMMA TheDefault ==
  ASSUME NEW S, Listing(S), Cardinality({e \in S : e.default}) = 1
  PROVE  \E d \in S : /\ {e \in S : e.default} = {d} /\ d.default
                      /\ (CHOOSE e \in S : e.default) = d
<1> DEFINE D == {e \in S : e.default}
<1>1. IsFiniteSet(D)
  BY FS_Subset DEF Listing
<1>2. PICK d : D = {d}
  BY <1>1, FS_Singleton
<1>3. d \in S /\ d.default /\ \A e \in S : e.default => e = d
  BY <1>2
<1>4. (CHOOSE e \in S : e.default) = d
  BY <1>3
<1>5. QED BY <1>2, <1>3, <1>4

\* The first of the wanted entries, in a descending list, is the newest of them.
LEMMA FirstIsNewest ==
  ASSUME NEW S, Listing(S), NEW l, Enumerates(l, S), NEW W
  PROVE  \/ First(l, W) = None
         \/ /\ First(l, W) \in {e.v : e \in S}
            /\ First(l, W) \in {e.v : e \in S \cap W}
            /\ Descending(l, S) => First(l, W) \in NewestAmong({e.v : e \in S \cap W})
<1>1. CASE First(l, W) = None
  BY <1>1
<1>2. CASE First(l, W) # None
  <2>1. PICK e \in S \cap W :
               /\ First(l, W) = e.v
               /\ Descending(l, S) => \A f \in S \cap W : ~Less(e.v, f.v)
    BY <1>2, FirstFound
  <2>2. ASSUME Descending(l, S)
        PROVE  e.v \in NewestAmong({f.v : f \in S \cap W})
    <3>1. {w \in {f.v : f \in S \cap W} : Less(e.v, w)} = {}
      BY <2>1, <2>2
    <3>2. QED BY <3>1, FS_EmptySet DEF NewestAmong
  <2>3. QED BY <2>1, <2>2
<1>3. QED BY <1>1, <1>2

\* The newest version of some of the entries is that.
LEMMA NewestIsNewest ==
  ASSUME NEW S, Listing(S), NEW T \in SUBSET S
  PROVE  \/ NewestOf({e.v : e \in T}) = None
         \/ /\ NewestOf({e.v : e \in T}) \in {e.v : e \in S}
            /\ NewestOf({e.v : e \in T}) \in NewestAmong({e.v : e \in T})
<1> DEFINE V == {e.v : e \in T}
<1>1. CASE NewestOf(V) = None
  BY <1>1
<1>2. CASE NewestOf(V) # None
  <2>1. NewestOf(V) \in V /\ \A w \in V : ~Less(NewestOf(V), w)
    BY <1>2, NewestListed
  <2>2. {w \in V : Less(NewestOf(V), w)} = {}
    BY <2>1
  <2>3. V \subseteq {e.v : e \in S}
    OBVIOUS
  <2> HIDE DEF V
  <2>4. NewestOf(V) \in NewestAmong(V)
    BY <2>1, <2>2, FS_EmptySet DEF NewestAmong
  <2>5. QED BY <2>1, <2>3, <2>4 DEF V
<1>3. QED BY <1>1, <1>2

\* The default, when there is one of them.
LEMMA DefaultFound ==
  ASSUME NEW S, Listing(S), NEW l, Enumerates(l, S)
  PROVE  /\ ToSet(l) = S /\ Defaults(l) = {e \in S : e.default}
         /\ DefaultOf(l) = None \/ DefaultOf(l) \in {e.v : e \in S}
         /\ \A d \in S : {e \in S : e.default} = {d} => DefaultOf(l) = d.v
<1>1. ToSet(l) = S
  BY Enumerated
<1>2. Defaults(l) = {e \in S : e.default}
  BY <1>1 DEF Defaults
<1> DEFINE W == Defaults(l)
<1>3. \/ First(l, W) = None /\ S \cap W = {}
      \/ \E e \in S \cap W : First(l, W) = e.v
  <2> HIDE DEF W
  <2>1. QED BY FirstFound
<1>4. DefaultOf(l) = First(l, W)
  BY DEF DefaultOf
<1>5. DefaultOf(l) = None \/ DefaultOf(l) \in {e.v : e \in S}
  BY <1>3, <1>4
<1>6. ASSUME NEW d \in S, {e \in S : e.default} = {d} PROVE DefaultOf(l) = d.v
  <2>1. S \cap W = {d}
    BY <1>2, <1>6
  <2> HIDE DEF W
  <2>2. QED BY <1>3, <1>4, <2>1
<1>7. QED BY <1>1, <1>2, <1>5, <1>6

\* The provider's default.
LEMMA DefaultChosen ==
  ASSUME NEW S, Listing(S), NEW l, Enumerates(l, S), Selector = "default"
  PROVE  Chosen(Answer(DefaultOf(l), l), l, S)
<1>1. DefaultOf(l) = None \/ DefaultOf(l) \in {e.v : e \in S}
  BY DefaultFound
<1>2. ASSUME Cardinality({e \in S : e.default}) = 1 PROVE DefaultOf(l) \in Asked(S)
  <2>1. PICK d \in S : {e \in S : e.default} = {d} /\ (CHOOSE e \in S : e.default) = d
    BY <1>2, TheDefault
  <2>2. DefaultOf(l) = d.v
    BY <2>1, DefaultFound
  <2>3. Asked(S) = {d.v}
    BY <2>1 DEF Asked
  <2>4. QED BY <2>2, <2>3
<1>3. QED BY <1>1, <1>2 DEF Chosen, Answer

\* What the options describe, for those that name a minor or a build: the newest of
\* some of the entries.
LEMMA AskedNewest ==
  ASSUME NEW S, NEW d \in S, (CHOOSE e \in S : e.default) = d
  PROVE  LET of(T) == {e.v : e \in T}
         IN  /\ Selector = "latest" => Asked(S) = NewestAmong(of(S))
             /\ Selector = "xy" =>
                  Asked(S) = NewestAmong(of({e \in S : e.v.minor = request.minor}))
             /\ Selector = "y" =>
                  Asked(S) = NewestAmong(of({e \in S : e.v.minor = d.v.minor + 1}))
             /\ Selector = "z" =>
                  Asked(S) = NewestAmong(of({e \in S : e.v.minor = d.v.minor})) \ {d.v}
             /\ Selector = "specificNightly" =>
                  Asked(S) = NewestAmong({v \in of(S) \ {d.v} :
                                            Nightly(v) /\ v.minor = request.minor})
<1> DEFINE of(T) == {e.v : e \in T}
           minor(m) == {v \in of(S) : v.minor = m}
<1>1. \A m : minor(m) = of({e \in S : e.v.minor = m})
  OBVIOUS
<1>3. Selector = "latest" => Asked(S) = NewestAmong(of(S))
  BY DEF Asked, NewestAmong
<1>4. Selector = "xy" => Asked(S) = NewestAmong(minor(request.minor))
  BY DEF Asked, NewestAmong
<1>5. Selector = "y" => Asked(S) = NewestAmong(minor(d.v.minor + 1))
  BY DEF Asked, NewestAmong
<1>7. Selector = "z" => Asked(S) = NewestAmong(minor(d.v.minor)) \ {d.v}
  BY DEF Asked, NewestAmong
<1>9. Selector = "specificNightly" =>
        Asked(S) = NewestAmong({v \in of(S) \ {d.v} : Nightly(v) /\ v.minor = request.minor})
  BY DEF Asked, NewestAmong
<1> HIDE DEF minor
<1>10. QED BY <1>1, <1>3, <1>4, <1>5, <1>7, <1>9

\* The same for the two that count from the default's minor or patch.
LEMMA AskedFromDelta ==
  ASSUME NEW S, NEW d \in S, (CHOOSE e \in S : e.default) = d,
         NEW T \in SUBSET S,
         \/ /\ Selector = "yDelta"
            /\ \A e \in S : e \in T <=> e.v.minor = d.v.minor + request.delta
         \/ /\ Selector = "zDelta"
            /\ \A e \in S : e \in T <=> /\ e.v.minor = d.v.minor
                                     /\ e.v.patch = d.v.patch + request.delta
  PROVE  Asked(S) = NewestAmong({e.v : e \in T})
<1> DEFINE all == {e.v : e \in S}
<1>1. CASE Selector = "yDelta"
  <2> DEFINE V == {v \in all : v.minor = d.v.minor + request.delta}
  <2>1. Asked(S) = NewestAmong(V)
    BY <1>1 DEF Asked, NewestAmong
  <2>2. V = {e.v : e \in T}
    BY <1>1
  <2> HIDE DEF V
  <2>3. QED BY <2>1, <2>2
<1>2. CASE Selector = "zDelta"
  <2> DEFINE V == {v \in {w \in all : w.minor = d.v.minor} :
                     v.patch = d.v.patch + request.delta}
  <2>1. Asked(S) = NewestAmong(V)
    BY <1>2 DEF Asked, NewestAmong
  <2>2. V = {e.v : e \in T}
    BY <1>2
  <2> HIDE DEF V
  <2>3. QED BY <2>1, <2>2
<1>3. QED BY <1>1, <1>2

\* The newest of all.
LEMMA LatestChosen ==
  ASSUME NEW S, Listing(S), NEW l, Enumerates(l, S), Selector = "latest"
  PROVE  Chosen(LatestVersion(l), l, S)
<1> DEFINE v == NewestOf({e.v : e \in S})
<1>1. v = None \/ (v \in {e.v : e \in S} /\ v \in NewestAmong({e.v : e \in S}))
  BY NewestIsNewest
<1> HIDE DEF v
<1>2. ToSet(l) = S
  BY Enumerated
<1>3. LatestVersion(l).version = v /\ LatestVersion(l).list = Ascending(S)
  BY <1>2 DEF LatestVersion, Answer, v
<1>4. Enumerates(Ascending(S), S)
  BY AscendingSorts
<1>5. ASSUME Cardinality({e \in S : e.default}) = 1
      PROVE  Asked(S) = NewestAmong({e.v : e \in S})
  <2>1. PICK d \in S : (CHOOSE e \in S : e.default) = d
    BY <1>5, TheDefault
  <2>2. QED BY <2>1, AskedNewest
<1>6. QED BY <1>1, <1>3, <1>4, <1>5 DEF Chosen

\* The first of a minor in OCM's list is the newest of it.
LEMMA XYChosen ==
  ASSUME NEW S, Listing(S), NEW l, Enumerates(l, S), Selector = "xy"
  PROVE  Chosen(LatestXY(l), l, S)
<1> DEFINE W == {e \in S : e.v.minor = request.minor}
<1>1. \/ First(l, W) = None
      \/ /\ First(l, W) \in {e.v : e \in S}
         /\ Descending(l, S) => First(l, W) \in NewestAmong({e.v : e \in S \cap W})
  BY FirstIsNewest
<1>2. S \cap W = W
  OBVIOUS
<1> HIDE DEF W
<1>3. ToSet(l) = S
  BY Enumerated
<1>4. LatestXY(l).version = First(l, W) /\ LatestXY(l).list = l
  BY <1>3 DEF LatestXY, Answer, W
<1>5. ASSUME Cardinality({e \in S : e.default}) = 1
      PROVE  Asked(S) = NewestAmong({e.v : e \in W})
  <2>1. PICK d \in S : (CHOOSE e \in S : e.default) = d
    BY <1>5, TheDefault
  <2>2. QED BY <2>1, AskedNewest DEF W
<1>6. QED BY <1>1, <1>2, <1>4, <1>5 DEF Chosen

\* What follows the one default in the next minor is all of that minor.
LEMMA YChosen ==
  ASSUME NEW S, Listing(S), NEW l, Enumerates(l, S), Selector = "y"
  PROVE  Chosen(LatestY(l), l, S)
<1> DEFINE Precedes(a, b) == Less(a.v, b.v)
           follows(d, e) == /\ d.default /\ ~e.default /\ Precedes(d, e)
                            /\ ~\E o \in S : o.default /\ Precedes(d, o) /\ Precedes(o, e)
           T == {f \in S : \E d \in S : follows(d, f) /\ f.v.minor = d.v.minor + 1}
           v == NewestOf({e.v : e \in T})
<1>1. v = None \/ (v \in {e.v : e \in S} /\ v \in NewestAmong({e.v : e \in T}))
  BY NewestIsNewest
<1>2. ToSet(l) = S
  BY Enumerated
<1>3. LatestY(l).version = v /\ LatestY(l).list = Ascending(S)
  BY <1>2 DEF LatestY, Answer
<1>4. Enumerates(Ascending(S), S)
  BY AscendingSorts
<1>5. ASSUME Cardinality({e \in S : e.default}) = 1
      PROVE  Asked(S) = NewestAmong({e.v : e \in T})
  <2>1. PICK d \in S : /\ {e \in S : e.default} = {d} /\ (CHOOSE e \in S : e.default) = d
                       /\ d.default
    BY <1>5, TheDefault
  <2>2. \A e \in S : e.default => e = d
    BY <2>1
  <2>3. \A e \in S : e.v \in Version /\ e.v.minor \in Nat
    BY DEF Listing, Entry, Version
  <2>4. ~Less(d.v, d.v)
    BY <2>3, LessOrders
  <2>5. \A f \in S : f.v.minor = d.v.minor + 1 => Less(d.v, f.v) /\ f # d
    BY <2>3 DEF Less
  <2>6. T = {f \in S : f.v.minor = d.v.minor + 1}
    BY <2>1, <2>2, <2>4, <2>5
  <2> HIDE DEF T
  <2>7. QED BY <2>1, <2>6, AskedNewest
<1> HIDE DEF v
<1>6. QED BY <1>1, <1>3, <1>4, <1>5 DEF Chosen

\* So many minors after the default.
LEMMA YDeltaChosen ==
  ASSUME NEW S, Listing(S), NEW l, Enumerates(l, S), Selector = "yDelta"
  PROVE  Chosen(LatestYFromDelta(l), l, S)
<1> DEFINE W == {e \in S : e.v.minor = DefaultOf(l).minor + request.delta}
<1>1. \/ First(l, W) = None
      \/ /\ First(l, W) \in {e.v : e \in S}
         /\ Descending(l, S) => First(l, W) \in NewestAmong({e.v : e \in S \cap W})
  BY FirstIsNewest
<1>2. S \cap W = W
  OBVIOUS
<1>3. ToSet(l) = S
  BY Enumerated
<1>4. /\ LatestYFromDelta(l).version = IF DefaultOf(l) = None THEN None ELSE First(l, W)
      /\ LatestYFromDelta(l).list = l
  BY <1>3 DEF LatestYFromDelta, Answer
<1>5. ASSUME Cardinality({e \in S : e.default}) = 1
      PROVE  Asked(S) = NewestAmong({e.v : e \in W})
  <2>1. PICK d \in S : {e \in S : e.default} = {d} /\ (CHOOSE e \in S : e.default) = d
    BY <1>5, TheDefault
  <2>2. DefaultOf(l) = d.v
    BY <2>1, DefaultFound
  <2>3. W = {e \in S : e.v.minor = d.v.minor + request.delta}
    BY <2>2
  <2>4. W \in SUBSET S
    BY <2>3
  <2>5. /\ Selector = "yDelta"
        /\ \A e \in S : e \in W <=> e.v.minor = d.v.minor + request.delta
    BY <2>3
  <2> HIDE DEF W
  <2>6. QED BY <2>1, <2>4, <2>5, AskedFromDelta
<1> HIDE DEF W
<1>6. QED BY <1>1, <1>2, <1>4, <1>5 DEF Chosen

\* The newest patch of the default's minor, unless that is the default.
LEMMA ZChosen ==
  ASSUME NEW S, Listing(S), NEW l, Enumerates(l, S), Selector = "z"
  PROVE  Chosen(LatestZ(l), l, S)
<1> DEFINE default == NewestOf({e.v : e \in Defaults(l)})
           T == {f \in S : f.v.minor = default.minor /\ Less(default, f.v)}
           v == NewestOf({e.v : e \in T})
<1>1. v = None \/ (v \in {e.v : e \in S} /\ v \in NewestAmong({e.v : e \in T}))
  BY NewestIsNewest
<1>2. ToSet(l) = S
  BY Enumerated
<1>3. /\ LatestZ(l).version = IF default = None THEN None ELSE v
      /\ LatestZ(l).list = Ascending(S)
  BY <1>2 DEF LatestZ, Answer
<1>4. Enumerates(Ascending(S), S)
  BY AscendingSorts
<1>5. ASSUME Cardinality({e \in S : e.default}) = 1, v # None
      PROVE  v \in Asked(S)
  <2>1. PICK d \in S : {e \in S : e.default} = {d} /\ (CHOOSE e \in S : e.default) = d
    BY <1>5, TheDefault
  <2>2. default = d.v
    <3>1. Defaults(l) = {d}
      BY <2>1, DefaultFound
    <3>2. {d} \in SUBSET S
      OBVIOUS
    <3>3. {e.v : e \in {d}} = {d.v}
      OBVIOUS
    <3>4. NewestOf({e.v : e \in {d}}) \in {e.v : e \in {d}}
      BY <3>2, NewestListed
    <3>5. NewestOf({d.v}) = d.v
      BY <3>3, <3>4
    <3>6. QED BY <3>1, <3>3, <3>5
  <2>3. T = {f \in S : f.v.minor = d.v.minor /\ Less(d.v, f.v)}
    BY <2>2
  <2>4. v \in NewestAmong({e.v : e \in T})
    BY <1>1, <1>5
  <2> HIDE DEF v, T
  <2> DEFINE M == {f \in S : f.v.minor = d.v.minor}
  <2>5. \A e \in S : e.v \in Version
    BY DEF Listing, Entry
  <2>6. PICK e \in T : v = e.v
    BY <2>4 DEF NewestAmong
  <2>7. \A f \in T : ~Less(e.v, f.v)
    <3>1. Cardinality({w \in {f.v : f \in T} : Less(v, w)}) = 0
      BY <2>4 DEF NewestAmong
    <3>2. IsFiniteSet({f.v : f \in T})
      BY <2>3, VersionsCounted
    <3>3. {w \in {f.v : f \in T} : Less(v, w)} \in SUBSET {f.v : f \in T}
      OBVIOUS
    <3>4. IsFiniteSet({w \in {f.v : f \in T} : Less(v, w)})
      BY <3>2, <3>3, FS_Subset
    <3>5. {w \in {f.v : f \in T} : Less(v, w)} = {}
      BY <3>1, <3>4, FS_EmptySet
    <3>6. QED BY <2>6, <3>5
  <2>8. e \in S /\ e \in M /\ Less(d.v, e.v)
    BY <2>3
  <2>9. \A f \in M : ~Less(e.v, f.v)
    <3> SUFFICES ASSUME NEW f \in M, Less(e.v, f.v) PROVE FALSE
      OBVIOUS
    <3>1. e.v \in Version /\ f.v \in Version /\ d.v \in Version
      BY <2>5, <2>8
    <3>2. Less(d.v, f.v)
      BY <2>8, <3>1, LessOrders
    <3>3. f \in T
      BY <2>3, <3>2
    <3>4. QED BY <2>7, <3>3
  <2>10. {w \in {f.v : f \in M} : Less(e.v, w)} = {}
    BY <2>9
  <2>11. e.v \in NewestAmong({f.v : f \in M})
    BY <2>8, <2>10, FS_EmptySet DEF NewestAmong
  <2>12. e.v # d.v
    BY <2>5, <2>8, LessOrders
  <2>13. Asked(S) = NewestAmong({f.v : f \in M}) \ {d.v}
    BY <2>1, AskedNewest
  <2>14. QED BY <2>6, <2>11, <2>12, <2>13
<1> HIDE DEF v
<1>6. QED BY <1>1, <1>3, <1>4, <1>5 DEF Chosen

\* So many patches after the default.
LEMMA ZDeltaChosen ==
  ASSUME NEW S, Listing(S), NEW l, Enumerates(l, S), Selector = "zDelta"
  PROVE  Chosen(LatestZFromDelta(l), l, S)
<1> DEFINE default == DefaultOf(l)
           W == {e \in S : /\ e.v.minor = default.minor
                           /\ e.v.patch = default.patch + request.delta}
<1>1. \/ First(l, W) = None
      \/ /\ First(l, W) \in {e.v : e \in S}
         /\ Descending(l, S) => First(l, W) \in NewestAmong({e.v : e \in S \cap W})
  BY FirstIsNewest
<1>2. S \cap W = W
  OBVIOUS
<1>3. ToSet(l) = S
  BY Enumerated
<1>4. /\ LatestZFromDelta(l).version = IF default = None THEN None ELSE First(l, W)
      /\ LatestZFromDelta(l).list = l
  BY <1>3 DEF LatestZFromDelta, Answer
<1>5. ASSUME Cardinality({e \in S : e.default}) = 1
      PROVE  Asked(S) = NewestAmong({e.v : e \in W})
  <2>1. PICK d \in S : {e \in S : e.default} = {d} /\ (CHOOSE e \in S : e.default) = d
    BY <1>5, TheDefault
  <2>2. default = d.v
    BY <2>1, DefaultFound
  <2>3. W = {e \in S : /\ e.v.minor = d.v.minor
                       /\ e.v.patch = d.v.patch + request.delta}
    BY <2>2
  <2>4. W \in SUBSET S /\ \A e \in S : e \in W <=> /\ e.v.minor = d.v.minor
                                                 /\ e.v.patch = d.v.patch + request.delta
    BY <2>3
  <2> HIDE DEF W
  <2>5. QED BY <2>1, <2>4, AskedFromDelta
<1> HIDE DEF W
<1>6. QED BY <1>1, <1>2, <1>4, <1>5 DEF Chosen

\* So many places after the default: in OCM's list, so many versions older.
LEMMA DeltaChosen ==
  ASSUME NEW S, Listing(S), NEW l, Enumerates(l, S), request.delta \in Int,
         Selector = "delta"
  PROVE  Chosen(DeltaRelease(l), l, S)
<1> DEFINE p == Place(l, Defaults(l))
           target == p + request.delta
           v == IF target \in DOMAIN l THEN l[target].v ELSE None
           n == Cardinality(S)
           newer(w) == Cardinality({x \in {e.v : e \in S} : Less(w, x)})
<1>1. /\ DOMAIN l = 1 .. Len(l) /\ Len(l) = n /\ n \in Nat
      /\ (\A i \in 1 .. n : l[i] \in S) /\ ToSet(l) = S
  BY Enumerated DEF Enumerates
<1>2. DeltaRelease(l).version = v /\ DeltaRelease(l).list = l
  BY DEF DeltaRelease
<1>3. ASSUME v # None PROVE v \in {e.v : e \in S}
  BY <1>1, <1>3
<1>4. ASSUME v # None, Descending(l, S), Cardinality({e \in S : e.default}) = 1
      PROVE  v \in Asked(S)
  <2>1. PICK d \in S : {e \in S : e.default} = {d} /\ (CHOOSE e \in S : e.default) = d
    BY <1>4, TheDefault
  <2>2. Defaults(l) = {d}
    BY <2>1, DefaultFound
  <2>3. p \in 1 .. n /\ l[p] = d
    <3>1. \/ p = 0 /\ \A i \in 1 .. Len(l) : l[i] \notin Defaults(l)
          \/ p \in 1 .. Len(l) /\ l[p] \in Defaults(l)
      BY <1>1, PlaceFound
    <3>2. \E i \in 1 .. n : l[i] = d
      BY DEF Enumerates
    <3> HIDE DEF p
    <3>3. QED BY <1>1, <2>2, <3>1, <3>2
  <2>4. \A i \in 1 .. n : newer(l[i].v) = i - 1
    <3> SUFFICES ASSUME NEW i \in 1 .. n PROVE newer(l[i].v) = i - 1
      OBVIOUS
    <3>1. newer(l[i].v) = Cardinality(Newer(S, l[i].v))
      BY NewerVersions
    <3>2. QED BY <1>4, <3>1 DEF Descending
  <2>5. target \in 1 .. n /\ v = l[target].v
    BY <1>1, <1>4
  <2>6. newer(v) = newer(d.v) + request.delta
    <3>1. newer(l[target].v) = target - 1 /\ newer(l[p].v) = p - 1
      BY <2>3, <2>4, <2>5
    <3> HIDE DEF newer, p, v
    <3>2. newer(v) = target - 1 /\ newer(d.v) = p - 1
      BY <2>3, <2>5, <3>1
    <3>3. QED BY <1>1, <2>3, <3>2
  <2>7. Asked(S) = {w \in {e.v : e \in S} : newer(w) = newer(d.v) + request.delta}
    BY <2>1 DEF Asked
  <2>8. v \in {e.v : e \in S}
    BY <1>3, <1>4
  <2> HIDE DEF v, newer
  <2>9. QED BY <2>6, <2>7, <2>8
<1> HIDE DEF v
<1>5. QED BY <1>2, <1>3, <1>4 DEF Chosen

\* The middle and the oldest of those beside the default.
LEMMA RankedChosen ==
  ASSUME NEW S, Listing(S), NEW l, Enumerates(l, S), NEW oldest \in BOOLEAN,
         Selector = IF oldest THEN "oldest" ELSE "middle"
  PROVE  Chosen(RankedRelease(l, oldest), l, S)
<1> DEFINE T == S \ {e \in S : e.default}
           a == Ascending(T)
           n == Cardinality(T)
           k == IF oldest THEN 1 ELSE n \div 2 + 1
           v == IF n < 2 THEN None ELSE a[k].v
<1>1. T \in SUBSET S /\ RemoveDefault(l) = T
  <2>1. ToSet(l) = S /\ Defaults(l) = {e \in S : e.default}
    BY DefaultFound
  <2>2. QED BY <2>1 DEF RemoveDefault
<1>2. Listing(T) /\ n \in Nat
  BY <1>1, SomeListed
<1>3. /\ Enumerates(a, T)
      /\ \A i \in 1 .. n : Cardinality(Older(T, a[i].v)) = i - 1
  BY <1>2, AscendingSorts
<1>4. Len(a) = n
  BY <1>3, Enumerated
<1>5. RankedRelease(l, oldest).version = v /\ RankedRelease(l, oldest).list = l
  <2>1. Ascending(RemoveDefault(l)) = a
    BY <1>1
  <2> HIDE DEF a, n
  <2>2. QED BY <1>4, <2>1 DEF RankedRelease
<1>6. ASSUME v # None PROVE /\ k \in 1 .. n /\ v = a[k].v /\ a[k] \in T
                            /\ Cardinality(Older(T, v)) = k - 1
                            /\ Cardinality(Newer(T, v)) = n - k
  <2>1. n >= 2 /\ v = a[k].v
    <3> HIDE DEF a, n, k
    <3> QED BY <1>2, <1>6
  <2>2. k \in 1 .. n
    <3> HIDE DEF n
    <3> QED BY <1>2, <2>1
  <2> HIDE DEF k, v
  <2>3. a[k] \in T
    BY <1>3, <2>2 DEF Enumerates
  <2>4. Cardinality(Older(T, v)) = k - 1
    BY <1>3, <2>1, <2>2
  <2>5. Cardinality(Newer(T, a[k].v)) = n - 1 - Cardinality(Older(T, a[k].v))
    BY <1>2, <2>3, NewerCounted
  <2>6. Cardinality(Newer(T, v)) = n - 1 - (k - 1)
    BY <2>1, <2>4, <2>5
  <2> HIDE DEF a, n, T
  <2>7. n - 1 - (k - 1) = n - k
    BY <1>2, <2>2
  <2>8. QED BY <2>1, <2>2, <2>3, <2>4, <2>6, <2>7
<1>7. ASSUME v # None PROVE v \in {e.v : e \in S}
  <2>1. v = a[k].v /\ a[k] \in T
    BY <1>6, <1>7
  <2> HIDE DEF a, k, v
  <2>2. QED BY <2>1
<1>8. ASSUME v # None, Cardinality({e \in S : e.default}) = 1
      PROVE  v \in Asked(S)
  <2> DEFINE others == {e.v : e \in T}
             newer(w) == Cardinality({x \in others : Less(w, x)})
  <2>1. PICK d \in S : {e \in S : e.default} = {d} /\ (CHOOSE e \in S : e.default) = d
    BY <1>8, TheDefault
  <2>2. {e.v : e \in S} \ {d.v} = others
    BY <2>1 DEF Listing
  <2>3. newer(v) = Cardinality(Newer(T, v)) /\ Cardinality(others) = n
    <3>1. newer(v) = Cardinality(Newer(T, v))
      <4> HIDE DEF T, v
      <4>1. QED BY <1>2, NewerVersions
    <3>2. Cardinality(others) = n
      BY <1>1, VersionsCounted
    <3>3. QED BY <3>1, <3>2
  <2>4. v \in others
    <3>1. v = a[k].v /\ a[k] \in T
      BY <1>6, <1>8
    <3> HIDE DEF a, k, v, T
    <3>2. QED BY <3>1
  <2>5. CASE ~oldest
    <3>1. Asked(S) = {w \in others : newer(w) = (Cardinality(others) - 1) \div 2}
      <4> HIDE DEF others
      <4>1. Selector = "middle"
        BY <2>5
      <4>2. QED BY <2>1, <2>2, <4>1 DEF Asked
    <3>2. newer(v) = n - k
      BY <1>6, <1>8, <2>3
    <3>3. k = n \div 2 + 1
      BY <2>5
    <3> HIDE DEF n, k, newer, others, v
    <3>4. n - k = (n - 1) \div 2
      BY <1>2, <3>3
    <3>5. QED BY <2>3, <2>4, <3>1, <3>2, <3>4
  <2>6. CASE oldest
    <3>1. Asked(S) = {w \in others : \A x \in others : ~Less(x, w)}
      <4> HIDE DEF others
      <4>1. Selector = "oldest"
        BY <2>6
      <4>2. QED BY <2>1, <2>2, <4>1 DEF Asked
    <3>2. Cardinality(Older(T, v)) = 0
      <4>1. Cardinality(Older(T, v)) = k - 1 /\ k = 1
        BY <1>6, <1>8, <2>6
      <4>2. QED BY <4>1
    <3>3. Older(T, v) = {}
      <4>1. IsFiniteSet(T)
        BY <1>2 DEF Listing
      <4>2. Older(T, v) \in SUBSET T
        BY DEF Older
      <4> HIDE DEF T, v
      <4>3. IsFiniteSet(Older(T, v))
        BY <4>1, <4>2, FS_Subset
      <4>4. QED BY <3>2, <4>3, FS_EmptySet
    <3>4. \A x \in others : ~Less(x, v)
      <4> HIDE DEF v
      <4>1. QED BY <3>3 DEF Older
    <3> HIDE DEF others, v
    <3>5. QED BY <2>4, <3>1, <3>4
  <2>7. QED BY <2>5, <2>6
<1> HIDE DEF v
<1>9. QED BY <1>5, <1>7, <1>8 DEF Chosen

\* The newest nightly of a minor, the default apart.
LEMMA NightlyChosen ==
  ASSUME NEW S, Listing(S), NEW l, Enumerates(l, S), Selector = "specificNightly"
  PROVE  Chosen(SpecificNightly(l), l, S)
<1> DEFINE T == {f \in RemoveDefault(l) : Nightly(f.v) /\ f.v.minor = request.minor}
           v == NewestOf({e.v : e \in T})
<1>1. T \in SUBSET S /\ RemoveDefault(l) = S \ {e \in S : e.default}
  <2>1. ToSet(l) = S /\ Defaults(l) = {e \in S : e.default}
    BY DefaultFound
  <2>2. QED BY <2>1 DEF RemoveDefault
<1>2. v = None \/ (v \in {e.v : e \in S} /\ v \in NewestAmong({e.v : e \in T}))
  <2> HIDE DEF T
  <2>1. QED BY <1>1, NewestIsNewest
<1>3. SpecificNightly(l).version = v /\ SpecificNightly(l).list = l
  BY DEF SpecificNightly, Answer
<1>4. ASSUME Cardinality({e \in S : e.default}) = 1
      PROVE  Asked(S) = NewestAmong({e.v : e \in T})
  <2>1. PICK d \in S : {e \in S : e.default} = {d} /\ (CHOOSE e \in S : e.default) = d
    BY <1>4, TheDefault
  <2> DEFINE V == {w \in {e.v : e \in S} \ {d.v} : Nightly(w) /\ w.minor = request.minor}
  <2>2. Asked(S) = NewestAmong(V)
    BY <2>1, AskedNewest
  <2>3. T = {f \in S : f # d /\ Nightly(f.v) /\ f.v.minor = request.minor}
    BY <1>1, <2>1
  <2>4. \A e \in S : e # d <=> e.v # d.v
    BY DEF Listing
  <2> HIDE DEF T
  <2>5. V = {e.v : e \in T}
    BY <2>3, <2>4
  <2> HIDE DEF V
  <2>6. QED BY <2>2, <2>5
<1> HIDE DEF v, T
<1>5. QED BY <1>2, <1>3, <1>4 DEF Chosen

\* The very build that was asked for.
LEMMA BuildChosen ==
  ASSUME NEW S, Listing(S), NEW l, Enumerates(l, S),
         Selector \notin {"default", "delta", "latest", "xy", "y", "yDelta", "z", "zDelta",
                          "middle", "oldest", "next", "specificNightly"}
  PROVE  Chosen(TheBuild(l), l, S)
<1> DEFINE W == {e \in RemoveDefault(l) : e.v = request.image}
<1>1. \/ First(l, W) = None
      \/ /\ First(l, W) \in {e.v : e \in S}
         /\ First(l, W) \in {e.v : e \in S \cap W}
  BY FirstIsNewest
<1>2. TheBuild(l).version = First(l, W) /\ TheBuild(l).list = l
  BY DEF TheBuild, Answer
<1>3. Asked(S) = {request.image}
  BY DEF Asked
<1>4. \A e \in W : e.v = request.image
  OBVIOUS
<1> HIDE DEF W
<1>5. First(l, W) = None \/ First(l, W) = request.image
  BY <1>1, <1>4
<1>6. QED BY <1>1, <1>2, <1>3, <1>5 DEF Chosen

\* Of a bounded set of numbers there is a greatest.
LEMMA GreatestOf ==
  ASSUME NEW T \in SUBSET Nat, T # {}, NEW bound \in Nat, \A x \in T : x <= bound
  PROVE  Max(T) \in T
<1> DEFINE R == {n \in Nat : bound - n \in T}
<1>1. R # {} /\ R \in SUBSET Nat
  <2>1. PICK x \in T : TRUE
    OBVIOUS
  <2>2. x \in Nat /\ x <= bound
    OBVIOUS
  <2>3. bound - x \in Nat /\ bound - (bound - x) = x
    BY <2>2
  <2>4. QED BY <2>3
<1>2. Min(R) \in R /\ \A y \in R : Min(R) <= y
  <2> HIDE DEF R
  <2> QED BY <1>1, LeastOf
<1> DEFINE m == bound - Min(R)
<1>3. m \in T
  BY <1>2
<1>4. \A x \in T : x <= m
  <2> SUFFICES ASSUME NEW x \in T PROVE x <= m
    OBVIOUS
  <2>1. x \in Nat /\ x <= bound /\ bound - (bound - x) = x /\ bound - x \in Nat
    OBVIOUS
  <2>2. bound - x \in R
    BY <2>1
  <2>3. Min(R) <= bound - x /\ Min(R) \in Nat
    BY <1>2, <2>2
  <2> HIDE DEF R
  <2>4. QED BY <2>1, <2>3
<1> HIDE DEF m
<1>5. \E z \in T : \A y \in T : z >= y
  BY <1>3, <1>4
<1>6. QED BY <1>5, Zenon DEF Max

\* A selector has the say only if it is asked for, or is the default one.
LEMMA SelectorAsked == Selector \in request.asked \cup {"default"}
<1> DEFINE used == {i \in DOMAIN Registered :
                      Registered[i][1] \in request.asked \cup {"default"}}
           P == {Registered[i][2] : i \in used}
           best == Max(P)
           first == {i \in used : Registered[i][2] = best}
<1>1. DOMAIN Registered = 1 .. 14 /\ 1 \in used
  BY DEF Registered
<1>2. \A i \in 1 .. 14 : Registered[i][2] \in 0 .. 100
  BY DEF Registered
<1>3. best \in P
  <2>1. \A i \in used : Registered[i][2] \in 0 .. 100
    BY <1>1, <1>2
  <2>2. 1 \in used
    BY <1>1
  <2> HIDE DEF used
  <2>3. P \in SUBSET (0 .. 100) /\ P # {}
    BY <2>1, <2>2
  <2> HIDE DEF P
  <2>4. P \in SUBSET Nat /\ \A x \in P : x <= 100
    BY <2>3
  <2>5. QED BY <2>3, <2>4, GreatestOf
<1>4. first \in SUBSET Nat /\ first # {}
  <2> HIDE DEF best
  <2>1. QED BY <1>1, <1>3
<1>5. Min(first) \in first
  <2> HIDE DEF first
  <2>1. QED BY <1>4, LeastOf
<1>6. Registered[Min(first)][1] \in request.asked \cup {"default"}
  <2> HIDE DEF best
  <2>1. Min(first) \in used
    BY <1>5
  <2>2. QED BY <2>1
<1>7. Selector = Registered[Min(first)][1]
  BY DEF Selector
<1>8. QED BY <1>6, <1>7

\* How many numbers are below one of them, and between two.
LEMMA Between ==
  ASSUME NEW M \in SUBSET Nat, IsFiniteSet(M), NEW a \in M, NEW b \in M
  PROVE  LET place(m) == Cardinality({n \in M : n < m})
         IN  /\ place(a) \in Nat /\ place(b) \in Nat
             /\ a < b => place(a) < place(b)
             /\ a <= b => Cardinality({n \in M : n > a /\ n <= b}) = place(b) - place(a)
<1> DEFINE below(m) == {n \in M : n < m}
           mid == {n \in M : n > a /\ n <= b}
<1>1. \A m : IsFiniteSet(below(m))
  BY FS_Subset
<1>2. IsFiniteSet(mid)
  BY FS_Subset
<1>3. Cardinality(below(a)) \in Nat /\ Cardinality(below(b)) \in Nat /\ Cardinality(mid) \in Nat
  BY <1>1, <1>2, FS_CardinalityType
<1>4. ASSUME a <= b PROVE Cardinality(mid) = Cardinality(below(b)) - Cardinality(below(a))
  <2>1. below(b) \cup {b} = (below(a) \cup {a}) \cup mid
    <3>1. \A n \in M : n < b \/ n = b <=> (n < a \/ n = a) \/ (n > a /\ n <= b)
      BY <1>4
    <3>2. QED BY <3>1
  <2>2. (below(a) \cup {a}) \cap mid = {}
    <3>1. \A n \in M : ~ ((n < a \/ n = a) /\ n > a)
      OBVIOUS
    <3>2. QED BY <3>1
  <2>3. Cardinality(below(b) \cup {b}) = Cardinality(below(b)) + 1
    <3>1. b \notin below(b) /\ IsFiniteSet(below(b))
      BY <1>1
    <3> HIDE DEF below
    <3>2. QED BY <3>1, FS_AddElement
  <2>4. IsFiniteSet(below(a) \cup {a}) /\ Cardinality(below(a) \cup {a}) = Cardinality(below(a)) + 1
    <3>1. a \notin below(a) /\ IsFiniteSet(below(a))
      BY <1>1
    <3> HIDE DEF below
    <3>2. QED BY <3>1, FS_AddElement
  <2> HIDE DEF below, mid
  <2>5. Cardinality((below(a) \cup {a}) \cup mid) =
          Cardinality(below(a) \cup {a}) + Cardinality(mid)
            - Cardinality((below(a) \cup {a}) \cap mid)
    BY <1>2, <2>4, FS_Union
  <2>6. Cardinality((below(a) \cup {a}) \cap mid) = 0
    BY <2>2, FS_EmptySet
  <2> DEFINE x == Cardinality(below(a))
             y == Cardinality(below(b))
             z == Cardinality(mid)
  <2> HIDE DEF x, y, z
  <2>7. y + 1 = (x + 1) + z - 0
    BY <2>1, <2>3, <2>4, <2>5, <2>6 DEF x, y, z
  <2>8. x \in Nat /\ y \in Nat /\ z \in Nat
    BY <1>3 DEF x, y, z
  <2>9. z = y - x
    BY <2>7, <2>8
  <2>10. QED BY <2>9 DEF x, y, z
<1>5. ASSUME a < b PROVE Cardinality(below(a)) < Cardinality(below(b))
  <2>1. b \in mid /\ a <= b
    BY <1>5
  <2>2. Cardinality(mid) # 0
    <3> HIDE DEF mid
    <3> QED BY <1>2, <2>1, FS_EmptySet
  <2>3. Cardinality(mid) = Cardinality(below(b)) - Cardinality(below(a))
    BY <1>4, <2>1
  <2> HIDE DEF below, mid
  <2>4. QED BY <1>3, <2>2, <2>3
<1>6. QED BY <1>3, <1>4, <1>5

\* The minors that are listed.
LEMMA MinorsListed ==
  ASSUME NEW S, Listing(S)
  PROVE  LET minors == {e.v.minor : e \in S}
         IN  minors \in SUBSET Nat /\ IsFiniteSet(minors)
<1> DEFINE minors == {e.v.minor : e \in S}
           f == [e \in S |-> e.v.minor]
<1>1. minors \in SUBSET Nat
  BY DEF Listing, Entry, Version
<1>2. f \in Surjection(S, minors)
  BY DEF Surjection
<1>3. IsFiniteSet(minors)
  <2> HIDE DEF f, minors
  <2> QED BY <1>2, FS_Surjection DEF Listing
<1>4. QED BY <1>1, <1>3

\* What the options describe, for the next release.
LEMMA AskedNext ==
  ASSUME NEW S, NEW d \in S, (CHOOSE e \in S : e.default) = d, Selector = "next"
  PROVE  LET all == {e.v : e \in S}
             next == Ahead({v.minor : v \in all}, d.v.minor, request.delta)
         IN  Asked(S) = NewestAmong(Preferred({v \in all : v.minor = next}))
  BY DEF Asked, NewestAmong

\* The minor so many after the default's, and of it the newest nightly, or else the
\* newest version.
LEMMA NextChosen ==
  ASSUME NEW S, Listing(S), NEW l, Enumerates(l, S), request.delta \in Nat,
         Selector = "next"
  PROVE  Chosen(NextRelease(l), l, S)
<1> DEFINE all == {e.v : e \in S}
           bucket(m) == {e.v : e \in {f \in S : f.v.minor = m}}
           best(m) == Preferred(bucket(m))
           minors == {e.v.minor : e \in S}
           place(m) == Cardinality({n \in minors : n < m})
           default == DefaultOf(l)
           next == {m \in minors : place(m) = place(default.minor) + request.delta}
           chosen == CHOOSE m \in next : TRUE
           v == IF default = None THEN None
                ELSE IF next = {} THEN None ELSE Newest(best(chosen))
<1>1. ToSet(l) = S
  BY Enumerated
<1>2. NextRelease(l).version = v /\ NextRelease(l).list = l
  BY <1>1 DEF NextRelease, Answer
<1>3. minors \in SUBSET Nat /\ IsFiniteSet(minors)
  BY MinorsListed
<1>4. ASSUME v # None
      PROVE  /\ chosen \in minors /\ place(chosen) = place(default.minor) + request.delta
             /\ v \in all /\ v \in NewestAmong(best(chosen))
  <2>1. next # {} /\ v = Newest(best(chosen))
    BY <1>4
  <2>2. chosen \in next
    <3> HIDE DEF next
    <3> QED BY <2>1
  <2>3. chosen \in minors /\ place(chosen) = place(default.minor) + request.delta
    <3> HIDE DEF minors, place, default, chosen
    <3> QED BY <2>2
  <2> DEFINE B == best(chosen)
  <2> HIDE DEF chosen, v, place
  <2>4. B \subseteq all /\ B # {}
    <3>1. bucket(chosen) \subseteq all /\ bucket(chosen) # {}
      BY <2>3
    <3> HIDE DEF bucket, all
    <3>2. QED BY <3>1 DEF Preferred
  <2>5. IsFiniteSet(all) /\ \A w \in all : w \in Version
    BY VersionsCounted
  <2> HIDE DEF B, all
  <2>6. IsFiniteSet(B) /\ B \in SUBSET Version
    BY <2>4, <2>5, FS_Subset
  <2>7. v \in B /\ \A w \in B : ~Less(v, w)
    BY <2>1, <2>4, <2>6, NewestFound DEF B
  <2>8. {w \in B : Less(v, w)} = {}
    BY <2>7
  <2>9. v \in NewestAmong(B)
    BY <2>7, <2>8, FS_EmptySet DEF NewestAmong
  <2>10. QED BY <2>3, <2>4, <2>7, <2>9 DEF B
<1>5. ASSUME v # None, Cardinality({e \in S : e.default}) = 1
      PROVE  Asked(S) = NewestAmong(best(chosen))
  <2>1. PICK d \in S : {e \in S : e.default} = {d} /\ (CHOOSE e \in S : e.default) = d
    BY <1>5, TheDefault
  <2>2. default = d.v
    BY <2>1, DefaultFound
  <2> DEFINE b == d.v.minor
             after(m) == Cardinality({n \in {w.minor : w \in all} :
                                        n > b /\ n <= m})
             ahead == Ahead({w.minor : w \in all}, b, request.delta)
             minor(m) == {w \in all : w.minor = m}
  <2>3. Asked(S) = NewestAmong(Preferred(minor(ahead)))
    BY <2>1, AskedNext
  <2>4. {w.minor : w \in all} = minors
    OBVIOUS
  <2>5. b \in minors
    OBVIOUS
  <2>6. chosen \in minors /\ place(chosen) = place(b) + request.delta
    BY <1>4, <1>5, <2>2
  <2>7. \A m \in minors : (m >= b /\ after(m) = request.delta) <=> m = chosen
    <3> SUFFICES ASSUME NEW m \in minors
                 PROVE  (m >= b /\ after(m) = request.delta) <=> m = chosen
      OBVIOUS
    <3> HIDE DEF minors, chosen, b, default, all
    <3>1. m \in Nat /\ chosen \in Nat /\ b \in Nat
      BY <1>3, <2>5, <2>6
    <3>2. /\ place(b) \in Nat /\ place(m) \in Nat
          /\ b < m => place(b) < place(m)
          /\ b <= m => Cardinality({n \in minors : n > b /\ n <= m}) = place(m) - place(b)
      BY <1>3, <2>5, Between
    <3>3. chosen < b => place(chosen) < place(b)
      BY <1>3, <2>5, <2>6, Between
    <3>4. /\ m < chosen => place(m) < place(chosen)
          /\ place(chosen) \in Nat
      BY <1>3, <2>6, Between
    <3>5. chosen < m => place(chosen) < place(m)
      BY <1>3, <2>6, Between
    <3>6. after(m) = Cardinality({n \in minors : n > b /\ n <= m})
      BY <2>4
    <3> HIDE DEF place, after
    <3>7. CASE m >= b
      <4>1. after(m) = place(m) - place(b)
        BY <3>1, <3>2, <3>6, <3>7
      <4>2. after(m) = request.delta <=> place(m) = place(chosen)
        BY <2>6, <3>2, <3>4, <4>1
      <4>3. place(m) = place(chosen) <=> m = chosen
        BY <3>1, <3>2, <3>4, <3>5
      <4>4. QED BY <3>7, <4>2, <4>3
    <3>8. CASE m < b
      <4>1. ~(chosen < b)
        BY <2>6, <3>2, <3>3, <3>4
      <4>2. QED BY <3>1, <3>8, <4>1
    <3>9. QED BY <3>1, <3>7, <3>8
  <2>8. ahead = chosen
    <3>1. ahead = Ahead(minors, b, request.delta)
      BY <2>4
    <3>2. \A m \in minors :
             after(m) = Cardinality({n \in minors : n > b /\ n <= m})
      BY <2>4
    <3> HIDE DEF chosen, minors, b, all, ahead
    <3>3. ahead = CHOOSE m \in minors :
             m >= b /\ Cardinality({n \in minors : n > b /\ n <= m}) = request.delta
      BY <3>1 DEF Ahead
    <3>4. \A m \in minors :
             (m >= b /\ Cardinality({n \in minors : n > b /\ n <= m}) = request.delta)
               <=> m = chosen
      <4> HIDE DEF after
      <4> QED BY <2>7, <3>2
    <3> HIDE DEF after
    <3>5. QED BY <2>6, <3>3, <3>4
  <2>9. minor(ahead) = bucket(chosen)
    <3> HIDE DEF ahead, chosen
    <3> QED BY <2>8
  <2> HIDE DEF ahead, chosen, minor, bucket
  <2>10. QED BY <2>3, <2>9
<1> HIDE DEF v, best, all
<1>6. QED BY <1>2, <1>4, <1>5 DEF Chosen, all

\* Whatever the options are: of the entries listed, what they describe.
LEMMA SelectedChosen ==
  ASSUME NEW S, Listing(S), NEW l, Enumerates(l, S), request \in Requests
  PROVE  Chosen(SelectVersion(l), l, S)
<1>1. request.delta \in Int /\ ("next" \in request.asked => request.delta \in Nat)
  BY RequestAssumption
<1>2. CASE Selector = "default"
  BY <1>2, DefaultChosen DEF SelectVersion
<1>3. CASE Selector = "delta"
  BY <1>1, <1>3, DeltaChosen DEF SelectVersion
<1>4. CASE Selector = "latest"
  BY <1>4, LatestChosen DEF SelectVersion
<1>5. CASE Selector = "xy"
  BY <1>5, XYChosen DEF SelectVersion
<1>6. CASE Selector = "y"
  BY <1>6, YChosen DEF SelectVersion
<1>7. CASE Selector = "yDelta"
  BY <1>7, YDeltaChosen DEF SelectVersion
<1>8. CASE Selector = "z"
  BY <1>8, ZChosen DEF SelectVersion
<1>9. CASE Selector = "zDelta"
  BY <1>9, ZDeltaChosen DEF SelectVersion
<1>10. CASE Selector = "middle"
  <2>1. Chosen(RankedRelease(l, FALSE), l, S)
    BY <1>10, RankedChosen
  <2>2. QED BY <1>10, <2>1 DEF SelectVersion
<1>11. CASE Selector = "oldest"
  <2>1. Chosen(RankedRelease(l, TRUE), l, S)
    BY <1>11, RankedChosen
  <2>2. QED BY <1>11, <2>1 DEF SelectVersion
<1>12. CASE Selector = "next"
  <2>1. request.delta \in Nat
    BY <1>1, <1>12, SelectorAsked
  <2>2. QED BY <1>12, <2>1, NextChosen DEF SelectVersion
<1>13. CASE Selector = "specificNightly"
  BY <1>13, NightlyChosen DEF SelectVersion
<1>14. CASE Selector \notin {"default", "delta", "latest", "xy", "y", "yDelta", "z", "zDelta",
                            "middle", "oldest", "next", "specificNightly"}
  <2>1. SelectVersion(l) = TheBuild(l)
    BY <1>14 DEF SelectVersion
  <2>2. QED BY <1>14, <2>1, BuildChosen
<1>15. QED BY <1>2, <1>3, <1>4, <1>5, <1>6, <1>7, <1>8, <1>9, <1>10, <1>11, <1>12, <1>13, <1>14

-----------------------------------------------------------------------------
(* What is installed.                                                      *)

\* What a run may install that is not told the version.
Described ==
  {Suffixed(v) : v \in IF request.provider = "ocm" /\ OneDefault THEN Asked(ToSet(list))
                       ELSE {e.v : e \in ToSet(list)}}

\* From the poll that found it to the end of a run that goes ahead the version that
\* is published is the cluster's, and described by the options.
InstallInv ==
  /\ request \in Requests
  /\ stage = "poll" => published = request.user
  /\ stage = "done" /\ Goes => published # None
  /\ request.user = None /\ published # None /\ (stage = "done" => Goes) =>
       published = clusterVersion /\ published \in Described

\* What the options describe only changes with the options and the list.
LEMMA DescribedKept ==
  ASSUME UNCHANGED <<request, list>>
  PROVE  Described' = Described
  BY DEF Described, Suffixed, Channel, OneDefault, Defaults, Asked, Selector

\* The same options ask for the same of the same entries.
LEMMA AskedKept ==
  ASSUME UNCHANGED request, NEW S
  PROVE  Asked(S)' = Asked(S)
<1>1. Selector' = Selector
  BY DEF Selector
<1>2. QED BY <1>1 DEF Asked

\* The channel is appended alike as long as the options are the same.
LEMMA SuffixKept ==
  ASSUME UNCHANGED request, NEW v
  PROVE  Suffixed(v)' = Suffixed(v)
  BY DEF Suffixed, Channel

\* Whatever was found is what the options describe, in the list that was polled.
LEMMA PollDescribed ==
  ASSUME InstallInv, PollVersions
  PROVE  published' # None => published' = clusterVersion' /\ published' \in Described'
<1>1. request \in Requests /\ UNCHANGED request
  BY DEF InstallInv, PollVersions
<1>2. PICK catalogue \in Catalogues : \E l \in Versions(catalogue) :
         LET answer == SelectVersion(l)
             version == IF answer.version = None THEN None ELSE Suffixed(answer.version)
         IN  /\ list' = answer.list
             /\ clusterVersion' = version
             /\ published' \in {version, None}
  BY DEF PollVersions
<1>3. PICK l \in Versions(catalogue) :
         LET answer == SelectVersion(l)
             version == IF answer.version = None THEN None ELSE Suffixed(answer.version)
         IN  /\ list' = answer.list
             /\ clusterVersion' = version
             /\ published' \in {version, None}
  BY <1>2
<1> DEFINE answer == SelectVersion(l)
<1>4. PICK S \in SUBSET catalogue :
         /\ Listing(S) /\ Enumerates(l, S)
         /\ request.provider = "ocm" => Descending(l, S)
  BY ProviderLists
<1>5. Chosen(answer, l, S)
  BY <1>1, <1>4, SelectedChosen
<1> HIDE DEF answer
<1>6. Enumerates(answer.list, S)
  BY <1>5 DEF Chosen
<1>7. ToSet(answer.list) = S
  BY <1>6, Enumerated
<1>8. ToSet(list') = S /\ Defaults(list') = {e \in S : e.default}
  BY <1>3, <1>7 DEF answer, Defaults
<1> SUFFICES ASSUME published' # None
             PROVE  published' = clusterVersion' /\ published' \in Described'
  OBVIOUS
<1>9. /\ answer.version # None
      /\ published' = Suffixed(answer.version) /\ clusterVersion' = published'
  BY <1>3 DEF answer
<1> DEFINE asked == IF request.provider = "ocm" /\ Cardinality({e \in S : e.default}) = 1
                    THEN Asked(S) ELSE {e.v : e \in S}
<1>10. answer.version \in asked
  BY <1>4, <1>5, <1>9 DEF Chosen
<1>11. Described' = {Suffixed(v)' : v \in asked}
  <2>1. OneDefault' = (Cardinality({e \in S : e.default}) = 1)
    BY <1>8 DEF OneDefault
  <2>2. Asked(ToSet(list))' = Asked(S)
    <3>1. Asked(S)' = Asked(S)
      BY <1>1, AskedKept
    <3>2. Asked(ToSet(list))' = Asked(S)'
      BY <1>8 DEF Asked
    <3>3. QED BY <3>1, <3>2
  <2>3. QED BY <1>1, <1>8, <2>1, <2>2 DEF Described
<1>12. PICK w : w = answer.version
  OBVIOUS
<1>13. Suffixed(w)' = Suffixed(w)
  BY <1>1, SuffixKept
<1>14. published' = Suffixed(w) /\ w \in asked
  BY <1>9, <1>10, <1>12
<1> HIDE DEF asked
<1>15. Suffixed(w)' \in Described'
  BY <1>11, <1>14
<1>16. QED BY <1>9, <1>13, <1>14, <1>15

\* A run that goes ahead has published a version, and without one from the user the
\* one that was selected.
LEMMA InstallInvStep == InstallInv /\ [SelectionNext]_selectionVars => InstallInv'
<1> SUFFICES ASSUME InstallInv, [SelectionNext]_selectionVars PROVE InstallInv'
  OBVIOUS
<1>1. CASE UNCHANGED selectionVars
  BY <1>1, DescribedKept DEF selectionVars, InstallInv, Goes
<1>2. CASE PollFails
  BY <1>2 DEF PollFails, Fails, InstallInv, Goes
<1>3. CASE UserSupplied
  BY <1>3 DEF UserSupplied, InstallInv, Goes
<1>4. CASE PollVersions
  <2>1. /\ UNCHANGED request /\ stage' # "done"
        /\ stage' = "poll" => published' = None
    BY <1>4 DEF PollVersions, InstallInv, Waits
  <2>2. request.user = None
    BY <1>4 DEF PollVersions
  <2>3. published' # None => published' = clusterVersion' /\ published' \in Described'
    BY <1>4, PollDescribed
  <2>4. QED BY <2>1, <2>2, <2>3 DEF InstallInv, Goes
<1>5. CASE SkipUpgrade
  BY <1>5, DescribedKept DEF SkipUpgrade, InstallInv, Goes
<1>6. CASE SetUpgradeVersion
  <2>1. /\ stage = "upgrade" /\ UNCHANGED <<request, list, clusterVersion, published>>
        /\ \/ stage' = "judge" /\ UNCHANGED verdict
           \/ stage' = "done" /\ verdict' = [code |-> "Failure", err |-> TRUE]
    BY <1>6 DEF SetUpgradeVersion, Fails
  <2>2. Described' = Described
    BY <2>1, DescribedKept
  <2>3. CASE stage' = "judge" /\ UNCHANGED verdict
    BY <2>1, <2>2, <2>3 DEF InstallInv, Goes
  <2>4. CASE stage' = "done" /\ verdict' = [code |-> "Failure", err |-> TRUE]
    BY <2>1, <2>4 DEF InstallInv, Goes
  <2>5. QED BY <2>1, <2>3, <2>4
<1>7. CASE Judge
  BY <1>7, DescribedKept DEF Judge, InstallInv, Goes
<1>8. QED BY <1>1, <1>2, <1>3, <1>4, <1>5, <1>6, <1>7 DEF SelectionNext

\* For all catalogues and options: a run that goes ahead and was not told the
\* version installs the one that its selector has chosen, which on OCM's list with
\* one default is what the options describe.
THEOREM Installs == SelectionSpec => []InstallAsAsked
<1>1. SelectionInit => InstallInv
  BY DEF SelectionInit, InstallInv, Goes
<1>2. InstallInv => InstallAsAsked
  BY DEF InstallInv, InstallAsAsked, Described
<1>3. QED BY <1>1, <1>2, InstallInvStep, PTL DEF SelectionSpec

-----------------------------------------------------------------------------
(* What is upgraded to.                                                    *)

\* FindVersion's builds are listed ones.
LEMMA BuildsListed ==
  ASSUME NEW T, list \in Seq(T)
  PROVE  \E n \in Nat : FindVersion \in [1 .. n -> T]
<1> DEFINE at == {i \in DOMAIN list : /\ list[i].v.minor = clusterVersion.minor
                                      /\ list[i].v.patch = clusterVersion.patch}
           n == Cardinality(at)
           R == {r \in at \X at : r[1] < r[2]}
           which(k) == CHOOSE i \in at : Cardinality({j \in at : j < i}) = k - 1
<1>1. FindVersion = [k \in 1 .. n |-> list[which(k)]]
  BY DEF FindVersion
<1>2. at \in SUBSET (1 .. Len(list)) /\ Len(list) \in Nat
  OBVIOUS
<1>3. \A i \in at : list[i] \in T
  OBVIOUS
<1> HIDE DEF at
<1>4. IsFiniteSet(at) /\ n \in Nat /\ \A i \in at : i \in Nat
  <2>1. 1 \in Int /\ Len(list) \in Int
    BY <1>2
  <2>2. IsFiniteSet(1 .. Len(list))
    BY <2>1, FS_Interval
  <2>3. IsFiniteSet(at)
    BY <1>2, <2>2, FS_Subset
  <2>4. QED BY <1>2, <2>3, FS_CardinalityType
<1>5. Orders(R, at) /\ \A i \in at : Before(at, R, i) = {j \in at : j < i}
  BY <1>4 DEF Orders, Before
<1> HIDE DEF R, n
<1>6. \A k \in 0 .. n - 1 : \E i \in at : Cardinality(Before(at, R, i)) = k
  BY <1>4, <1>5, Ranked DEF n
<1>7. \A k \in 1 .. n : list[which(k)] \in T
  <2> SUFFICES ASSUME NEW k \in 1 .. n PROVE list[which(k)] \in T
    OBVIOUS
  <2>1. k - 1 \in 0 .. n - 1
    BY <1>4
  <2>2. PICK i \in at : Cardinality(Before(at, R, i)) = k - 1
    BY <1>6, <2>1
  <2>3. \E j \in at : Cardinality({m \in at : m < j}) = k - 1
    BY <1>5, <2>2
  <2>4. which(k) \in at
    BY <2>3
  <2> HIDE DEF which
  <2>5. QED BY <1>3, <2>4
<1> HIDE DEF which
<1>8. QED BY <1>1, <1>4, <1>7

\* The concatenation of sequences, one after the other.
LEMMA Flatten ==
  ASSUME NEW S, NEW seqs \in Seq(Seq(S)), seqs # << >>
  PROVE  \E f : /\ f = [i \in 1 .. Len(seqs) |->
                          IF i = 1 THEN seqs[i] ELSE f[i - 1] \o seqs[i]]
                /\ FlattenSeq(seqs) = f[Len(seqs)]
<1> DEFINE Is(f, n) == f = [i \in 1 .. n |-> IF i = 1 THEN seqs[i] ELSE f[i - 1] \o seqs[i]]
           Bad == {n \in Nat : ~ \E f : Is(f, n)}
<1>1. Bad = {}
  <2>1. SUFFICES ASSUME Bad # {} PROVE FALSE
    OBVIOUS
  <2>2. PICK n \in Bad : \A m \in Bad : n <= m
    BY <2>1, LeastOf
  <2>3. n # 0
    <3>1. Is([i \in 1 .. 0 |-> 0], 0)
      OBVIOUS
    <3>2. QED BY <3>1
  <2>4. n - 1 \in Nat /\ n - 1 \notin Bad
    <3>1. n \in Nat
      OBVIOUS
    <3> HIDE DEF Bad
    <3>2. n - 1 \in Nat /\ ~ (n <= n - 1)
      BY <2>3, <3>1
    <3>3. QED BY <2>2, <3>2
  <2>5. PICK f : Is(f, n - 1)
    BY <2>4
  <2> DEFINE g == [i \in 1 .. n |-> IF i < n THEN f[i] ELSE
                                    IF i = 1 THEN seqs[i] ELSE f[i - 1] \o seqs[i]]
  <2>6. Is(g, n)
    <3>1. ASSUME NEW i \in 1 .. n
          PROVE  g[i] = IF i = 1 THEN seqs[i] ELSE g[i - 1] \o seqs[i]
      <4>1. CASE i = n
        BY <2>2, <2>3, <4>1
      <4>2. CASE i < n
        <5>1. i \in 1 .. n - 1
          BY <2>4, <3>1, <4>2
        <5>2. f[i] = IF i = 1 THEN seqs[i] ELSE f[i - 1] \o seqs[i]
          BY <2>5, <5>1
        <5>3. QED BY <2>2, <3>1, <4>2, <5>2
      <4>3. QED BY <2>2, <3>1, <4>1, <4>2
    <3>2. g = [i \in 1 .. n |-> g[i]]
      OBVIOUS
    <3> HIDE DEF g
    <3>3. QED BY <3>1, <3>2
  <2>7. QED BY <2>2, <2>6
<1>2. \E f : Is(f, Len(seqs))
  <2> HIDE DEF Is
  <2>1. Len(seqs) \in Nat
    OBVIOUS
  <2>2. QED BY <1>1, <2>1
<1> DEFINE all[i \in 1 .. Len(seqs)] == IF i = 1 THEN seqs[i] ELSE all[i - 1] \o seqs[i]
<1>3. FlattenSeq(seqs) = all[Len(seqs)]
  <2>1. Len(seqs) # 0
    OBVIOUS
  <2>2. QED BY <2>1 DEF FlattenSeq
<1>4. Is(all, Len(seqs))
  BY <1>2, Zenon
<1> HIDE DEF all
<1>5. QED BY <1>3, <1>4

\* What two lists have, one after the other.
LEMMA Joined ==
  ASSUME NEW S, NEW a \in Seq(S), NEW b \in Seq(S)
  PROVE  a \o b \in Seq(S) /\ ToSet(a \o b) = ToSet(a) \cup ToSet(b)
<1> DEFINE m == Len(a)
           n == Len(b)
           c == a \o b
<1>1. m \in Nat /\ n \in Nat /\ c \in Seq(S) /\ Len(c) = m + n
  OBVIOUS
<1>2. /\ \A i \in 1 .. m : c[i] = a[i]
      /\ \A i \in 1 .. n : c[m + i] = b[i]
  OBVIOUS
<1>3. /\ DOMAIN a = 1 .. m /\ DOMAIN b = 1 .. n /\ DOMAIN c = 1 .. m + n
  OBVIOUS
<1> HIDE DEF c, m, n
<1>4. \A i \in 1 .. m + n : c[i] \in ToSet(a) \cup ToSet(b)
  <2> SUFFICES ASSUME NEW i \in 1 .. m + n PROVE c[i] \in ToSet(a) \cup ToSet(b)
    OBVIOUS
  <2>1. CASE i <= m
    BY <1>1, <1>2, <1>3, <2>1 DEF ToSet
  <2>2. CASE i > m
    <3>1. i - m \in 1 .. n /\ m + (i - m) = i
      BY <1>1, <2>2
    <3>2. c[i] = b[i - m]
      BY <1>2, <3>1
    <3>3. QED BY <1>3, <3>1, <3>2 DEF ToSet
  <2>3. QED BY <1>1, <2>1, <2>2
<1>5. \A i \in 1 .. m : a[i] \in ToSet(c)
  <2>1. \A i \in 1 .. m : i \in 1 .. m + n
    BY <1>1
  <2>2. QED BY <1>2, <1>3, <2>1 DEF ToSet
<1>6. \A i \in 1 .. n : b[i] \in ToSet(c)
  <2>1. \A i \in 1 .. n : m + i \in 1 .. m + n
    BY <1>1
  <2>2. QED BY <1>2, <1>3, <2>1 DEF ToSet
<1>7. ToSet(c) = ToSet(a) \cup ToSet(b)
  BY <1>3, <1>4, <1>5, <1>6 DEF ToSet
<1>8. QED BY <1>1, <1>7 DEF c

\* One list after the other is a list of what they have.
LEMMA Flattened ==
  ASSUME NEW S, NEW seqs \in Seq(Seq(S))
  PROVE  /\ FlattenSeq(seqs) \in Seq(S)
         /\ ToSet(FlattenSeq(seqs)) = UNION {ToSet(seqs[i]) : i \in 1 .. Len(seqs)}
<1> DEFINE n == Len(seqs)
<1>1. n \in Nat /\ \A i \in 1 .. n : seqs[i] \in Seq(S)
  OBVIOUS
<1>2. CASE seqs = << >>
  <2>1. FlattenSeq(<< >>) = << >>
    BY DEF FlattenSeq
  <2>2. ToSet(<< >>) = {}
    BY DEF ToSet
  <2>3. {ToSet(seqs[i]) : i \in 1 .. Len(seqs)} = {}
    BY <1>2
  <2>4. << >> \in Seq(S)
    OBVIOUS
  <2>5. QED BY <1>2, <2>1, <2>2, <2>3, <2>4
<1>3. CASE seqs # << >>
  <2>1. PICK f : /\ f = [i \in 1 .. Len(seqs) |->
                           IF i = 1 THEN seqs[i] ELSE f[i - 1] \o seqs[i]]
                 /\ FlattenSeq(seqs) = f[Len(seqs)]
    BY <1>3, Flatten
  <2>2. \A i \in 1 .. n : f[i] = IF i = 1 THEN seqs[i] ELSE f[i - 1] \o seqs[i]
    BY <2>1
  <2>3. n # 0
    BY <1>3
  <2> DEFINE Joins(k) == /\ f[k] \in Seq(S)
                         /\ ToSet(f[k]) = UNION {ToSet(seqs[i]) : i \in 1 .. k}
             Bad == {k \in 1 .. n : ~Joins(k)}
  <2>4. Bad = {}
    <3>1. SUFFICES ASSUME Bad # {} PROVE FALSE
      OBVIOUS
    <3>2. Bad \in SUBSET Nat
      OBVIOUS
    <3>3. PICK k \in Bad : \A m \in Bad : k <= m
      <4> HIDE DEF Bad
      <4> QED BY <3>1, <3>2, LeastOf
    <3>4. k \in 1 .. n /\ ~Joins(k)
      OBVIOUS
    <3>5. k # 1
      <4> SUFFICES ASSUME k = 1 PROVE FALSE
        OBVIOUS
      <4>1. f[1] = seqs[1] /\ seqs[1] \in Seq(S)
        BY <1>1, <2>2, <3>4
      <4>2. 1 .. 1 = {1}
        OBVIOUS
      <4>3. UNION {ToSet(seqs[i]) : i \in 1 .. 1} = ToSet(seqs[1])
        BY <4>2
      <4>4. Joins(1)
        BY <4>1, <4>3
      <4>5. QED BY <3>4, <4>4
    <3>6. k - 1 \in 1 .. n /\ k - 1 \notin Bad
      <4> HIDE DEF Joins, Bad, n
      <4>1. k - 1 \in 1 .. n /\ ~ (k <= k - 1)
        BY <1>1, <3>4, <3>5
      <4>2. QED BY <3>3, <4>1
    <3>7. Joins(k - 1)
      BY <3>6
    <3>8. f[k] = f[k - 1] \o seqs[k]
      BY <2>2, <3>4, <3>5
    <3>9. seqs[k] \in Seq(S) /\ f[k - 1] \in Seq(S)
      BY <1>1, <3>4, <3>7
    <3>10. f[k] \in Seq(S) /\ ToSet(f[k]) = ToSet(f[k - 1]) \cup ToSet(seqs[k])
      <4>1. /\ f[k - 1] \o seqs[k] \in Seq(S)
            /\ ToSet(f[k - 1] \o seqs[k]) = ToSet(f[k - 1]) \cup ToSet(seqs[k])
        BY <3>9, Joined
      <4>2. QED BY <3>8, <4>1
    <3>11. ToSet(f[k - 1]) = UNION {ToSet(seqs[i]) : i \in 1 .. k - 1}
      BY <3>7
    <3>12. 1 .. k = (1 .. k - 1) \cup {k}
      BY <3>4
    <3>13. ToSet(f[k]) = UNION {ToSet(seqs[i]) : i \in 1 .. k}
      <4>1. UNION {ToSet(seqs[i]) : i \in 1 .. k}
              = (UNION {ToSet(seqs[i]) : i \in 1 .. k - 1}) \cup ToSet(seqs[k])
        <5>1. {ToSet(seqs[i]) : i \in 1 .. k}
                = {ToSet(seqs[i]) : i \in 1 .. k - 1} \cup {ToSet(seqs[k])}
          <6> HIDE DEF Bad, Joins
          <6>1. QED BY <3>12, Zenon
        <5>2. ASSUME NEW A, NEW b PROVE UNION (A \cup {b}) = (UNION A) \cup b
          OBVIOUS
        <5>3. QED BY <5>1, <5>2
      <4>2. QED BY <3>10, <3>11, <4>1
    <3>14. Joins(k)
      BY <3>10, <3>13
    <3>15. QED BY <3>4, <3>14
  <2>5. Joins(n)
    <3> HIDE DEF Joins, n
    <3>1. n \in 1 .. n
      BY <1>1, <2>3
    <3>2. QED BY <2>4, <3>1
  <2>6. QED BY <2>1, <2>5
<1>4. QED BY <1>2, <1>3

\* In whatever order Go walks the map, it meets the eligible edges of the builds.
LEMMA WalkOverEdges ==
  ASSUME list \in Seq(UNION Catalogues), NEW walk \in Walks
  PROVE  walk \in Seq(Version) /\ ToSet(walk) = Edges
<1> DEFINE builds == FindVersion
           orders == [i \in DOMAIN builds |-> SetToSeqs(EligibleEdges(builds[i]))]
<1>1. PICK n \in Nat : builds \in [1 .. n -> UNION Catalogues]
  BY BuildsListed
<1>2. PICK w \in [DOMAIN builds -> UNION {orders[i] : i \in DOMAIN builds}] :
         /\ walk = FlattenSeq(w)
         /\ \A i \in DOMAIN builds : w[i] \in orders[i]
  BY Zenon DEF Walks
<1> HIDE DEF builds
<1>3. DOMAIN builds = 1 .. n /\ \A i \in 1 .. n : builds[i] \in UNION Catalogues
  BY <1>1
<1>4. w \in [1 .. n -> UNION {orders[i] : i \in DOMAIN builds}]
  BY <1>2, <1>3
<1>5. \A i \in 1 .. n : w[i] \in SetToSeqs(EligibleEdges(builds[i]))
  BY <1>2, <1>3
<1> HIDE DEF orders
<1>6. \A i \in 1 .. n : /\ IsFiniteSet(EligibleEdges(builds[i]))
                        /\ EligibleEdges(builds[i]) \in SUBSET Version
  <2> SUFFICES ASSUME NEW i \in 1 .. n
               PROVE  /\ IsFiniteSet(EligibleEdges(builds[i]))
                      /\ EligibleEdges(builds[i]) \in SUBSET Version
    OBVIOUS
  <2>1. builds[i] \in Entry /\ IsFiniteSet(builds[i].edges)
    BY <1>3, CatalogueAssumption
  <2>2. EligibleEdges(builds[i]) \in SUBSET builds[i].edges
    BY DEF EligibleEdges
  <2>3. builds[i].edges \in SUBSET Version
    BY <2>1 DEF Entry
  <2>4. QED BY <2>1, <2>2, <2>3, FS_Subset
<1>7. \A i \in 1 .. n : w[i] \in Seq(Version) /\ ToSet(w[i]) = EligibleEdges(builds[i])
  <2> SUFFICES ASSUME NEW i \in 1 .. n
               PROVE  w[i] \in Seq(Version) /\ ToSet(w[i]) = EligibleEdges(builds[i])
    OBVIOUS
  <2> DEFINE E == EligibleEdges(builds[i])
  <2>1. IsFiniteSet(E) /\ E \in SUBSET Version /\ w[i] \in SetToSeqs(E)
    BY <1>5, <1>6
  <2> HIDE DEF E
  <2>2. Enumerates(w[i], E)
    BY <2>1, Permuted
  <2>3. ToSet(w[i]) = E /\ w[i] \in Seq(E)
    BY <2>2, Enumerated
  <2>4. w[i] \in Seq(Version)
    BY <2>1, <2>3
  <2>5. QED BY <2>3, <2>4 DEF E
<1>8. w \in Seq(Seq(Version)) /\ Len(w) = n
  <2>1. w = [i \in 1 .. n |-> w[i]]
    BY <1>4
  <2>2. w \in [1 .. n -> Seq(Version)]
    BY <1>7, <2>1
  <2>3. QED BY <2>2
<1>9. /\ walk \in Seq(Version)
      /\ ToSet(walk) = UNION {ToSet(w[i]) : i \in 1 .. n}
  BY <1>2, <1>8, Flattened
<1>10. {ToSet(w[i]) : i \in 1 .. n} = {EligibleEdges(e) : e \in ToSet(builds)}
  <2>1. ToSet(builds) = {builds[i] : i \in 1 .. n}
    BY <1>3 DEF ToSet
  <2>2. QED BY <1>7, <2>1
<1>11. QED BY <1>9, <1>10 DEF Edges, builds

\* WalkedTo goes from one of them to the next.
LEMMA Walked ==
  ASSUME NEW walk \in Seq(Version)
  PROVE  \E f : /\ f[0] = clusterVersion
                /\ \A i \in 1 .. Len(walk) : f[i] = TakeNewer(f[i - 1], walk[i])
                /\ WalkedTo(walk) = f[Len(walk)]
<1> DEFINE Is(f, n) == f = [i \in 0 .. n |-> IF i = 0 THEN clusterVersion
                                             ELSE TakeNewer(f[i - 1], walk[i])]
           Bad == {n \in Nat : ~ \E f : Is(f, n)}
<1>1. Bad = {}
  <2>1. SUFFICES ASSUME Bad # {} PROVE FALSE
    OBVIOUS
  <2>2. PICK n \in Bad : \A m \in Bad : n <= m
    <3>1. Bad \in SUBSET Nat
      OBVIOUS
    <3> HIDE DEF Bad
    <3>2. QED BY <2>1, <3>1, LeastOf
  <2>3. n # 0
    <3>1. Is([i \in 0 .. 0 |-> clusterVersion], 0)
      OBVIOUS
    <3>2. QED BY <3>1
  <2>4. n - 1 \in Nat /\ n - 1 \notin Bad
    <3>1. n \in Nat
      OBVIOUS
    <3> HIDE DEF Bad
    <3>2. n - 1 \in Nat /\ ~ (n <= n - 1)
      BY <2>3, <3>1
    <3>3. QED BY <2>2, <3>2
  <2>5. PICK f : Is(f, n - 1)
    BY <2>4
  <2> DEFINE g == [i \in 0 .. n |-> IF i < n THEN f[i] ELSE TakeNewer(f[i - 1], walk[i])]
  <2>6. Is(g, n)
    <3>1. ASSUME NEW i \in 0 .. n
          PROVE  g[i] = IF i = 0 THEN clusterVersion ELSE TakeNewer(g[i - 1], walk[i])
      <4>1. CASE i = n
        <5>1. g[i] = TakeNewer(f[i - 1], walk[i]) /\ g[i - 1] = f[i - 1]
          BY <2>2, <2>3, <4>1
        <5>2. QED BY <2>3, <4>1, <5>1
      <4>2. CASE i < n
        <5>1. i \in 0 .. n - 1
          BY <2>4, <3>1, <4>2
        <5>2. f[i] = IF i = 0 THEN clusterVersion ELSE TakeNewer(f[i - 1], walk[i])
          BY <2>5, <5>1
        <5>3. g[i] = f[i] /\ (i # 0 => g[i - 1] = f[i - 1])
          BY <2>2, <3>1, <4>2
        <5>4. QED BY <5>2, <5>3
      <4>3. QED BY <2>2, <3>1, <4>1, <4>2
    <3>2. g = [i \in 0 .. n |-> g[i]]
      OBVIOUS
    <3> HIDE DEF g
    <3>3. QED BY <3>1, <3>2
  <2>7. QED BY <2>2, <2>6
<1>2. \E f : Is(f, Len(walk))
  <2> HIDE DEF Is
  <2>1. Len(walk) \in Nat
    OBVIOUS
  <2>2. QED BY <1>1, <2>1
<1> DEFINE after[n \in 0 .. Len(walk)] ==
             IF n = 0 THEN clusterVersion ELSE TakeNewer(after[n - 1], walk[n])
<1>3. WalkedTo(walk) = after[Len(walk)]
  BY DEF WalkedTo
<1>4. Is(after, Len(walk))
  BY <1>2, Zenon
<1> HIDE DEF after
<1>5. after[0] = clusterVersion
  BY <1>4
<1>6. \A i \in 1 .. Len(walk) : after[i] = TakeNewer(after[i - 1], walk[i])
  BY <1>4
<1>7. QED BY <1>3, <1>5, <1>6

\* Of two versions, neither of which is a nightly unless both are, the newer is taken;
\* a nightly is never left for what is none unless that is newer.
LEMMA Taken ==
  ASSUME NEW newest \in Version, NEW v \in Version
  PROVE  LET taken == TakeNewer(newest, v)
         IN  /\ taken \in {newest, v}
             /\ ~Less(taken, v)
             /\ Less(newest, taken) \/ taken = newest \/ (Nightly(v) /\ ~Nightly(newest))
             /\ Nightly(v) => Nightly(taken)
<1>1. CASE (Nightly(v) /\ ~Nightly(newest)) \/ Less(newest, v)
  <2>1. TakeNewer(newest, v) = v
    BY <1>1 DEF TakeNewer
  <2>2. ~Less(v, v)
    BY LessOrders
  <2>3. QED BY <1>1, <2>1, <2>2, Zenon
<1>2. CASE ~ ((Nightly(v) /\ ~Nightly(newest)) \/ Less(newest, v))
  <2>1. TakeNewer(newest, v) = newest
    BY <1>2 DEF TakeNewer
  <2>2. QED BY <1>2, <2>1, Zenon
<1>3. QED BY <1>1, <1>2

\* Where a walk ends: at a newer version or where it began, unless it met both nightlies
\* and others; and at the newest of what it met, if that was of one kind.
LEMMA WalkEnds ==
  ASSUME clusterVersion \in Version, NEW walk \in Seq(Version)
  PROVE  LET end == WalkedTo(walk)
             met == ToSet(walk)
         IN  /\ end \in met \cup {clusterVersion}
             /\ \/ end = clusterVersion
                \/ Less(clusterVersion, end)
                \/ \E u, w \in met \cup {clusterVersion} : Nightly(u) /\ ~Nightly(w)
             /\ (\A u, w \in met : Nightly(u) => Nightly(w)) =>
                  \A u \in met : ~Less(end, u)
<1> DEFINE cv == clusterVersion
           n == Len(walk)
           met == ToSet(walk)
           mixed == \E u, w \in met \cup {cv} : Nightly(u) /\ ~Nightly(w)
           alike == \A u, w \in met : Nightly(u) => Nightly(w)
<1>1. PICK f : /\ f[0] = cv
               /\ \A i \in 1 .. n : f[i] = TakeNewer(f[i - 1], walk[i])
               /\ WalkedTo(walk) = f[n]
  BY Walked
<1>2. /\ n \in Nat /\ met = {walk[i] : i \in 1 .. n}
      /\ \A i \in 1 .. n : walk[i] \in Version /\ walk[i] \in met
  BY DEF ToSet
<1> DEFINE Ends(k) == /\ f[k] \in met \cup {cv} /\ f[k] \in Version
                      /\ f[k] = cv \/ Less(cv, f[k]) \/ mixed
                      /\ alike => \A j \in 1 .. k : /\ ~Less(f[k], walk[j])
                                                    /\ Nightly(walk[j]) => Nightly(f[k])
           Bad == {k \in 0 .. n : ~Ends(k)}
<1> HIDE DEF met, n
<1>3. Ends(0)
  BY <1>1
<1>4. ASSUME NEW k \in 1 .. n, Ends(k - 1) PROVE Ends(k)
  <2> DEFINE old == f[k - 1]
             v == walk[k]
             new == f[k]
  <2>1. /\ new = TakeNewer(old, v) /\ v \in Version /\ v \in met
        /\ old \in met \cup {cv} /\ old \in Version
    BY <1>1, <1>2, <1>4
  <2>2. old = cv \/ Less(cv, old) \/ mixed
    BY <1>4
  <2>3. ASSUME alike
        PROVE  \A j \in 1 .. k - 1 : ~Less(old, walk[j]) /\ (Nightly(walk[j]) => Nightly(old))
    BY <1>4, <2>3
  <2> HIDE DEF old, v, new, mixed, alike, cv
  <2>4. /\ new \in {old, v}
        /\ ~Less(new, v)
        /\ Less(old, new) \/ new = old \/ (Nightly(v) /\ ~Nightly(old))
        /\ Nightly(v) => Nightly(new)
    BY <2>1, Taken
  <2>5. new \in met \cup {cv} /\ new \in Version
    BY <2>1, <2>4
  <2>6. new = cv \/ Less(cv, new) \/ mixed
    <3>1. CASE Nightly(v) /\ ~Nightly(old)
      <4>1. v \in met \cup {cv} /\ old \in met \cup {cv}
        BY <2>1
      <4>2. mixed
        BY <3>1, <4>1, Zenon DEF mixed
      <4>3. QED BY <4>2
    <3>2. CASE new = old
      BY <2>2, <3>2
    <3>3. CASE Less(old, new)
      <4>1. cv \in Version
        BY DEF cv
      <4>2. CASE Less(cv, old)
        BY <2>1, <2>5, <3>3, <4>1, <4>2, LessOrders
      <4>3. CASE old = cv
        BY <3>3, <4>3
      <4>4. QED BY <2>2, <4>2, <4>3
    <3>4. QED BY <2>4, <3>1, <3>2, <3>3
  <2>7. ASSUME alike, NEW j \in 1 .. k
        PROVE  ~Less(new, walk[j]) /\ (Nightly(walk[j]) => Nightly(new))
    <3>1. CASE j = k
      BY <2>4, <3>1 DEF v
    <3>2. CASE j # k
      <4>1. j \in 1 .. k - 1 /\ j \in 1 .. n
        BY <1>2, <3>2
      <4>2. ~Less(old, walk[j]) /\ (Nightly(walk[j]) => Nightly(old))
        BY <2>3, <2>7, <4>1
      <4>3. walk[j] \in Version /\ walk[j] \in met
        BY <1>2, <4>1
      <4>4. Nightly(walk[j]) => Nightly(v)
        BY <2>1, <2>7, <4>3, Zenon DEF alike
      <4>5. Nightly(walk[j]) => Nightly(new)
        BY <2>4, <4>4, Zenon
      <4>6. ~(Nightly(v) /\ ~Nightly(old))
        <5>1. Nightly(v) => Nightly(walk[j])
          BY <2>1, <2>7, <4>3, Zenon DEF alike
        <5>2. QED BY <4>2, <5>1, Zenon
      <4>7. Less(new, walk[j]) => Less(old, walk[j])
        <5>1. Less(old, new) \/ new = old
          BY <2>4, <4>6, Zenon
        <5>2. Less(old, new) /\ Less(new, walk[j]) => Less(old, walk[j])
          BY <2>1, <2>5, <4>3, LessOrders
        <5>3. QED BY <5>1, <5>2
      <4>8. QED BY <4>2, <4>5, <4>7, Zenon
    <3>3. QED BY <3>1, <3>2
  <2>8. QED BY <2>5, <2>6, <2>7 DEF new
<1>5. Ends(n)
  <2> HIDE DEF Ends
  <2>1. Bad = {}
    <3>1. SUFFICES ASSUME Bad # {} PROVE FALSE
      OBVIOUS
    <3>2. Bad \in SUBSET Nat
      BY <1>2
    <3>3. PICK k \in Bad : \A m \in Bad : k <= m
      <4> HIDE DEF Bad
      <4> QED BY <3>1, <3>2, LeastOf
    <3>4. k \in 0 .. n /\ ~Ends(k)
      OBVIOUS
    <3>5. k # 0
      BY <1>3, <3>4
    <3>6. k \in 1 .. n /\ k - 1 \in 0 .. n /\ ~ (k <= k - 1)
      BY <1>2, <3>4, <3>5
    <3>7. k - 1 \notin Bad
      <4> HIDE DEF Bad
      <4> QED BY <3>3, <3>6
    <3>8. Ends(k - 1)
      BY <3>6, <3>7
    <3>9. QED BY <1>4, <3>4, <3>6, <3>8
  <2>2. n \in 0 .. n
    BY <1>2
  <2>3. QED BY <2>1, <2>2
<1>6. alike => \A u \in met : ~Less(f[n], u)
  BY <1>2, <1>5
<1> HIDE DEF mixed, alike
<1>7. /\ f[n] \in met \cup {cv}
      /\ f[n] = cv \/ Less(cv, f[n]) \/ mixed
  BY <1>5
<1> USE DEF mixed, alike, met
<1>8. QED BY <1>1, <1>6, <1>7, Zenon

\* What is said of a version that is upgraded to.
Follows(v) ==
  /\ v \in Edges
  /\ \/ Less(clusterVersion, v)
     \/ request.upgradeTo = {"z"} /\ \E u, w \in Edges \cup {clusterVersion} :
                                       Nightly(u) /\ ~Nightly(w)
  /\ Cardinality({Nightly(u) : u \in Edges}) = 1 => \A u \in Edges : ~Less(v, u)

\* An upgrade is only selected once the version and the list are settled.
UpgradeInv ==
  /\ request \in Requests
  /\ clusterVersion \in Version \cup {None}
  /\ list \in Seq(UNION Catalogues)
  /\ stage \in {"poll", "upgrade"} => upgrade = None
  /\ upgrade # None => Follows(upgrade)

\* Edges are of one kind if they are nightlies all or none of them is.
LEMMA OneKind ==
  ASSUME NEW E, Cardinality({Nightly(u) : u \in E}) = 1
  PROVE  \A u, w \in E : Nightly(u) => Nightly(w)
<1> DEFINE K == {Nightly(u) : u \in E}
<1>1. \A u \in E : Nightly(u) \in BOOLEAN
  BY DEF Nightly
<1>2. IsFiniteSet(K)
  <2>1. K \in SUBSET {TRUE, FALSE}
    BY <1>1
  <2>2. IsFiniteSet({TRUE, FALSE})
    <3>1. IsFiniteSet({TRUE}) /\ IsFiniteSet({FALSE})
      BY FS_Singleton
    <3>2. IsFiniteSet({TRUE} \cup {FALSE})
      BY <3>1, FS_Union
    <3>3. {TRUE, FALSE} = {TRUE} \cup {FALSE}
      OBVIOUS
    <3>4. QED BY <3>2, <3>3
  <2>3. QED BY <2>1, <2>2, FS_Subset
<1>3. PICK b : K = {b}
  <2> HIDE DEF K
  <2>1. Cardinality(K) = 1
    BY DEF K
  <2>2. QED BY <1>2, <2>1, FS_Singleton
<1>4. \A u \in E : Nightly(u) = b
  BY <1>3
<1>5. QED BY <1>4, Zenon

\* What SetUpgradeVersion selects is as it should be.
LEMMA SelectedFollows ==
  ASSUME clusterVersion \in Version, list \in Seq(UNION Catalogues),
         NEW walk \in Walks, Found(WalkedTo(walk))
  PROVE  Follows(WalkedTo(walk))
<1> DEFINE end == WalkedTo(walk)
<1>1. walk \in Seq(Version) /\ ToSet(walk) = Edges
  BY WalkOverEdges
<1>2. /\ end \in Edges \cup {clusterVersion}
      /\ \/ end = clusterVersion
         \/ Less(clusterVersion, end)
         \/ \E u, w \in Edges \cup {clusterVersion} : Nightly(u) /\ ~Nightly(w)
      /\ (\A u, w \in Edges : Nightly(u) => Nightly(w)) => \A u \in Edges : ~Less(end, u)
  BY <1>1, WalkEnds
<1> HIDE DEF end
<1>3. end # clusterVersion /\ (request.upgradeTo # {"z"} => Less(clusterVersion, end))
  <2>1. IF request.upgradeTo = {"z"} THEN end # clusterVersion ELSE Less(clusterVersion, end)
    BY DEF Found, end
  <2>2. ~Less(clusterVersion, clusterVersion)
    BY LessOrders
  <2>3. QED BY <2>1, <2>2
<1>4. end \in Edges
  BY <1>2, <1>3
<1>5. \/ Less(clusterVersion, end)
      \/ request.upgradeTo = {"z"} /\ \E u, w \in Edges \cup {clusterVersion} :
                                        Nightly(u) /\ ~Nightly(w)
  BY <1>2, <1>3, Zenon
<1>6. Cardinality({Nightly(u) : u \in Edges}) = 1 => \A u \in Edges : ~Less(end, u)
  BY <1>2, OneKind
<1>7. QED BY <1>4, <1>5, <1>6 DEF Follows, end

\* The edges only change with the options, the version and the list.
LEMMA FollowsKept ==
  ASSUME UNCHANGED <<request, list, clusterVersion>>, NEW v
  PROVE  Edges' = Edges /\ Follows(v)' = Follows(v)
<1>1. Edges' = Edges
  BY DEF Edges, FindVersion, EligibleEdges, Eligible
<1>2. QED BY <1>1 DEF Follows

\* What a poll leaves is a version or none, and a list of listed entries.
LEMMA PollListed ==
  ASSUME UpgradeInv, PollVersions
  PROVE  /\ clusterVersion' \in Version \cup {None}
         /\ list' \in Seq(UNION Catalogues)
<1>0. PICK catalogue \in Catalogues : \E l \in Versions(catalogue) :
         LET answer == SelectVersion(l)
             version == IF answer.version = None THEN None ELSE Suffixed(answer.version)
         IN  /\ list' = answer.list
             /\ clusterVersion' = version
  BY DEF PollVersions
<1>1. PICK l \in Versions(catalogue) :
         LET answer == SelectVersion(l)
             version == IF answer.version = None THEN None ELSE Suffixed(answer.version)
         IN  /\ list' = answer.list
             /\ clusterVersion' = version
  BY <1>0
<1>2. PICK S \in SUBSET catalogue : Listing(S) /\ Enumerates(l, S)
  BY ProviderLists
<1> DEFINE answer == SelectVersion(l)
<1>3. Chosen(answer, l, S)
  BY <1>2, SelectedChosen DEF UpgradeInv
<1>4. list' = answer.list
      /\ clusterVersion' = IF answer.version = None THEN None ELSE Suffixed(answer.version)
  BY <1>1
<1> HIDE DEF answer
<1>5. list' \in Seq(S) /\ S \in SUBSET UNION Catalogues
  BY <1>3, <1>4, Enumerated DEF Chosen
<1>6. list' \in Seq(UNION Catalogues)
  BY <1>5
<1>7. \A w \in Version : Suffixed(w) \in Version
  BY DEF Suffixed, Version, Bare, Candidate
<1>8. answer.version # None => answer.version \in Version
  BY <1>2, <1>3 DEF Chosen, Listing, Entry
<1>9. QED BY <1>4, <1>6, <1>7, <1>8

\* The walk over the map is all that selects an upgrade.
LEMMA UpgradeInvStep == UpgradeInv /\ [SelectionNext]_selectionVars => UpgradeInv'
<1> SUFFICES ASSUME UpgradeInv, [SelectionNext]_selectionVars PROVE UpgradeInv'
  OBVIOUS
<1>1. ASSUME UNCHANGED <<request, list, clusterVersion, upgrade>>,
             stage' \in {"poll", "upgrade"} => stage \in {"poll", "upgrade"}
      PROVE  UpgradeInv'
  <2>1. PICK v : v = upgrade
    OBVIOUS
  <2>2. Follows(v)' = Follows(v)
    BY <1>1, FollowsKept
  <2>3. v # None => Follows(v)
    BY <2>1 DEF UpgradeInv
  <2>4. Follows(upgrade)' = Follows(v)'
    BY <1>1, <2>1 DEF Follows
  <2>5. upgrade' # None => Follows(upgrade)'
    BY <1>1, <2>1, <2>2, <2>3, <2>4
  <2>6. QED BY <1>1, <2>5 DEF UpgradeInv
<1>2. CASE UNCHANGED selectionVars
  BY <1>1, <1>2 DEF selectionVars
<1>3. CASE PollFails
  BY <1>1, <1>3 DEF PollFails, Fails
<1>4. CASE UserSupplied
  <2>1. PICK catalogue \in Catalogues : list' \in Versions(catalogue)
    BY <1>4 DEF UserSupplied
  <2>2. PICK l : l = list'
    OBVIOUS
  <2>3. PICK S \in SUBSET catalogue : Listing(S) /\ Enumerates(l, S)
    BY <2>1, <2>2, ProviderLists
  <2>4. l \in Seq(S)
    BY <2>3, Enumerated
  <2>5. list' \in Seq(UNION Catalogues)
    BY <2>2, <2>4
  <2>6. /\ UNCHANGED <<request, upgrade>> /\ upgrade = None
        /\ clusterVersion' \in Version \cup {None}
    BY <1>4, RequestAssumption DEF UserSupplied, UpgradeInv
  <2>7. QED BY <2>5, <2>6 DEF UpgradeInv
<1>5. CASE PollVersions
  <2>1. UNCHANGED <<request, upgrade>> /\ upgrade = None
    BY <1>5 DEF PollVersions, UpgradeInv
  <2>2. clusterVersion' \in Version \cup {None} /\ list' \in Seq(UNION Catalogues)
    BY <1>5, PollListed
  <2>3. QED BY <2>1, <2>2 DEF UpgradeInv
<1>6. CASE SkipUpgrade
  BY <1>1, <1>6 DEF SkipUpgrade
<1>7. CASE SetUpgradeVersion
  <2>1. /\ clusterVersion \in Version /\ list \in Seq(UNION Catalogues)
        /\ UNCHANGED <<request, list, clusterVersion>>
    BY <1>7 DEF SetUpgradeVersion, UpgradeInv
  <2>2. PICK walk \in Walks :
           LET newest == WalkedTo(walk)
           IN  IF Found(newest)
               THEN upgrade' = newest /\ stage' = "judge" /\ UNCHANGED verdict
               ELSE Fails /\ UNCHANGED upgrade
    BY <1>7 DEF SetUpgradeVersion
  <2>3. CASE Found(WalkedTo(walk))
    <3>1. PICK v : v = WalkedTo(walk)
      OBVIOUS
    <3>2. Follows(v)
      BY <2>1, <2>3, <3>1, SelectedFollows
    <3>3. Follows(v)' = Follows(v)
      BY <2>1, FollowsKept
    <3>4. upgrade' = v /\ stage' = "judge"
      BY <2>2, <2>3, <3>1
    <3>5. Follows(upgrade)' = Follows(v)'
      BY <3>4 DEF Follows
    <3>6. QED BY <2>1, <3>2, <3>3, <3>4, <3>5 DEF UpgradeInv
  <2>4. CASE ~Found(WalkedTo(walk))
    <3>1. UNCHANGED upgrade /\ stage' = "done"
      BY <2>2, <2>4 DEF Fails
    <3>2. QED BY <1>1, <2>1, <3>1
  <2>5. QED BY <2>3, <2>4
<1>8. CASE Judge
  BY <1>1, <1>8 DEF Judge
<1>9. QED BY <1>2, <1>3, <1>4, <1>5, <1>6, <1>7, <1>8 DEF SelectionNext

\* For all catalogues and options, and whatever the order in which Go walks the map:
\* an upgrade that was selected is an edge from a listed build of the version that is
\* installed, to a newer version unless the latest Z met nightlies and others, and the
\* newest such edge of those of one kind.
THEOREM UpgradesFollow == SelectionSpec => []UpgradeFollowsAnEdge
<1>1. SelectionInit => UpgradeInv
  BY DEF SelectionInit, UpgradeInv
<1>2. UpgradeInv => UpgradeFollowsAnEdge
  BY DEF UpgradeInv, UpgradeFollowsAnEdge, Follows
<1>3. QED BY <1>1, <1>2, UpgradeInvStep, PTL DEF SelectionSpec

-----------------------------------------------------------------------------
(* The managed upgrade: types.                                            *)

\* What the run or the operator asks for is an UpgradeConfig.
LEMMA RequestedTyped ==
  ASSUME NEW due \in Dues, NEW quick \in BOOLEAN
  PROVE  /\ Requested(due, quick) \in UpgradeConfig
         /\ Requested(due, quick).phase = "new" /\ Requested(due, quick).ours
         /\ Requested(due, quick) # NoConfig
  BY DEF Requested, UpgradeConfig, Phases, NoConfig

\* The UpgradeConfig that an earlier upgrade has left is one.
LEMMA ReusedTyped ==
  ASSUME NEW old, old = [Requested("soon", FALSE) EXCEPT !.phase = "Upgraded", !.ours = FALSE]
  PROVE  old \in UpgradeConfig /\ old.phase = "Upgraded" /\ ~old.ours
  BY DEF Requested, UpgradeConfig, Phases, Dues

\* An UpgradeConfig with a phase is one, and not the lack of one.
LEMMA PhasedTyped ==
  ASSUME uc \in UpgradeConfig \cup {NoConfig}, uc.phase # "absent"
  PROVE  uc \in UpgradeConfig /\ uc # NoConfig
<1>1. NoConfig.phase = "absent"
  BY DEF NoConfig
<1> QED
  BY <1>1

\* Putting it off or taking it on leaves it an UpgradeConfig and the rest of it alone.
LEMMA AmendedTyped ==
  ASSUME uc \in UpgradeConfig
  PROVE  /\ \A due \in Dues :
              LET new == [uc EXCEPT !.due = due]
              IN  new \in UpgradeConfig /\ new.phase = uc.phase /\ new.ours = uc.ours
         /\ \A phase \in Phases :
              LET new == [uc EXCEPT !.phase = phase]
              IN  new \in UpgradeConfig /\ new.phase = phase /\ new.ours = uc.ours
  BY DEF UpgradeConfig

\* A stutter keeps the types.
LEMMA StutterTyped == TypeOK /\ UNCHANGED vars => TypeOK'
  BY Zenon DEF vars, TypeOK

\* The variables of an upgrade keep their types, whatever the operator, OCM and
\* Hive do to the objects they share with the run.
LEMMA StepTyped == TypeOK /\ [Next]_vars => TypeOK'
<1> SUFFICES ASSUME TypeOK, [Next]_vars PROVE TypeOK'
  OBVIOUS
<1> USE DEF cluster, ocm, Fail, Succeed, Goto
<1>1. ASSUME NEW w \in Workloads, ApplyWorkload(w) PROVE TypeOK'
  BY <1>1 DEF ApplyWorkload, TypeOK
<1>2. CASE WorkloadUp
  BY <1>2 DEF WorkloadUp, TypeOK
<1>3. CASE OverrideConfig
  BY <1>3 DEF OverrideConfig, Override, TypeOK
<1>4. CASE Gate
  <2>1. /\ UNCHANGED <<conf, applied, known, opconfig, replicas, uc, upgraded, policy>>
        /\ gate' \in {gate, "agreed", "not found"}
        /\ \/ pc' = "request" /\ outcome' = outcome
           \/ pc' = "done" /\ outcome' = "error"
    BY <1>4 DEF Gate
  <2> QED
    BY <2>1 DEF TypeOK
<1>5. CASE RequestFromOCM
  BY <1>5 DEF RequestFromOCM, TypeOK, Dues
<1>6. CASE RequestLocally
  <2>1. Requested("soon", TRUE) \in UpgradeConfig
    BY RequestedTyped DEF Dues
  <2>2. /\ uc' \in {uc, Requested("soon", TRUE)}
        /\ UNCHANGED <<conf, applied, known, opconfig, replicas, upgraded, gate, policy>>
        /\ \/ pc' = "restart" /\ outcome' = outcome
           \/ pc' = "done" /\ outcome' = "error"
    BY <1>6 DEF RequestLocally
  <2> QED
    BY <2>1, <2>2 DEF TypeOK
<1>7. CASE ScaleDown
  BY <1>7 DEF ScaleDown, TypeOK
<1>8. CASE ScaleUp
  BY <1>8 DEF ScaleUp, TypeOK
<1>9. CASE AwaitConfig
  BY <1>9 DEF AwaitConfig, TypeOK
<1>10. CASE Reschedule
  BY <1>10 DEF Reschedule, TypeOK, Dues
<1>11. CASE Observe
  BY <1>11 DEF Observe, TypeOK
<1>12. CASE Poll
  <2>1. uc' \in UpgradeConfig \cup {NoConfig}
    BY <1>12 DEF Poll, TypeOK, UpgradeConfig
  <2>2. /\ opconfig' \in {opconfig, "e2e"}
        /\ UNCHANGED <<conf, applied, known, replicas, gate, policy, upgraded>>
        /\ \/ pc' \in {"poll", "policy", "ready"} /\ outcome' = outcome
           \/ pc' = "done" /\ outcome' = "error"
    BY <1>12 DEF Poll
  <2> QED
    BY <2>1, <2>2 DEF TypeOK
<1>13. CASE CheckPolicy
  BY <1>13 DEF CheckPolicy, TypeOK
<1>14. CASE Ready
  BY <1>14 DEF Ready, TypeOK
<1>15. CASE TimeOut
  BY <1>15 DEF TimeOut, RestartTimesOut, PollTimesOut, TypeOK
<1>16. CASE Sync
  <2>1. uc' \in UpgradeConfig \cup {NoConfig}
    <3>1. CASE policy # "none" /\ uc' = Requested(policy, FALSE)
      BY <3>1, RequestedTyped DEF TypeOK
    <3>2. CASE /\ policy # "none" /\ uc.phase \in {"new", "Pending"}
               /\ uc' = [uc EXCEPT !.due = policy]
      <4>1. uc \in UpgradeConfig /\ policy \in Dues
        BY <3>2, PhasedTyped DEF TypeOK
      <4> QED
        BY <3>2, <4>1, AmendedTyped
    <3>3. CASE uc' = NoConfig
      BY <3>3
    <3> QED
      BY <1>16, <3>1, <3>2, <3>3 DEF Sync
  <2> QED
    BY <1>16, <2>1 DEF Sync, TypeOK
<1>17. CASE Advance
  <2>1. PICK phase \in Phases :
          /\ uc.phase \in {"new", "Pending", "Upgrading"}
          /\ uc' = [uc EXCEPT !.phase = phase]
          /\ upgraded' = (upgraded \/ (uc.ours /\ phase = "Upgraded"))
    BY <1>17 DEF Advance
  <2>2. uc \in UpgradeConfig
    BY <2>1, PhasedTyped DEF TypeOK
  <2>3. uc' \in UpgradeConfig /\ upgraded' \in BOOLEAN
    BY <2>1, <2>2, AmendedTyped DEF TypeOK
  <2> QED
    BY <1>17, <2>3 DEF Advance, TypeOK
<1>18. CASE PolicyEnds
  BY <1>18 DEF PolicyEnds, TypeOK
<1>19. CASE Hive
  BY <1>19 DEF Hive, TypeOK
<1>20. CASE UNCHANGED vars
  BY <1>20, StutterTyped
<1> QED
  BY <1>1, <1>2, <1>3, <1>4, <1>5, <1>6, <1>7, <1>8, <1>9, <1>10, <1>11, <1>12,
     <1>13, <1>14, <1>15, <1>16, <1>17, <1>18, <1>19, <1>20 DEF Next, Run, Others

\* The types hold at the start: whatever the configuration, and of a cluster that
\* was upgraded before, too.
LEMMA InitTyped == Init => TypeOK
<1> SUFFICES ASSUME Init PROVE TypeOK
  OBVIOUS
<1>1. uc \in UpgradeConfig \cup {NoConfig}
  BY ReusedTyped DEF Init
<1> QED
  BY <1>1 DEF Init, TypeOK

\* The variables of RunUpgrade, of the operator and of OCM keep their types.
THEOREM TypeCorrect == Spec => []TypeOK
  BY InitTyped, StepTyped, PTL DEF Spec

-----------------------------------------------------------------------------
(* The operator.                                                           *)

\* From the end of restartOperator to the end of the run nothing scales the
\* operator down again, so the run never waits for one that is not there.
THEOREM OperatorWatched == Spec => []OperatorRunsWhileWatched
<1>1. Init => OperatorRunsWhileWatched
  BY DEF Init, OperatorRunsWhileWatched
<1>2. OperatorRunsWhileWatched /\ [Next]_vars => OperatorRunsWhileWatched'
  <2> SUFFICES ASSUME OperatorRunsWhileWatched, [Next]_vars
               PROVE  OperatorRunsWhileWatched'
    OBVIOUS
  <2> USE DEF cluster, ocm, Fail, Succeed, Goto, OperatorRunsWhileWatched
  <2>1. CASE \/ \E w \in Workloads : ApplyWorkload(w)
             \/ WorkloadUp \/ OverrideConfig \/ Gate \/ RequestFromOCM \/ RequestLocally
    BY <2>1 DEF ApplyWorkload, WorkloadUp, OverrideConfig, Gate, RequestFromOCM,
                RequestLocally
  <2>2. CASE ScaleDown
    BY <2>2 DEF ScaleDown
  <2>3. CASE ScaleUp
    BY <2>3 DEF ScaleUp
  <2>4. CASE AwaitConfig \/ Reschedule \/ Observe \/ CheckPolicy \/ Ready \/ TimeOut
    BY <2>4 DEF AwaitConfig, Reschedule, Observe, CheckPolicy, Ready, TimeOut,
                RestartTimesOut, PollTimesOut
  <2>5. CASE Poll
    BY <2>5 DEF Poll
  <2>6. CASE Others
    BY <2>6 DEF Others, Sync, Advance, PolicyEnds, Hive
  <2>7. CASE UNCHANGED vars
    BY <2>7 DEF vars
  <2> QED
    BY <2>1, <2>2, <2>3, <2>4, <2>5, <2>6, <2>7 DEF Next, Run
<1> QED
  BY <1>1, <1>2, PTL DEF Spec

-----------------------------------------------------------------------------
(* The test load.                                                          *)

LoadUp == conf.wanted \subseteq known
GateDone == conf.yStream => gate # "none"
Prepared == LoadUp /\ GateDone

\* The inductive invariant: the preparations are complete from the step on that
\* asks for the upgrade, and wherever a request of the run's can be found, at OCM
\* or on the cluster.
LoadInv ==
  /\ pc \notin {"workloads", "done"} => LoadUp
  /\ pc \notin {"workloads", "schedule", "done"} => GateDone
  /\ policy # "none" => Prepared
  /\ uc.ours => Prepared

\* No upgrade that the run asks for commences before the workloads are up and the
\* gate is dealt with, on whichever path the request reaches the operator.
THEOREM LoadInPlace == Spec => []TestLoadInPlace
<1>1. Init => LoadInv
  <2> SUFFICES ASSUME Init PROVE LoadInv
    OBVIOUS
  <2>1. uc.ours = FALSE
    BY ReusedTyped DEF Init, NoConfig
  <2> QED
    BY <2>1 DEF Init, LoadInv
<1>2. TypeOK /\ TypeOK' /\ LoadInv /\ [Next]_vars => LoadInv'
  <2> SUFFICES ASSUME TypeOK, TypeOK', LoadInv, [Next]_vars PROVE LoadInv'
    OBVIOUS
  <2> USE DEF cluster, ocm, Fail, Succeed, Goto, LoadUp, GateDone, Prepared
  <2>1. ASSUME NEW w \in Workloads, ApplyWorkload(w) PROVE LoadInv'
    BY <2>1 DEF ApplyWorkload, LoadInv
  <2>2. CASE WorkloadUp
    <3>1. known \subseteq known' /\ UNCHANGED <<conf, gate, policy, uc>>
      BY <2>2 DEF WorkloadUp, TypeOK
    <3>2. pc' \in {"workloads", "done"}
      BY <2>2 DEF WorkloadUp
    <3> QED
      BY <3>1, <3>2 DEF LoadInv
  <2>3. CASE OverrideConfig
    BY <2>3 DEF OverrideConfig, LoadInv
  <2>4. CASE Gate
    <3>1. /\ UNCHANGED <<conf, known, policy, uc>> /\ LoadUp
          /\ gate # "none" => gate' # "none"
          /\ \/ pc' = "request" /\ (conf.yStream => gate' # "none")
             \/ pc' = "done"
      BY <2>4 DEF Gate, LoadInv
    <3> QED
      BY <3>1 DEF LoadInv
  <2>5. CASE RequestFromOCM
    BY <2>5 DEF RequestFromOCM, LoadInv
  <2>6. CASE RequestLocally
    <3>1. Prepared
      BY <2>6 DEF RequestLocally, LoadInv
    <3>2. UNCHANGED <<conf, known, gate>>
      BY <2>6 DEF RequestLocally
    <3> QED
      BY <3>1, <3>2 DEF LoadInv
  <2>7. CASE ScaleDown \/ ScaleUp \/ AwaitConfig \/ Observe \/ CheckPolicy \/ Ready
    BY <2>7 DEF ScaleDown, ScaleUp, AwaitConfig, Observe, CheckPolicy, Ready, LoadInv
  <2>8. CASE Reschedule
    BY <2>8 DEF Reschedule, LoadInv
  <2>9. CASE Poll
    <3>1. uc'.ours = uc.ours
      BY <2>9 DEF Poll, TypeOK, UpgradeConfig
    <3>2. UNCHANGED <<conf, known, gate, policy>>
      BY <2>9 DEF Poll
    <3>3. pc' \in {"poll", "policy", "ready", "done"} /\ pc = "poll"
      BY <2>9 DEF Poll
    <3> QED
      BY <3>1, <3>2, <3>3 DEF LoadInv
  <2>10. CASE TimeOut
    BY <2>10 DEF TimeOut, RestartTimesOut, PollTimesOut, LoadInv
  <2>11. CASE Sync
    <3>1. uc'.ours => Prepared
      <4>1. CASE policy # "none"
        BY <4>1 DEF LoadInv
      <4>2. CASE policy = "none"
        BY <2>11, <4>2 DEF Sync, NoConfig
      <4> QED
        BY <4>1, <4>2
    <3> QED
      BY <2>11, <3>1 DEF Sync, LoadInv
  <2>12. CASE Advance
    <3>1. uc'.ours = uc.ours
      BY <2>12 DEF Advance, TypeOK, UpgradeConfig, NoConfig
    <3> QED
      BY <2>12, <3>1 DEF Advance, LoadInv
  <2>13. CASE PolicyEnds \/ Hive
    BY <2>13 DEF PolicyEnds, Hive, LoadInv
  <2>14. CASE UNCHANGED vars
    BY <2>14 DEF vars, LoadInv
  <2> QED
    BY <2>1, <2>2, <2>3, <2>4, <2>5, <2>6, <2>7, <2>8, <2>9, <2>10, <2>11, <2>12,
       <2>13, <2>14 DEF Next, Run, Others
<1>3. LoadInv => TestLoadInPlace
  BY DEF LoadInv, TestLoadInPlace, Prepared, LoadUp, GateDone
<1> QED
  BY <1>1, <1>2, <1>3, TypeCorrect, PTL DEF Spec

-----------------------------------------------------------------------------
(* Success.                                                                *)

Excused == upgraded \/ conf.reused

\* The inductive invariant: a completed UpgradeConfig on the cluster is of an
\* upgrade that the operator completed, unless the cluster had one before; one
\* that nobody of this run asked for is only found on such a cluster; and the run
\* looks for a triggered upgrade only when it has put it off.
UpgradedInv ==
  /\ uc.phase = "Upgraded" => Excused
  /\ uc # NoConfig /\ ~uc.ours => conf.reused
  /\ pc = "ready" => Excused
  /\ pc \in {"reschedule", "observe"} => conf.rescheduled
  /\ outcome = "ok" => Excused \/ conf.rescheduled

\* RunUpgrade succeeds only when the operator has completed the upgrade that was
\* asked for, or the cluster had been upgraded before, or the upgrade was put off.
THEOREM SuccessUpgraded == Spec => []SuccessMeansUpgraded
<1>1. Init => UpgradedInv
  <2> SUFFICES ASSUME Init PROVE UpgradedInv
    OBVIOUS
  <2>1. conf.reused \/ uc = NoConfig
    BY DEF Init
  <2> QED
    BY <2>1 DEF Init, UpgradedInv, Excused, NoConfig
<1>2. TypeOK /\ TypeOK' /\ UpgradedInv /\ [Next]_vars => UpgradedInv'
  <2> SUFFICES ASSUME TypeOK, TypeOK', UpgradedInv, [Next]_vars PROVE UpgradedInv'
    OBVIOUS
  <2> USE DEF cluster, ocm, Fail, Succeed, Goto, Excused
  <2>1. CASE \/ \E w \in Workloads : ApplyWorkload(w)
             \/ WorkloadUp \/ OverrideConfig
    BY <2>1 DEF ApplyWorkload, WorkloadUp, OverrideConfig, UpgradedInv
  <2>2. CASE Gate
    BY <2>2 DEF Gate, UpgradedInv
  <2>3. CASE RequestFromOCM
    BY <2>3 DEF RequestFromOCM, UpgradedInv
  <2>4. CASE RequestLocally
    <3>1. /\ Requested("soon", TRUE).phase = "new"
          /\ Requested("soon", TRUE).ours
      BY RequestedTyped DEF Dues
    <3>2. /\ uc' \in {uc, Requested("soon", TRUE)}
          /\ UNCHANGED <<conf, upgraded>>
          /\ pc' \in {"restart", "done"} /\ outcome' \in {outcome, "error"}
      BY <2>4 DEF RequestLocally
    <3> QED
      BY <3>1, <3>2 DEF UpgradedInv
  <2>5. CASE ScaleDown \/ ScaleUp \/ CheckPolicy
    BY <2>5 DEF ScaleDown, ScaleUp, CheckPolicy, UpgradedInv
  <2>6. CASE AwaitConfig
    BY <2>6 DEF AwaitConfig, UpgradedInv
  <2>7. CASE Reschedule
    BY <2>7 DEF Reschedule, UpgradedInv
  <2>8. CASE Observe \/ Ready
    BY <2>8 DEF Observe, Ready, UpgradedInv
  <2>9. CASE Poll
    <3>1. uc'.ours = uc.ours /\ uc'.phase = uc.phase /\ (uc = NoConfig => uc' = NoConfig)
      BY <2>9 DEF Poll, TypeOK, UpgradeConfig
    <3>2. /\ UNCHANGED <<conf, upgraded>>
          /\ pc' \in {"poll", "policy", "ready", "done"}
          /\ pc' = "ready" => uc.phase = "Upgraded"
          /\ outcome' \in {outcome, "error"}
      BY <2>9 DEF Poll
    <3> QED
      BY <3>1, <3>2 DEF UpgradedInv
  <2>10. CASE TimeOut
    BY <2>10 DEF TimeOut, RestartTimesOut, PollTimesOut, UpgradedInv
  <2>11. CASE Sync
    <3>1. /\ uc'.phase = "Upgraded" => uc.phase = "Upgraded"
          /\ uc' # NoConfig /\ ~uc'.ours => uc # NoConfig /\ ~uc.ours
      <4>1. CASE policy # "none" /\ uc' = Requested(policy, FALSE)
        BY <4>1, RequestedTyped DEF TypeOK
      <4>2. CASE /\ policy # "none" /\ uc.phase \in {"new", "Pending"}
                 /\ uc' = [uc EXCEPT !.due = policy]
        <5>1. uc \in UpgradeConfig /\ uc # NoConfig /\ policy \in Dues
          BY <4>2, PhasedTyped DEF TypeOK
        <5> QED
          BY <4>2, <5>1, AmendedTyped
      <4>3. CASE uc' = NoConfig
        BY <4>3 DEF NoConfig
      <4> QED
        BY <2>11, <4>1, <4>2, <4>3 DEF Sync
    <3> QED
      BY <2>11, <3>1 DEF Sync, UpgradedInv
  <2>12. CASE Advance
    <3>1. PICK phase \in Phases :
            /\ uc.phase \in {"new", "Pending", "Upgrading"}
            /\ uc' = [uc EXCEPT !.phase = phase]
            /\ upgraded' = (upgraded \/ (uc.ours /\ phase = "Upgraded"))
      BY <2>12 DEF Advance
    <3>2. uc \in UpgradeConfig /\ uc # NoConfig
      BY <3>1, PhasedTyped DEF TypeOK
    <3>3. uc'.phase = phase /\ uc'.ours = uc.ours
      BY <3>1, <3>2, AmendedTyped
    <3>4. UNCHANGED <<conf, pc, outcome>>
      BY <2>12 DEF Advance
    <3> QED
      BY <3>1, <3>2, <3>3, <3>4 DEF UpgradedInv
  <2>13. CASE PolicyEnds \/ Hive
    BY <2>13 DEF PolicyEnds, Hive, UpgradedInv
  <2>14. CASE UNCHANGED vars
    BY <2>14 DEF vars, UpgradedInv
  <2> QED
    BY <2>1, <2>2, <2>3, <2>4, <2>5, <2>6, <2>7, <2>8, <2>9, <2>10, <2>11, <2>12,
       <2>13, <2>14 DEF Next, Run, Others
<1>3. UpgradedInv => SuccessMeansUpgraded
  BY DEF UpgradedInv, SuccessMeansUpgraded, Excused
<1> QED
  BY <1>1, <1>2, <1>3, TypeCorrect, PTL DEF Spec
=============================================================================
