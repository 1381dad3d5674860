------------------------- MODULE SequenceFilterProofs -------------------------
(***************************************************************************)
(* What every use of Keep relies on: the kept elements are those of the    *)
(* list at increasing places, all of the set's and no others.  Induction   *)
(* over a length is by the least length at which a claim fails.            *)
(***************************************************************************)
EXTENDS SequenceFilters, FiniteSetTheorems, WellFoundedInduction, TLAPS

(* A set of numbers that is not empty has a least one.                     *)
LEMMA LeastNumber ==
  ASSUME NEW T \in SUBSET Nat, T # {}
  PROVE  \E n \in T : \A m \in T : n <= m
  <1>1. \E R : IsWellFoundedOn(R, Nat) /\ \A x, y \in Nat : y < x => <<y, x>> \in R
    <2>1. \A x, y \in Nat : y < x => <<y, x>> \in OpToRel(<, Nat)
      BY ZenonT(30) DEF OpToRel
    <2> QED
      BY <2>1, NatLessThanWellFounded, ZenonT(30)
  <1>2. PICK R : IsWellFoundedOn(R, Nat) /\ \A x, y \in Nat : y < x => <<y, x>> \in R
    BY <1>1
  <1>3. PICK x \in T : \A y \in T : ~(<<y, x>> \in R)
    BY <1>2, WFMin
  <1>4. ASSUME NEW y \in T PROVE x <= y
    <2>1. x \in Nat /\ y \in Nat /\ ~(y < x)
      BY <1>2, <1>3
    <2> QED
      BY <2>1
  <1> QED
    BY <1>4

(* The function that Keep computes, on the first n elements.               *)
IsKept(G, s, S, n) ==
  G = [m \in 0 .. n |-> IF m = 0 THEN <<>>
                        ELSE IF s[m] \in S THEN Append(G[m - 1], s[m])
                        ELSE G[m - 1]]

LEMMA KeptExists ==
  ASSUME NEW s, NEW S, NEW n \in Nat
  PROVE  \E G : IsKept(G, s, S, n)
  <1> DEFINE T == {k \in Nat : ~ \E G : IsKept(G, s, S, k)}
  <1> SUFFICES ASSUME T # {} PROVE FALSE
    OBVIOUS
  <1>1. PICK k \in T : \A m \in T : k <= m
    BY LeastNumber
  <1>2. k \in Nat /\ ~ \E G : IsKept(G, s, S, k)
    BY <1>1
  <1>3. CASE k = 0
    <2>1. IsKept([m \in 0 .. 0 |-> <<>>], s, S, 0)
      BY DEF IsKept
    <2> QED
      BY <2>1, <1>2, <1>3
  <1>4. CASE k # 0
    <2>1. k - 1 \in Nat /\ k - 1 \notin T
      BY <1>1, <1>2, <1>4
    <2>2. PICK G : IsKept(G, s, S, k - 1)
      BY <2>1
    <2> DEFINE last == IF s[k] \in S THEN Append(G[k - 1], s[k]) ELSE G[k - 1]
               H == [m \in 0 .. k |-> IF m = k THEN last ELSE G[m]]
    <2>3. ASSUME NEW m \in 0 .. k, m # k, m # 0
          PROVE  H[m] = IF s[m] \in S THEN Append(H[m - 1], s[m]) ELSE H[m - 1]
      <3>1. m \in 0 .. (k - 1) /\ m - 1 \in 0 .. k /\ m - 1 # k
        BY <1>2, <2>3
      <3>2. G[m] = IF s[m] \in S THEN Append(G[m - 1], s[m]) ELSE G[m - 1]
        BY <2>2, <3>1, <2>3 DEF IsKept
      <3> QED
        BY <3>1, <3>2, <2>3
    <2>4. H[k] = IF s[k] \in S THEN Append(H[k - 1], s[k]) ELSE H[k - 1]
      BY <1>2, <1>4
    <2>5. H[0] = <<>>
      BY <1>2, <1>4, <2>1, <2>2 DEF IsKept
    <2> HIDE DEF last
    <2>6. IsKept(H, s, S, k)
      <3>1. H = [m \in 0 .. k |-> H[m]]
        OBVIOUS
      <3> HIDE DEF H
      <3> DEFINE K == [m \in 0 .. k |-> IF m = 0 THEN <<>>
                                        ELSE IF s[m] \in S THEN Append(H[m - 1], s[m])
                                        ELSE H[m - 1]]
      <3>2. \A m \in 0 .. k : H[m] = K[m]
        BY <2>3, <2>4, <2>5, <1>4
      <3>3. K = [m \in 0 .. k |-> K[m]]
        OBVIOUS
      <3> HIDE DEF K
      <3>4. [m \in 0 .. k |-> H[m]] = [m \in 0 .. k |-> K[m]]
        BY <3>2
      <3>5. H = K
        BY <3>1, <3>3, <3>4
      <3> QED
        BY <3>5 DEF K, IsKept
    <2> QED
      BY <2>6, <1>2
  <1> QED
    BY <1>3, <1>4

LEMMA KeepIsKept ==
  ASSUME NEW s, Len(s) \in Nat, NEW S
  PROVE  \E G : IsKept(G, s, S, Len(s)) /\ Keep(s, S) = G[Len(s)]
  <1> DEFINE F == CHOOSE G : IsKept(G, s, S, Len(s))
  <1>1. \E G : IsKept(G, s, S, Len(s))
    BY KeptExists
  <1>2. IsKept(F, s, S, Len(s))
    BY <1>1
  <1>3. Keep(s, S) = F[Len(s)]
    BY DEF Keep, IsKept
  <1> QED
    BY <1>2, <1>3

-----------------------------------------------------------------------------
(* r has the elements of the first n places of s that are in S, at the     *)
(* places that f gives.                                                    *)
IsFilter(r, f, s, S, n) ==
  /\ f \in [1 .. Len(r) -> 1 .. n]
  /\ \A i, k \in 1 .. Len(r) : i < k => f[i] < f[k]
  /\ \A i \in 1 .. Len(r) : r[i] = s[f[i]] /\ r[i] \in S
  /\ \A j \in 1 .. n : s[j] \in S => \E i \in 1 .. Len(r) : f[i] = j

LEMMA FilterGrows ==
  ASSUME NEW T, NEW s \in Seq(T), NEW S, NEW n \in 1 .. Len(s),
         NEW r \in Seq(T), NEW f, IsFilter(r, f, s, S, n - 1)
  PROVE  /\ s[n] \in S => \E g : IsFilter(Append(r, s[n]), g, s, S, n)
         /\ s[n] \notin S => IsFilter(r, f, s, S, n)
  <1>0. n \in Nat /\ n - 1 \in Nat /\ s[n] \in T /\ Len(r) \in Nat
    OBVIOUS
  <1>1. f \in [1 .. Len(r) -> 1 .. n] /\ \A i \in 1 .. Len(r) : f[i] < n
    <2>1. f \in [1 .. Len(r) -> 1 .. (n - 1)]
      BY DEF IsFilter
    <2>2. 1 .. (n - 1) \subseteq 1 .. n /\ \A x \in 1 .. (n - 1) : x < n
      BY <1>0
    <2> QED
      BY <2>1, <2>2
  <1>2. ASSUME s[n] \notin S PROVE IsFilter(r, f, s, S, n)
    <2>1. \A j \in 1 .. n : s[j] \in S => j \in 1 .. (n - 1)
      BY <1>0, <1>2
    <2> QED
      BY <1>1, <2>1 DEF IsFilter
  <1>3. ASSUME s[n] \in S PROVE \E g : IsFilter(Append(r, s[n]), g, s, S, n)
    <2> DEFINE q == Append(r, s[n])
               g == [i \in 1 .. Len(q) |-> IF i = Len(q) THEN n ELSE f[i]]
    <2>1. /\ q \in Seq(T) /\ Len(q) = Len(r) + 1 /\ q[Len(q)] = s[n]
          /\ \A i \in 1 .. Len(r) : q[i] = r[i]
          /\ \A i \in 1 .. Len(q) : i # Len(q) => i \in 1 .. Len(r)
          /\ \A i \in 1 .. Len(r) : i \in 1 .. Len(q) /\ i # Len(q)
          /\ Len(q) \in 1 .. Len(q)
      BY <1>0
    <2> HIDE DEF q
    <2>2. g[Len(q)] = n /\ \A i \in 1 .. Len(r) : g[i] = f[i]
      BY <2>1
    <2>3. g \in [1 .. Len(q) -> 1 .. n]
      BY <1>0, <1>1, <2>1
    <2> HIDE DEF g
    <2>4. ASSUME NEW i \in 1 .. Len(q), NEW k \in 1 .. Len(q), i < k
          PROVE  g[i] < g[k]
      <3>1. i \in 1 .. Len(r)
        BY <1>0, <2>1, <2>4
      <3>2. CASE k = Len(q)
        BY <3>1, <3>2, <2>2, <1>1
      <3>3. CASE k # Len(q)
        BY <3>1, <3>3, <2>1, <2>2, <2>4 DEF IsFilter
      <3> QED
        BY <3>2, <3>3
    <2>5. ASSUME NEW i \in 1 .. Len(q)
          PROVE  q[i] = s[g[i]] /\ q[i] \in S
      <3>1. CASE i = Len(q)
        BY <3>1, <1>3, <2>1, <2>2
      <3>2. CASE i # Len(q)
        BY <3>2, <2>1, <2>2 DEF IsFilter
      <3> QED
        BY <3>1, <3>2
    <2>6. ASSUME NEW j \in 1 .. n, s[j] \in S
          PROVE  \E i \in 1 .. Len(q) : g[i] = j
      <3>1. CASE j = n
        BY <3>1, <2>1, <2>2
      <3>2. CASE j # n
        <4>1. j \in 1 .. (n - 1)
          BY <1>0, <3>2
        <4>2. PICK i \in 1 .. Len(r) : f[i] = j
          BY <4>1, <2>6 DEF IsFilter
        <4> QED
          BY <4>2, <2>1, <2>2
      <3> QED
        BY <3>1, <3>2
    <2>7. IsFilter(q, g, s, S, n)
      BY <2>3, <2>4, <2>5, <2>6 DEF IsFilter
    <2> QED
      BY <2>7 DEF q
  <1> QED
    BY <1>2, <1>3

(* Keep returns the elements in the set, at increasing places.             *)
LEMMA KeepIsFilter ==
  ASSUME NEW T, NEW s \in Seq(T), NEW S
  PROVE  /\ Keep(s, S) \in Seq(T)
         /\ \E f : IsFilter(Keep(s, S), f, s, S, Len(s))
  <1>0. Len(s) \in Nat
    OBVIOUS
  <1>1. PICK G : IsKept(G, s, S, Len(s)) /\ Keep(s, S) = G[Len(s)]
    BY <1>0, KeepIsKept
  <1> DEFINE Good(n) == G[n] \in Seq(T) /\ \E f : IsFilter(G[n], f, s, S, n)
             Bad == {n \in 0 .. Len(s) : ~Good(n)}
  <1>2. Good(0)
    <2>1. G[0] = <<>> /\ <<>> \in Seq(T)
      BY <1>0, <1>1 DEF IsKept
    <2>2. IsFilter(<<>>, <<>>, s, S, 0)
      BY DEF IsFilter
    <2> QED
      BY <2>1, <2>2
  <1>3. ASSUME NEW n \in 1 .. Len(s), Good(n - 1)
        PROVE  Good(n)
    <2>1. G[n] = IF s[n] \in S THEN Append(G[n - 1], s[n]) ELSE G[n - 1]
      <3>1. n \in 0 .. Len(s) /\ n # 0
        BY <1>0
      <3> QED
        BY <1>1, <3>1 DEF IsKept
    <2>2. PICK f : IsFilter(G[n - 1], f, s, S, n - 1)
      BY <1>3
    <2>3. /\ G[n - 1] \in Seq(T) /\ s[n] \in T
      BY <1>3
    <2>4. CASE s[n] \in S
      <3>1. G[n] = Append(G[n - 1], s[n]) /\ G[n] \in Seq(T)
        BY <2>1, <2>3, <2>4
      <3>2. \E g : IsFilter(Append(G[n - 1], s[n]), g, s, S, n)
        BY <2>2, <2>3, <2>4, FilterGrows
      <3> QED
        BY <3>1, <3>2
    <2>5. CASE s[n] \notin S
      <3>1. IsFilter(G[n - 1], f, s, S, n)
        BY <2>2, <2>3, <2>5, FilterGrows
      <3> QED
        BY <2>1, <2>3, <2>5, <3>1
    <2> QED
      BY <2>4, <2>5
  <1> HIDE DEF Good
  <1>4. Bad = {}
    <2> SUFFICES ASSUME Bad # {} PROVE FALSE
      OBVIOUS
    <2>0. Bad \in SUBSET Nat
      OBVIOUS
    <2>1. PICK n \in Bad : \A m \in Bad : n <= m
      BY <2>0, LeastNumber
    <2>2. n \in 1 .. Len(s) /\ n - 1 \in 0 .. Len(s) /\ ~(n <= n - 1) /\ ~Good(n)
      BY <2>1, <1>2
    <2> QED
      BY <2>1, <2>2, <1>3
  <1>5. Good(Len(s))
    BY <1>0, <1>4
  <1> QED
    BY <1>1, <1>5 DEF Good

(* As sets: what is kept is what was in the set.                           *)
LEMMA KeepElements ==
  ASSUME NEW T, NEW s \in Seq(T), NEW S
  PROVE  ToSet(Keep(s, S)) = ToSet(s) \cap S
  <1> DEFINE r == Keep(s, S)
  <1>1. r \in Seq(T) /\ \E f : IsFilter(r, f, s, S, Len(s))
    BY KeepIsFilter
  <1>2. PICK f : IsFilter(r, f, s, S, Len(s))
    BY <1>1
  <1> HIDE DEF r
  <1>3. DOMAIN r = 1 .. Len(r) /\ DOMAIN s = 1 .. Len(s)
    BY <1>1
  <1>4. \A i \in 1 .. Len(r) : f[i] \in 1 .. Len(s) /\ r[i] = s[f[i]] /\ r[i] \in S
    BY <1>2 DEF IsFilter
  <1>5. \A j \in 1 .. Len(s) : s[j] \in S => \E i \in 1 .. Len(r) : r[i] = s[j]
    BY <1>2, <1>4 DEF IsFilter
  <1>6. ToSet(r) = ToSet(s) \cap S
    BY <1>3, <1>4, <1>5 DEF ToSet
  <1> QED
    BY <1>6 DEF r

Distinct(s) == \A i, k \in 1 .. Len(s) : s[i] = s[k] => i = k

(* A list without duplicates keeps none, and is as long as it has elements.*)
LEMMA KeepDistinct ==
  ASSUME NEW T, NEW s \in Seq(T), NEW S, Distinct(s)
  PROVE  Distinct(Keep(s, S))
  <1> DEFINE r == Keep(s, S)
  <1>1. r \in Seq(T) /\ \E f : IsFilter(r, f, s, S, Len(s))
    BY KeepIsFilter
  <1>2. PICK f : IsFilter(r, f, s, S, Len(s))
    BY <1>1
  <1> HIDE DEF r
  <1>3. ASSUME NEW i \in 1 .. Len(r), NEW k \in 1 .. Len(r), r[i] = r[k]
        PROVE  i = k
    <2>1. f[i] \in 1 .. Len(s) /\ f[k] \in 1 .. Len(s) /\ s[f[i]] = s[f[k]]
      BY <1>2, <1>3 DEF IsFilter
    <2>2. f[i] = f[k]
      BY <2>1 DEF Distinct
    <2>3. ~(i < k) /\ ~(k < i)
      BY <1>2, <2>1, <2>2 DEF IsFilter
    <2> QED
      BY <2>3
  <1> QED
    BY <1>3 DEF Distinct, r

LEMMA DistinctLength ==
  ASSUME NEW T, NEW s \in Seq(T), Distinct(s)
  PROVE  IsFiniteSet(ToSet(s)) /\ Cardinality(ToSet(s)) = Len(s)
  <1>1. Len(s) \in Nat /\ DOMAIN s = 1 .. Len(s)
    OBVIOUS
  <1>2. ExistsBijection(1 .. Len(s), ToSet(s))
    <2>1. s \in Bijection(1 .. Len(s), ToSet(s))
      BY <1>1 DEF Bijection, Injection, Surjection, ToSet, Distinct, IsInjective
    <2> QED
      BY <2>1 DEF ExistsBijection
  <1>3. IsFiniteSet(1 .. Len(s)) /\ Cardinality(1 .. Len(s)) = Len(s)
    <2>1. 1 \in Int /\ Len(s) \in Int
      BY <1>1
    <2>2. /\ IsFiniteSet(1 .. Len(s))
          /\ Cardinality(1 .. Len(s)) = IF 1 > Len(s) THEN 0 ELSE Len(s) - 1 + 1
      BY <2>1, FS_Interval, Zenon
    <2> QED
      BY <1>1, <2>2
  <1> QED
    BY <1>1, <1>2, <1>3, FS_NatBijection, FS_CountingElements

(* The elements of a list with one more, and without its first.            *)
LEMMA AppendElements ==
  ASSUME NEW T, NEW s \in Seq(T), NEW w \in T
  PROVE  /\ ToSet(Append(s, w)) = ToSet(s) \cup {w}
         /\ Distinct(s) /\ w \notin ToSet(s) => Distinct(Append(s, w))
  <1> DEFINE a == Append(s, w)
  <1>1. /\ Len(s) \in Nat /\ Len(a) = Len(s) + 1
        /\ \A i \in 1 .. Len(s) : a[i] = s[i]
        /\ a[Len(s) + 1] = w
    OBVIOUS
  <1>2. ToSet(a) = {a[i] : i \in 1 .. Len(a)} /\ ToSet(s) = {s[i] : i \in 1 .. Len(s)}
    BY DEF ToSet
  <1> HIDE DEF a
  <1>3. 1 .. Len(a) = (1 .. Len(s)) \cup {Len(s) + 1}
    BY <1>1
  <1>4. ToSet(a) = ToSet(s) \cup {w}
    BY <1>1, <1>2, <1>3
  <1>5. Distinct(s) /\ w \notin ToSet(s) => Distinct(a)
    BY <1>1, <1>2, <1>3 DEF Distinct
  <1> QED
    BY <1>4, <1>5 DEF a

LEMMA TailElements ==
  ASSUME NEW T, NEW s \in Seq(T), s # <<>>, Distinct(s)
  PROVE  /\ Head(s) \in T /\ Tail(s) \in Seq(T)
         /\ Distinct(Tail(s)) /\ Len(s) = Len(Tail(s)) + 1
         /\ ToSet(s) = ToSet(Tail(s)) \cup {Head(s)}
         /\ Head(s) \notin ToSet(Tail(s))
  <1> DEFINE r == Tail(s)
  <1>1. /\ Head(s) \in T /\ r \in Seq(T) /\ Len(r) \in Nat
        /\ Head(s) = s[1] /\ Len(s) = Len(r) + 1
        /\ \A i \in 1 .. Len(r) : r[i] = s[i + 1]
    OBVIOUS
  <1>2. \A x \in Seq(T) : ToSet(x) = {x[i] : i \in 1 .. Len(x)}
    BY DEF ToSet
  <1>3. ToSet(r) = {r[i] : i \in 1 .. Len(r)} /\ ToSet(s) = {s[i] : i \in 1 .. Len(s)}
    BY <1>1, <1>2
  <1> HIDE DEF r
  <1>4. \A i \in 1 .. Len(r) : i + 1 \in 1 .. Len(s) /\ i + 1 # 1
    BY <1>1
  <1>5. \A i \in 1 .. Len(s) : i = 1 \/ (i - 1 \in 1 .. Len(r) /\ (i - 1) + 1 = i)
    BY <1>1
  <1>6. 1 \in 1 .. Len(s)
    BY <1>1
  <1>7. Distinct(r)
    <2> SUFFICES ASSUME NEW i \in 1 .. Len(r), NEW k \in 1 .. Len(r), i # k PROVE r[i] # r[k]
      BY DEF Distinct
    <2>1. r[i] = s[i + 1] /\ r[k] = s[k + 1]
      BY <1>1
    <2>2. i + 1 \in 1 .. Len(s) /\ k + 1 \in 1 .. Len(s) /\ i + 1 # k + 1
      BY <1>4
    <2> QED
      BY <2>1, <2>2 DEF Distinct
  <1>8. ToSet(s) = ToSet(r) \cup {s[1]}
    <2>1. ASSUME NEW i \in 1 .. Len(s) PROVE s[i] \in ToSet(r) \cup {s[1]}
      BY <1>1, <1>3, <1>5
    <2>2. ASSUME NEW i \in 1 .. Len(r) PROVE r[i] \in ToSet(s)
      BY <1>1, <1>3, <1>4
    <2> QED
      BY <1>3, <1>6, <2>1, <2>2
  <1>9. s[1] \notin ToSet(r)
    BY <1>1, <1>3, <1>4, <1>6 DEF Distinct
  <1> QED
    BY <1>1, <1>7, <1>8, <1>9 DEF r
=============================================================================
