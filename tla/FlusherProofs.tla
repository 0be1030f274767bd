--------------------------- MODULE FlusherProofs ---------------------------
(***************************************************************************)
(* Theorems about module Flusher and its cache, for every set of clients,   *)
(* workers and projects.  First for any capacity and any failures: types,   *)
(* and the coherence of the cache.  Then safety in the regime where the     *)
(* cache has room for every project and no query loads a state: SafetyInv   *)
(* is inductive, and implies the safety invariants the runs check.  Then    *)
(* where states are paged out and in, for every capacity, by one apply at a *)
(* time: AloneInv is inductive.                                            *)
(***************************************************************************)
EXTENDS FlusherSafety, FiniteSetTheorems, SequenceTheorems, WellFoundedInduction,
        TLAPS

(***************************************************************************)
(* Every resident project is listed in the recency order: the half of      *)
(* OrderIsRecency that eviction relies on, since a resident graph that is  *)
(* not listed could never be chosen as a victim.                           *)
(***************************************************************************)
Listed(s, p) == \E i \in 1 .. Len(s) : s[i] = p

ResidentListed == \A p \in Projects : Resident(p) => Listed(order, p)

-----------------------------------------------------------------------------
(* RemoveFirst and touch *)

\* A non-empty set of naturals has a least element (so Min names one).
LEMMA LeastElement ==
    ASSUME NEW I \in SUBSET Nat, I # {}
    PROVE  \E i \in I : \A j \in I : i <= j
<1>1. PICK i \in I : \A j \in I : ~ (<<j, i>> \in OpToRel(<, Nat))
  BY NatLessThanWellFounded, WFMin, Zenon
<1>2. \A j \in I : ~ (j < i) BY <1>1 DEF OpToRel
<1> QED BY <1>2

\* RemoveFirst removes one place that lists e and keeps the others in order.
LEMMA RemoveFirstShape ==
    ASSUME NEW S, NEW s \in Seq(S), NEW e, Listed(s, e)
    PROVE  \E k \in 1 .. Len(s) :
              /\ s[k] = e
              /\ RemoveFirst(s, e) =
                    SubSeq(s, 1, k - 1) \o SubSeq(s, k + 1, Len(s))
<1> DEFINE I == {i \in 1 .. Len(s) : s[i] = e}
           k == CHOOSE i \in I : \A j \in I : i <= j
<1>1. Len(s) \in Nat BY LenProperties
<1>2. I # {} BY DEF Listed
<1>3. k \in I
  <2>0. I \in SUBSET Nat BY <1>1
  <2> HIDE DEF I
  <2>1. \E i \in I : \A j \in I : i <= j BY <1>2, <2>0, LeastElement
  <2> QED BY <2>1
<1>4. SelectInSeq(s, LAMBDA v : v = e) = k BY <1>2 DEF SelectInSeq, Min
<1>5. RemoveFirst(s, e) = SubSeq(s, 1, k - 1) \o SubSeq(s, k + 1, Len(s))
  BY <1>4 DEF RemoveFirst, RemoveAt, Listed
<1> QED BY <1>3, <1>5

\* So what is left has the other places in their order.
LEMMA RemoveFirstPlaces ==
    ASSUME NEW S, NEW s \in Seq(S), NEW e, Listed(s, e)
    PROVE  \E k \in 1 .. Len(s) :
              /\ s[k] = e
              /\ RemoveFirst(s, e) \in Seq(S)
              /\ Len(RemoveFirst(s, e)) = Len(s) - 1
              /\ \A i \in 1 .. Len(s) - 1 :
                    RemoveFirst(s, e)[i] = IF i < k THEN s[i] ELSE s[i + 1]
<1> DEFINE n == Len(s)
           r == RemoveFirst(s, e)
<1>1. PICK k \in 1 .. n :
         s[k] = e /\ r = SubSeq(s, 1, k - 1) \o SubSeq(s, k + 1, n)
  BY RemoveFirstShape
<1> DEFINE a == SubSeq(s, 1, k - 1)
           b == SubSeq(s, k + 1, n)
<1>2. n \in Nat /\ \A i \in 1 .. n : s[i] \in S BY LenProperties
<1>3. /\ a \in Seq(S) /\ Len(a) = k - 1
      /\ \A i \in 1 .. k - 1 : a[i] = s[i]
  <2>1. \A i \in 1 .. k - 1 : s[i] \in S BY <1>2
  <2> QED BY <2>1, <1>2, SubSeqProperties
<1>4. /\ b \in Seq(S) /\ Len(b) = n - k
      /\ \A i \in 1 .. n - k : b[i] = s[k + i]
  <2>1. \A i \in k + 1 .. n : s[i] \in S BY <1>2
  <2> QED BY <2>1, <1>2, SubSeqProperties
<1>r. r = a \o b BY <1>1
<1> HIDE DEF r, a, b
<1>5. /\ a \o b \in Seq(S) /\ Len(a \o b) = Len(a) + Len(b)
      /\ \A i \in 1 .. Len(a) + Len(b) :
            (a \o b)[i] = IF i <= Len(a) THEN a[i] ELSE b[i - Len(a)]
  BY <1>3, <1>4, ConcatProperties
<1>6. Len(a) + Len(b) = n - 1 BY <1>2, <1>3, <1>4
<1>7. /\ r \in Seq(S) /\ Len(r) = n - 1
      /\ \A i \in 1 .. n - 1 : r[i] = IF i <= Len(a) THEN a[i] ELSE b[i - Len(a)]
  BY <1>5, <1>6, <1>r, Zenon
<1>8. ASSUME NEW i \in 1 .. n - 1 PROVE r[i] = IF i < k THEN s[i] ELSE s[i + 1]
  <2>1. CASE i < k BY <2>1, <1>2, <1>3, <1>7
  <2>2. CASE i >= k
    <3>1. i - (k - 1) \in 1 .. n - k /\ k + (i - (k - 1)) = i + 1 BY <2>2, <1>2
    <3> QED BY <2>2, <3>1, <1>2, <1>3, <1>4, <1>7
  <2> QED BY <2>1, <2>2, <1>2
<1> QED BY <1>1, <1>7, <1>8 DEF r

\* No project is listed twice.
Once(s) == \A i, j \in 1 .. Len(s) : s[i] = s[j] => i = j

\* RemoveFirst keeps what is listed besides e, adds nothing, and drops a single place of e.
LEMMA RemoveFirstLists ==
    ASSUME NEW p \in Projects, order \in Seq(Projects)
    PROVE  /\ RemoveFirst(order, p) \in Seq(Projects)
           /\ \A q \in Projects \ {p} :
                 Listed(RemoveFirst(order, p), q) <=> Listed(order, q)
           /\ Once(order) => /\ Once(RemoveFirst(order, p))
                             /\ ~ Listed(RemoveFirst(order, p), p)
<1> DEFINE r == RemoveFirst(order, p)
           n == Len(order)
<1>1. CASE ~ Listed(order, p)
  <2>1. r = order BY <1>1 DEF RemoveFirst, Listed
  <2> HIDE DEF r
  <2> QED BY <1>1, <2>1 DEF r
<1>2. CASE Listed(order, p)
  <2>1. PICK k \in 1 .. n :
           /\ order[k] = p /\ r \in Seq(Projects) /\ Len(r) = n - 1
           /\ \A i \in 1 .. n - 1 : r[i] = IF i < k THEN order[i] ELSE order[i + 1]
    BY <1>2, RemoveFirstPlaces
  <2>2. n \in Nat BY LenProperties
  <2> HIDE DEF r, n
  <2>3. ASSUME NEW q \in Projects \ {p}, Listed(order, q) PROVE Listed(r, q)
    <3>1. PICK i \in 1 .. n : order[i] = q BY <2>3 DEF Listed, n
    <3>2. CASE i < k
      <4>1. i \in 1 .. n - 1 /\ r[i] = q BY <3>1, <3>2, <2>1, <2>2
      <4> QED BY <4>1, <2>1 DEF Listed
    <3>3. CASE i > k
      <4>1. i - 1 \in 1 .. n - 1 /\ r[i - 1] = q BY <3>1, <3>3, <2>1, <2>2
      <4> QED BY <4>1, <2>1 DEF Listed
    <3> QED BY <3>1, <3>2, <3>3, <2>1, <2>2
  <2>4. ASSUME NEW q, Listed(r, q)
        PROVE  \E j \in 1 .. n : j # k /\ order[j] = q
    <3>1. PICK i \in 1 .. n - 1 : r[i] = q BY <2>4, <2>1 DEF Listed
    <3>2. CASE i < k BY <3>1, <3>2, <2>1, <2>2
    <3>3. CASE i >= k
      <4>1. i + 1 \in 1 .. n /\ i + 1 # k /\ order[i + 1] = q BY <3>1, <3>3, <2>1, <2>2
      <4> QED BY <4>1
    <3> QED BY <3>1, <3>2, <3>3, <2>2
  <2>5. ASSUME Once(order) PROVE Once(r) /\ ~ Listed(r, p)
    <3>1. \A i, j \in 1 .. n : order[i] = order[j] => i = j BY <2>5 DEF Once, n
    <3>2. ~ Listed(r, p) BY <2>1, <2>4, <3>1
    <3>3. ASSUME NEW i \in 1 .. n - 1, NEW j \in 1 .. n - 1, r[i] = r[j]
          PROVE  i = j
      <4> DEFINE at(x) == IF x < k THEN x ELSE x + 1
      <4>1. at(i) \in 1 .. n /\ at(j) \in 1 .. n BY <2>2
      <4>2. order[at(i)] = order[at(j)] BY <3>3, <2>1
      <4>3. at(i) = at(j) BY <3>1, <4>1, <4>2
      <4> QED BY <4>3, <2>2
    <3> QED BY <3>2, <3>3, <2>1 DEF Once
  <2>6. \A q \in Projects \ {p} : Listed(r, q) => Listed(order, q) BY <2>4 DEF Listed, n
  <2> QED BY <2>1, <2>3, <2>5, <2>6 DEF r
<1> QED BY <1>1, <1>2

\* touch lists p last and once; otherwise what was listed stays listed, and nothing else is.
LEMMA TouchedProperties ==
    ASSUME NEW p \in Projects, order \in Seq(Projects)
    PROVE  /\ Touched(p) \in Seq(Projects)
           /\ Len(Touched(p)) \in Nat \ {0} /\ Touched(p)[Len(Touched(p))] = p
           /\ \A q \in Projects : Listed(Touched(p), q) <=> q = p \/ Listed(order, q)
           /\ Once(order) => Once(Touched(p))
<1> DEFINE r == RemoveFirst(order, p)
<1>1. /\ r \in Seq(Projects)
      /\ \A q \in Projects \ {p} : Listed(r, q) <=> Listed(order, q)
      /\ Once(order) => Once(r) /\ ~ Listed(r, p)
  BY RemoveFirstLists
<1> HIDE DEF r
<1>2. Touched(p) = Append(r, p) BY DEF Touched, r
<1>3. /\ Touched(p) \in Seq(Projects) /\ Len(Touched(p)) = Len(r) + 1
      /\ \A i \in 1 .. Len(r) : Touched(p)[i] = r[i]
      /\ Touched(p)[Len(r) + 1] = p
  BY <1>1, <1>2, AppendProperties
<1>4. Len(r) \in Nat BY <1>1, LenProperties
<1>5. ASSUME NEW q \in Projects
      PROVE  Listed(Touched(p), q) <=> q = p \/ Listed(r, q)
  <2>1. Listed(Touched(p), p)
    <3>1. Len(r) + 1 \in 1 .. Len(Touched(p)) BY <1>3, <1>4
    <3> QED BY <3>1, <1>3 DEF Listed
  <2>2. ASSUME NEW i \in 1 .. Len(Touched(p)), Touched(p)[i] = q, q # p PROVE Listed(r, q)
    <3>1. i \in 1 .. Len(r) BY <2>2, <1>3, <1>4
    <3> QED BY <2>2, <3>1, <1>3 DEF Listed
  <2>3. ASSUME Listed(r, q) PROVE Listed(Touched(p), q)
    <3>1. PICK i \in 1 .. Len(r) : r[i] = q BY <2>3 DEF Listed
    <3>2. i \in 1 .. Len(Touched(p)) /\ Touched(p)[i] = q BY <3>1, <1>3, <1>4
    <3> QED BY <3>2 DEF Listed
  <2> QED BY <2>1, <2>2, <2>3 DEF Listed
<1>6. ASSUME Once(r), ~ Listed(r, p) PROVE Once(Touched(p))
  <2>1. ASSUME NEW i \in 1 .. Len(r) + 1, NEW j \in 1 .. Len(r) + 1,
               Touched(p)[i] = Touched(p)[j]
        PROVE  i = j
    <3>1. CASE i \in 1 .. Len(r) /\ j \in 1 .. Len(r)
      BY <1>3, <1>6, <2>1, <3>1 DEF Once
    <3>2. CASE i = Len(r) + 1 /\ j \in 1 .. Len(r)
      BY <1>3, <1>6, <2>1, <3>2 DEF Listed
    <3>3. CASE i \in 1 .. Len(r) /\ j = Len(r) + 1
      BY <1>3, <1>6, <2>1, <3>3 DEF Listed
    <3> QED BY <3>1, <3>2, <3>3, <1>4
  <2> QED BY <2>1, <1>3 DEF Once
<1>7. Len(Touched(p)) \in Nat \ {0} /\ Touched(p)[Len(Touched(p))] = p BY <1>3, <1>4
<1> QED BY <1>1, <1>3, <1>5, <1>6, <1>7

-----------------------------------------------------------------------------
(* Eviction *)

\* The projects that are resident once p is.
LEMMA ResidentSetFinite ==
    ASSUME NEW p \in Projects
    PROVE  LET R == {q \in Projects : Resident(q)} \cup {p}
           IN  R \subseteq Projects /\ IsFiniteSet(R) /\ Cardinality(R) \in Nat
<1> DEFINE R == {q \in Projects : Resident(q)} \cup {p}
<1>1. R \in SUBSET Projects OBVIOUS
<1>2. IsFiniteSet(R)
  BY <1>1, ProjectsAssumption, FS_Subset
<1>3. Cardinality(R) \in Nat BY <1>2, FS_CardinalityType
<1> QED BY <1>1, <1>2, <1>3

\* There are always enough places in the order to take the victims from.
LEMMA ExcessBound ==
    ASSUME NEW p \in Projects, CacheTypeOK, ResidentListed
    PROVE  Excess(p) \in 0 .. Len(Touched(p))
<1> DEFINE s == Touched(p)
           R == {q \in Projects : Resident(q)} \cup {p}
<1>1. /\ s \in Seq(Projects) /\ Len(s) \in Nat
      /\ \A q \in R : \E i \in 1 .. Len(s) : s[i] = q
  <2>1. order \in Seq(Projects) BY DEF CacheTypeOK
  <2>2. /\ s \in Seq(Projects) /\ Listed(s, p)
        /\ \A q \in Projects : Listed(order, q) => Listed(s, q)
    BY <2>1, TouchedProperties
  <2> HIDE DEF s
  <2>3. Len(s) \in Nat BY <2>2, LenProperties
  <2> QED BY <2>2, <2>3 DEF Listed, ResidentListed
<1>2. Cardinality(R) \in Nat /\ IsFiniteSet(R) BY ResidentSetFinite
<1>3. Cardinality(R) <= Len(s)
  <2> HIDE DEF s, R
  <2> DEFINE I == {i \in 1 .. Len(s) : s[i] \in R}
             f == [i \in I |-> s[i]]
  <2>1. f \in Surjection(I, R)
    <3>1. f \in [I -> R] OBVIOUS
    <3>2. \A q \in R : \E i \in I : f[i] = q BY <1>1
    <3> QED BY <3>1, <3>2 DEF Surjection
  <2>2. IsFiniteSet(1 .. Len(s)) /\ Cardinality(1 .. Len(s)) = Len(s)
    BY <1>1, FS_Interval
  <2>3. I \in SUBSET (1 .. Len(s)) OBVIOUS
  <2> HIDE DEF I, f
  <2>4. IsFiniteSet(I) /\ Cardinality(I) <= Len(s) BY <2>2, <2>3, FS_Subset
  <2>5. Cardinality(R) <= Cardinality(I) BY <2>1, <2>4, FS_Surjection
  <2>6. Cardinality(I) \in Nat BY <2>4, FS_CardinalityType
  <2> QED BY <1>1, <1>2, <2>4, <2>5, <2>6
<1>4. Excess(p) = IF Cardinality(R) > Capacity THEN Cardinality(R) - Capacity
                  ELSE 0
  BY DEF Excess
<1> HIDE DEF R, s
<1> QED BY <1>1, <1>2, <1>3, <1>4, CapacityAssumption DEF s

\* With room for every project nothing is ever paged out.
LEMMA NoExcess ==
    ASSUME Capacity >= Cardinality(Projects), NEW p \in Projects
    PROVE  Excess(p) = 0 /\ Victims(p) = <<>> /\ EvictedBy(p) = <<>>
<1> DEFINE R == {q \in Projects : Resident(q)} \cup {p}
<1>1. R \in SUBSET Projects /\ Cardinality(R) \in Nat BY ResidentSetFinite
<1>2. Cardinality(R) <= Cardinality(Projects) /\ Cardinality(Projects) \in Nat
  BY <1>1, ProjectsAssumption, FS_Subset, FS_CardinalityType
<1>3. Excess(p) = 0
  <2>1. Excess(p) = IF Cardinality(R) > Capacity
                    THEN Cardinality(R) - Capacity ELSE 0
    BY DEF Excess
  <2> HIDE DEF R
  <2> QED BY <2>1, <1>1, <1>2, CapacityAssumption
<1>4. Victims(p) = <<>> BY <1>3, SubSeqEmpty DEF Victims
<1>5. EvictedBy(p) = <<>> BY <1>3 DEF EvictedBy
<1> QED BY <1>3, <1>4, <1>5

\* What an insert pages out, as its caller gets it.
LEMMA EvictedByType ==
    ASSUME NEW p \in Projects, CacheTypeOK, ResidentListed
    PROVE  /\ Victims(p) \in Seq(Projects) /\ Len(Victims(p)) = Excess(p)
           /\ EvictedBy(p) \in Seq(EvictedRecord)
           /\ Len(EvictedBy(p)) = Excess(p)
<1>1. Excess(p) \in 0 .. Len(Touched(p)) BY ExcessBound
<1>2. Touched(p) \in Seq(Projects) BY TouchedProperties DEF CacheTypeOK
<1>3. Len(Touched(p)) \in Nat BY <1>2, LenProperties
<1>4. \A i \in 1 .. Excess(p) : Touched(p)[i] \in Projects
  BY <1>1, <1>2, <1>3, ElementOfSeq
<1>5. /\ Victims(p) \in Seq(Projects) /\ Len(Victims(p)) = Excess(p)
      /\ \A i \in 1 .. Excess(p) : Victims(p)[i] \in Projects
  BY <1>1, <1>3, <1>4, SubSeqProperties DEF Victims
<1>6. EvictedBy(p) \in [1 .. Excess(p) -> EvictedRecord]
  BY <1>5 DEF EvictedBy, EvictedRecord, CacheTypeOK
<1>7. Excess(p) \in Nat BY <1>1, <1>3
<1>8. EvictedBy(p) \in Seq(EvictedRecord) /\ Len(EvictedBy(p)) = Excess(p)
  BY <1>6, <1>7
<1> QED BY <1>5, <1>8

-----------------------------------------------------------------------------
(* The cache operations preserve the type and keep residents listed *)

\* What insert pages out are the first places of the recency order, and the others remain.
LEMMA InsertShape ==
    ASSUME NEW p \in Projects, NEW v, NEW d, CacheTypeOK, ResidentListed, Insert(p, v, d)
    PROVE  /\ Excess(p) \in 0 .. Len(Touched(p))
           /\ \A q : q \in ToSet(Victims(p)) <=>
                        \E i \in 1 .. Excess(p) : Touched(p)[i] = q
           /\ order' \in Seq(Projects) /\ Len(order') = Len(Touched(p)) - Excess(p)
           /\ \A i \in 1 .. Len(Touched(p)) - Excess(p) :
                 order'[i] = Touched(p)[Excess(p) + i]
<1> DEFINE s == Touched(p)
           n == Excess(p)
           t == SubSeq(s, n + 1, Len(s))
           out == ToSet(Victims(p))
<1>1. s \in Seq(Projects) BY TouchedProperties DEF CacheTypeOK
<1>2. n \in 0 .. Len(s) BY ExcessBound
<1>3. Len(s) \in Nat /\ \A i \in 1 .. Len(s) : s[i] \in Projects
  BY <1>1, LenProperties
<1>4. order' = t BY DEF Insert
<1>5. /\ Victims(p) \in Seq(Projects) /\ Len(Victims(p)) = n
      /\ \A i \in 1 .. n : Victims(p)[i] = s[i]
  <2>1. \A i \in 1 .. n : s[i] \in Projects BY <1>2, <1>3
  <2> QED BY <1>2, <1>3, <2>1, SubSeqProperties DEF Victims
<1>6. \A q : q \in out <=> \E i \in 1 .. n : s[i] = q
  <2>1. DOMAIN Victims(p) = 1 .. n BY <1>5, LenProperties
  <2> QED BY <2>1, <1>5 DEF ToSet
<1> HIDE DEF out, s, n
<1>7. /\ t \in Seq(Projects) /\ Len(t) = Len(s) - n
      /\ \A i \in 1 .. Len(s) - n : t[i] = s[n + i]
  <2>1. \A i \in n + 1 .. Len(s) : s[i] \in Projects BY <1>2, <1>3
  <2> QED BY <1>2, <1>3, <2>1, SubSeqProperties
<1> QED BY <1>2, <1>4, <1>6, <1>7 DEF out, s, n

\* insert (put and load_into) with everything it pages out.
LEMMA InsertPreserves ==
    ASSUME NEW p \in Projects, NEW v \in Nat, NEW d \in BOOLEAN,
           CacheTypeOK, ResidentListed, Insert(p, v, d)
    PROVE  CacheTypeOK' /\ ResidentListed'
<1> DEFINE s == Touched(p)
           n == Excess(p)
           out == ToSet(Victims(p))
<1>1. /\ s \in Seq(Projects) /\ Len(s) \in Nat
      /\ \A q \in Projects : Listed(s, q) <=> q = p \/ Listed(order, q)
  BY TouchedProperties DEF CacheTypeOK
<1>2. /\ graphs' = [q \in Projects |-> IF q \in out THEN Absent
                                      ELSE IF q = p THEN v ELSE graphs[q]]
      /\ view' = [q \in Projects |->
                     IF q \in out \cup {p} THEN Absent ELSE view[q]]
      /\ cacheDirty' = (IF d THEN cacheDirty \cup {p}
                        ELSE cacheDirty \ {p}) \ out
  BY DEF Insert
<1>3. /\ n \in 0 .. Len(s) /\ order' \in Seq(Projects) /\ Len(order') = Len(s) - n
      /\ \A q : q \in out <=> \E i \in 1 .. n : s[i] = q
      /\ \A i \in 1 .. Len(s) - n : order'[i] = s[n + i]
  BY InsertShape
<1> HIDE DEF out, s, n
<1>4. CacheTypeOK' BY <1>2, <1>3 DEF CacheTypeOK
<1>5. ASSUME NEW q \in Projects, Resident(q)'
      PROVE  Listed(order', q)
  <2>1. q \notin out /\ (Resident(q) \/ q = p) BY <1>2, <1>5 DEF Resident
  <2>2. PICK i \in 1 .. Len(s) : s[i] = q
    BY <1>1, <2>1 DEF Listed, ResidentListed
  <2>3. i > n
    <3>1. n \in Nat /\ i \in Nat /\ i >= 1 BY <1>1, <1>3, <2>2
    <3>2. i \in 1 .. n => q \in out BY <1>3, <2>2
    <3> QED BY <3>1, <3>2, <2>1
  <2>4. i - n \in 1 .. Len(order') /\ order'[i - n] = q
    BY <2>2, <2>3, <1>1, <1>3
  <2> QED BY <2>4 DEF Listed
<1> QED BY <1>4, <1>5 DEF ResidentListed, Listed

\* get_arc only refreshes recency.
LEMMA GetArcPreserves ==
    ASSUME NEW p \in Projects, CacheTypeOK, ResidentListed, GetArc(p)
    PROVE  CacheTypeOK' /\ ResidentListed'
<1>1. /\ Touched(p) \in Seq(Projects)
      /\ \A q \in Projects : Listed(order, q) => Listed(Touched(p), q)
  BY TouchedProperties DEF CacheTypeOK
<1>2. order' = Touched(p) /\ UNCHANGED <<graphs, view, cacheDirty>>
  BY DEF GetArc
<1> HIDE DEF Touched
<1> QED BY <1>1, <1>2 DEF CacheTypeOK, ResidentListed, Resident, Listed

\* mark_clean touches no entry.
LEMMA MarkCleanPreserves ==
    ASSUME NEW p \in Projects, CacheTypeOK, ResidentListed, MarkClean(p)
    PROVE  CacheTypeOK' /\ ResidentListed'
BY DEF MarkClean, CacheTypeOK, ResidentListed, Resident, Listed

\* A step that does not touch the cache.
LEMMA UnchangedPreserves ==
    ASSUME CacheTypeOK, ResidentListed, UNCHANGED cacheVars
    PROVE  CacheTypeOK' /\ ResidentListed'
BY DEF cacheVars, CacheTypeOK, ResidentListed, Resident, Listed

-----------------------------------------------------------------------------
(* The recency order is that of the resident projects *)

\* Each project that is listed is resident, and listed once; no more than fit.
OrderInv ==
    /\ Once(order) /\ Len(order) <= Capacity
    /\ \A q \in Projects : Listed(order, q) => Resident(q)

\* Places that each list another element of R, and all of R, are as many as R has.
LEMMA OnceCounts ==
    ASSUME NEW S, NEW s \in Seq(S), Once(s), NEW R,
           \A q : q \in R <=> \E i \in 1 .. Len(s) : s[i] = q
    PROVE  Cardinality(R) = Len(s)
<1> DEFINE n == Len(s)
           f == [i \in 1 .. n |-> s[i]]
<1>1. n \in Nat BY LenProperties
<1>2. IsFiniteSet(1 .. n) /\ Cardinality(1 .. n) = n BY <1>1, FS_Interval
<1>3. f \in [1 .. n -> R] OBVIOUS
<1>4. f \in Surjection(1 .. n, R) BY <1>3 DEF Surjection
<1>5. f \in Injection(1 .. n, R) BY <1>3 DEF Injection, IsInjective, Once
<1>6. Cardinality(R) = Cardinality(1 .. n)
  <2> HIDE DEF f
  <2> QED BY <1>2, <1>4, <1>5, FS_Surjection
<1> QED BY <1>2, <1>6

\* OrderInv is what cache.rs promises of the deque.
LEMMA OrderInvMeans ==
    ASSUME CacheTypeOK, ResidentListed, OrderInv
    PROVE  OrderIsRecency
<1>1. order \in Seq(Projects) /\ Len(order) \in Nat /\ DOMAIN order = 1 .. Len(order)
  BY LenProperties DEF CacheTypeOK
<1>2. \A q : q \in ToSet(order) <=> \E i \in 1 .. Len(order) : order[i] = q
  BY <1>1 DEF ToSet
<1>3. Cardinality(ToSet(order)) = Len(order)
  <2> HIDE DEF CacheTypeOK
  <2> QED BY <1>1, <1>2, OnceCounts DEF OrderInv
<1>4. ToSet(order) = {q \in Projects : Resident(q)}
  BY <1>1, <1>2, ElementOfSeq DEF OrderInv, ResidentListed, Listed
<1> QED BY <1>3, <1>4 DEF OrderIsRecency, OrderInv

\* insert pages out the least recently used projects and never the one it inserts; what it pages
\* out loses its view, and what it leaves is as it was.
LEMMA InsertOrder ==
    ASSUME NEW p \in Projects, NEW v \in Nat, NEW d \in BOOLEAN,
           CacheTypeOK, ResidentListed, OrderInv, Insert(p, v, d)
    PROVE  /\ OrderInv'
           /\ p \notin ToSet(Victims(p)) /\ graphs'[p] = v /\ view'[p] = Absent
           /\ \A q \in Projects \ {p} :
                 IF q \in ToSet(Victims(p)) THEN view'[q] = Absent
                 ELSE graphs'[q] = graphs[q] /\ view'[q] = view[q]
<1> DEFINE s == Touched(p)
           n == Excess(p)
           out == ToSet(Victims(p))
           R == {q \in Projects : Resident(q)} \cup {p}
<1>1. /\ s \in Seq(Projects) /\ Len(s) \in Nat \ {0} /\ s[Len(s)] = p /\ Once(s)
      /\ \A q \in Projects : Listed(s, q) <=> q = p \/ Listed(order, q)
  BY TouchedProperties DEF CacheTypeOK, OrderInv
<1>2. /\ graphs' = [q \in Projects |-> IF q \in out THEN Absent
                                      ELSE IF q = p THEN v ELSE graphs[q]]
      /\ view' = [q \in Projects |->
                     IF q \in out \cup {p} THEN Absent ELSE view[q]]
  BY DEF Insert
<1>3. /\ n \in 0 .. Len(s) /\ order' \in Seq(Projects) /\ Len(order') = Len(s) - n
      /\ \A q : q \in out <=> \E i \in 1 .. n : s[i] = q
      /\ \A i \in 1 .. Len(s) - n : order'[i] = s[n + i]
  BY InsertShape
<1>4. Len(s) = Cardinality(R)
  <2>1. \A i \in 1 .. Len(s) : s[i] \in Projects BY <1>1, ElementOfSeq
  <2>2. \A q : q \in R <=> \E i \in 1 .. Len(s) : s[i] = q
    <3> HIDE DEF s
    <3> QED BY <1>1, <2>1 DEF Listed, OrderInv, ResidentListed
  <2> HIDE DEF s, R
  <2> QED BY <1>1, <2>2, OnceCounts
<1>5. n = IF Len(s) > Capacity THEN Len(s) - Capacity ELSE 0 BY <1>4 DEF Excess
<1> HIDE DEF out, s, n, R
<1>6. n < Len(s) /\ Len(s) - n <= Capacity BY <1>1, <1>5, CapacityAssumption
<1>7. p \notin out
  <2>1. \A i \in 1 .. n : s[i] # p BY <1>1, <1>3, <1>6 DEF Once
  <2> QED BY <2>1, <1>3
<1>8. Once(order)'
  <2>1. ASSUME NEW i \in 1 .. Len(s) - n, NEW j \in 1 .. Len(s) - n, order'[i] = order'[j]
        PROVE  i = j
    <3>1. s[n + i] = s[n + j] /\ n + i \in 1 .. Len(s) /\ n + j \in 1 .. Len(s)
      BY <2>1, <1>1, <1>3
    <3>2. n + i = n + j BY <3>1, <1>1 DEF Once
    <3> QED BY <3>2, <1>1, <1>3
  <2> QED BY <2>1, <1>3 DEF Once
<1>9. ASSUME NEW q \in Projects, Listed(order, q)' PROVE Resident(q)'
  <2>1. PICK i \in 1 .. Len(s) - n : s[n + i] = q BY <1>3, <1>9 DEF Listed
  <2>2. n + i \in 1 .. Len(s) /\ \A j \in 1 .. n : j # n + i BY <1>1, <1>3
  <2>3. q \notin out BY <1>1, <1>3, <2>1, <2>2 DEF Once
  <2>4. q = p \/ Resident(q) BY <1>1, <2>1, <2>2 DEF Listed, OrderInv
  <2> QED BY <1>2, <2>3, <2>4 DEF Resident, Absent
<1>10. OrderInv' BY <1>3, <1>6, <1>8, <1>9 DEF OrderInv
<1> QED BY <1>2, <1>7, <1>10 DEF out

\* A use of a resident project only moves it.
LEMMA GetArcOrder ==
    ASSUME NEW p \in Projects, CacheTypeOK, ResidentListed, OrderInv, Resident(p), GetArc(p)
    PROVE  OrderInv'
<1> DEFINE s == Touched(p)
<1>1. /\ s \in Seq(Projects) /\ Once(s)
      /\ \A q \in Projects : Listed(s, q) <=> Listed(order, q)
  BY TouchedProperties DEF CacheTypeOK, OrderInv, ResidentListed
<1>2. order' = s /\ UNCHANGED graphs BY DEF GetArc
<1> HIDE DEF s
<1>3. Len(s) = Len(order)
  <2> DEFINE R == {q \in Projects : Listed(order, q)}
  <2>1. order \in Seq(Projects) BY DEF CacheTypeOK
  <2>2. /\ \A i \in 1 .. Len(s) : s[i] \in Projects
        /\ \A i \in 1 .. Len(order) : order[i] \in Projects
    BY <1>1, <2>1, ElementOfSeq
  <2>3. \A q : q \in R <=> \E i \in 1 .. Len(order) : order[i] = q BY <2>2 DEF Listed
  <2>4. \A q : q \in R <=> \E i \in 1 .. Len(s) : s[i] = q BY <1>1, <2>2 DEF Listed
  <2> HIDE DEF R
  <2>5. Cardinality(R) = Len(order) BY <2>1, <2>3, OnceCounts DEF OrderInv
  <2>6. Cardinality(R) = Len(s) BY <1>1, <2>4, OnceCounts
  <2> QED BY <2>5, <2>6
<1> QED BY <1>1, <1>2, <1>3 DEF OrderInv, Resident, Listed, Once

-----------------------------------------------------------------------------
(* The flusher *)

\* A write-back in progress has a victim in hand; a write has its state.
EvictOK ==
    \A t \in Threads :
        /\ pc[t] \in EvictPcs => evicted[t] # <<>>
        /\ pc[t] = "evict_write" => Head(evicted[t]).state # Absent

TypeInv == TypeOK /\ ResidentListed /\ EvictOK

-----------------------------------------------------------------------------
(* The type invariant is inductive *)

\* The project an idle thread points at is a project.
LEMMA AnyProjectType == AnyProject \in Projects
BY ProjectsAssumption DEF AnyProject

\* A daemon starts with every variable in its domain.
LEMMA TypeInvInit == Init => TypeInv
<1> SUFFICES ASSUME Init PROVE TypeInv OBVIOUS
<1> USE AnyProjectType DEF Init, CacheInit
<1>1. CacheTypeOK BY DEF CacheTypeOK
<1>2. TypeOK
  <2>1. evicted \in [Threads -> Seq(EvictedRecord)] BY EmptySeq
  <2>2. lock \in [Projects -> Threads \cup {Free}] OBVIOUS
  <2>3. pc \in [Threads -> Pcs] BY DEF Pcs, Unlocked
  <2>4. failed \in BOOLEAN /\ marker \in BOOLEAN BY Zenon
  <2> QED BY <1>1, <2>1, <2>2, <2>3, <2>4 DEF TypeOK
<1>3. ResidentListed BY DEF ResidentListed, Resident
<1>4. EvictOK BY DEF EvictOK, EvictPcs
<1> QED BY <1>2, <1>3, <1>4 DEF TypeInv

\* Everything a return resets stays in its domain.
LEMMA ReturnType ==
    ASSUME TypeOK, NEW t \in Threads, Return(t)
    PROVE  /\ pc' \in [Threads -> Pcs]
           /\ proj' \in [Threads -> Projects]
           /\ val' \in [Threads -> Nat]
           /\ after' \in [Threads -> {"idle", "build", "mutate", "unlock",
                                      "answer", "snapshot"}]
           /\ \A u \in Threads : pc'[u] = IF u = t THEN "idle" ELSE pc[u]
BY AnyProjectType DEF TypeOK, Return, Goto, Pcs, Unlocked

\* state_of keeps every variable in its domain.
LEMMA StateOfType ==
    ASSUME TypeInv, NEW t \in Threads, StateOfStep(t)
    PROVE  TypeInv'
<1> USE DEF TypeInv, TypeOK, EvictOK, EvictPcs, Goto, At, Pcs, StateOfPcs,
            ApplyPcs, EvictPcs, Unlocked, StateOfNext
<1>p. proj[t] \in Projects OBVIOUS
<1>1. CASE StateOfHit(t)
  <2>1. CacheTypeOK' /\ ResidentListed'
    BY <1>1, <1>p, GetArcPreserves DEF StateOfHit
  <2>2. graphs[proj[t]] \in Nat
    BY <1>1, <1>p DEF StateOfHit, Resident, CacheTypeOK
  <2> QED BY <1>1, <2>1, <2>2 DEF StateOfHit, stopVars
<1>2. CASE StateOfMiss(t)
  <2>1. CacheTypeOK' /\ ResidentListed'
    BY <1>2, UnchangedPreserves DEF StateOfMiss
  <2> QED BY <1>2, <2>1 DEF StateOfMiss, stopVars
<1>3. CASE LoadState(t)
  <2>1. CacheTypeOK' /\ ResidentListed'
    BY <1>3, UnchangedPreserves DEF LoadState
  <2> QED BY <1>3, <2>1 DEF LoadState, stopVars
<1>4. CASE LoadInto(t)
  <2>1. CacheTypeOK' /\ ResidentListed'
    BY <1>4, <1>p, InsertPreserves DEF LoadInto, InsertBy
  <2>2. /\ EvictedBy(proj[t]) \in Seq(EvictedRecord)
        /\ Victims(proj[t]) # <<>> => EvictedBy(proj[t]) # <<>>
    <3>1. Victims(proj[t]) \in Seq(Projects) /\ Len(Victims(proj[t])) = Excess(proj[t])
          /\ EvictedBy(proj[t]) \in Seq(EvictedRecord)
          /\ Len(EvictedBy(proj[t])) = Excess(proj[t])
      BY <1>p, EvictedByType
    <3>2. Len(<<>>) = 0 /\ (Victims(proj[t]) # <<>> => Len(Victims(proj[t])) # 0)
      BY <3>1, EmptySeq
    <3> QED BY <3>1, <3>2
  <2>3. shares' \in SUBSET Readers BY <1>4 DEF LoadInto, KeptShares
  <2>4. pc' \in [Threads -> Pcs] BY <1>4 DEF LoadInto
  <2> QED BY <1>4, <2>1, <2>2, <2>3, <2>4 DEF LoadInto, InsertBy, stopVars
<1> QED BY <1>1, <1>2, <1>3, <1>4 DEF StateOfStep

\* flush_evicted writes states, and only of victims the cache handed back.
LEMMA EvictType ==
    ASSUME TypeInv, NEW t \in Threads, EvictStep(t)
    PROVE  TypeInv'
<1> USE DEF TypeInv, TypeOK, EvictOK, EvictPcs, Goto, At, Pcs, Unlocked,
            StateOfPcs, ApplyPcs, FlushPcs, stopVars
<1> DEFINE e == Head(evicted[t])
           rest == Tail(evicted[t])
<1>1. /\ evicted[t] # <<>> /\ UNCHANGED cacheVars
      /\ t \in Threads /\ pc[t] \in EvictPcs
  BY DEF EvictStep, EvictClear, EvictWrite, EvictWriteFails
<1>2. CacheTypeOK' /\ ResidentListed' BY <1>1, UnchangedPreserves
<1>3. /\ e \in EvictedRecord /\ rest \in Seq(EvictedRecord)
      /\ Len(evicted[t]) # 1 => rest # <<>>
  <2>1. /\ e \in EvictedRecord /\ rest \in Seq(EvictedRecord)
        /\ Len(rest) = Len(evicted[t]) - 1
    BY <1>1, HeadTailProperties
  <2>2. Len(evicted[t]) \in Nat BY LenProperties
  <2> HIDE DEF rest, e
  <2>3. Len(<<>>) = 0 OBVIOUS
  <2>4. ASSUME rest = <<>> PROVE Len(rest) = 0 BY <2>3, <2>4
  <2> QED BY <2>1, <2>2, <2>4
<1>4. e.id \in Projects /\ e.state \in Nat \cup {Absent}
  BY <1>3 DEF EvictedRecord
<1> HIDE DEF e, rest
<1>5. ASSUME EvictNext(t), UNCHANGED after
      PROVE  /\ evicted' \in [Threads -> Seq(EvictedRecord)]
             /\ pc' \in [Threads -> Pcs]
             /\ EvictOK'
  BY <1>1, <1>3, <1>5 DEF EvictNext, rest
<1>6. CASE EvictClear(t)
  <2>1. CASE e.state = Absent
    BY <1>2, <1>5, <1>6, <2>1 DEF EvictClear, e
  <2>2. CASE e.state # Absent
    BY <1>2, <1>1, <1>6, <2>2 DEF EvictClear, e
  <2> QED BY <2>1, <2>2
<1>7. CASE EvictWrite(t)
  <2>1. e.state \in Nat BY <1>4, <1>7 DEF EvictWrite, e
  <2> QED BY <1>2, <1>4, <1>5, <1>7, <2>1 DEF EvictWrite, e
<1>8. CASE EvictWriteFails(t)
  <2>1. Return(t) /\ evicted' = [evicted EXCEPT ![t] = <<>>]
        /\ shares' \in SUBSET Readers
    BY <1>8 DEF EvictWriteFails
  <2>2. /\ pc' \in [Threads -> Pcs] /\ proj' \in [Threads -> Projects]
        /\ val' \in [Threads -> Nat]
        /\ after' \in [Threads -> {"idle", "build", "mutate", "unlock",
                                   "answer", "snapshot"}]
        /\ \A u \in Threads : pc'[u] = IF u = t THEN "idle" ELSE pc[u]
    BY <2>1, ReturnType
  <2>3. evicted' \in [Threads -> Seq(EvictedRecord)] BY <2>1, EmptySeq
  <2>4. lock' \in [Projects -> Threads \cup {Free}]
    BY <1>8 DEF EvictWriteFails, Unlock
  <2>5. EvictOK' BY <2>1, <2>2
  <2> QED BY <1>2, <1>8, <2>1, <2>2, <2>3, <2>4, <2>5 DEF EvictWriteFails
<1> QED BY <1>6, <1>7, <1>8 DEF EvictStep

\* Dropping the guard, with or without returning.
LEMMA UnlockType ==
    ASSUME TypeOK, NEW t \in Threads, Unlock(t)
    PROVE  lock' \in [Projects -> Threads \cup {Free}]
BY DEF TypeOK, Unlock

AfterPcs == {"idle", "build", "mutate", "unlock", "answer", "snapshot"}

ThreadsTyped ==
    /\ pc \in [Threads -> Pcs] /\ proj \in [Threads -> Projects]
    /\ val \in [Threads -> Nat] /\ after \in [Threads -> AfterPcs]

\* So does dropping the guard and returning.
LEMMA UnlockReturn ==
    ASSUME TypeInv, NEW t \in Threads, Unlock(t), Return(t), UNCHANGED evicted
    PROVE  /\ lock' \in [Projects -> Threads \cup {Free}]
           /\ ThreadsTyped'
           /\ EvictOK'
<1>1. TypeOK BY DEF TypeInv
<1>2. lock' \in [Projects -> Threads \cup {Free}] BY <1>1, UnlockType
<1>3. /\ ThreadsTyped'
      /\ \A u \in Threads : pc'[u] = IF u = t THEN "idle" ELSE pc[u]
  BY <1>1, ReturnType DEF ThreadsTyped, AfterPcs
<1>4. EvictOK' BY <1>3 DEF TypeInv, EvictOK, EvictPcs
<1> QED BY <1>2, <1>3, <1>4

\* So does the end of an apply (with_project_apply).
LEMMA LeaveApplyType ==
    ASSUME TypeInv, NEW t \in Threads, LeaveApply(t), UNCHANGED evicted
    PROVE  /\ lock' \in [Projects -> Threads \cup {Free}]
           /\ ThreadsTyped'
           /\ EvictOK'
<1>1. Unlock(t) BY DEF LeaveApply
<1>2. CASE t \in Clients
  BY <1>1, <1>2, UnlockType
  DEF LeaveApply, TypeInv, TypeOK, ThreadsTyped, AfterPcs, EvictOK, EvictPcs,
      Goto, Pcs, Unlocked
<1>3. CASE t \notin Clients
  BY <1>1, <1>3, UnlockReturn DEF LeaveApply
<1> QED BY <1>2, <1>3

\* An insert leaves the victims it paged out to the thread that inserted.
LEMMA InsertByType ==
    ASSUME TypeInv, NEW t \in Threads, NEW d \in BOOLEAN,
           InsertBy(t, val[t], d)
    PROVE  /\ CacheTypeOK' /\ ResidentListed'
           /\ evicted' \in [Threads -> Seq(EvictedRecord)]
           /\ \A u \in Threads \ {t} : evicted'[u] = evicted[u]
           /\ evicted'[t] = <<>> <=> Victims(proj[t]) = <<>>
<1>1. proj[t] \in Projects /\ val[t] \in Nat BY DEF TypeInv, TypeOK
<1>2. CacheTypeOK' /\ ResidentListed'
  BY <1>1, InsertPreserves DEF TypeInv, TypeOK, InsertBy
<1>3. /\ Victims(proj[t]) \in Seq(Projects)
      /\ Len(Victims(proj[t])) = Excess(proj[t])
      /\ EvictedBy(proj[t]) \in Seq(EvictedRecord)
      /\ Len(EvictedBy(proj[t])) = Excess(proj[t])
  BY <1>1, EvictedByType DEF TypeInv, TypeOK
<1>4. EvictedBy(proj[t]) = <<>> <=> Victims(proj[t]) = <<>>
  <2>1. \A S : \A q \in Seq(S) : q = <<>> <=> Len(q) = 0 BY EmptySeq
  <2> QED BY <1>3, <2>1
<1> QED BY <1>2, <1>3, <1>4 DEF TypeInv, TypeOK, InsertBy

\* with_project_apply and record_apply keep every variable in its domain.
LEMMA ApplyType ==
    ASSUME TypeInv, NEW t \in Threads, ApplyStep(t)
    PROVE  TypeInv'
<1> USE DEF TypeInv, TypeOK, stopVars
<1>u. ASSUME UNCHANGED cacheVars PROVE CacheTypeOK' /\ ResidentListed'
  BY <1>u, UnchangedPreserves
<1>p. proj[t] \in Projects /\ val[t] \in Nat OBVIOUS
<1>1. CASE MutateNoop(t) \/ MutateFails(t) \/ WriteThroughFails(t) \/ EndApply(t)
  <2>1. /\ lock' \in [Projects -> Threads \cup {Free}]
        /\ ThreadsTyped' /\ EvictOK'
        /\ UNCHANGED <<cacheVars, disk, dirty, evicted, shares, latest, acked,
                       stopVars>>
    BY <1>1, LeaveApplyType, UnlockReturn
    DEF MutateNoop, MutateFails, WriteThroughFails, EndApply
  <2> QED BY <2>1, <1>u DEF ThreadsTyped, AfterPcs
<1>2. CASE MutateChanged(t)
  BY <1>2, <1>u DEF MutateChanged, Goto, Pcs, ApplyPcs, EvictOK, EvictPcs
<1>3. CASE WriteThrough(t)
  BY <1>3, <1>u, <1>p DEF WriteThrough, Goto, Pcs, ApplyPcs, EvictOK, EvictPcs
<1>4. CASE LoadFresh(t)
  <2>1. /\ CacheTypeOK' /\ ResidentListed'
        /\ evicted' \in [Threads -> Seq(EvictedRecord)]
        /\ \A u \in Threads \ {t} : evicted'[u] = evicted[u]
    BY <1>4, InsertByType DEF LoadFresh
  <2>2. shares' \in SUBSET Readers BY <1>4 DEF LoadFresh, KeptShares
  <2> QED BY <1>4, <2>1, <2>2
      DEF LoadFresh, Goto, Pcs, ApplyPcs, EvictOK, EvictPcs
<1>5. CASE ClearDirty(t)
  BY <1>5, <1>u
  DEF ClearDirty, Goto, Pcs, ApplyPcs, EvictOK, EvictPcs
<1>6. CASE Put(t)
  <2>1. /\ CacheTypeOK' /\ ResidentListed'
        /\ evicted' \in [Threads -> Seq(EvictedRecord)]
        /\ \A u \in Threads \ {t} : evicted'[u] = evicted[u]
    BY <1>6, InsertByType DEF Put
  <2>2. shares' \in SUBSET Readers BY <1>6 DEF Put, KeptShares
  <2>3. latest' \in [Projects -> Nat] BY <1>6, <1>p DEF Put
  <2>4. pc' \in [Threads -> Pcs] /\ EvictOK'
    BY <1>6, <2>1 DEF Put, Goto, Pcs, ApplyPcs, EvictOK, EvictPcs
  <2> QED BY <1>6, <2>1, <2>2, <2>3, <2>4 DEF Put
<1>7. CASE MarkDirty(t)
  BY <1>7, <1>u, <1>p
  DEF MarkDirty, Goto, Pcs, ApplyPcs, EvictOK, EvictPcs
<1> QED BY <1>1, <1>2, <1>3, <1>4, <1>5, <1>6, <1>7 DEF ApplyStep

\* flush_project, flush_locked and their callers do.
LEMMA FlushType ==
    ASSUME TypeInv, NEW t \in Threads, FlushStep(t)
    PROVE  TypeInv'
<1> USE DEF TypeInv, TypeOK, stopVars
<1>u. ASSUME UNCHANGED cacheVars PROVE CacheTypeOK' /\ ResidentListed'
  BY <1>u, UnchangedPreserves
<1>p. proj[t] \in Projects /\ val[t] \in Nat OBVIOUS
<1>1. CASE AnswerClean(t)
  <2>1. /\ ThreadsTyped'
        /\ \A u \in Threads : pc'[u] = IF u = t THEN "idle" ELSE pc[u]
    BY <1>1, ReturnType DEF AnswerClean, ThreadsTyped, AfterPcs
  <2>2. EvictOK' BY <1>1, <2>1 DEF AnswerClean, EvictOK, EvictPcs
  <2>3. acked' \in [Projects -> Nat] BY <1>1, <1>p DEF AnswerClean
  <2> QED BY <1>1, <1>u, <2>1, <2>2, <2>3 DEF AnswerClean, ThreadsTyped, AfterPcs
<1>2. CASE TrailingFlush(t) \/ FlushLocked(t) \/ FlushClear(t) \/ Snapshot(t)
  BY <1>2, <1>u, <1>p
  DEF TrailingFlush, FlushLocked, FlushClear, Snapshot, Goto, Pcs, ApplyPcs,
      Unlocked, FlushPcs, EvictOK, EvictPcs
<1>3. CASE FlushLock(t)
  BY <1>3, <1>u, <1>p DEF FlushLock, Goto, Pcs, FlushPcs, EvictOK, EvictPcs
<1>4. CASE FlushPeek(t)
  <2>1. graphs[proj[t]] \in Nat
    BY <1>4, <1>p DEF FlushPeek, Resident, CacheTypeOK
  <2> QED BY <1>4, <1>u, <2>1
      DEF FlushPeek, Goto, Pcs, FlushPcs, EvictOK, EvictPcs
<1>5. CASE FlushGone(t) \/ FlushWriteFails(t) \/ Answer(t)
  <2>1. /\ lock' \in [Projects -> Threads \cup {Free}]
        /\ ThreadsTyped' /\ EvictOK'
        /\ UNCHANGED <<cacheVars, disk, evicted, shares, latest, phase,
                       todo, marker>>
    BY <1>5, UnlockReturn DEF FlushGone, FlushWriteFails, Answer
  <2>2. /\ dirty' \in SUBSET Projects
        /\ acked' \in [Projects -> Nat]
    BY <1>5, <1>p DEF FlushGone, FlushWriteFails, Answer
  <2>3. failed' \in BOOLEAN
    BY <1>5 DEF FlushGone, FlushWriteFails, Answer, NoteFailure
  <2> QED BY <2>1, <2>2, <2>3, <1>u DEF ThreadsTyped, AfterPcs
<1>6. CASE FlushWrite(t)
  BY <1>6, <1>u, <1>p DEF FlushWrite, Goto, Pcs, FlushPcs, EvictOK, EvictPcs
<1>7. CASE FlushClean(t)
  <2>1. CacheTypeOK' /\ ResidentListed'
    BY <1>7, <1>p, MarkCleanPreserves DEF FlushClean
  <2> QED BY <1>7, <2>1 DEF FlushClean, Goto, Pcs, FlushPcs, EvictOK, EvictPcs
<1> QED BY <1>1, <1>2, <1>3, <1>4, <1>5, <1>6, <1>7 DEF FlushStep

\* The query lane does.
LEMMA QueryType ==
    ASSUME TypeInv, NEW t \in Threads, QueryStep(t)
    PROVE  TypeInv'
<1> USE DEF TypeInv, TypeOK, stopVars
<1>u. ASSUME UNCHANGED cacheVars PROVE CacheTypeOK' /\ ResidentListed'
  BY <1>u, UnchangedPreserves
<1>r. ASSUME Return(t), UNCHANGED evicted PROVE ThreadsTyped' /\ EvictOK'
  <2>1. /\ ThreadsTyped'
        /\ \A u \in Threads : pc'[u] = IF u = t THEN "idle" ELSE pc[u]
    BY <1>r, ReturnType DEF ThreadsTyped, AfterPcs
  <2> QED BY <1>r, <2>1 DEF EvictOK, EvictPcs
<1>1. CASE Probe(t)
  <2>1. CASE Return(t)
    BY <1>1, <2>1, <1>u, <1>r DEF Probe, ThreadsTyped, AfterPcs
  <2>2. CASE Goto(t, "state_of") /\ UNCHANGED <<proj, val, after>>
    BY <1>1, <2>2, <1>u DEF Probe, Goto, Pcs, StateOfPcs, EvictOK, EvictPcs
  <2> QED BY <1>1, <2>1, <2>2 DEF Probe
<1>2. CASE InstallView(t)
  <2>1. view' \in [Projects -> Nat \cup {Absent}]
    BY <1>2 DEF InstallView, CacheTypeOK
  <2>2. CacheTypeOK' /\ ResidentListed'
    BY <1>2, <2>1
    DEF InstallView, CacheTypeOK, ResidentListed, Resident, Listed
  <2> QED BY <1>2, <1>r, <2>2 DEF InstallView, ThreadsTyped, AfterPcs
<1>3. CASE AnswerStatus(t)
  <2>1. /\ Return(t) /\ shares' \in SUBSET Readers
        /\ UNCHANGED <<cacheVars, disk, dirty, lock, evicted, latest, acked,
                       stopVars>>
    BY <1>3 DEF AnswerStatus
  <2>2. CacheTypeOK' /\ ResidentListed' BY <2>1, <1>u
  <2>3. ThreadsTyped' /\ EvictOK' BY <2>1, <1>r
  <2> QED BY <2>1, <2>2, <2>3 DEF ThreadsTyped, AfterPcs
<1> QED BY <1>1, <1>2, <1>3 DEF QueryStep

\* Starting an operation does.
LEMMA BeginType ==
    ASSUME TypeInv, NEW t \in Threads, NEW p \in Projects, Begin(t, p)
    PROVE  TypeInv'
<1> USE DEF TypeInv, TypeOK, stopVars
<1>u. ASSUME UNCHANGED cacheVars PROVE CacheTypeOK' /\ ResidentListed'
  BY <1>u, UnchangedPreserves
<1>1. CASE BeginApply(t, p)
  BY <1>1, <1>u DEF BeginApply, Goto, Pcs, StateOfPcs, EvictOK, EvictPcs
<1>5. CASE BeginExport(t, p)
  BY <1>5, <1>u DEF BeginExport, Goto, Pcs, FlushPcs, EvictOK, EvictPcs
<1>2. CASE BeginFlush(t, p)
  BY <1>2, <1>u DEF BeginFlush, Goto, Pcs, Unlocked, EvictOK, EvictPcs
<1>3. CASE QueryHit(t, p)
  <2>1. CacheTypeOK' /\ ResidentListed' BY <1>3, GetArcPreserves DEF QueryHit
  <2> QED BY <1>3, <2>1 DEF QueryHit, threadVars, EvictOK
<1>4. CASE BeginQuery(t, p)
  BY <1>4, <1>u
  DEF BeginQuery, Goto, Pcs, Unlocked, StateOfPcs, EvictOK, EvictPcs
<1> QED BY <1>1, <1>2, <1>3, <1>4, <1>5 DEF Begin

\* Shutdown and restart do.
LEMMA StopType ==
    ASSUME TypeInv,
           \/ BeginShutdown \/ WriteMarker \/ Restart
           \/ \E p \in Projects : SkipFlush(p)
    PROVE  TypeInv'
<1> USE DEF TypeInv, TypeOK, stopVars, threadVars
<1>u. ASSUME UNCHANGED cacheVars PROVE CacheTypeOK' /\ ResidentListed'
  BY <1>u, UnchangedPreserves
<1>1. CASE BeginShutdown BY <1>1, <1>u DEF BeginShutdown, EvictOK
<1>2. CASE WriteMarker BY <1>2, <1>u DEF WriteMarker, EvictOK
<1>3. CASE \E p \in Projects : SkipFlush(p) BY <1>3, <1>u DEF SkipFlush, EvictOK
<1>4. CASE Restart
  <2> USE AnyProjectType
  <2>1. CacheTypeOK' /\ ResidentListed'
    BY <1>4 DEF Restart, CacheTypeOK, ResidentListed, Resident
  <2>2. evicted' \in [Threads -> Seq(EvictedRecord)] BY <1>4, EmptySeq DEF Restart
  <2>3. EvictOK' BY <1>4 DEF Restart, EvictOK, EvictPcs
  <2>4. pc' \in [Threads -> Pcs] /\ lock' \in [Projects -> Threads \cup {Free}]
    BY <1>4 DEF Restart, Pcs, Unlocked
  <2> QED BY <1>4, <2>1, <2>2, <2>3, <2>4 DEF Restart
<1> QED BY <1>1, <1>2, <1>3, <1>4

\* Every step of the daemon does.
LEMMA TypeInvStep == TypeInv /\ [Next]_vars => TypeInv'
<1> SUFFICES ASSUME TypeInv, [Next]_vars PROVE TypeInv' OBVIOUS
<1>1. ASSUME NEW t \in Threads, Step(t) PROVE TypeInv'
  BY <1>1, StateOfType, EvictType, ApplyType, FlushType, QueryType DEF Step
<1>2. CASE UNCHANGED vars
  BY <1>2, UnchangedPreserves
  DEF vars, threadVars, stopVars, TypeInv, TypeOK, EvictOK
<1> QED BY <1>1, <1>2, BeginType, StopType DEF Next

(***************************************************************************)
(* Type correctness: whatever is resident, paged out, queued for writing   *)
(* or on disk is a state of the program, for every instance.               *)
(***************************************************************************)
THEOREM TypeCorrect == Spec => []TypeOK
<1>1. TypeInv => TypeOK BY DEF TypeInv
<1> QED BY <1>1, TypeInvStep, TypeInvInit, PTL DEF Spec

-----------------------------------------------------------------------------
(* Recency, views and queries, for any capacity *)

\* A step of t moves no other thread.
Moved(t) ==
    \A u \in Threads \ {t} :
        /\ pc'[u] = pc[u] /\ proj'[u] = proj[u]
        /\ val'[u] = val[u] /\ after'[u] = after[u]

\* A reader only looks a state up, or pages it in, and then builds a view of it.
ReadersOK ==
    \A r \in Readers :
        /\ pc[r] \in {"idle", "probe", "build"} \cup StateOfPcs \cup EvictPcs
        /\ pc[r] \in EvictPcs => after[r] = "build"

\* The state a reader shares with the cache is the resident one.
SharesOK ==
    \A r \in shares :
        /\ pc[r] \in EvictPcs \cup {"build"}
        /\ Resident(proj[r]) /\ val[r] = graphs[proj[r]]

CoherenceInv == OrderInv /\ ViewMatchesState /\ ReadersOK /\ SharesOK

\* A step that leaves the cache and the other threads alone, and after which t shares nothing.
LEMMA CoherentKeep ==
    ASSUME TypeInv, CoherenceInv, NEW t \in Threads, Moved(t), UNCHANGED <<graphs, view, order>>,
           shares' \subseteq shares \ {t},
           t \in Readers => pc'[t] \in {"idle", "probe"} \cup StateOfPcs
    PROVE  CoherenceInv'
<1>1. OrderInv' /\ ViewMatchesState'
  BY DEF CoherenceInv, OrderInv, ViewMatchesState, Once, Listed, Resident
<1>2. ReadersOK'
  BY DEF CoherenceInv, ReadersOK, Moved, Threads, EvictPcs, StateOfPcs
<1>3. SharesOK'
  BY DEF CoherenceInv, SharesOK, Moved, Threads, Resident, TypeInv, TypeOK
<1> QED BY <1>1, <1>2, <1>3 DEF CoherenceInv

\* An apply and a flush are not a reader's.
LEMMA NoReader ==
    ASSUME TypeInv, CoherenceInv, NEW t \in Threads,
           pc[t] \in ApplyPcs \cup FlushPcs \cup {"flush_project", "flush_wait"}
    PROVE  t \notin Readers /\ t \notin shares /\ shares \subseteq shares \ {t}
BY DEF CoherenceInv, ReadersOK, TypeInv, TypeOK, ApplyPcs, FlushPcs, StateOfPcs, EvictPcs

\* An insert with the readers it parts from the resident state.
LEMMA CoherentInsert ==
    ASSUME TypeInv, CoherenceInv, NEW t \in Threads, NEW d \in BOOLEAN, Moved(t), t \notin shares,
           InsertBy(t, val[t], d), proj'[t] = proj[t], val'[t] = val[t],
           \/ t \notin Readers /\ shares' = KeptShares(proj[t])
           \/ /\ t \in Readers /\ shares' = KeptShares(proj[t]) \cup {t}
              /\ \/ pc'[t] = "build"
                 \/ pc'[t] = "evict" /\ after'[t] = "build"
    PROVE  CoherenceInv'
<1> DEFINE p == proj[t]
           out == ToSet(Victims(p))
<1>1. /\ p \in Projects /\ val[t] \in Nat /\ CacheTypeOK /\ ResidentListed
      /\ OrderInv /\ Insert(p, val[t], d)
  BY DEF TypeInv, TypeOK, CoherenceInv, InsertBy
<1>2. /\ OrderInv' /\ p \notin out /\ graphs'[p] = val[t] /\ view'[p] = Absent
      /\ \A q \in Projects \ {p} :
            IF q \in out THEN view'[q] = Absent
            ELSE graphs'[q] = graphs[q] /\ view'[q] = view[q]
  BY <1>1, InsertOrder
<1> HIDE DEF out
<1>3. ViewMatchesState' BY <1>1, <1>2 DEF CoherenceInv, ViewMatchesState
<1>4. ReadersOK'
  BY DEF CoherenceInv, ReadersOK, Moved, Threads, EvictPcs, StateOfPcs
<1>5. ASSUME NEW r \in shares', r # t
      PROVE  /\ pc'[r] \in EvictPcs \cup {"build"}
             /\ Resident(proj[r])' /\ val'[r] = graphs'[proj'[r]]
  <2>1. r \in shares /\ r \in Threads /\ proj[r] \in Projects \ {p} /\ proj[r] \notin out
    BY <1>5 DEF KeptShares, out, TypeInv, TypeOK, Threads
  <2> QED BY <2>1, <1>2, <1>5 DEF CoherenceInv, SharesOK, Moved, Resident
<1>6. t \in shares' => /\ pc'[t] \in EvictPcs \cup {"build"}
                       /\ Resident(proj[t])' /\ val'[t] = graphs'[proj'[t]]
  <2>1. t \notin KeptShares(p) BY DEF KeptShares
  <2>2. t \in shares' => pc'[t] \in EvictPcs \cup {"build"} BY <2>1 DEF EvictPcs
  <2> QED BY <2>2, <1>1, <1>2 DEF Resident, Absent
<1>7. SharesOK' BY <1>5, <1>6 DEF SharesOK
<1> QED BY <1>2, <1>3, <1>4, <1>7 DEF CoherenceInv

\* state_of keeps recency, views and shares right.
LEMMA CoherentStateOf ==
    ASSUME TypeInv, CoherenceInv, NEW t \in Threads, StateOfStep(t)
    PROVE  CoherenceInv'
<1>0. /\ pc[t] \in StateOfPcs /\ t \notin shares /\ proj[t] \in Projects
      /\ shares \subseteq Readers /\ pc \in [Threads -> Pcs]
      /\ val \in [Threads -> Nat] /\ after \in [Threads -> AfterPcs]
  BY DEF StateOfStep, StateOfHit, StateOfMiss, LoadState, LoadInto, At, StateOfPcs, TypeInv,
         TypeOK, CoherenceInv, SharesOK, EvictPcs, AfterPcs
<1>1. CASE StateOfHit(t)
  <2>1. OrderInv' /\ UNCHANGED <<graphs, view>>
    BY <1>1, <1>0, GetArcOrder DEF StateOfHit, GetArc, TypeInv, TypeOK, CoherenceInv
  <2>2. /\ Moved(t) /\ val'[t] = graphs[proj[t]] /\ UNCHANGED proj /\ Resident(proj[t])
        /\ pc'[t] = StateOfNext(t) /\ shares' = shares \cup ({t} \cap Readers)
    BY <1>1, <1>0 DEF StateOfHit, Goto, Moved
  <2>3. ViewMatchesState' BY <2>1 DEF CoherenceInv, ViewMatchesState
  <2>4. ReadersOK'
    BY <2>2 DEF CoherenceInv, ReadersOK, Moved, StateOfNext, Threads, EvictPcs
  <2>5. SharesOK'
    BY <2>1, <2>2, <1>0 DEF CoherenceInv, SharesOK, Moved, StateOfNext, Threads, Resident
  <2> QED BY <2>1, <2>3, <2>4, <2>5 DEF CoherenceInv
<1>2. CASE StateOfMiss(t) \/ LoadState(t)
  <2>1. /\ Moved(t) /\ UNCHANGED <<graphs, view, order, shares>>
        /\ pc'[t] \in StateOfPcs
    BY <1>2, <1>0 DEF StateOfMiss, LoadState, Goto, Moved, cacheVars, StateOfPcs
  <2> QED BY <2>1, <1>0, CoherentKeep
<1>3. CASE LoadInto(t)
  <2>1. /\ Moved(t) /\ InsertBy(t, val[t], FALSE) /\ UNCHANGED <<proj, val>>
        /\ shares' = KeptShares(proj[t]) \cup ({t} \cap Readers)
        /\ pc'[t] \in {StateOfNext(t), "evict"} /\ after'[t] = StateOfNext(t)
    BY <1>3, <1>0 DEF LoadInto, Goto, Moved
  <2> QED BY <2>1, <1>0, CoherentInsert DEF StateOfNext
<1> QED BY <1>1, <1>2, <1>3 DEF StateOfStep

\* So does flush_evicted.
LEMMA CoherentEvict ==
    ASSUME TypeInv, CoherenceInv, NEW t \in Threads, EvictStep(t)
    PROVE  CoherenceInv'
<1>0. /\ pc[t] \in EvictPcs /\ pc \in [Threads -> Pcs] /\ UNCHANGED cacheVars
      /\ shares \subseteq Readers
  BY DEF EvictStep, EvictClear, EvictWrite, EvictWriteFails, At, EvictPcs, TypeInv, TypeOK
<1>1. CASE EvictWriteFails(t)
  <2>1. Moved(t) /\ pc'[t] = "idle" /\ shares' = shares \ {t}
    BY <1>1, <1>0 DEF EvictWriteFails, Return, Goto, Moved, TypeInv, TypeOK
  <2> QED BY <2>1, <1>0, CoherentKeep DEF cacheVars
<1>2. CASE EvictClear(t) \/ EvictWrite(t)
  <2>1. /\ Moved(t) /\ UNCHANGED <<proj, val, after, shares>>
        /\ pc'[t] \in EvictPcs \cup {after[t]}
    BY <1>2, <1>0 DEF EvictClear, EvictWrite, EvictNext, Goto, Moved, EvictPcs
  <2>2. OrderInv' /\ ViewMatchesState'
    BY <1>0 DEF cacheVars, CoherenceInv, OrderInv, ViewMatchesState, Once, Listed, Resident
  <2>3. ReadersOK'
    BY <1>0, <2>1 DEF CoherenceInv, ReadersOK, Moved, Threads, EvictPcs
  <2>4. t \in shares => pc'[t] \in EvictPcs \cup {"build"}
    BY <1>0, <2>1 DEF CoherenceInv, ReadersOK
  <2>5. SharesOK'
    BY <1>0, <2>1, <2>4 DEF cacheVars, CoherenceInv, SharesOK, Moved, Threads, Resident
  <2> QED BY <2>2, <2>3, <2>5 DEF CoherenceInv
<1> QED BY <1>1, <1>2 DEF EvictStep

\* So do the pipeline and record_apply.
LEMMA CoherentApply ==
    ASSUME TypeInv, CoherenceInv, NEW t \in Threads, ApplyStep(t)
    PROVE  CoherenceInv'
<1>0. /\ pc \in [Threads -> Pcs] /\ proj \in [Threads -> Projects]
      /\ val \in [Threads -> Nat] /\ after \in [Threads -> AfterPcs]
  BY DEF TypeInv, TypeOK, AfterPcs
<1>1. pc[t] \in ApplyPcs
  BY DEF ApplyStep, MutateChanged, MutateNoop, MutateFails, WriteThrough, WriteThroughFails,
         LoadFresh, ClearDirty, Put, MarkDirty, EndApply, At, ApplyPcs
<1>2. t \notin Readers /\ t \notin shares /\ shares \subseteq shares \ {t} BY <1>1, NoReader
<1>3. CASE LoadFresh(t)
  <2>1. /\ Moved(t) /\ InsertBy(t, val[t], FALSE) /\ UNCHANGED <<proj, val>>
        /\ shares' = KeptShares(proj[t])
    BY <1>3, <1>0 DEF LoadFresh, Goto, Moved
  <2> QED BY <2>1, <1>2, CoherentInsert
<1>4. CASE Put(t)
  <2>1. /\ Moved(t) /\ InsertBy(t, val[t], TRUE) /\ UNCHANGED <<proj, val>>
        /\ shares' = KeptShares(proj[t])
    BY <1>4, <1>0 DEF Put, Goto, Moved
  <2> QED BY <2>1, <1>2, CoherentInsert
<1>5. CASE ~ (LoadFresh(t) \/ Put(t))
  <2>1. UNCHANGED <<graphs, view, order, shares>>
    BY <1>5 DEF ApplyStep, MutateChanged, MutateNoop, MutateFails, WriteThrough,
       WriteThroughFails, ClearDirty, MarkDirty, EndApply, cacheVars
  <2>2. Moved(t)
    BY <1>0, <1>5 DEF ApplyStep, MutateChanged, MutateNoop, MutateFails, WriteThrough,
       WriteThroughFails, ClearDirty, MarkDirty, EndApply, LeaveApply, Return, Goto, Moved
  <2> QED BY <1>2, <2>1, <2>2, CoherentKeep
<1> QED BY <1>3, <1>4, <1>5

\* So do flushes, exports and answers.
LEMMA CoherentFlush ==
    ASSUME TypeInv, CoherenceInv, NEW t \in Threads, FlushStep(t)
    PROVE  CoherenceInv'
<1>0. /\ pc \in [Threads -> Pcs] /\ proj \in [Threads -> Projects]
      /\ val \in [Threads -> Nat] /\ after \in [Threads -> AfterPcs]
  BY DEF TypeInv, TypeOK, AfterPcs
<1>1. pc[t] \in FlushPcs \cup {"flush_project", "flush_wait"}
  BY DEF FlushStep, AnswerClean, TrailingFlush, FlushLock, FlushLocked, FlushPeek, FlushGone,
         FlushWrite, FlushWriteFails, FlushClean, FlushClear, Snapshot, Answer, At, FlushPcs
<1>2. t \notin Readers /\ t \notin shares /\ shares \subseteq shares \ {t} BY <1>1, NoReader
<1>3. UNCHANGED <<graphs, view, order, shares>>
  BY DEF FlushStep, AnswerClean, TrailingFlush, FlushLock, FlushLocked, FlushPeek, FlushGone,
         FlushWrite, FlushWriteFails, FlushClean, FlushClear, Snapshot, Answer, MarkClean,
         cacheVars
<1>4. Moved(t)
  BY <1>0 DEF FlushStep, AnswerClean, TrailingFlush, FlushLock, FlushLocked, FlushPeek, FlushGone,
     FlushWrite, FlushWriteFails, FlushClean, FlushClear, Snapshot, Answer, Return, Goto, Moved
<1> QED BY <1>2, <1>3, <1>4, CoherentKeep

\* A view is published only of a state that is still the resident one.
LEMMA CoherentQuery ==
    ASSUME TypeInv, CoherenceInv, NEW t \in Threads, QueryStep(t)
    PROVE  CoherenceInv'
<1>0. /\ pc \in [Threads -> Pcs] /\ proj \in [Threads -> Projects]
      /\ val \in [Threads -> Nat] /\ after \in [Threads -> AfterPcs]
      /\ view \in [Projects -> Nat \cup {Absent}]
  BY DEF TypeInv, TypeOK, CacheTypeOK, AfterPcs
<1>1. CASE Probe(t)
  <2>1. /\ Moved(t) /\ pc'[t] \in {"idle", "state_of"}
        /\ UNCHANGED <<graphs, view, order, shares>> /\ t \notin shares
    BY <1>0, <1>1 DEF Probe, Return, Goto, At, Moved, cacheVars, CoherenceInv, SharesOK, EvictPcs
  <2> QED BY <2>1, CoherentKeep DEF StateOfPcs
<1>2. CASE AnswerStatus(t)
  <2>1. /\ Moved(t) /\ pc'[t] = "idle"
        /\ UNCHANGED <<graphs, view, order>> /\ shares' = shares \ {t}
    BY <1>0, <1>2 DEF AnswerStatus, Return, Goto, Moved, cacheVars
  <2> QED BY <2>1, CoherentKeep
<1>3. CASE InstallView(t)
  <2>1. /\ Moved(t) /\ pc'[t] = "idle" /\ UNCHANGED <<graphs, order>> /\ shares' = shares \ {t}
        /\ view' = IF t \in shares THEN [view EXCEPT ![proj[t]] = val[t]] ELSE view
    BY <1>0, <1>3 DEF InstallView, Return, Goto, Moved
  <2>2. OrderInv' BY <2>1 DEF CoherenceInv, OrderInv, Once, Listed, Resident
  <2>3. ViewMatchesState'
    BY <2>1, <1>0 DEF CoherenceInv, SharesOK, ViewMatchesState
  <2>4. ReadersOK' BY <2>1 DEF CoherenceInv, ReadersOK, Moved, Threads, EvictPcs
  <2>5. SharesOK'
    BY <2>1 DEF CoherenceInv, SharesOK, Moved, Threads, Resident, TypeInv, TypeOK
  <2> QED BY <2>2, <2>3, <2>4, <2>5 DEF CoherenceInv
<1> QED BY <1>1, <1>2, <1>3 DEF QueryStep

\* Starting an operation keeps recency, views and shares right; a query with a view at hand only
\* refreshes recency.
LEMMA CoherentBegin ==
    ASSUME TypeInv, CoherenceInv, NEW t \in Threads, NEW p \in Projects, Begin(t, p)
    PROVE  CoherenceInv'
<1>0. /\ pc \in [Threads -> Pcs] /\ proj \in [Threads -> Projects]
      /\ val \in [Threads -> Nat] /\ after \in [Threads -> AfterPcs]
  BY DEF TypeInv, TypeOK, AfterPcs
<1>1. CASE QueryHit(t, p)
  <2>1. Resident(p) BY <1>1 DEF QueryHit, CoherenceInv, ViewMatchesState, Resident
  <2>2. OrderInv' /\ UNCHANGED <<graphs, view, threadVars>>
    BY <1>1, <2>1, GetArcOrder DEF QueryHit, GetArc, TypeInv, TypeOK, CoherenceInv
  <2> QED
    BY <2>2 DEF threadVars, CoherenceInv, ViewMatchesState, ReadersOK, SharesOK, Resident
<1>2. CASE BeginApply(t, p) \/ BeginFlush(t, p) \/ BeginExport(t, p) \/ BeginQuery(t, p)
  <2>1. pc[t] = "idle"
    BY <1>2 DEF BeginApply, BeginFlush, BeginExport, BeginQuery, At, DaemonMutexFree
  <2>2. t \notin shares BY <2>1 DEF CoherenceInv, SharesOK, EvictPcs
  <2>3. Moved(t) /\ UNCHANGED <<graphs, view, order, shares>>
    BY <1>0, <1>2 DEF BeginApply, BeginFlush, BeginExport, BeginQuery, Goto, Moved, cacheVars
  <2>4. t \in Readers => pc'[t] \in {"probe", "state_of"}
    BY <1>0, <1>2, ThreadsAssumption DEF BeginApply, BeginFlush, BeginExport, BeginQuery, Goto
  <2> QED BY <2>2, <2>3, <2>4, CoherentKeep DEF StateOfPcs
<1> QED BY <1>1, <1>2 DEF Begin

\* The order, the views and the readers agree at every step of every thread.
LEMMA CoherenceInvariant == Spec => [](TypeInv /\ CoherenceInv)
<1>0. Len(<<>>) = 0 /\ 0 <= Capacity BY CapacityAssumption
<1>1. Init => TypeInv /\ CoherenceInv
  <2> SUFFICES ASSUME Init PROVE CoherenceInv BY TypeInvInit
  <2>1. order = <<>> /\ shares = {} BY DEF Init, CacheInit
  <2>2. OrderInv BY <1>0, <2>1 DEF OrderInv, Once, Listed
  <2>3. ViewMatchesState BY DEF Init, CacheInit, ViewMatchesState
  <2>4. ReadersOK BY DEF Init, ReadersOK, Threads, EvictPcs
  <2> QED BY <2>1, <2>2, <2>3, <2>4 DEF CoherenceInv, SharesOK
<1>2. TypeInv /\ [Next]_vars => TypeInv' BY TypeInvStep
<1>3. TypeInv /\ CoherenceInv /\ [Next]_vars => CoherenceInv'
  <2> SUFFICES ASSUME TypeInv, CoherenceInv, [Next]_vars PROVE CoherenceInv' OBVIOUS
  <2>1. ASSUME NEW t \in Threads, Step(t) PROVE CoherenceInv'
    BY <2>1, CoherentStateOf, CoherentEvict, CoherentApply, CoherentFlush, CoherentQuery DEF Step
  <2>2. ASSUME NEW t \in Threads, NEW p \in Projects, Begin(t, p) PROVE CoherenceInv'
    BY <2>2, CoherentBegin
  <2>3. CASE UNCHANGED <<cacheVars, threadVars>>
    BY <2>3 DEF cacheVars, threadVars, CoherenceInv, OrderInv, Once, Listed, Resident,
       ViewMatchesState, ReadersOK, SharesOK
  <2>4. CASE Restart
    <3>1. order' = <<>> /\ shares' = {} BY <2>4 DEF Restart
    <3>2. OrderInv' BY <1>0, <3>1 DEF OrderInv, Once, Listed
    <3>3. ViewMatchesState' BY <2>4 DEF Restart, ViewMatchesState
    <3>4. ReadersOK' BY <2>4 DEF Restart, ReadersOK, Threads, EvictPcs
    <3> QED BY <3>1, <3>2, <3>3, <3>4 DEF CoherenceInv, SharesOK
  <2> QED BY <2>1, <2>2, <2>3, <2>4 DEF Next, BeginShutdown, SkipFlush, WriteMarker, vars
<1> QED BY <1>1, <1>2, <1>3, PTL DEF Spec

(***************************************************************************)
(* For any capacity and any threads: the recency order lists exactly the   *)
(* resident projects, each once and no more than fit, and no query ever    *)
(* gets a view of another state than the resident one, although views are  *)
(* built outside the cache mutex (cache.rs touch, evict_to_capacity,       *)
(* install_view).                                                          *)
(***************************************************************************)
THEOREM CacheStaysCoherent == Spec => []CacheCoherent
<1>1. TypeInv /\ CoherenceInv => CacheCoherent
  BY OrderInvMeans DEF TypeInv, TypeOK, CoherenceInv, CacheCoherent
<1> QED BY <1>1, CoherenceInvariant, PTL

-----------------------------------------------------------------------------
(* Safety *)


Inv == TypeOK /\ SafetyInv

\* A daemon starts with nothing in memory and everything on disk.
LEMMA SafetyInit == ResidentRegime /\ Init => SafetyInv
<1> SUFFICES ASSUME ResidentRegime, Init PROVE SafetyInv OBVIOUS
<1> USE DEF Init, CacheInit, At
<1>t. Driver \in Threads BY DEF Threads
<1>1. LockOK BY DEF LockOK, Holds, Unlocked, FlushPcs, EvictPcs
<1>2. LanesOK BY <1>t DEF LanesOK
<1>3. ProjectsOK BY DEF ProjectsOK, ProjectOK, Resident
<1>4. HandsOK BY DEF HandsOK, Hands
<1>5. ShutdownOK BY DEF ShutdownOK
<1> QED BY <1>1, <1>2, <1>3, <1>4, <1>5 DEF SafetyInv

\* Mutual exclusion: one thread at a time is between lock and unlock.
LEMMA Exclusive ==
    ASSUME LockOK, NEW t \in Threads, NEW u \in Threads,
           Holds(t), Holds(u), proj[t] = proj[u]
    PROVE  t = u
BY DEF LockOK

\* Nothing is paged out: an insert only replaces p's own entry.
LEMMA InsertRegime ==
    ASSUME ResidentRegime, NEW p \in Projects, NEW v, NEW d, CacheTypeOK,
           Insert(p, v, d)
    PROVE  /\ graphs' = [graphs EXCEPT ![p] = v]
           /\ Victims(p) = <<>> /\ EvictedBy(p) = <<>>
<1>1. Victims(p) = <<>> /\ EvictedBy(p) = <<>>
  BY NoExcess DEF ResidentRegime
<1>2. ToSet(Victims(p)) = {} BY <1>1 DEF ToSet
<1> QED BY <1>1, <1>2 DEF Insert, CacheTypeOK

\* What the end of an apply does to threads and locks.
LEMMA LeaveApplyShape ==
    ASSUME TypeOK, NEW t \in Threads, LeaveApply(t)
    PROVE  /\ Moved(t)
           /\ \/ pc'[t] = "idle"
              \/ /\ pc'[t] = "flush_project" /\ t \in Clients
                 /\ proj'[t] = proj[t] /\ val'[t] = val[t]
           /\ \A p \in Projects : lock[p] # t => lock'[p] = lock[p]
<1>1. CASE t \in Clients
  BY <1>1 DEF LeaveApply, Unlock, Goto, TypeOK, Moved
<1>2. CASE t \notin Clients
  BY <1>2 DEF LeaveApply, Unlock, Return, Goto, TypeOK, Moved
<1> QED BY <1>1, <1>2

-----------------------------------------------------------------------------
(* The steps of an apply and of a flush *)

\* Both ways an apply ends, with what its thread still has in hand.
LEMMA SafeLeaveApply ==
    ASSUME ResidentRegime, Inv, NEW t \in Threads, LeaveApply(t),
           pc[t] \in {"mutate", "unlock"},
           UNCHANGED <<cacheVars, disk, dirty, evicted, shares, latest, acked,
                       stopVars>>
    PROVE  SafetyInv'
<1>x. \A u \in Threads \ {t} : Holds(u) => proj[u] # proj[t]
  BY Exclusive DEF Inv, SafetyInv, Holds, Unlocked, ResidentRegime
<1>l. /\ \A u \in Threads \ {t} : /\ pc'[u] = pc[u] /\ proj'[u] = proj[u]
                                  /\ val'[u] = val[u] /\ after'[u] = after[u]
      /\ \/ pc'[t] = "idle"
         \/ /\ pc'[t] = "flush_project" /\ t \in Clients
            /\ proj'[t] = proj[t] /\ val'[t] = val[t]
  BY LeaveApplyShape DEF Moved, Inv
<1>h. Hands(t) /\ ProjectOK(proj[t]) /\ proj[t] \in Projects
  BY DEF Inv, SafetyInv, TypeOK, HandsOK, ProjectsOK
<1>v. /\ val[t] = latest[proj[t]]
      /\ proj[t] \notin dirty => disk[proj[t]] = latest[proj[t]]
  <2>1. ~ Someone(proj[t], "mark_dirty")
    BY <1>x DEF Someone, At, Holds, Unlocked, ResidentRegime
  <2> QED BY <1>h, <2>1 DEF Hands, ProjectOK, At
<1>d. Driver \in Threads /\ t # Driver
  BY DEF Inv, SafetyInv, LanesOK, FlushPcs, Threads
<1>n. \A p \in Projects : disk[p] \in Nat /\ latest[p] \in Nat
  BY DEF Inv, TypeOK
<1>1. LockOK'
  <2>1. \A p \in Projects : lock[p] # t => lock'[p] = lock[p]
    BY LeaveApplyShape DEF Inv
  <2>2. ASSUME NEW u \in Threads, u # t, Holds(u)' PROVE lock'[proj'[u]] = u
    <3>1. Holds(u) /\ proj[u] \in Projects /\ proj'[u] = proj[u]
      BY <1>l, <2>2 DEF Holds, Inv, TypeOK
    <3> QED BY <2>1, <2>2, <3>1 DEF Inv, SafetyInv, LockOK
  <2>3. ~ Holds(t)' BY <1>l DEF Holds, Unlocked
  <2> QED BY <1>l, <2>2, <2>3 DEF Inv, SafetyInv, LockOK, At, FlushPcs,
         EvictPcs
<1>2. LanesOK' BY <1>l, <1>d DEF Inv, SafetyInv, LanesOK
<1>3. ProjectsOK'
  <2> SUFFICES ASSUME NEW q \in Projects PROVE ProjectOK(q)' BY DEF ProjectsOK
  <2>1. ProjectOK(q) BY DEF Inv, SafetyInv, ProjectsOK
  <2>2. ASSUME NEW at \in {"load_fresh", "mark_dirty"}, Someone(q, at)
        PROVE  Someone(q, at)'
    BY <1>l, <2>2 DEF Someone, At
  <2> QED BY <2>1, <2>2 DEF ProjectOK, Resident, cacheVars
<1>4. HandsOK'
  <2> SUFFICES ASSUME NEW u \in Threads PROVE Hands(u)' BY DEF HandsOK
  <2>1. CASE u = t
    BY <1>l, <1>v, <1>h, <1>n, <2>1 DEF Hands, At
  <2>2. CASE u # t
    <3>1. Hands(u) BY DEF Inv, SafetyInv, HandsOK
    <3>2. pc'[u] = pc[u] /\ proj'[u] = proj[u] /\ val'[u] = val[u]
      BY <1>l, <2>2
    <3> QED BY <3>1, <3>2 DEF Hands, At, Resident, cacheVars
  <2> QED BY <2>1, <2>2
<1>5. ShutdownOK'
  <2>1. pc'[Driver] = pc[Driver] /\ proj'[Driver] = proj[Driver] BY <1>l, <1>d
  <2>2. \A u \in Workers : pc[u] = "idle" => pc'[u] = "idle"
    BY <1>l DEF Threads
  <2> QED BY <2>1, <2>2 DEF Inv, SafetyInv, ShutdownOK, At, stopVars
<1> QED BY <1>1, <1>2, <1>3, <1>4, <1>5 DEF SafetyInv

\* SafetyInv is kept in state_of: a resident state is handed out.
LEMMA SafeStateOfHit ==
    ASSUME ResidentRegime, Inv, NEW t \in Threads, StateOfHit(t)
    PROVE  SafetyInv'
<1> USE DEF Inv, SafetyInv, TypeOK, At, Goto
<1>x. \A u \in Threads \ {t} : Holds(u) => proj[u] # proj[t]
  BY Exclusive DEF StateOfHit, Holds, Unlocked, ResidentRegime
<1>g. graphs[proj[t]] = latest[proj[t]]
  BY <1>x DEF StateOfHit, ProjectsOK, ProjectOK, Someone, Holds, Unlocked,
  ResidentRegime
<1>1. LockOK'
  BY DEF StateOfHit, StateOfNext, GetArc, stopVars, ResidentRegime, LockOK,
     Holds, Unlocked, FlushPcs, EvictPcs
<1>2. LanesOK'
  BY DEF StateOfHit, StateOfNext, GetArc, stopVars, ResidentRegime, LanesOK,
     LockOK, FlushPcs
<1>3. ProjectsOK'
  BY DEF StateOfHit, StateOfNext, GetArc, stopVars, ResidentRegime,
     ProjectsOK, ProjectOK, Someone, Resident, LockOK, Holds, Unlocked, HandsOK,
     Hands
<1>4. HandsOK'
  BY <1>g DEF StateOfHit, StateOfNext, GetArc, stopVars, ResidentRegime,
     HandsOK, Hands, ProjectsOK, ProjectOK, Someone, Resident, LockOK, Holds,
     Unlocked
<1>5. ShutdownOK'
  BY DEF StateOfHit, StateOfNext, GetArc, stopVars, ResidentRegime,
     ShutdownOK, LanesOK, LockOK, HandsOK, Hands, ProjectsOK, ProjectOK, Someone
<1> QED BY <1>1, <1>2, <1>3, <1>4, <1>5

\* SafetyInv is kept in state_of: a cache miss.
LEMMA SafeStateOfMiss ==
    ASSUME ResidentRegime, Inv, NEW t \in Threads, StateOfMiss(t)
    PROVE  SafetyInv'
<1> USE DEF Inv, SafetyInv, TypeOK, At, Goto
<1>1. LockOK'
  BY DEF StateOfMiss, cacheVars, stopVars, LockOK, Holds, Unlocked, FlushPcs,
     EvictPcs
<1>2. LanesOK'
  BY DEF StateOfMiss, cacheVars, stopVars, LanesOK, LockOK, FlushPcs
<1>3. ProjectsOK'
  BY DEF StateOfMiss, cacheVars, stopVars, ProjectsOK, ProjectOK, Someone,
     Resident, LockOK, Holds, Unlocked, HandsOK, Hands
<1>4. HandsOK'
  BY DEF StateOfMiss, cacheVars, stopVars, HandsOK, Hands, ProjectsOK,
     ProjectOK, Someone, Resident, LockOK, Holds, Unlocked
<1>5. ShutdownOK'
  BY DEF StateOfMiss, cacheVars, stopVars, ShutdownOK, LanesOK, LockOK,
     HandsOK, Hands, ProjectsOK, ProjectOK, Someone
<1> QED BY <1>1, <1>2, <1>3, <1>4, <1>5

\* SafetyInv is kept in state_of: the checkpoint is read.
LEMMA SafeLoadState ==
    ASSUME ResidentRegime, Inv, NEW t \in Threads, LoadState(t)
    PROVE  SafetyInv'
<1> USE DEF Inv, SafetyInv, TypeOK, At, Goto
<1>1. LockOK'
  BY DEF LoadState, cacheVars, stopVars, LockOK, Holds, Unlocked, FlushPcs,
     EvictPcs
<1>2. LanesOK'
  BY DEF LoadState, cacheVars, stopVars, LanesOK, LockOK, FlushPcs
<1>3. ProjectsOK'
  BY DEF LoadState, cacheVars, stopVars, ProjectsOK, ProjectOK, Someone,
     Resident, LockOK, Holds, Unlocked, HandsOK, Hands
<1>4. HandsOK'
  BY DEF LoadState, cacheVars, stopVars, HandsOK, Hands, ProjectsOK,
     ProjectOK, Someone, Resident, LockOK, Holds, Unlocked
<1>5. ShutdownOK'
  BY DEF LoadState, cacheVars, stopVars, ShutdownOK, LanesOK, LockOK,
     HandsOK, Hands, ProjectsOK, ProjectOK, Someone
<1> QED BY <1>1, <1>2, <1>3, <1>4, <1>5

\* SafetyInv is kept in state_of: the checkpoint becomes resident.
LEMMA SafeLoadInto ==
    ASSUME ResidentRegime, Inv, NEW t \in Threads, LoadInto(t)
    PROVE  SafetyInv'
<1> USE DEF Inv, SafetyInv, TypeOK, At, Goto
<1>x. \A u \in Threads \ {t} : Holds(u) => proj[u] # proj[t]
  BY Exclusive DEF LoadInto, Holds, Unlocked, ResidentRegime
<1>h. Hands(t) /\ ProjectOK(proj[t]) BY DEF HandsOK, ProjectsOK
<1>p. proj[t] \in Projects /\ val[t] \in Nat OBVIOUS
<1>i. /\ graphs' = [graphs EXCEPT ![proj[t]] = val[t]]
      /\ Victims(proj[t]) = <<>>
      /\ evicted' = [evicted EXCEPT ![t] = <<>>]
  BY <1>p, InsertRegime DEF LoadInto, InsertBy
<1>a. graphs \in [Projects -> Nat \cup {Absent}] BY DEF CacheTypeOK
<1>1. LockOK'
  BY <1>i, <1>a DEF LoadInto, StateOfNext, stopVars, ResidentRegime, LockOK,
     Holds, Unlocked, FlushPcs, EvictPcs
<1>2. LanesOK'
  BY <1>i, <1>a DEF LoadInto, StateOfNext, stopVars, ResidentRegime, LanesOK,
     LockOK, FlushPcs
<1>3. ProjectsOK'
  BY <1>i, <1>a DEF LoadInto, StateOfNext, stopVars, ResidentRegime,
     ProjectsOK, ProjectOK, Someone, Resident, LockOK, Holds, Unlocked, HandsOK,
     Hands
<1>4. HandsOK'
  <2> SUFFICES ASSUME NEW u \in Threads PROVE Hands(u)' BY DEF HandsOK
  <2>1. CASE u = t
    BY <1>i, <1>a, <1>p, <1>h, <2>1, <1>x DEF LoadInto, StateOfNext,
       stopVars, ResidentRegime, HandsOK, Hands, ProjectsOK, ProjectOK, Someone,
       Resident, Absent, LockOK, Holds, Unlocked
  <2>2. CASE u # t /\ proj[u] = proj[t]
    <3>1. ~ Holds(u) BY <2>2, <1>x
    <3> QED
      BY <1>i, <1>a, <1>p, <1>h, <2>2, <3>1 DEF LoadInto, StateOfNext,
         stopVars, ResidentRegime, HandsOK, Hands, ProjectsOK, ProjectOK,
         Someone, Resident, Absent, LockOK, Holds, Unlocked
  <2>3. CASE u # t /\ proj[u] # proj[t]
    BY <1>i, <1>a, <1>p, <1>h, <2>3 DEF LoadInto, StateOfNext, stopVars,
       ResidentRegime, HandsOK, Hands, ProjectsOK, ProjectOK, Someone, Resident,
       Absent, LockOK, Holds, Unlocked
  <2> QED BY <2>1, <2>2, <2>3
<1>5. ShutdownOK'
  BY <1>i, <1>a DEF LoadInto, StateOfNext, stopVars, ResidentRegime,
     ShutdownOK, LanesOK, LockOK, HandsOK, Hands, ProjectsOK, ProjectOK, Someone
<1> QED BY <1>1, <1>2, <1>3, <1>4, <1>5

\* SafetyInv is kept when the pipeline produced a delta.
LEMMA SafeMutateChanged ==
    ASSUME ResidentRegime, Inv, NEW t \in Threads, MutateChanged(t)
    PROVE  SafetyInv'
<1> USE DEF Inv, SafetyInv, TypeOK, At, Goto
<1>1. LockOK'
  BY DEF MutateChanged, cacheVars, stopVars, ResidentRegime, Threads, LockOK,
     Holds, Unlocked, FlushPcs, EvictPcs
<1>2. LanesOK'
  BY DEF MutateChanged, cacheVars, stopVars, ResidentRegime, Threads,
     LanesOK, LockOK, FlushPcs
<1>3. ProjectsOK'
  BY DEF MutateChanged, cacheVars, stopVars, ResidentRegime, Threads,
     ProjectsOK, ProjectOK, Someone, Resident, LockOK, Holds, Unlocked, HandsOK,
     Hands
<1>4. HandsOK'
  BY DEF MutateChanged, cacheVars, stopVars, ResidentRegime, Threads,
     HandsOK, Hands, ProjectsOK, ProjectOK, Someone, Resident, LockOK, Holds,
     Unlocked
<1>5. ShutdownOK'
  BY DEF MutateChanged, cacheVars, stopVars, ResidentRegime, Threads,
     ShutdownOK, LanesOK, LockOK, HandsOK, Hands, ProjectsOK, ProjectOK, Someone
<1> QED BY <1>1, <1>2, <1>3, <1>4, <1>5

\* SafetyInv is kept when the pipeline failed.
LEMMA SafeMutateFails ==
    ASSUME ResidentRegime, Inv, NEW t \in Threads, MutateFails(t)
    PROVE  SafetyInv'
<1> USE DEF Inv, SafetyInv, TypeOK, At, Goto
<1>1. LockOK'
  BY DEF MutateFails, cacheVars, stopVars, LeaveApply, Unlock, Return,
     LockOK, Holds, Unlocked, FlushPcs, EvictPcs
<1>2. LanesOK'
  BY DEF MutateFails, cacheVars, stopVars, LeaveApply, Unlock, Return,
     LanesOK, LockOK, FlushPcs
<1>3. ProjectsOK'
  BY DEF MutateFails, cacheVars, stopVars, LeaveApply, Unlock, Return,
     ProjectsOK, ProjectOK, Someone, Resident, LockOK, Holds, Unlocked, HandsOK,
     Hands
<1>4. HandsOK'
  BY DEF MutateFails, cacheVars, stopVars, LeaveApply, Unlock, Return,
     HandsOK, Hands, ProjectsOK, ProjectOK, Someone, Resident, LockOK, Holds,
     Unlocked
<1>5. ShutdownOK'
  BY DEF MutateFails, cacheVars, stopVars, LeaveApply, Unlock, Return,
     ShutdownOK, LanesOK, LockOK, HandsOK, Hands, ProjectsOK, ProjectOK, Someone
<1> QED BY <1>1, <1>2, <1>3, <1>4, <1>5

\* SafetyInv is kept in record_apply: write-through.
LEMMA SafeWriteThrough ==
    ASSUME ResidentRegime, Inv, NEW t \in Threads, WriteThrough(t)
    PROVE  SafetyInv'
<1> USE DEF Inv, SafetyInv, TypeOK, At, Goto
<1>x. \A u \in Threads \ {t} : Holds(u) => proj[u] # proj[t]
  BY Exclusive DEF WriteThrough, Holds, Unlocked, ResidentRegime
<1>1. LockOK'
  BY DEF WriteThrough, cacheVars, stopVars, LockOK, Holds, Unlocked,
     FlushPcs, EvictPcs
<1>2. LanesOK'
  BY DEF WriteThrough, cacheVars, stopVars, LanesOK, LockOK, FlushPcs
<1>3. ProjectsOK'
  BY DEF WriteThrough, cacheVars, stopVars, ProjectsOK, ProjectOK, Someone,
     Resident, LockOK, Holds, Unlocked, HandsOK, Hands
<1>4. HandsOK'
  <2> SUFFICES ASSUME NEW u \in Threads PROVE Hands(u)' BY DEF HandsOK
  <2>1. CASE u = t
    BY <2>1, <1>x DEF WriteThrough, cacheVars, stopVars, HandsOK, Hands,
       ProjectsOK, ProjectOK, Someone, Resident, Absent, LockOK, Holds,
       Unlocked, ResidentRegime
  <2>2. CASE u # t /\ proj[u] = proj[t]
    <3>1. ~ Holds(u) BY <2>2, <1>x
    <3> QED
      BY <2>2, <3>1 DEF WriteThrough, cacheVars, stopVars, HandsOK, Hands,
         ProjectsOK, ProjectOK, Someone, Resident, Absent, LockOK, Holds,
         Unlocked, ResidentRegime
  <2>3. CASE u # t /\ proj[u] # proj[t]
    BY <2>3 DEF WriteThrough, cacheVars, stopVars, HandsOK, Hands,
       ProjectsOK, ProjectOK, Someone, Resident, Absent, LockOK, Holds,
       Unlocked, ResidentRegime
  <2> QED BY <2>1, <2>2, <2>3
<1>5. ShutdownOK'
  BY DEF WriteThrough, cacheVars, stopVars, ShutdownOK, LanesOK, LockOK,
     HandsOK, Hands, ProjectsOK, ProjectOK, Someone
<1> QED BY <1>1, <1>2, <1>3, <1>4, <1>5

\* SafetyInv is kept in record_apply: the write-through failed.
LEMMA SafeWriteThroughFails ==
    ASSUME ResidentRegime, Inv, NEW t \in Threads, WriteThroughFails(t)
    PROVE  SafetyInv'
<1> USE DEF Inv, SafetyInv, TypeOK, At, Goto
<1>1. LockOK'
  BY DEF WriteThroughFails, cacheVars, stopVars, LeaveApply, Unlock, Return,
     LockOK, Holds, Unlocked, FlushPcs, EvictPcs
<1>2. LanesOK'
  BY DEF WriteThroughFails, cacheVars, stopVars, LeaveApply, Unlock, Return,
     LanesOK, LockOK, FlushPcs
<1>3. ProjectsOK'
  BY DEF WriteThroughFails, cacheVars, stopVars, LeaveApply, Unlock, Return,
     ProjectsOK, ProjectOK, Someone, Resident, LockOK, Holds, Unlocked, HandsOK,
     Hands
<1>4. HandsOK'
  BY DEF WriteThroughFails, cacheVars, stopVars, LeaveApply, Unlock, Return,
     HandsOK, Hands, ProjectsOK, ProjectOK, Someone, Resident, LockOK, Holds,
     Unlocked
<1>5. ShutdownOK'
  BY DEF WriteThroughFails, cacheVars, stopVars, LeaveApply, Unlock, Return,
     ShutdownOK, LanesOK, LockOK, HandsOK, Hands, ProjectsOK, ProjectOK, Someone
<1> QED BY <1>1, <1>2, <1>3, <1>4, <1>5

\* SafetyInv is kept in record_apply: the written state becomes resident.
LEMMA SafeLoadFresh ==
    ASSUME ResidentRegime, Inv, NEW t \in Threads, LoadFresh(t)
    PROVE  SafetyInv'
<1> USE DEF Inv, SafetyInv, TypeOK, At, Goto
<1>x. \A u \in Threads \ {t} : Holds(u) => proj[u] # proj[t]
  BY Exclusive DEF LoadFresh, Holds, Unlocked, ResidentRegime
<1>h. Hands(t) /\ ProjectOK(proj[t]) BY DEF HandsOK, ProjectsOK
<1>p. proj[t] \in Projects /\ val[t] \in Nat OBVIOUS
<1>i. /\ graphs' = [graphs EXCEPT ![proj[t]] = val[t]]
      /\ Victims(proj[t]) = <<>>
      /\ evicted' = [evicted EXCEPT ![t] = <<>>]
  BY <1>p, InsertRegime DEF LoadFresh, InsertBy
<1>a. graphs \in [Projects -> Nat \cup {Absent}] BY DEF CacheTypeOK
<1>1. LockOK'
  BY <1>i, <1>a DEF LoadFresh, stopVars, LockOK, Holds, Unlocked, FlushPcs,
     EvictPcs
<1>2. LanesOK'
  BY <1>i, <1>a DEF LoadFresh, stopVars, LanesOK, LockOK, FlushPcs
<1>3. ProjectsOK'
  <2> SUFFICES ASSUME NEW q \in Projects PROVE ProjectOK(q)' BY DEF ProjectsOK
  <2>1. CASE q = proj[t]
    BY <1>i, <1>a, <1>p, <1>h, <2>1, <1>x DEF LoadFresh, stopVars, HandsOK,
       Hands, ProjectsOK, ProjectOK, Someone, Resident, Absent, LockOK, Holds,
       Unlocked, ResidentRegime
  <2>2. CASE q # proj[t]
    BY <1>i, <1>a, <1>p, <1>h, <2>2 DEF LoadFresh, stopVars, HandsOK, Hands,
       ProjectsOK, ProjectOK, Someone, Resident, Absent, LockOK, Holds,
       Unlocked, ResidentRegime
  <2> QED BY <2>1, <2>2
<1>4. HandsOK'
  <2> SUFFICES ASSUME NEW u \in Threads PROVE Hands(u)' BY DEF HandsOK
  <2>1. CASE u = t
    BY <1>i, <1>a, <1>p, <1>h, <2>1, <1>x DEF LoadFresh, stopVars, HandsOK,
       Hands, ProjectsOK, ProjectOK, Someone, Resident, Absent, LockOK, Holds,
       Unlocked, ResidentRegime
  <2>2. CASE u # t /\ proj[u] = proj[t]
    <3>1. ~ Holds(u) BY <2>2, <1>x
    <3> QED
      BY <1>i, <1>a, <1>p, <1>h, <2>2, <3>1 DEF LoadFresh, stopVars, HandsOK,
         Hands, ProjectsOK, ProjectOK, Someone, Resident, Absent, LockOK, Holds,
         Unlocked, ResidentRegime
  <2>3. CASE u # t /\ proj[u] # proj[t]
    BY <1>i, <1>a, <1>p, <1>h, <2>3 DEF LoadFresh, stopVars, HandsOK, Hands,
       ProjectsOK, ProjectOK, Someone, Resident, Absent, LockOK, Holds,
       Unlocked, ResidentRegime
  <2> QED BY <2>1, <2>2, <2>3
<1>5. ShutdownOK'
  BY <1>i, <1>a DEF LoadFresh, stopVars, ShutdownOK, LanesOK, LockOK,
     HandsOK, Hands, ProjectsOK, ProjectOK, Someone
<1> QED BY <1>1, <1>2, <1>3, <1>4, <1>5

\* SafetyInv is kept in record_apply: the dirty entry is dropped.
LEMMA SafeClearDirty ==
    ASSUME ResidentRegime, Inv, NEW t \in Threads, ClearDirty(t)
    PROVE  SafetyInv'
<1> USE DEF Inv, SafetyInv, TypeOK, At, Goto
<1>x. \A u \in Threads \ {t} : Holds(u) => proj[u] # proj[t]
  BY Exclusive DEF ClearDirty, Holds, Unlocked, ResidentRegime
<1>1. LockOK'
  BY DEF ClearDirty, cacheVars, stopVars, LockOK, Holds, Unlocked, FlushPcs,
     EvictPcs
<1>2. LanesOK'
  BY DEF ClearDirty, cacheVars, stopVars, LanesOK, LockOK, FlushPcs
<1>3. ProjectsOK'
  BY DEF ClearDirty, cacheVars, stopVars, ProjectsOK, ProjectOK, Someone,
     Resident, LockOK, Holds, Unlocked, HandsOK, Hands
<1>4. HandsOK'
  BY DEF ClearDirty, cacheVars, stopVars, HandsOK, Hands, ProjectsOK,
     ProjectOK, Someone, Resident, LockOK, Holds, Unlocked
<1>5. ShutdownOK'
  BY <1>x DEF ClearDirty, cacheVars, stopVars, ShutdownOK, LanesOK, LockOK,
     HandsOK, Hands, ProjectsOK, ProjectOK, Someone
<1> QED BY <1>1, <1>2, <1>3, <1>4, <1>5

\* SafetyInv is kept in record_apply: write-behind into the cache.
LEMMA SafePut ==
    ASSUME ResidentRegime, Inv, NEW t \in Threads, Put(t)
    PROVE  SafetyInv'
<1> USE DEF Inv, SafetyInv, TypeOK, At, Goto
<1>x. \A u \in Threads \ {t} : Holds(u) => proj[u] # proj[t]
  BY Exclusive DEF Put, Holds, Unlocked, ResidentRegime
<1>h. Hands(t) /\ ProjectOK(proj[t]) BY DEF HandsOK, ProjectsOK
<1>p. proj[t] \in Projects /\ val[t] \in Nat OBVIOUS
<1>i. /\ graphs' = [graphs EXCEPT ![proj[t]] = val[t]]
      /\ Victims(proj[t]) = <<>>
      /\ evicted' = [evicted EXCEPT ![t] = <<>>]
  BY <1>p, InsertRegime DEF Put, InsertBy
<1>a. graphs \in [Projects -> Nat \cup {Absent}] BY DEF CacheTypeOK
<1>1. LockOK'
  BY <1>i, <1>a DEF Put, stopVars, LockOK, Holds, Unlocked, FlushPcs, EvictPcs
<1>2. LanesOK'
  BY <1>i, <1>a DEF Put, stopVars, LanesOK, LockOK, FlushPcs
<1>3. ProjectsOK'
  <2> SUFFICES ASSUME NEW q \in Projects PROVE ProjectOK(q)' BY DEF ProjectsOK
  <2>1. CASE q = proj[t]
    BY <1>i, <1>a, <1>p, <1>h, <2>1, <1>x DEF Put, stopVars, HandsOK, Hands,
       ProjectsOK, ProjectOK, Someone, Resident, Absent, LockOK, Holds,
       Unlocked, ResidentRegime
  <2>2. CASE q # proj[t]
    BY <1>i, <1>a, <1>p, <1>h, <2>2 DEF Put, stopVars, HandsOK, Hands,
       ProjectsOK, ProjectOK, Someone, Resident, Absent, LockOK, Holds,
       Unlocked, ResidentRegime
  <2> QED BY <2>1, <2>2
<1>4. HandsOK'
  <2> SUFFICES ASSUME NEW u \in Threads PROVE Hands(u)' BY DEF HandsOK
  <2>1. CASE u = t
    BY <1>i, <1>a, <1>p, <1>h, <2>1, <1>x DEF Put, stopVars, HandsOK, Hands,
       ProjectsOK, ProjectOK, Someone, Resident, Absent, LockOK, Holds,
       Unlocked, ResidentRegime
  <2>2. CASE u # t /\ proj[u] = proj[t]
    <3>1. ~ Holds(u) BY <2>2, <1>x
    <3> QED
      BY <1>i, <1>a, <1>p, <1>h, <2>2, <3>1 DEF Put, stopVars, HandsOK,
         Hands, ProjectsOK, ProjectOK, Someone, Resident, Absent, LockOK, Holds,
         Unlocked, ResidentRegime
  <2>3. CASE u # t /\ proj[u] # proj[t]
    BY <1>i, <1>a, <1>p, <1>h, <2>3 DEF Put, stopVars, HandsOK, Hands,
       ProjectsOK, ProjectOK, Someone, Resident, Absent, LockOK, Holds,
       Unlocked, ResidentRegime
  <2> QED BY <2>1, <2>2, <2>3
<1>5. ShutdownOK'
  BY <1>i, <1>a DEF Put, stopVars, ShutdownOK, LanesOK, LockOK, HandsOK,
     Hands, ProjectsOK, ProjectOK, Someone
<1> QED BY <1>1, <1>2, <1>3, <1>4, <1>5

\* SafetyInv is kept in record_apply: the dirty entry is added.
LEMMA SafeMarkDirty ==
    ASSUME ResidentRegime, Inv, NEW t \in Threads, MarkDirty(t)
    PROVE  SafetyInv'
<1> USE DEF Inv, SafetyInv, TypeOK, At, Goto
<1>1. LockOK'
  BY DEF MarkDirty, cacheVars, stopVars, LockOK, Holds, Unlocked, FlushPcs,
     EvictPcs
<1>2. LanesOK'
  <2>1. t # Driver BY DEF MarkDirty, LanesOK, FlushPcs
  <2>2. /\ pc'[t] \in {"unlock", "evict"}
        /\ \A u \in Threads \ {t} : pc'[u] = pc[u]
    BY DEF MarkDirty
  <2> QED BY <2>1, <2>2 DEF LanesOK, Threads
<1>3. ProjectsOK'
  BY DEF MarkDirty, cacheVars, stopVars, ProjectsOK, ProjectOK, Someone,
     Resident, LockOK, Holds, Unlocked, HandsOK, Hands
<1>4. HandsOK'
  BY DEF MarkDirty, cacheVars, stopVars, HandsOK, Hands, ProjectsOK,
     ProjectOK, Someone, Resident, LockOK, Holds, Unlocked
<1>5. ShutdownOK'
  BY DEF MarkDirty, cacheVars, stopVars, ShutdownOK, LanesOK, LockOK,
     HandsOK, Hands, ProjectsOK, ProjectOK, Someone
<1> QED BY <1>1, <1>2, <1>3, <1>4, <1>5

\* SafetyInv is kept when the trailing flush finds nothing dirty.
LEMMA SafeAnswerClean ==
    ASSUME ResidentRegime, Inv, NEW t \in Threads, AnswerClean(t)
    PROVE  SafetyInv'
<1> USE DEF Inv, SafetyInv, TypeOK, At, Goto
<1>1. LockOK'
  BY DEF AnswerClean, cacheVars, stopVars, Return, LockOK, Holds, Unlocked,
     FlushPcs, EvictPcs
<1>2. LanesOK'
  BY DEF AnswerClean, cacheVars, stopVars, Return, LanesOK, LockOK, FlushPcs
<1>3. ProjectsOK'
  BY DEF AnswerClean, cacheVars, stopVars, Return, ProjectsOK, ProjectOK,
     Someone, Resident, LockOK, Holds, Unlocked, HandsOK, Hands
<1>4. HandsOK'
  BY DEF AnswerClean, cacheVars, stopVars, Return, HandsOK, Hands,
     ProjectsOK, ProjectOK, Someone, Resident, LockOK, Holds, Unlocked
<1>5. ShutdownOK'
  BY DEF AnswerClean, cacheVars, stopVars, Return, ShutdownOK, LanesOK,
     LockOK, HandsOK, Hands, ProjectsOK, ProjectOK, Someone
<1> QED BY <1>1, <1>2, <1>3, <1>4, <1>5

\* SafetyInv is kept when the trailing flush begins.
LEMMA SafeTrailingFlush ==
    ASSUME ResidentRegime, Inv, NEW t \in Threads, TrailingFlush(t)
    PROVE  SafetyInv'
<1> USE DEF Inv, SafetyInv, TypeOK, At, Goto
<1>1. LockOK'
  BY DEF TrailingFlush, cacheVars, stopVars, LockOK, Holds, Unlocked,
     FlushPcs, EvictPcs
<1>2. LanesOK'
  BY DEF TrailingFlush, cacheVars, stopVars, LanesOK, LockOK, FlushPcs
<1>3. ProjectsOK'
  BY DEF TrailingFlush, cacheVars, stopVars, ProjectsOK, ProjectOK, Someone,
     Resident, LockOK, Holds, Unlocked, HandsOK, Hands
<1>4. HandsOK'
  BY DEF TrailingFlush, cacheVars, stopVars, HandsOK, Hands, ProjectsOK,
     ProjectOK, Someone, Resident, LockOK, Holds, Unlocked
<1>5. ShutdownOK'
  BY DEF TrailingFlush, cacheVars, stopVars, ShutdownOK, LanesOK, LockOK,
     HandsOK, Hands, ProjectsOK, ProjectOK, Someone
<1> QED BY <1>1, <1>2, <1>3, <1>4, <1>5

\* SafetyInv is kept when flush_project takes the lock.
LEMMA SafeFlushLock ==
    ASSUME ResidentRegime, Inv, NEW t \in Threads, FlushLock(t)
    PROVE  SafetyInv'
<1> USE DEF Inv, SafetyInv, TypeOK, At, Goto
<1>1. LockOK'
  BY ThreadsAssumption DEF FlushLock, cacheVars, stopVars, LockOK, Holds,
     Unlocked, FlushPcs, EvictPcs
<1>2. LanesOK'
  BY DEF FlushLock, cacheVars, stopVars, LanesOK, LockOK, FlushPcs
<1>3. ProjectsOK'
  BY DEF FlushLock, cacheVars, stopVars, ProjectsOK, ProjectOK, Someone,
     Resident, LockOK, Holds, Unlocked, HandsOK, Hands
<1>4. HandsOK'
  BY DEF FlushLock, cacheVars, stopVars, HandsOK, Hands, ProjectsOK,
     ProjectOK, Someone, Resident, LockOK, Holds, Unlocked
<1>5. ShutdownOK'
  BY DEF FlushLock, cacheVars, stopVars, ShutdownOK, LanesOK, LockOK,
     HandsOK, Hands, ProjectsOK, ProjectOK, Someone
<1> QED BY <1>1, <1>2, <1>3, <1>4, <1>5

\* SafetyInv is kept in flush_locked looks at the dirty entry.
LEMMA SafeFlushLocked ==
    ASSUME ResidentRegime, Inv, NEW t \in Threads, FlushLocked(t)
    PROVE  SafetyInv'
<1> USE DEF Inv, SafetyInv, TypeOK, At, Goto
<1>x. \A u \in Threads \ {t} : Holds(u) => proj[u] # proj[t]
  BY Exclusive DEF FlushLocked, Holds, Unlocked, ResidentRegime
<1>1. LockOK'
  BY DEF FlushLocked, cacheVars, stopVars, LockOK, Holds, Unlocked, FlushPcs,
     EvictPcs
<1>2. LanesOK'
  BY DEF FlushLocked, cacheVars, stopVars, LanesOK, LockOK, FlushPcs
<1>3. ProjectsOK'
  BY DEF FlushLocked, cacheVars, stopVars, ProjectsOK, ProjectOK, Someone,
     Resident, LockOK, Holds, Unlocked, HandsOK, Hands
<1>4. HandsOK'
  <2> SUFFICES ASSUME NEW u \in Threads PROVE Hands(u)' BY DEF HandsOK
  <2>1. CASE u = t
    <3>1. ProjectOK(proj[t]) BY DEF ProjectsOK
    <3>2. ~ Someone(proj[t], "mark_dirty")
      BY <1>x DEF Someone, FlushLocked, Holds, Unlocked, ResidentRegime
    <3>3. /\ proj'[t] = proj[t] /\ UNCHANGED <<graphs, disk, latest, dirty>>
          /\ \/ proj[t] \in dirty /\ pc'[t] = "flush_peek"
             \/ proj[t] \notin dirty /\ pc'[t] \in {"answer", "snapshot"}
      BY DEF FlushLocked, LockOK, FlushPcs, cacheVars
    <3> QED BY <2>1, <3>1, <3>2, <3>3 DEF Hands, ProjectOK, Resident
  <2>2. CASE u # t
    <3>1. Hands(u) BY DEF HandsOK
    <3>2. /\ pc'[u] = pc[u]
          /\ UNCHANGED <<proj, val, graphs, disk, latest, dirty>>
      BY <2>2 DEF FlushLocked, cacheVars
    <3> QED BY <3>1, <3>2 DEF Hands, Resident
  <2> QED BY <2>1, <2>2
<1>5. ShutdownOK'
  BY DEF FlushLocked, cacheVars, stopVars, ShutdownOK, LanesOK, LockOK,
     HandsOK, Hands, ProjectsOK, ProjectOK, Someone
<1> QED BY <1>1, <1>2, <1>3, <1>4, <1>5

\* SafetyInv is kept in flush_locked reads the resident state.
LEMMA SafeFlushPeek ==
    ASSUME ResidentRegime, Inv, NEW t \in Threads, FlushPeek(t)
    PROVE  SafetyInv'
<1> USE DEF Inv, SafetyInv, TypeOK, At, Goto
<1>x. \A u \in Threads \ {t} : Holds(u) => proj[u] # proj[t]
  BY Exclusive DEF FlushPeek, Holds, Unlocked, ResidentRegime
<1>1. LockOK'
  BY DEF FlushPeek, cacheVars, stopVars, LockOK, Holds, Unlocked, FlushPcs,
     EvictPcs
<1>2. LanesOK'
  BY DEF FlushPeek, cacheVars, stopVars, LanesOK, LockOK, FlushPcs
<1>3. ProjectsOK'
  BY DEF FlushPeek, cacheVars, stopVars, ProjectsOK, ProjectOK, Someone,
     Resident, LockOK, Holds, Unlocked, HandsOK, Hands
<1>4. HandsOK'
  <2> SUFFICES ASSUME NEW u \in Threads PROVE Hands(u)' BY DEF HandsOK
  <2>1. CASE u = t
    <3>1. ProjectOK(proj[t]) /\ Resident(proj[t]) BY DEF FlushPeek, ProjectsOK
    <3>2. ~ Someone(proj[t], "load_fresh")
      BY <1>x DEF Someone, FlushPeek, Holds, Unlocked, ResidentRegime
    <3>3. /\ proj'[t] = proj[t] /\ UNCHANGED <<graphs, latest>>
          /\ pc'[t] = "flush_write" /\ val'[t] = graphs[proj[t]]
      BY DEF FlushPeek, cacheVars
    <3> QED BY <2>1, <3>1, <3>2, <3>3 DEF Hands, ProjectOK, Resident
  <2>2. CASE u # t
    <3>1. Hands(u) BY DEF HandsOK
    <3>2. /\ pc'[u] = pc[u] /\ val'[u] = val[u]
          /\ UNCHANGED <<proj, graphs, disk, latest, dirty>>
      BY <2>2 DEF FlushPeek, cacheVars
    <3> QED BY <3>1, <3>2 DEF Hands, Resident
  <2> QED BY <2>1, <2>2
<1>5. ShutdownOK'
  BY DEF FlushPeek, cacheVars, stopVars, ShutdownOK, LanesOK, LockOK,
     HandsOK, Hands, ProjectsOK, ProjectOK, Someone
<1> QED BY <1>1, <1>2, <1>3, <1>4, <1>5

\* SafetyInv is kept in flush_locked writes the checkpoint.
LEMMA SafeFlushWrite ==
    ASSUME ResidentRegime, Inv, NEW t \in Threads, FlushWrite(t)
    PROVE  SafetyInv'
<1> USE DEF Inv, SafetyInv, TypeOK, At, Goto
<1>1. LockOK'
  BY DEF FlushWrite, cacheVars, stopVars, LockOK, Holds, Unlocked, FlushPcs,
     EvictPcs
<1>2. LanesOK'
  BY DEF FlushWrite, cacheVars, stopVars, LanesOK, LockOK, FlushPcs
<1>3. ProjectsOK'
  BY DEF FlushWrite, cacheVars, stopVars, ProjectsOK, ProjectOK, Someone,
     Resident, LockOK, Holds, Unlocked, HandsOK, Hands
<1>4. HandsOK'
  BY DEF FlushWrite, cacheVars, stopVars, HandsOK, Hands, ProjectsOK,
     ProjectOK, Someone, Resident, LockOK, Holds, Unlocked
<1>5. ShutdownOK'
  BY DEF FlushWrite, cacheVars, stopVars, ShutdownOK, LanesOK, LockOK,
     HandsOK, Hands, ProjectsOK, ProjectOK, Someone
<1> QED BY <1>1, <1>2, <1>3, <1>4, <1>5

\* SafetyInv is kept in flush_locked fails to write.
LEMMA SafeFlushWriteFails ==
    ASSUME ResidentRegime, Inv, NEW t \in Threads, FlushWriteFails(t)
    PROVE  SafetyInv'
<1> USE DEF Inv, SafetyInv, TypeOK, At, Goto
<1>1. LockOK'
  BY DEF FlushWriteFails, cacheVars, stopVars, NoteFailure, LeaveApply,
     Unlock, Return, LockOK, Holds, Unlocked, FlushPcs, EvictPcs
<1>2. LanesOK'
  BY DEF FlushWriteFails, cacheVars, stopVars, NoteFailure, LeaveApply,
     Unlock, Return, LanesOK, LockOK, FlushPcs
<1>3. ProjectsOK'
  BY DEF FlushWriteFails, cacheVars, stopVars, NoteFailure, LeaveApply,
     Unlock, Return, ProjectsOK, ProjectOK, Someone, Resident, LockOK, Holds,
     Unlocked, HandsOK, Hands
<1>4. HandsOK'
  BY DEF FlushWriteFails, cacheVars, stopVars, NoteFailure, LeaveApply,
     Unlock, Return, HandsOK, Hands, ProjectsOK, ProjectOK, Someone, Resident,
     LockOK, Holds, Unlocked
<1>5. ShutdownOK'
  <2>1. Return(t) /\ Unlock(t) /\ NoteFailure(t)
        /\ UNCHANGED <<disk, latest, phase, todo, marker>>
    BY DEF FlushWriteFails
  <2>2. \A u \in Threads \ {t} : pc'[u] = pc[u] /\ proj'[u] = proj[u]
    BY <2>1 DEF Return
  <2>3. pc'[t] = "idle" /\ Driver \in Threads /\ Workers \subseteq Threads
    BY <2>1 DEF Return, Threads
  <2>4. failed => failed' BY <2>1 DEF NoteFailure
  <2>5. CASE t = Driver
    <3>1. phase \in {"up", "flushing"} BY <2>5 DEF FlushWriteFails, ShutdownOK
    <3>2. phase = "flushing" => failed' BY <2>1, <2>5 DEF NoteFailure
    <3> QED BY <2>1, <2>2, <2>3, <2>5, <3>1, <3>2 DEF ShutdownOK
  <2>6. CASE t # Driver
    <3>1. failed' = failed BY <2>1, <2>6, Zenon DEF NoteFailure
    <3> QED BY <2>1, <2>2, <2>3, <2>6, <3>1 DEF ShutdownOK
  <2> QED BY <2>5, <2>6
<1> QED BY <1>1, <1>2, <1>3, <1>4, <1>5

\* SafetyInv is kept in flush_locked clears the cache flag.
LEMMA SafeFlushClean ==
    ASSUME ResidentRegime, Inv, NEW t \in Threads, FlushClean(t)
    PROVE  SafetyInv'
<1> USE DEF Inv, SafetyInv, TypeOK, At, Goto
<1>1. LockOK'
  BY DEF FlushClean, MarkClean, stopVars, LockOK, Holds, Unlocked, FlushPcs,
     EvictPcs
<1>2. LanesOK'
  BY DEF FlushClean, MarkClean, stopVars, LanesOK, LockOK, FlushPcs
<1>3. ProjectsOK'
  BY DEF FlushClean, MarkClean, stopVars, ProjectsOK, ProjectOK, Someone,
     Resident, LockOK, Holds, Unlocked, HandsOK, Hands
<1>4. HandsOK'
  BY DEF FlushClean, MarkClean, stopVars, HandsOK, Hands, ProjectsOK,
     ProjectOK, Someone, Resident, LockOK, Holds, Unlocked
<1>5. ShutdownOK'
  BY DEF FlushClean, MarkClean, stopVars, ShutdownOK, LanesOK, LockOK,
     HandsOK, Hands, ProjectsOK, ProjectOK, Someone
<1> QED BY <1>1, <1>2, <1>3, <1>4, <1>5

\* SafetyInv is kept in flush_locked drops the dirty entry.
LEMMA SafeFlushClear ==
    ASSUME ResidentRegime, Inv, NEW t \in Threads, FlushClear(t)
    PROVE  SafetyInv'
<1> USE DEF Inv, SafetyInv, TypeOK, At, Goto
<1>x. \A u \in Threads \ {t} : Holds(u) => proj[u] # proj[t]
  BY Exclusive DEF FlushClear, Holds, Unlocked, ResidentRegime
<1>1. LockOK'
  BY DEF FlushClear, cacheVars, stopVars, LockOK, Holds, Unlocked, FlushPcs,
     EvictPcs
<1>2. LanesOK'
  BY DEF FlushClear, cacheVars, stopVars, LanesOK, LockOK, FlushPcs
<1>3. ProjectsOK'
  BY DEF FlushClear, cacheVars, stopVars, ProjectsOK, ProjectOK, Someone,
     Resident, LockOK, Holds, Unlocked, HandsOK, Hands
<1>4. HandsOK'
  <2> SUFFICES ASSUME NEW u \in Threads PROVE Hands(u)' BY DEF HandsOK
  <2>1. CASE u = t
    BY <2>1, <1>x DEF FlushClear, FlushPcs, cacheVars, stopVars, HandsOK,
       Hands, ProjectsOK, ProjectOK, Someone, Resident, Absent, LockOK, Holds,
       Unlocked, ResidentRegime
  <2>2. CASE u # t /\ proj[u] = proj[t]
    <3>1. ~ Holds(u) BY <2>2, <1>x
    <3> QED
      BY <2>2, <3>1 DEF FlushClear, FlushPcs, cacheVars, stopVars, HandsOK,
         Hands, ProjectsOK, ProjectOK, Someone, Resident, Absent, LockOK, Holds,
         Unlocked, ResidentRegime
  <2>3. CASE u # t /\ proj[u] # proj[t]
    BY <2>3 DEF FlushClear, FlushPcs, cacheVars, stopVars, HandsOK, Hands,
       ProjectsOK, ProjectOK, Someone, Resident, Absent, LockOK, Holds,
       Unlocked, ResidentRegime
  <2> QED BY <2>1, <2>2, <2>3
<1>5. ShutdownOK'
  BY DEF FlushClear, cacheVars, stopVars, ShutdownOK, LanesOK, LockOK,
     HandsOK, Hands, ProjectsOK, ProjectOK, Someone
<1> QED BY <1>1, <1>2, <1>3, <1>4, <1>5

\* SafetyInv is kept in snapshot() under the lock.
LEMMA SafeSnapshot ==
    ASSUME ResidentRegime, Inv, NEW t \in Threads, Snapshot(t)
    PROVE  SafetyInv'
<1> USE DEF Inv, SafetyInv, TypeOK, At, Goto
<1>1. LockOK'
  BY DEF Snapshot, cacheVars, stopVars, LockOK, Holds, Unlocked, FlushPcs,
     EvictPcs
<1>2. LanesOK'
  BY DEF Snapshot, cacheVars, stopVars, LanesOK, LockOK, FlushPcs
<1>3. ProjectsOK'
  BY DEF Snapshot, cacheVars, stopVars, ProjectsOK, ProjectOK, Someone,
     Resident, LockOK, Holds, Unlocked, HandsOK, Hands
<1>4. HandsOK'
  BY DEF Snapshot, cacheVars, stopVars, HandsOK, Hands, ProjectsOK,
     ProjectOK, Someone, Resident, LockOK, Holds, Unlocked
<1>5. ShutdownOK'
  BY DEF Snapshot, cacheVars, stopVars, ShutdownOK, LanesOK, LockOK, HandsOK,
     Hands, ProjectsOK, ProjectOK, Someone
<1> QED BY <1>1, <1>2, <1>3, <1>4, <1>5

\* SafetyInv is kept when the guard is dropped and the caller answered.
LEMMA SafeAnswer ==
    ASSUME ResidentRegime, Inv, NEW t \in Threads, Answer(t)
    PROVE  SafetyInv'
<1> USE DEF Inv, SafetyInv, TypeOK, At, Goto
<1>1. LockOK'
  BY DEF Answer, cacheVars, stopVars, LeaveApply, Unlock, Return, LockOK,
     Holds, Unlocked, FlushPcs, EvictPcs
<1>2. LanesOK'
  BY DEF Answer, cacheVars, stopVars, LeaveApply, Unlock, Return, LanesOK,
     LockOK, FlushPcs
<1>3. ProjectsOK'
  BY DEF Answer, cacheVars, stopVars, LeaveApply, Unlock, Return, ProjectsOK,
     ProjectOK, Someone, Resident, LockOK, Holds, Unlocked, HandsOK, Hands
<1>4. HandsOK'
  BY DEF Answer, cacheVars, stopVars, LeaveApply, Unlock, Return, HandsOK,
     Hands, ProjectsOK, ProjectOK, Someone, Resident, LockOK, Holds, Unlocked
<1>5. ShutdownOK'
  BY DEF Answer, cacheVars, stopVars, LeaveApply, Unlock, Return, ShutdownOK,
     LanesOK, LockOK, HandsOK, Hands, ProjectsOK, ProjectOK, Someone
<1> QED BY <1>1, <1>2, <1>3, <1>4, <1>5

\* SafetyInv is kept when an apply takes the lock.
LEMMA SafeBeginApply ==
    ASSUME ResidentRegime, Inv, NEW t \in Threads, NEW p \in Projects,
           BeginApply(t, p)
    PROVE  SafetyInv'
<1> USE DEF Inv, SafetyInv, TypeOK, At, Goto
<1>1. LockOK'
  BY ThreadsAssumption DEF BeginApply, cacheVars, stopVars, LockOK, Holds,
     Unlocked, FlushPcs, EvictPcs
<1>2. LanesOK'
  BY ThreadsAssumption DEF BeginApply, cacheVars, stopVars, LanesOK, LockOK,
     FlushPcs
<1>3. ProjectsOK'
  BY DEF BeginApply, cacheVars, stopVars, ProjectsOK, ProjectOK, Someone,
     Resident, LockOK, Holds, Unlocked, HandsOK, Hands
<1>4. HandsOK'
  BY DEF BeginApply, cacheVars, stopVars, HandsOK, Hands, ProjectsOK,
     ProjectOK, Someone, Resident, LockOK, Holds, Unlocked
<1>5. ShutdownOK'
  BY DEF BeginApply, cacheVars, stopVars, ShutdownOK, LanesOK, LockOK,
     HandsOK, Hands, ProjectsOK, ProjectOK, Someone
<1> QED BY <1>1, <1>2, <1>3, <1>4, <1>5

\* SafetyInv is kept when a flush is asked for.
LEMMA SafeBeginFlush ==
    ASSUME ResidentRegime, Inv, NEW t \in Threads, NEW p \in Projects,
           BeginFlush(t, p)
    PROVE  SafetyInv'
<1> USE DEF Inv, SafetyInv, TypeOK, At, Goto
<1>1. LockOK'
  BY DEF BeginFlush, cacheVars, stopVars, LockOK, Holds, Unlocked, FlushPcs,
     EvictPcs
<1>2. LanesOK'
  BY DEF BeginFlush, cacheVars, stopVars, LanesOK, LockOK, FlushPcs
<1>3. ProjectsOK'
  BY DEF BeginFlush, cacheVars, stopVars, ProjectsOK, ProjectOK, Someone,
     Resident, LockOK, Holds, Unlocked, HandsOK, Hands
<1>4. HandsOK'
  BY DEF BeginFlush, cacheVars, stopVars, HandsOK, Hands, ProjectsOK,
     ProjectOK, Someone, Resident, LockOK, Holds, Unlocked
<1>5. ShutdownOK'
  <2>1. /\ UNCHANGED <<disk, latest, phase, failed, marker>>
        /\ \A u \in Threads \ {t} : pc'[u] = pc[u] /\ proj'[u] = proj[u]
        /\ pc'[t] = "flush_wait" /\ proj'[t] = p
    BY DEF BeginFlush, stopVars
  <2>2. Driver \in Threads /\ Workers \subseteq Threads BY DEF Threads
  <2>3. CASE phase = "up"
    BY <2>1, <2>3 DEF ShutdownOK
  <2>4. CASE phase # "up"
    <3>1. /\ t = Driver /\ phase = "flushing"
          /\ todo' = todo \ {p} /\ pc[Driver] = "idle"
      BY <2>4 DEF BeginFlush
    <3>2. t \notin Workers BY <3>1, ThreadsAssumption
    <3> QED BY <2>1, <2>2, <2>4, <3>1, <3>2 DEF ShutdownOK
  <2> QED BY <2>3, <2>4
<1> QED BY <1>1, <1>2, <1>3, <1>4, <1>5

\* SafetyInv is kept when an export takes the lock.
LEMMA SafeBeginExport ==
    ASSUME ResidentRegime, Inv, NEW t \in Threads, NEW p \in Projects,
           BeginExport(t, p)
    PROVE  SafetyInv'
<1> USE DEF Inv, SafetyInv, TypeOK, At, Goto
<1>1. LockOK'
  BY ThreadsAssumption DEF BeginExport, cacheVars, stopVars, LockOK, Holds,
     Unlocked, FlushPcs, EvictPcs
<1>2. LanesOK'
  BY DEF BeginExport, cacheVars, stopVars, LanesOK, LockOK, FlushPcs
<1>3. ProjectsOK'
  BY DEF BeginExport, cacheVars, stopVars, ProjectsOK, ProjectOK, Someone,
     Resident, LockOK, Holds, Unlocked, HandsOK, Hands
<1>4. HandsOK'
  BY DEF BeginExport, cacheVars, stopVars, HandsOK, Hands, ProjectsOK,
     ProjectOK, Someone, Resident, LockOK, Holds, Unlocked
<1>5. ShutdownOK'
  BY DEF BeginExport, cacheVars, stopVars, ShutdownOK, LanesOK, LockOK,
     HandsOK, Hands, ProjectsOK, ProjectOK, Someone
<1> QED BY <1>1, <1>2, <1>3, <1>4, <1>5

-----------------------------------------------------------------------------
(* Shutdown and restart *)

\* What SafetyInv says of threads and memory does not mention the shutdown.
LEMMA StopUnchanged ==
    ASSUME Inv, UNCHANGED <<cacheVars, disk, dirty, lock, threadVars, latest,
                            acked>>
    PROVE  LockOK' /\ LanesOK' /\ ProjectsOK' /\ HandsOK'
<1> USE DEF Inv, SafetyInv, threadVars, cacheVars, At
<1>1. LockOK' BY DEF LockOK, Holds
<1>2. LanesOK' BY DEF LanesOK
<1>3. ProjectsOK' BY DEF ProjectsOK, ProjectOK, Resident, Someone
<1>4. HandsOK' BY DEF HandsOK, Hands, Resident
<1> QED BY <1>1, <1>2, <1>3, <1>4

\* A project that is not listed as dirty is on disk once the workers are done.
LEMMA CleanIsOnDisk ==
    ASSUME Inv, \A t \in Workers : At(t, "idle"),
           NEW p \in Projects, p \notin dirty
    PROVE  disk[p] = latest[p]
<1>1. ~ Someone(p, "mark_dirty") BY DEF Someone, At, Inv, SafetyInv, LanesOK
<1> QED BY <1>1 DEF Inv, SafetyInv, ProjectsOK, ProjectOK

\* SafetyInv is kept when shutdown lists what is dirty.
LEMMA SafeBeginShutdown ==
    ASSUME Inv, BeginShutdown
    PROVE  SafetyInv'
<1>1. LockOK' /\ LanesOK' /\ ProjectsOK' /\ HandsOK'
  BY StopUnchanged DEF BeginShutdown
<1>2. \A t \in Workers : At(t, "idle") /\ At(t, "idle")'
  BY DEF BeginShutdown, threadVars, At
<1>3. /\ phase' = "flushing" /\ todo' = dirty /\ marker' = marker
      /\ phase = "up" /\ UNCHANGED <<disk, latest, proj, pc>>
  BY DEF BeginShutdown, threadVars
<1>4. ASSUME NEW p \in Projects PROVE p \in todo' \/ disk'[p] = latest'[p]
  BY <1>2, <1>3, CleanIsOnDisk
<1>5. ~ marker BY <1>3 DEF Inv, SafetyInv, ShutdownOK
<1>6. ShutdownOK' BY <1>2, <1>3, <1>4, <1>5 DEF ShutdownOK
<1> QED BY <1>1, <1>6 DEF SafetyInv

\* SafetyInv is kept when flush_all meets a clean project.
LEMMA SafeSkipFlush ==
    ASSUME Inv, NEW p \in Projects, SkipFlush(p)
    PROVE  SafetyInv'
<1>1. LockOK' /\ LanesOK' /\ ProjectsOK' /\ HandsOK'
  BY StopUnchanged DEF SkipFlush
<1>2. disk[p] = latest[p]
  BY CleanIsOnDisk DEF SkipFlush, Inv, SafetyInv, ShutdownOK
<1>3. /\ phase = "flushing" /\ todo' = todo \ {p}
      /\ UNCHANGED <<disk, latest, proj, pc, phase, failed, marker>>
  BY DEF SkipFlush, threadVars
<1>4. ShutdownOK' BY <1>2, <1>3 DEF Inv, SafetyInv, ShutdownOK, At
<1> QED BY <1>1, <1>4 DEF SafetyInv

\* SafetyInv is kept when the marker is written or withheld.
LEMMA SafeWriteMarker ==
    ASSUME Inv, WriteMarker
    PROVE  SafetyInv'
<1>1. LockOK' /\ LanesOK' /\ ProjectsOK' /\ HandsOK'
  BY StopUnchanged DEF WriteMarker
<1>2. /\ phase = "flushing" /\ phase' = "down" /\ todo = {}
      /\ pc[Driver] = "idle" /\ marker' = ~failed
      /\ UNCHANGED <<disk, latest, proj, pc, todo, failed>>
  BY DEF WriteMarker, threadVars, At
<1>3. ShutdownOK' BY <1>2 DEF Inv, SafetyInv, ShutdownOK, At
<1> QED BY <1>1, <1>3 DEF SafetyInv

\* SafetyInv is kept when a crash or a restart.
LEMMA SafeRestart ==
    ASSUME Inv, Restart
    PROVE  SafetyInv'
<1> USE DEF Restart, At
<1>t. Driver \in Threads BY DEF Threads
<1>1. LockOK' BY DEF LockOK, Holds, Unlocked, FlushPcs, EvictPcs
<1>2. LanesOK' BY <1>t DEF LanesOK
<1>3. ProjectsOK'
  BY DEF ProjectsOK, ProjectOK, Resident, Inv, SafetyInv, TypeOK
<1>4. HandsOK' BY DEF HandsOK, Hands
<1>5. ShutdownOK' BY DEF ShutdownOK
<1> QED BY <1>1, <1>2, <1>3, <1>4, <1>5 DEF SafetyInv

-----------------------------------------------------------------------------
(* The invariant is inductive *)

\* Every step of an operation that has begun.
LEMMA SafeStep ==
    ASSUME ResidentRegime, Inv, NEW t \in Threads, Step(t)
    PROVE  SafetyInv'
<1>0. pc[t] \notin EvictPcs \cup {"probe", "build"}
  BY DEF Inv, SafetyInv, LockOK
<1>1. CASE StateOfStep(t)
  BY <1>1, SafeStateOfHit, SafeStateOfMiss, SafeLoadState, SafeLoadInto
  DEF StateOfStep
<1>2. CASE EvictStep(t)
  BY <1>0, <1>2
  DEF EvictStep, EvictClear, EvictWrite, EvictWriteFails, At, EvictPcs
<1>3. CASE ApplyStep(t)
  <2>1. CASE MutateNoop(t) \/ EndApply(t)
    BY <2>1, SafeLeaveApply DEF MutateNoop, EndApply, At
  <2> QED BY <1>3, <2>1, SafeMutateChanged, SafeMutateFails, SafeWriteThrough,
             SafeWriteThroughFails, SafeLoadFresh, SafeClearDirty, SafePut,
             SafeMarkDirty DEF ApplyStep
<1>4. CASE FlushStep(t)
  <2>1. ~ FlushGone(t)
    BY DEF FlushGone, At, Inv, SafetyInv, HandsOK, Hands
  <2> QED BY <1>4, <2>1, SafeAnswerClean, SafeTrailingFlush, SafeFlushLock,
             SafeFlushLocked, SafeFlushPeek, SafeFlushWrite,
             SafeFlushWriteFails, SafeFlushClean, SafeFlushClear, SafeSnapshot,
             SafeAnswer DEF FlushStep
<1>5. CASE QueryStep(t)
  BY <1>0, <1>5 DEF QueryStep, Probe, InstallView, AnswerStatus, At
<1> QED BY <1>1, <1>2, <1>3, <1>4, <1>5 DEF Step

\* Every step of the daemon.
LEMMA SafeNext == ResidentRegime /\ Inv /\ TypeOK' /\ [Next]_vars => Inv'
<1> SUFFICES ASSUME ResidentRegime, Inv, TypeOK', [Next]_vars
             PROVE  SafetyInv'
  BY DEF Inv
<1>1. ASSUME NEW t \in Threads, NEW p \in Projects, Begin(t, p)
      PROVE  SafetyInv'
  BY <1>1, SafeBeginApply, SafeBeginFlush, SafeBeginExport
  DEF Begin, QueryHit, BeginQuery, ResidentRegime
<1>2. CASE UNCHANGED vars
  <2>1. LockOK' /\ LanesOK' /\ ProjectsOK' /\ HandsOK'
    BY <1>2, StopUnchanged DEF vars
  <2>2. ShutdownOK'
    BY <1>2 DEF vars, threadVars, stopVars, Inv, SafetyInv, ShutdownOK, At
  <2> QED BY <2>1, <2>2 DEF SafetyInv
<1> QED BY <1>1, <1>2, SafeStep, SafeBeginShutdown, SafeSkipFlush,
           SafeWriteMarker, SafeRestart DEF Next

(***************************************************************************)
(* With room for every project and no racing query, memory, the dirty set, *)
(* the locks and the disk agree at every step, whatever the threads, the   *)
(* flushes, failing writes, shutdowns and crashes do (flush.rs             *)
(* record_apply / flush_locked, daemon.rs shutdown).                       *)
(***************************************************************************)
THEOREM SafetyInvariant ==
    ASSUME ResidentRegime
    PROVE  Spec => [](TypeOK /\ SafetyInv)
<1>1. Init /\ TypeOK => Inv BY SafetyInit DEF Inv
<1>2. Inv /\ TypeOK' /\ [Next]_vars => Inv' BY SafeNext
<1>3. Spec => []TypeOK BY TypeCorrect
<1> QED BY <1>1, <1>2, <1>3, PTL DEF Spec, Inv

\* So no apply builds on an outdated state (flush.rs state_of, locks.rs).
THEOREM ResidentSafety ==
    ASSUME ResidentRegime
    PROVE  Spec => []NoLostUpdate
<1>1. TypeOK /\ SafetyInv => NoLostUpdate
  BY DEF SafetyInv, NoLostUpdate, HandsOK, Hands, At, Threads
<1> QED BY <1>1, SafetyInvariant, PTL

\* A flush that returned has persisted the newest state, and what a client was told is on disk
\* stays there through crashes and later flushes (flush.rs flush_locked, daemon.rs Exec::run).
THEOREM FlushesAreDurable ==
    ASSUME ResidentRegime
    PROVE  Spec => [](FlushedUnderLock /\ AckDurable)
<1>1. TypeOK /\ SafetyInv => FlushedUnderLock /\ AckDurable
  BY DEF SafetyInv, FlushedUnderLock, AckDurable, HandsOK, Hands, ProjectsOK, ProjectOK
<1> QED BY <1>1, SafetyInvariant, PTL

\* The clean-shutdown marker tells the truth: a failed write anywhere in the pass withholds it
\* (daemon.rs shutdown, flush.rs flush_all).
THEOREM MarkerTellsTruth ==
    ASSUME ResidentRegime
    PROVE  Spec => []MarkerHonest
<1>1. TypeOK /\ SafetyInv => MarkerHonest
  BY DEF SafetyInv, MarkerHonest, ShutdownOK, At
<1> QED BY <1>1, SafetyInvariant, PTL

-----------------------------------------------------------------------------
(* Paging by one apply at a time: the steps that page nothing out *)

\* The threads of the regime: the worker and the driver.
LEMMA AloneLanes ==
    ASSUME AloneRegime
    PROVE  /\ Driver \in Threads /\ Driver \notin Workers
           /\ Workers \subseteq Threads
           /\ \A t \in Threads : t \in Workers \/ t = Driver
           /\ \A t, u \in Workers : t = u
BY ThreadsAssumption DEF AloneRegime, Threads

\* A project that is not listed as dirty is on disk once the worker is done.
LEMMA AloneClean ==
    ASSUME AloneRegime, AloneInv, \A t \in Workers : At(t, "idle"),
           NEW p \in Projects, p \notin dirty
    PROVE  disk[p] = latest[p]
<1>1. ~ Someone(p, "mark_dirty")
  BY AloneLanes DEF Someone, At, AloneInv, AloneThreads, FlushPcs
<1>2. \A t \in Workers : evicted[t] = <<>>
  BY AloneLanes DEF At, AloneInv, AloneThreads, EvictPcs
<1>3. ~ InFlight(p) BY <1>2 DEF InFlight
<1> QED BY <1>1, <1>3 DEF AloneInv, AloneProject

\* AloneInv is kept in state_of: a resident state is handed out.
LEMMA AloneStateOfHit ==
    ASSUME AloneRegime, TypeInv, AloneInv, NEW t \in Threads, StateOfHit(t)
    PROVE  AloneInv'
<1> USE DEF AloneInv, TypeInv, TypeOK, At, Goto
<1>w. t \in Workers
  BY AloneLanes DEF StateOfHit, AloneThreads, FlushPcs, StateOfPcs, EvictPcs
<1>o. /\ Driver \in Threads /\ Driver \notin Workers
      /\ Workers \subseteq Threads /\ \A u, v \in Workers : u = v
  BY AloneLanes
<1>h. AloneWorker(t) /\ AloneProject(proj[t]) BY <1>w
<1>1. AloneThreads'
  BY <1>w, <1>o, AloneLanes DEF StateOfHit, StateOfNext, GetArc, AloneThreads,
     Holds, Unlocked, FlushPcs, EvictPcs, StateOfPcs, AloneRegime
<1>2. ASSUME NEW q \in Projects PROVE AloneProject(q)'
  <2>1. AloneProject(q) OBVIOUS
  <2>2. InFlight(q)' <=> InFlight(q) BY DEF StateOfHit, InFlight
  <2> QED BY <1>w, <1>o, <1>h, <2>1, <2>2 DEF StateOfHit, StateOfNext, GetArc,
     AloneProject, Someone, Resident, AloneThreads, AloneWorker, AloneDriver,
     Holds, Unlocked
<1>3. ASSUME NEW u \in Workers PROVE AloneWorker(u)'
  <2>1. AloneWorker(u) OBVIOUS
  <2> QED BY <1>w, <1>o, <1>h, <2>1 DEF StateOfHit, StateOfNext, GetArc,
     AloneWorker, AloneProject, Resident, AloneRegime, EvictPcs
<1>4. AloneDriver'
  BY <1>w, <1>o, <1>h DEF StateOfHit, StateOfNext, GetArc, AloneDriver,
     AloneProject, Resident
<1>5. ShutdownOK'
  BY <1>w, <1>o, <1>h DEF StateOfHit, StateOfNext, GetArc, stopVars,
     ShutdownOK, AloneProject, AloneDriver
<1> QED BY <1>1, <1>2, <1>3, <1>4, <1>5

\* AloneInv is kept in state_of: a cache miss.
LEMMA AloneStateOfMiss ==
    ASSUME AloneRegime, TypeInv, AloneInv, NEW t \in Threads, StateOfMiss(t)
    PROVE  AloneInv'
<1> USE DEF AloneInv, TypeInv, TypeOK, At, Goto
<1>w. t \in Workers
  BY AloneLanes DEF StateOfMiss, AloneThreads, FlushPcs, StateOfPcs, EvictPcs
<1>o. /\ Driver \in Threads /\ Driver \notin Workers
      /\ Workers \subseteq Threads /\ \A u, v \in Workers : u = v
  BY AloneLanes
<1>h. AloneWorker(t) /\ AloneProject(proj[t]) BY <1>w
<1>1. AloneThreads'
  BY <1>w, <1>o, AloneLanes DEF StateOfMiss, cacheVars, AloneThreads, Holds,
     Unlocked, FlushPcs, EvictPcs, StateOfPcs, AloneRegime
<1>2. ASSUME NEW q \in Projects PROVE AloneProject(q)'
  <2>1. AloneProject(q) OBVIOUS
  <2>2. InFlight(q)' <=> InFlight(q) BY DEF StateOfMiss, InFlight
  <2> QED BY <1>w, <1>o, <1>h, <2>1, <2>2 DEF StateOfMiss, cacheVars,
     AloneProject, Someone, Resident, AloneThreads, AloneWorker, AloneDriver,
     Holds, Unlocked
<1>3. ASSUME NEW u \in Workers PROVE AloneWorker(u)'
  <2>1. AloneWorker(u) OBVIOUS
  <2> QED BY <1>w, <1>o, <1>h, <2>1 DEF StateOfMiss, cacheVars, AloneWorker,
     AloneProject, Resident, AloneRegime, EvictPcs
<1>4. AloneDriver'
  BY <1>w, <1>o, <1>h DEF StateOfMiss, cacheVars, AloneDriver, AloneProject,
     Resident
<1>5. ShutdownOK'
  BY <1>w, <1>o, <1>h DEF StateOfMiss, cacheVars, stopVars, ShutdownOK,
     AloneProject, AloneDriver
<1> QED BY <1>1, <1>2, <1>3, <1>4, <1>5

\* AloneInv is kept in state_of: the checkpoint is read, with no write-back of it in flight.
LEMMA AloneLoadState ==
    ASSUME AloneRegime, TypeInv, AloneInv, NEW t \in Threads, LoadState(t)
    PROVE  AloneInv'
<1> USE DEF AloneInv, TypeInv, TypeOK, At, Goto
<1>w. t \in Workers
  BY AloneLanes DEF LoadState, AloneThreads, FlushPcs, StateOfPcs, EvictPcs
<1>o. /\ Driver \in Threads /\ Driver \notin Workers
      /\ Workers \subseteq Threads /\ \A u, v \in Workers : u = v
  BY AloneLanes
<1>h. AloneWorker(t) /\ AloneProject(proj[t]) BY <1>w
<1>d. disk[proj[t]] = latest[proj[t]]
  <2>1. evicted[t] = <<>>
    BY <1>w, <1>o DEF LoadState, AloneThreads, EvictPcs
  <2>2. \A u \in Workers : evicted[u] = <<>> BY <1>w, <1>o, <2>1
  <2>3. ~ InFlight(proj[t]) BY <2>2 DEF InFlight
  <2> QED BY <1>h, <2>3 DEF LoadState, AloneWorker, AloneProject
<1>1. AloneThreads'
  BY <1>w, <1>o, AloneLanes DEF LoadState, cacheVars, AloneThreads, Holds,
     Unlocked, FlushPcs, EvictPcs, StateOfPcs, AloneRegime
<1>2. ASSUME NEW q \in Projects PROVE AloneProject(q)'
  <2>1. AloneProject(q) OBVIOUS
  <2>2. InFlight(q)' <=> InFlight(q) BY DEF LoadState, InFlight
  <2> QED BY <1>w, <1>o, <1>h, <2>1, <2>2 DEF LoadState, cacheVars,
     AloneProject, Someone, Resident, AloneThreads, AloneWorker, AloneDriver,
     Holds, Unlocked
<1>3. ASSUME NEW u \in Workers PROVE AloneWorker(u)'
  <2>1. AloneWorker(u) OBVIOUS
  <2> QED BY <1>w, <1>o, <1>h, <1>d, <2>1 DEF LoadState, cacheVars,
     AloneWorker, AloneProject, Resident, AloneRegime, EvictPcs
<1>4. AloneDriver'
  BY <1>w, <1>o, <1>h DEF LoadState, cacheVars, AloneDriver, AloneProject,
     Resident
<1>5. ShutdownOK'
  BY <1>w, <1>o, <1>h, <1>d DEF LoadState, cacheVars, stopVars, ShutdownOK,
     AloneProject, AloneDriver
<1> QED BY <1>1, <1>2, <1>3, <1>4, <1>5

\* AloneInv is kept when the pipeline produced a delta.
LEMMA AloneMutateChanged ==
    ASSUME AloneRegime, TypeInv, AloneInv, NEW t \in Threads, MutateChanged(t)
    PROVE  AloneInv'
<1> USE DEF AloneInv, TypeInv, TypeOK, At, Goto
<1>w. t \in Workers
  BY AloneLanes DEF MutateChanged, AloneThreads, FlushPcs, StateOfPcs, EvictPcs
<1>o. /\ Driver \in Threads /\ Driver \notin Workers
      /\ Workers \subseteq Threads /\ \A u, v \in Workers : u = v
  BY AloneLanes
<1>h. AloneWorker(t) /\ AloneProject(proj[t]) BY <1>w
<1>1. AloneThreads'
  BY <1>w, <1>o, AloneLanes DEF MutateChanged, cacheVars, AloneThreads, Holds,
     Unlocked, FlushPcs, EvictPcs, StateOfPcs, AloneRegime
<1>2. ASSUME NEW q \in Projects PROVE AloneProject(q)'
  <2>1. AloneProject(q) OBVIOUS
  <2>2. InFlight(q)' <=> InFlight(q) BY DEF MutateChanged, InFlight
  <2> QED BY <1>w, <1>o, <1>h, <2>1, <2>2 DEF MutateChanged, cacheVars,
     AloneProject, Someone, Resident, AloneThreads, AloneWorker, AloneDriver,
     Holds, Unlocked
<1>3. ASSUME NEW u \in Workers PROVE AloneWorker(u)'
  <2>1. AloneWorker(u) OBVIOUS
  <2> QED BY <1>w, <1>o, <1>h, <2>1 DEF MutateChanged, cacheVars, AloneWorker,
     AloneProject, Resident, AloneRegime, EvictPcs
<1>4. AloneDriver'
  BY <1>w, <1>o, <1>h DEF MutateChanged, cacheVars, AloneDriver, AloneProject,
     Resident
<1>5. ShutdownOK'
  BY <1>w, <1>o, <1>h DEF MutateChanged, cacheVars, stopVars, ShutdownOK,
     AloneProject, AloneDriver
<1> QED BY <1>1, <1>2, <1>3, <1>4, <1>5

\* AloneInv is kept in record_apply: the dirty window opens.
LEMMA AloneMarkDirty ==
    ASSUME AloneRegime, TypeInv, AloneInv, NEW t \in Threads, MarkDirty(t)
    PROVE  AloneInv'
<1> USE DEF AloneInv, TypeInv, TypeOK, At, Goto
<1>w. t \in Workers
  BY AloneLanes DEF MarkDirty, AloneThreads, FlushPcs, StateOfPcs, EvictPcs
<1>o. /\ Driver \in Threads /\ Driver \notin Workers
      /\ Workers \subseteq Threads /\ \A u, v \in Workers : u = v
  BY AloneLanes
<1>h. AloneWorker(t) /\ AloneProject(proj[t]) BY <1>w
<1>1. AloneThreads'
  BY <1>w, <1>o, AloneLanes DEF MarkDirty, cacheVars, AloneThreads, Holds,
     Unlocked, FlushPcs, EvictPcs, StateOfPcs, AloneRegime
<1>2. ASSUME NEW q \in Projects PROVE AloneProject(q)'
  <2>1. AloneProject(q) OBVIOUS
  <2>2. InFlight(q)' <=> InFlight(q) BY DEF MarkDirty, InFlight
  <2> QED BY <1>w, <1>o, <1>h, <2>1, <2>2 DEF MarkDirty, cacheVars,
     AloneProject, Someone, Resident, AloneThreads, AloneWorker, AloneDriver,
     Holds, Unlocked
<1>3. ASSUME NEW u \in Workers PROVE AloneWorker(u)'
  <2>1. AloneWorker(u) OBVIOUS
  <2> QED BY <1>w, <1>o, <1>h, <2>1 DEF MarkDirty, cacheVars, AloneWorker,
     AloneProject, Resident, AloneRegime, EvictPcs
<1>4. AloneDriver'
  BY <1>w, <1>o, <1>h DEF MarkDirty, cacheVars, AloneDriver, AloneProject,
     Resident
<1>5. ShutdownOK'
  BY <1>w, <1>o, <1>h DEF MarkDirty, cacheVars, stopVars, ShutdownOK,
     AloneProject, AloneDriver
<1> QED BY <1>1, <1>2, <1>3, <1>4, <1>5

\* AloneInv is kept however an apply ends.
LEMMA AloneLeave ==
    ASSUME AloneRegime, TypeInv, AloneInv, NEW t \in Workers,
           pc[t] \in {"mutate", "unlock"}, Unlock(t), Return(t),
           UNCHANGED <<cacheVars, disk, dirty, evicted, shares, latest, acked,
                       stopVars>>
    PROVE  AloneInv'
<1> USE DEF AloneInv, TypeInv, TypeOK, At, Goto
<1>o. /\ Driver \in Threads /\ Driver \notin Workers
      /\ Workers \subseteq Threads /\ \A u, v \in Workers : u = v
  BY AloneLanes
<1>e. evicted[t] = <<>> BY <1>o DEF AloneThreads, EvictPcs
<1>r. /\ pc'[t] = "idle" /\ evicted'[t] = <<>>
      /\ \A u \in Threads \ {t} :
            /\ pc'[u] = pc[u] /\ proj'[u] = proj[u]
            /\ val'[u] = val[u] /\ after'[u] = after[u]
  BY <1>e, <1>o DEF Return
<1>1. AloneThreads'
  <2>1. \A q \in Projects : lock[q] # t => lock'[q] = lock[q] BY DEF Unlock
  <2>2. ASSUME NEW u \in Threads, u # t, Holds(u)' PROVE lock'[proj'[u]] = u
    <3>1. Holds(u) /\ proj[u] \in Projects /\ proj'[u] = proj[u]
      BY <1>r, <2>2 DEF Holds
    <3> QED BY <2>1, <2>2, <3>1 DEF AloneThreads
  <2>3. ~ Holds(t)' BY <1>r DEF Holds, Unlocked
  <2> QED BY <1>o, <1>r, <2>2, <2>3 DEF AloneThreads, EvictPcs
<1>2. ASSUME NEW q \in Projects PROVE AloneProject(q)'
  <2>1. AloneProject(q) OBVIOUS
  <2>2. InFlight(q)' <=> InFlight(q) BY DEF InFlight
  <2>3. Someone(q, "mark_dirty") => Someone(q, "mark_dirty")'
    BY <1>o, <1>r DEF Someone
  <2> QED BY <2>1, <2>2, <2>3 DEF cacheVars, AloneProject, Resident
<1>3. ASSUME NEW u \in Workers PROVE AloneWorker(u)'
  <2>1. u = t BY <1>o
  <2>2. DOMAIN evicted'[u] = {} BY <1>r, <2>1
  <2> QED BY <1>r, <2>1, <2>2 DEF AloneWorker, EvictPcs
<1>4. AloneDriver' BY <1>o, <1>r DEF cacheVars, AloneDriver
<1>5. ShutdownOK' BY <1>o, <1>r DEF stopVars, ShutdownOK
<1> QED BY <1>1, <1>2, <1>3, <1>4, <1>5

\* AloneInv is kept when a flush gets the project's lock.
LEMMA AloneFlushLock ==
    ASSUME AloneRegime, TypeInv, AloneInv, NEW t \in Threads, FlushLock(t)
    PROVE  AloneInv'
<1> USE DEF AloneInv, TypeInv, TypeOK, At, Goto
<1>w. t = Driver
  BY AloneLanes DEF FlushLock, AloneThreads, FlushPcs, StateOfPcs, EvictPcs
<1>o. /\ Driver \in Threads /\ Driver \notin Workers
      /\ Workers \subseteq Threads /\ \A u, v \in Workers : u = v
  BY AloneLanes
<1>h. AloneDriver /\ AloneProject(proj[t]) BY <1>w
<1>1. AloneThreads'
  <2>1. ASSUME NEW u \in Threads, u # t, Holds(u) PROVE lock'[proj[u]] = u
    <3>1. lock[proj[u]] = u /\ proj[u] \in Projects /\ u # Free
      BY <2>1, ThreadsAssumption DEF AloneThreads
    <3> QED BY <2>1, <3>1 DEF FlushLock
  <2> QED BY <1>w, <1>o, <2>1, AloneLanes DEF FlushLock, cacheVars,
     AloneThreads, Holds, Unlocked, FlushPcs, EvictPcs, StateOfPcs,
     AloneRegime
<1>2. ASSUME NEW q \in Projects PROVE AloneProject(q)'
  <2>1. AloneProject(q) OBVIOUS
  <2>2. InFlight(q)' <=> InFlight(q) BY DEF FlushLock, InFlight
  <2> QED BY <1>w, <1>o, <1>h, <2>1, <2>2 DEF FlushLock, cacheVars,
     AloneProject, Someone, Resident, AloneThreads, AloneWorker, AloneDriver,
     Holds, Unlocked
<1>3. ASSUME NEW u \in Workers PROVE AloneWorker(u)'
  <2>1. AloneWorker(u) OBVIOUS
  <2> QED BY <1>w, <1>o, <1>h, <2>1 DEF FlushLock, cacheVars, AloneWorker,
     AloneProject, Resident, AloneRegime, EvictPcs
<1>4. AloneDriver'
  BY <1>w, <1>o, <1>h DEF FlushLock, cacheVars, AloneDriver, AloneProject,
     Resident
<1>5. ShutdownOK'
  BY <1>w, <1>o, <1>h DEF FlushLock, cacheVars, stopVars, ShutdownOK,
     AloneProject, AloneDriver
<1> QED BY <1>1, <1>2, <1>3, <1>4, <1>5

\* AloneInv is kept when flush_locked looks at the dirty map.
LEMMA AloneFlushLocked ==
    ASSUME AloneRegime, TypeInv, AloneInv, NEW t \in Threads, FlushLocked(t)
    PROVE  AloneInv'
<1> USE DEF AloneInv, TypeInv, TypeOK, At, Goto
<1>w. t = Driver
  BY AloneLanes DEF FlushLocked, AloneThreads, FlushPcs, StateOfPcs, EvictPcs
<1>o. /\ Driver \in Threads /\ Driver \notin Workers
      /\ Workers \subseteq Threads /\ \A u, v \in Workers : u = v
  BY AloneLanes
<1>h. AloneDriver /\ AloneProject(proj[t]) BY <1>w
<1>d. phase # "up" /\ proj[t] \notin dirty => disk[proj[t]] = latest[proj[t]]
  BY AloneClean DEF ShutdownOK
<1>1. AloneThreads'
  BY <1>w, <1>o, AloneLanes DEF FlushLocked, cacheVars, AloneThreads, Holds,
     Unlocked, FlushPcs, EvictPcs, StateOfPcs, AloneRegime
<1>2. ASSUME NEW q \in Projects PROVE AloneProject(q)'
  <2>1. AloneProject(q) OBVIOUS
  <2>2. InFlight(q)' <=> InFlight(q) BY DEF FlushLocked, InFlight
  <2> QED BY <1>w, <1>o, <1>h, <2>1, <2>2 DEF FlushLocked, cacheVars,
     AloneProject, Someone, Resident, AloneThreads, AloneWorker, AloneDriver,
     Holds, Unlocked
<1>3. ASSUME NEW u \in Workers PROVE AloneWorker(u)'
  <2>1. AloneWorker(u) OBVIOUS
  <2> QED BY <1>w, <1>o, <1>h, <1>d, <2>1 DEF FlushLocked, cacheVars,
     AloneWorker, AloneProject, Resident, AloneRegime, EvictPcs
<1>4. AloneDriver'
  BY <1>w, <1>o, <1>h DEF FlushLocked, cacheVars, AloneDriver, AloneProject,
     Resident
<1>5. ShutdownOK'
  BY <1>w, <1>o, <1>h, <1>d DEF FlushLocked, cacheVars, stopVars, ShutdownOK,
     AloneProject, AloneDriver
<1> QED BY <1>1, <1>2, <1>3, <1>4, <1>5

\* AloneInv is kept when flush_locked takes the resident state.
LEMMA AloneFlushPeek ==
    ASSUME AloneRegime, TypeInv, AloneInv, NEW t \in Threads, FlushPeek(t)
    PROVE  AloneInv'
<1> USE DEF AloneInv, TypeInv, TypeOK, At, Goto
<1>w. t = Driver
  BY AloneLanes DEF FlushPeek, AloneThreads, FlushPcs, StateOfPcs, EvictPcs
<1>o. /\ Driver \in Threads /\ Driver \notin Workers
      /\ Workers \subseteq Threads /\ \A u, v \in Workers : u = v
  BY AloneLanes
<1>h. AloneDriver /\ AloneProject(proj[t]) BY <1>w
<1>1. AloneThreads'
  BY <1>w, <1>o, AloneLanes DEF FlushPeek, cacheVars, AloneThreads, Holds,
     Unlocked, FlushPcs, EvictPcs, StateOfPcs, AloneRegime
<1>2. ASSUME NEW q \in Projects PROVE AloneProject(q)'
  <2>1. AloneProject(q) OBVIOUS
  <2>2. InFlight(q)' <=> InFlight(q) BY DEF FlushPeek, InFlight
  <2> QED BY <1>w, <1>o, <1>h, <2>1, <2>2 DEF FlushPeek, cacheVars,
     AloneProject, Someone, Resident, AloneThreads, AloneWorker, AloneDriver,
     Holds, Unlocked
<1>3. ASSUME NEW u \in Workers PROVE AloneWorker(u)'
  <2>1. AloneWorker(u) OBVIOUS
  <2> QED BY <1>w, <1>o, <1>h, <2>1 DEF FlushPeek, cacheVars, AloneWorker,
     AloneProject, Resident, AloneRegime, EvictPcs
<1>4. AloneDriver'
  BY <1>w, <1>o, <1>h DEF FlushPeek, cacheVars, AloneDriver, AloneProject,
     Resident
<1>5. ShutdownOK'
  BY <1>w, <1>o, <1>h DEF FlushPeek, cacheVars, stopVars, ShutdownOK,
     AloneProject, AloneDriver
<1> QED BY <1>1, <1>2, <1>3, <1>4, <1>5

\* AloneInv is kept when flush_locked finds the state paged out.
LEMMA AloneFlushGone ==
    ASSUME AloneRegime, TypeInv, AloneInv, NEW t \in Threads, FlushGone(t)
    PROVE  AloneInv'
<1> USE DEF AloneInv, TypeInv, TypeOK, At, Goto
<1>w. t = Driver
  BY AloneLanes DEF FlushGone, AloneThreads, FlushPcs, StateOfPcs, EvictPcs
<1>o. /\ Driver \in Threads /\ Driver \notin Workers
      /\ Workers \subseteq Threads /\ \A u, v \in Workers : u = v
  BY AloneLanes
<1>h. AloneDriver /\ AloneProject(proj[t]) BY <1>w
<1>1. AloneThreads'
  BY <1>w, <1>o, AloneLanes DEF FlushGone, cacheVars, Unlock, Return,
     NoteFailure, AloneThreads, Holds, Unlocked, FlushPcs, EvictPcs,
     StateOfPcs, AloneRegime
<1>2. ASSUME NEW q \in Projects PROVE AloneProject(q)'
  <2>1. AloneProject(q) OBVIOUS
  <2>2. InFlight(q)' <=> InFlight(q) BY DEF FlushGone, InFlight
  <2> QED BY <1>w, <1>o, <1>h, <2>1, <2>2 DEF FlushGone, cacheVars, Unlock,
     Return, NoteFailure, AloneProject, Someone, Resident, AloneThreads,
     AloneWorker, AloneDriver, Holds, Unlocked
<1>3. ASSUME NEW u \in Workers PROVE AloneWorker(u)'
  <2>1. AloneWorker(u) OBVIOUS
  <2> QED BY <1>w, <1>o, <1>h, <2>1 DEF FlushGone, cacheVars, Unlock, Return,
     NoteFailure, AloneWorker, AloneProject, Resident, AloneRegime, EvictPcs
<1>4. AloneDriver'
  BY <1>w, <1>o, <1>h DEF FlushGone, cacheVars, Unlock, Return, NoteFailure,
     AloneDriver, AloneProject, Resident
<1>5. ShutdownOK'
  BY <1>w, <1>o, <1>h DEF FlushGone, cacheVars, Unlock, Return, NoteFailure,
     stopVars, ShutdownOK, AloneProject, AloneDriver
<1> QED BY <1>1, <1>2, <1>3, <1>4, <1>5

\* AloneInv is kept when a flush writes the checkpoint, whatever an eviction writes beside it.
LEMMA AloneFlushWrite ==
    ASSUME AloneRegime, TypeInv, AloneInv, NEW t \in Threads, FlushWrite(t)
    PROVE  AloneInv'
<1> USE DEF AloneInv, TypeInv, TypeOK, At, Goto
<1>w. t = Driver
  BY AloneLanes DEF FlushWrite, AloneThreads, FlushPcs, StateOfPcs, EvictPcs
<1>o. /\ Driver \in Threads /\ Driver \notin Workers
      /\ Workers \subseteq Threads /\ \A u, v \in Workers : u = v
  BY AloneLanes
<1>h. AloneDriver /\ AloneProject(proj[t]) BY <1>w
<1>1. AloneThreads'
  BY <1>w, <1>o, AloneLanes DEF FlushWrite, cacheVars, AloneThreads, Holds,
     Unlocked, FlushPcs, EvictPcs, StateOfPcs, AloneRegime
<1>2. ASSUME NEW q \in Projects PROVE AloneProject(q)'
  <2>1. AloneProject(q) OBVIOUS
  <2>2. InFlight(q)' <=> InFlight(q) BY DEF FlushWrite, InFlight
  <2> QED BY <1>w, <1>o, <1>h, <2>1, <2>2 DEF FlushWrite, cacheVars,
     AloneProject, Someone, Resident, AloneThreads, AloneWorker, AloneDriver,
     Holds, Unlocked
<1>3. ASSUME NEW u \in Workers PROVE AloneWorker(u)'
  <2>1. AloneWorker(u) OBVIOUS
  <2> QED BY <1>w, <1>o, <1>h, <2>1 DEF FlushWrite, cacheVars, AloneWorker,
     AloneProject, Resident, AloneRegime, EvictPcs
<1>4. AloneDriver'
  BY <1>w, <1>o, <1>h DEF FlushWrite, cacheVars, AloneDriver, AloneProject,
     Resident
<1>5. ShutdownOK'
  BY <1>w, <1>o, <1>h DEF FlushWrite, cacheVars, stopVars, ShutdownOK,
     AloneProject, AloneDriver
<1> QED BY <1>1, <1>2, <1>3, <1>4, <1>5

\* AloneInv is kept when a flush marks the entry clean.
LEMMA AloneFlushClean ==
    ASSUME AloneRegime, TypeInv, AloneInv, NEW t \in Threads, FlushClean(t)
    PROVE  AloneInv'
<1> USE DEF AloneInv, TypeInv, TypeOK, At, Goto
<1>w. t = Driver
  BY AloneLanes DEF FlushClean, AloneThreads, FlushPcs, StateOfPcs, EvictPcs
<1>o. /\ Driver \in Threads /\ Driver \notin Workers
      /\ Workers \subseteq Threads /\ \A u, v \in Workers : u = v
  BY AloneLanes
<1>h. AloneDriver /\ AloneProject(proj[t]) BY <1>w
<1>1. AloneThreads'
  BY <1>w, <1>o, AloneLanes DEF FlushClean, MarkClean, AloneThreads, Holds,
     Unlocked, FlushPcs, EvictPcs, StateOfPcs, AloneRegime
<1>2. ASSUME NEW q \in Projects PROVE AloneProject(q)'
  <2>1. AloneProject(q) OBVIOUS
  <2>2. InFlight(q)' <=> InFlight(q) BY DEF FlushClean, InFlight
  <2> QED BY <1>w, <1>o, <1>h, <2>1, <2>2 DEF FlushClean, MarkClean,
     AloneProject, Someone, Resident, AloneThreads, AloneWorker, AloneDriver,
     Holds, Unlocked
<1>3. ASSUME NEW u \in Workers PROVE AloneWorker(u)'
  <2>1. AloneWorker(u) OBVIOUS
  <2> QED BY <1>w, <1>o, <1>h, <2>1 DEF FlushClean, MarkClean, AloneWorker,
     AloneProject, Resident, AloneRegime, EvictPcs
<1>4. AloneDriver'
  BY <1>w, <1>o, <1>h DEF FlushClean, MarkClean, AloneDriver, AloneProject,
     Resident
<1>5. ShutdownOK'
  BY <1>w, <1>o, <1>h DEF FlushClean, MarkClean, stopVars, ShutdownOK,
     AloneProject, AloneDriver
<1> QED BY <1>1, <1>2, <1>3, <1>4, <1>5

\* AloneInv is kept when a flush drops the dirty entry.
LEMMA AloneFlushClear ==
    ASSUME AloneRegime, TypeInv, AloneInv, NEW t \in Threads, FlushClear(t)
    PROVE  AloneInv'
<1> USE DEF AloneInv, TypeInv, TypeOK, At, Goto
<1>w. t = Driver
  BY AloneLanes DEF FlushClear, AloneThreads, FlushPcs, StateOfPcs, EvictPcs
<1>o. /\ Driver \in Threads /\ Driver \notin Workers
      /\ Workers \subseteq Threads /\ \A u, v \in Workers : u = v
  BY AloneLanes
<1>h. AloneDriver /\ AloneProject(proj[t]) BY <1>w
<1>1. AloneThreads'
  BY <1>w, <1>o, AloneLanes DEF FlushClear, cacheVars, AloneThreads, Holds,
     Unlocked, FlushPcs, EvictPcs, StateOfPcs, AloneRegime
<1>2. ASSUME NEW q \in Projects PROVE AloneProject(q)'
  <2>1. AloneProject(q) OBVIOUS
  <2>2. InFlight(q)' <=> InFlight(q) BY DEF FlushClear, InFlight
  <2> QED BY <1>w, <1>o, <1>h, <2>1, <2>2 DEF FlushClear, cacheVars,
     AloneProject, Someone, Resident, AloneThreads, AloneWorker, AloneDriver,
     Holds, Unlocked
<1>3. ASSUME NEW u \in Workers PROVE AloneWorker(u)'
  <2>1. AloneWorker(u) OBVIOUS
  <2> QED BY <1>w, <1>o, <1>h, <2>1 DEF FlushClear, cacheVars, AloneWorker,
     AloneProject, Resident, AloneRegime, EvictPcs
<1>4. AloneDriver'
  BY <1>w, <1>o, <1>h DEF FlushClear, cacheVars, AloneDriver, AloneProject,
     Resident
<1>5. ShutdownOK'
  BY <1>w, <1>o, <1>h DEF FlushClear, cacheVars, stopVars, ShutdownOK,
     AloneProject, AloneDriver
<1> QED BY <1>1, <1>2, <1>3, <1>4, <1>5

\* AloneInv is kept when a flush drops its guard.
LEMMA AloneAnswer ==
    ASSUME AloneRegime, TypeInv, AloneInv, NEW t \in Threads, Answer(t)
    PROVE  AloneInv'
<1> USE DEF AloneInv, TypeInv, TypeOK, At, Goto
<1>w. t = Driver
  BY AloneLanes DEF Answer, AloneThreads, FlushPcs, StateOfPcs, EvictPcs
<1>o. /\ Driver \in Threads /\ Driver \notin Workers
      /\ Workers \subseteq Threads /\ \A u, v \in Workers : u = v
  BY AloneLanes
<1>h. AloneDriver /\ AloneProject(proj[t]) BY <1>w
<1>1. AloneThreads'
  BY <1>w, <1>o, AloneLanes DEF Answer, cacheVars, Unlock, Return,
     AloneThreads, Holds, Unlocked, FlushPcs, EvictPcs, StateOfPcs,
     AloneRegime
<1>2. ASSUME NEW q \in Projects PROVE AloneProject(q)'
  <2>1. AloneProject(q) OBVIOUS
  <2>2. InFlight(q)' <=> InFlight(q) BY DEF Answer, InFlight
  <2> QED BY <1>w, <1>o, <1>h, <2>1, <2>2 DEF Answer, cacheVars, Unlock,
     Return, AloneProject, Someone, Resident, AloneThreads, AloneWorker,
     AloneDriver, Holds, Unlocked
<1>3. ASSUME NEW u \in Workers PROVE AloneWorker(u)'
  <2>1. AloneWorker(u) OBVIOUS
  <2> QED BY <1>w, <1>o, <1>h, <2>1 DEF Answer, cacheVars, Unlock, Return,
     AloneWorker, AloneProject, Resident, AloneRegime, EvictPcs
<1>4. AloneDriver'
  BY <1>w, <1>o, <1>h DEF Answer, cacheVars, Unlock, Return, AloneDriver,
     AloneProject, Resident
<1>5. ShutdownOK'
  BY <1>w, <1>o, <1>h DEF Answer, cacheVars, Unlock, Return, stopVars,
     ShutdownOK, AloneProject, AloneDriver
<1> QED BY <1>1, <1>2, <1>3, <1>4, <1>5

-----------------------------------------------------------------------------
(* An insert and what it pages out *)

\* What an insert of the worker pages out is not resident any more, and a
\* dirty state it pages out is in the worker's hands.
LEMMA AlonePagesOut ==
    ASSUME TypeInv, CoherenceInv, NEW t \in Threads, NEW d \in BOOLEAN,
           InsertBy(t, val[t], d)
    PROVE  /\ graphs'[proj[t]] = val[t]
           /\ proj[t] \in cacheDirty' <=> d
           /\ \A q \in Projects \ {proj[t]} :
                 \/ graphs'[q] = graphs[q] /\ (q \in cacheDirty' <=> q \in cacheDirty)
                 \/ /\ graphs'[q] = Absent /\ q \notin cacheDirty'
                    /\ q \in cacheDirty =>
                          \E i \in DOMAIN evicted'[t] :
                              /\ evicted'[t][i].id = q
                              /\ evicted'[t][i].state = graphs[q]
           /\ \A i \in DOMAIN evicted'[t] :
                 LET e == evicted'[t][i] IN
                 /\ e.id \in Projects \ {proj[t]} /\ graphs'[e.id] = Absent
                 /\ e.state # Absent => e.state = graphs[e.id]
<1> DEFINE p == proj[t]
           out == ToSet(Victims(p))
           n == Excess(p)
<1>p. p \in Projects /\ val[t] \in Nat /\ CacheTypeOK /\ ResidentListed /\ Insert(p, val[t], d)
  BY DEF TypeInv, TypeOK, InsertBy
<1>1. /\ p \notin out /\ graphs'[p] = val[t]
      /\ \A q \in Projects \ {p} : q \notin out => graphs'[q] = graphs[q]
  BY <1>p, InsertOrder DEF CoherenceInv
<1>2. Victims(p) \in Seq(Projects) /\ Len(Victims(p)) = n BY <1>p, EvictedByType
<1>3. /\ DOMAIN Victims(p) = 1 .. n /\ \A i \in 1 .. n : Victims(p)[i] \in Projects
      /\ \A q : q \in out <=> \E i \in 1 .. n : Victims(p)[i] = q
  BY <1>2, LenProperties, ElementOfSeq DEF ToSet
<1>4. evicted'[t] = EvictedBy(p) BY DEF TypeInv, TypeOK, InsertBy
<1>5. /\ DOMAIN evicted'[t] = 1 .. n
      /\ \A i \in 1 .. n : /\ evicted'[t][i].id = Victims(p)[i]
                           /\ evicted'[t][i].state =
                                 IF Victims(p)[i] \in cacheDirty
                                 THEN graphs[Victims(p)[i]] ELSE Absent
  BY <1>4 DEF EvictedBy
<1>6. /\ \A q \in out \cap Projects : graphs'[q] = Absent
      /\ \A q \in Projects \ {p} :
            q \in cacheDirty' <=> q \in cacheDirty /\ q \notin out
      /\ p \in cacheDirty' <=> d
  BY <1>p, <1>1 DEF Insert
<1> HIDE DEF out, n, p
<1>7. \A q \in Projects \ {p} :
         \/ graphs'[q] = graphs[q] /\ (q \in cacheDirty' <=> q \in cacheDirty)
         \/ /\ graphs'[q] = Absent /\ q \notin cacheDirty'
            /\ q \in cacheDirty =>
                  \E i \in DOMAIN evicted'[t] :
                      /\ evicted'[t][i].id = q
                      /\ evicted'[t][i].state = graphs[q]
  BY <1>1, <1>3, <1>5, <1>6
<1>8. ASSUME NEW i \in DOMAIN evicted'[t]
      PROVE  LET e == evicted'[t][i] IN
             /\ e.id \in Projects \ {p} /\ graphs'[e.id] = Absent
             /\ e.state # Absent => e.state = graphs[e.id]
  BY <1>1, <1>3, <1>5, <1>6
<1> QED BY <1>1, <1>6, <1>7, <1>8 DEF p

\* AloneInv is kept by an insert, of a checkpoint that was paged in or of the
\* state an apply recorded.
LEMMA AloneInsert ==
    ASSUME AloneRegime, TypeInv, CoherenceInv, AloneInv, NEW t \in Workers,
           NEW d \in BOOLEAN, InsertBy(t, val[t], d),
           Moved(t), proj'[t] = proj[t], val'[t] = val[t],
           evicted[t] = <<>>, lock[proj[t]] = t,
           d => latest' = [latest EXCEPT ![proj[t]] = val[t]],
           ~ d => latest' = latest /\ ~ Resident(proj[t]) /\ val[t] = latest[proj[t]],
           UNCHANGED <<disk, dirty, lock, acked, stopVars>>, phase = "up",
           \/ d /\ pc'[t] = "mark_dirty"
           \/ /\ ~ d /\ after'[t] = "mutate"
              /\ pc'[t] = IF Victims(proj[t]) = <<>> THEN "mutate" ELSE "evict"
    PROVE  AloneInv'
<1>o. /\ Driver \in Threads /\ Driver \notin Workers
      /\ Workers \subseteq Threads /\ \A u, v \in Workers : u = v
  BY AloneLanes DEF AloneInv, TypeInv, TypeOK, At
<1>i. /\ graphs'[proj[t]] = val[t]
      /\ proj[t] \in cacheDirty' <=> d
      /\ \A q \in Projects \ {proj[t]} :
            \/ graphs'[q] = graphs[q] /\ (q \in cacheDirty' <=> q \in cacheDirty)
            \/ /\ graphs'[q] = Absent /\ q \notin cacheDirty'
               /\ q \in cacheDirty =>
                     \E i \in DOMAIN evicted'[t] :
                         /\ evicted'[t][i].id = q
                         /\ evicted'[t][i].state = graphs[q]
      /\ \A i \in DOMAIN evicted'[t] :
            LET e == evicted'[t][i] IN
            /\ e.id \in Projects \ {proj[t]} /\ graphs'[e.id] = Absent
            /\ e.state # Absent => e.state = graphs[e.id]
  BY <1>o, AlonePagesOut
<1> USE DEF AloneInv, TypeInv, TypeOK, At
<1>e. /\ \A u \in Threads \ {t} : evicted'[u] = evicted[u]
      /\ evicted'[t] = <<>> <=> Victims(proj[t]) = <<>>
  BY <1>o, InsertByType
<1>l. /\ \A q \in Projects \ {proj[t]} : latest'[q] = latest[q]
      /\ latest'[proj[t]] = val[t] /\ proj[t] \in Projects /\ val[t] \in Nat
  BY <1>o
<1>x. Holds(Driver) => proj[Driver] # proj[t]
  BY <1>o DEF AloneThreads
<1>m. \A u \in Threads \ {t} : /\ pc'[u] = pc[u] /\ proj'[u] = proj[u]
                               /\ val'[u] = val[u] /\ after'[u] = after[u]
  BY DEF Moved
<1>1. AloneThreads'
  <2>1. ASSUME NEW u \in Threads \ {t}
        PROVE  /\ evicted'[u] = evicted[u] /\ pc'[u] = pc[u]
               /\ proj'[u] = proj[u] /\ after'[u] = after[u]
    BY <1>e, <1>m
  <2>2. /\ lock'[proj'[t]] = t /\ pc'[t] \in {"mark_dirty", "mutate", "evict"}
        /\ evicted'[t] # <<>> => pc'[t] # "mutate"
        /\ pc'[t] = "evict" => evicted'[t] # <<>> /\ after'[t] = "mutate"
    BY <1>e
  <2> SUFFICES ASSUME NEW u \in Threads
               PROVE  /\ Holds(u)' => lock'[proj'[u]] = u
                      /\ evicted'[u] # <<>> => pc'[u] \in EvictPcs \cup {"mark_dirty"}
                      /\ pc'[u] \in EvictPcs =>
                             evicted'[u] # <<>> /\ after'[u] \in {"mutate", "unlock"}
                      /\ u \in Workers =>
                             pc'[u] \in StateOfPcs \cup EvictPcs
                                        \cup {"idle", "mutate", "put", "mark_dirty", "unlock"}
                      /\ u = Driver => /\ pc'[u] \in FlushPcs \cup {"idle", "flush_wait"}
                                       /\ pc'[u] # "snapshot"
                                       /\ pc'[u] # "idle" => after'[u] = "answer"
    BY DEF AloneThreads
  <2>3. CASE u = t BY <1>o, <2>2, <2>3 DEF EvictPcs
  <2>4. CASE u # t BY <2>1, <2>4 DEF AloneThreads, Holds
  <2> QED BY <2>3, <2>4
<1>2. ASSUME NEW q \in Projects PROVE AloneProject(q)'
  <2>1. AloneProject(q) OBVIOUS
  <2>2. ~ InFlight(q)
    <3>1. \A u \in Workers : evicted[u] = <<>> BY <1>o
    <3> QED BY <3>1 DEF InFlight
  <2>3. CASE q = proj[t]
    <3>1. graphs'[q] = latest'[q] /\ graphs'[q] # Absent
      BY <1>i, <1>l, <2>3 DEF Absent
    <3>2. d => Someone(q, "mark_dirty")' BY <1>o, <2>3 DEF Someone
    <3>3. ~ d => disk[q] = latest[q]
      BY <2>1, <2>2, <2>3 DEF AloneProject
    <3> QED BY <1>i, <2>3, <3>1, <3>2, <3>3 DEF AloneProject, Resident
  <2>4. CASE q # proj[t]
    <3>1. latest'[q] = latest[q] BY <1>l, <2>4
    <3>2. Someone(q, "mark_dirty") => Someone(q, "mark_dirty")'
      BY <1>o, <1>m, <2>4, AloneLanes DEF Someone, AloneThreads, FlushPcs
    <3>3. CASE graphs'[q] = graphs[q] /\ (q \in cacheDirty' <=> q \in cacheDirty)
      BY <2>1, <2>2, <3>1, <3>2, <3>3 DEF AloneProject, Resident
    <3>4. CASE /\ graphs'[q] = Absent /\ q \notin cacheDirty'
               /\ q \in cacheDirty =>
                     \E i \in DOMAIN evicted'[t] :
                         /\ evicted'[t][i].id = q
                         /\ evicted'[t][i].state = graphs[q]
      <4>1. q \in cacheDirty => InFlight(q)'
        BY <2>1, <3>4 DEF AloneProject, Resident, InFlight
      <4> QED BY <2>1, <2>2, <3>1, <3>4, <4>1 DEF AloneProject, Resident
    <3> QED BY <1>i, <2>4, <3>3, <3>4
  <2> QED BY <2>3, <2>4
<1>3. ASSUME NEW u \in Workers PROVE AloneWorker(u)'
  <2>1. u = t BY <1>o
  <2>2. ASSUME NEW i \in DOMAIN evicted'[t]
        PROVE  LET e == evicted'[t][i] IN
               /\ graphs'[e.id] = Absent /\ e.id # proj'[t]
               /\ e.state # Absent => e.state = latest'[e.id]
    <3> DEFINE e == evicted'[t][i]
    <3>1. /\ e.id \in Projects \ {proj[t]} /\ graphs'[e.id] = Absent
          /\ e.state # Absent => e.state = graphs[e.id]
      BY <1>i
    <3>2. AloneProject(e.id) /\ latest'[e.id] = latest[e.id] BY <1>l, <3>1
    <3> HIDE DEF e
    <3>3. graphs'[e.id] = Absent /\ e.id # proj'[t] BY <3>1
    <3>4. e.state # Absent => e.state = latest'[e.id]
      BY <3>1, <3>2 DEF AloneProject, Resident
    <3> QED BY <3>3, <3>4 DEF e
  <2>3. pc'[t] \in {"mark_dirty", "mutate", "evict"} OBVIOUS
  <2>4. val'[t] = latest'[proj'[t]] /\ graphs'[proj'[t]] # Absent
    BY <1>i, <1>l DEF Absent
  <2> QED BY <2>1, <2>2, <2>3, <2>4 DEF AloneWorker, EvictPcs, Resident
<1>4. AloneDriver'
  <2>0. AloneDriver /\ proj[Driver] \in Projects BY <1>o
  <2>1. CASE ~ Holds(Driver)
    BY <1>o, <1>m, <2>1 DEF AloneDriver, Holds, Unlocked, AloneRegime
  <2>2. CASE Holds(Driver)
    BY <1>o, <1>m, <1>x, <1>l, <1>i, <2>0, <2>2 DEF AloneDriver
  <2> QED BY <2>1, <2>2
<1>5. ShutdownOK' BY DEF stopVars, ShutdownOK
<1> QED BY <1>1, <1>2, <1>3, <1>4, <1>5

\* AloneInv is kept in state_of: the checkpoint becomes resident.
LEMMA AloneLoadInto ==
    ASSUME AloneRegime, TypeInv, CoherenceInv, AloneInv, NEW t \in Threads,
           LoadInto(t)
    PROVE  AloneInv'
<1> USE DEF AloneInv, TypeInv, TypeOK, At, Goto
<1>w. t \in Workers
  BY AloneLanes DEF LoadInto, AloneThreads, FlushPcs, EvictPcs
<1>1. /\ InsertBy(t, val[t], FALSE) /\ Moved(t)
      /\ proj'[t] = proj[t] /\ val'[t] = val[t] /\ after'[t] = "mutate"
      /\ pc'[t] = IF Victims(proj[t]) = <<>> THEN "mutate" ELSE "evict"
      /\ UNCHANGED <<disk, dirty, lock, acked, stopVars, latest>>
  BY DEF LoadInto, Moved, StateOfNext, AloneRegime
<1>2. /\ evicted[t] = <<>> /\ lock[proj[t]] = t /\ phase = "up"
      /\ ~ Resident(proj[t]) /\ val[t] = latest[proj[t]]
  BY <1>w, AloneLanes DEF LoadInto, AloneThreads, AloneWorker, EvictPcs,
     Holds, Unlocked, AloneRegime, ShutdownOK
<1> QED BY <1>w, <1>1, <1>2, AloneInsert

\* AloneInv is kept in record_apply: the state becomes resident, not written.
LEMMA AlonePut ==
    ASSUME AloneRegime, TypeInv, CoherenceInv, AloneInv, NEW t \in Threads,
           Put(t)
    PROVE  AloneInv'
<1> USE DEF AloneInv, TypeInv, TypeOK, At, Goto
<1>w. t \in Workers
  BY AloneLanes DEF Put, AloneThreads, FlushPcs
<1>1. /\ InsertBy(t, val[t], TRUE) /\ Moved(t)
      /\ proj'[t] = proj[t] /\ val'[t] = val[t] /\ pc'[t] = "mark_dirty"
      /\ UNCHANGED <<disk, dirty, lock, acked, stopVars>>
      /\ latest' = [latest EXCEPT ![proj[t]] = @ + 1]
  BY DEF Put, Moved
<1>2. /\ evicted[t] = <<>> /\ lock[proj[t]] = t /\ phase = "up"
      /\ val[t] = latest[proj[t]] + 1
  BY <1>w, AloneLanes DEF Put, AloneThreads, AloneWorker, EvictPcs,
     Holds, Unlocked, AloneRegime, ShutdownOK
<1>3. latest' = [latest EXCEPT ![proj[t]] = val[t]] BY <1>1, <1>2
<1> QED BY <1>w, <1>1, <1>2, <1>3, AloneInsert

-----------------------------------------------------------------------------
(* flush_evicted, and the steps that begin an operation *)

\* The victims that remain once the first one has been dealt with.
LEMMA PagedOutTail ==
    ASSUME NEW s \in Seq(EvictedRecord), s # <<>>
    PROVE  /\ Len(s) \in Nat \ {0} /\ DOMAIN s = 1 .. Len(s)
           /\ Head(s) = s[1] /\ s[1] \in EvictedRecord
           /\ DOMAIN Tail(s) = 1 .. Len(s) - 1
           /\ Tail(s) = <<>> <=> Len(s) = 1
           /\ \A i \in 1 .. Len(s) - 1 : Tail(s)[i] = s[i + 1]
<1>1. Len(s) \in Nat \ {0} /\ DOMAIN s = 1 .. Len(s) BY LenProperties, EmptySeq
<1>2. /\ Head(s) = s[1] /\ s[1] \in EvictedRecord
      /\ Tail(s) \in Seq(EvictedRecord) /\ Len(Tail(s)) = Len(s) - 1
      /\ \A i \in 1 .. Len(s) - 1 : Tail(s)[i] = s[i + 1]
  BY <1>1, HeadTailProperties, ElementOfSeq
<1>3. DOMAIN Tail(s) = 1 .. Len(s) - 1 BY <1>2, LenProperties
<1>4. Tail(s) = <<>> <=> Len(Tail(s)) = 0 BY <1>2, EmptySeq
<1> QED BY <1>1, <1>2, <1>3, <1>4

\* What AloneInv says of a worker in flush_evicted.
LEMMA AloneEvicting ==
    ASSUME AloneRegime, TypeInv, AloneInv, NEW t \in Threads, pc[t] \in EvictPcs
    PROVE  /\ t \in Workers /\ phase = "up"
           /\ evicted[t] \in Seq(EvictedRecord) /\ evicted[t] # <<>>
           /\ after[t] \in {"mutate", "unlock"} /\ lock[proj[t]] = t
           /\ after[t] = "mutate" => val[t] = latest[proj[t]]
           /\ Head(evicted[t]).id \in Projects
           /\ \A i \in DOMAIN evicted[t] :
                 /\ ~ Resident(evicted[t][i].id) /\ evicted[t][i].id # proj[t]
                 /\ evicted[t][i].state # Absent =>
                       evicted[t][i].state = latest[evicted[t][i].id]
<1> USE DEF AloneInv, TypeInv, TypeOK
<1>1. t \in Workers BY AloneLanes DEF AloneThreads, FlushPcs, EvictPcs
<1>2. /\ evicted[t] \in Seq(EvictedRecord) /\ evicted[t] # <<>>
      /\ after[t] \in {"mutate", "unlock"} /\ lock[proj[t]] = t
  BY DEF AloneThreads, EvictPcs, Holds, Unlocked, AloneRegime
<1>3. Head(evicted[t]).id \in Projects
  BY <1>2, PagedOutTail DEF EvictedRecord
<1>4. phase = "up" BY <1>1 DEF ShutdownOK, At, EvictPcs
<1>5. AloneWorker(t) BY <1>1
<1> QED BY <1>1, <1>2, <1>3, <1>4, <1>5 DEF AloneWorker

\* AloneInv is kept in flush_evicted when a victim has been dealt with: it was
\* clean, or it is on disk now.
LEMMA AloneEvictNext ==
    ASSUME AloneRegime, TypeInv, AloneInv, NEW t \in Threads, pc[t] \in EvictPcs,
           EvictNext(t), NEW e, e = Head(evicted[t]),
           dirty' \in {dirty, dirty \ {e.id}},
           \/ e.state = Absent /\ disk' = disk
           \/ e.state # Absent /\ disk' = [disk EXCEPT ![e.id] = e.state],
           UNCHANGED <<cacheVars, lock, proj, val, after, latest, stopVars>>
    PROVE  AloneInv'
<1> USE DEF AloneInv, TypeInv, TypeOK, At, Goto
<1>o. /\ Driver \in Threads /\ Driver \notin Workers
      /\ Workers \subseteq Threads /\ \A u, v \in Workers : u = v
  BY AloneLanes
<1>p. /\ t \in Workers /\ phase = "up"
      /\ evicted[t] \in Seq(EvictedRecord) /\ evicted[t] # <<>>
      /\ after[t] \in {"mutate", "unlock"} /\ lock[proj[t]] = t
      /\ after[t] = "mutate" => val[t] = latest[proj[t]]
      /\ e.id \in Projects
      /\ \A i \in DOMAIN evicted[t] :
            /\ ~ Resident(evicted[t][i].id) /\ evicted[t][i].id # proj[t]
            /\ evicted[t][i].state # Absent =>
                  evicted[t][i].state = latest[evicted[t][i].id]
  BY AloneEvicting
<1> DEFINE s == evicted[t]
           n == Len(s)
<1>s. /\ n \in Nat \ {0} /\ DOMAIN s = 1 .. n /\ e = s[1]
      /\ DOMAIN Tail(s) = 1 .. n - 1 /\ (Tail(s) = <<>> <=> n = 1)
      /\ \A i \in 1 .. n - 1 : Tail(s)[i] = s[i + 1]
  BY <1>p, PagedOutTail
<1>c. /\ evicted'[t] = Tail(s)
      /\ \A u \in Threads \ {t} : evicted'[u] = evicted[u] /\ pc'[u] = pc[u]
      /\ pc'[t] = IF n = 1 THEN after[t] ELSE "evict"
  BY DEF EvictNext
<1> HIDE DEF s, n
<1>e. ~ Resident(e.id) /\ (e.state # Absent => e.state = latest[e.id])
  <2>1. 1 \in DOMAIN s BY <1>s
  <2> QED BY <1>p, <1>s, <2>1 DEF s
<1>d. \A q \in Projects : disk'[q] = disk[q] \/ disk'[q] = latest[q]
  BY <1>e, <1>p
<1>1. AloneThreads'
  <2> SUFFICES ASSUME NEW u \in Threads
               PROVE  /\ Holds(u)' => lock'[proj'[u]] = u
                      /\ evicted'[u] # <<>> => pc'[u] \in EvictPcs \cup {"mark_dirty"}
                      /\ pc'[u] \in EvictPcs =>
                             evicted'[u] # <<>> /\ after'[u] \in {"mutate", "unlock"}
                      /\ u \in Workers =>
                             pc'[u] \in StateOfPcs \cup EvictPcs
                                        \cup {"idle", "mutate", "put", "mark_dirty", "unlock"}
                      /\ u = Driver => /\ pc'[u] \in FlushPcs \cup {"idle", "flush_wait"}
                                       /\ pc'[u] # "snapshot"
                                       /\ pc'[u] # "idle" => after'[u] = "answer"
    BY DEF AloneThreads
  <2>1. CASE u = t BY <1>o, <1>p, <1>s, <1>c, <2>1 DEF EvictPcs
  <2>2. CASE u # t BY <1>c, <2>2 DEF AloneThreads, Holds
  <2> QED BY <2>1, <2>2
<1>2. ASSUME NEW q \in Projects PROVE AloneProject(q)'
  <2>1. AloneProject(q) OBVIOUS
  <2>2. Someone(q, "mark_dirty") => Someone(q, "mark_dirty")'
    BY <1>c DEF Someone, EvictPcs
  <2>3. Resident(q) => q # e.id BY <1>e
  <2>4. ASSUME InFlight(q) PROVE InFlight(q)' \/ disk'[q] = latest[q]
    <3>0. PICK u \in Workers : \E i \in DOMAIN evicted[u] :
             evicted[u][i].id = q /\ evicted[u][i].state # Absent
      BY <2>4 DEF InFlight
    <3>1. PICK i \in DOMAIN evicted[u] :
             evicted[u][i].id = q /\ evicted[u][i].state # Absent
      BY <3>0
    <3>2. u = t BY <1>o, <1>p
    <3>3. CASE i = 1 BY <1>s, <1>e, <3>1, <3>2, <3>3 DEF s
    <3>4. CASE i # 1
      <4>1. i - 1 \in DOMAIN evicted'[t] /\ evicted'[t][i - 1] = evicted[t][i]
        BY <1>s, <1>c, <3>2, <3>4 DEF s
      <4> QED BY <1>p, <3>1, <3>2, <4>1 DEF InFlight
    <3> QED BY <3>3, <3>4
  <2> QED BY <1>d, <2>1, <2>2, <2>3, <2>4 DEF AloneProject, Resident, cacheVars
<1>3. ASSUME NEW u \in Workers PROVE AloneWorker(u)'
  <2>1. u = t BY <1>o, <1>p
  <2>2. ASSUME NEW i \in DOMAIN evicted'[t]
        PROVE  LET x == evicted'[t][i] IN
               /\ graphs'[x.id] = Absent /\ x.id # proj'[t]
               /\ x.state # Absent => x.state = latest'[x.id]
    <3>1. i + 1 \in DOMAIN s /\ evicted'[t][i] = s[i + 1] BY <1>s, <1>c
    <3> QED BY <1>p, <3>1 DEF s, Resident, cacheVars
  <2>3. /\ pc'[t] \in {"mutate", "unlock", "evict"}
        /\ pc'[t] = "mutate" => after[t] = "mutate"
    BY <1>p, <1>c
  <2>4. after'[t] = "mutate" => val'[t] = latest'[proj'[t]] BY <1>p
  <2>5. pc'[t] = "mutate" => val'[t] = latest'[proj'[t]] BY <2>3, <2>4
  <2> QED BY <2>1, <2>2, <2>3, <2>4, <2>5 DEF AloneWorker, Resident
<1>4. AloneDriver'
  BY <1>o, <1>p, <1>c, <1>d DEF AloneDriver, cacheVars
<1>5. ShutdownOK' BY <1>p DEF stopVars, ShutdownOK
<1> QED BY <1>1, <1>2, <1>3, <1>4, <1>5

\* AloneInv is kept in flush_evicted: the dirty entry of a victim is dropped,
\* before its state is written.
LEMMA AloneEvictClear ==
    ASSUME AloneRegime, TypeInv, AloneInv, NEW t \in Threads, EvictClear(t)
    PROVE  AloneInv'
<1> DEFINE e == Head(evicted[t])
<1> USE DEF AloneInv, TypeInv, TypeOK, At, Goto
<1>1. CASE e.state = Absent
  BY <1>1, AloneEvictNext DEF EvictClear, EvictPcs
<1>2. CASE e.state # Absent
  <2>o. /\ Driver \in Threads /\ Driver \notin Workers
        /\ Workers \subseteq Threads /\ \A u, v \in Workers : u = v
    BY AloneLanes
  <2>p. /\ t \in Workers /\ phase = "up"
        /\ evicted[t] # <<>> /\ after[t] \in {"mutate", "unlock"}
        /\ e.id \in Projects
        /\ ~ Resident(e.id)
    <3>1. /\ t \in Workers /\ phase = "up"
          /\ evicted[t] \in Seq(EvictedRecord)
          /\ evicted[t] # <<>> /\ after[t] \in {"mutate", "unlock"}
          /\ e.id \in Projects
          /\ \A i \in DOMAIN evicted[t] : ~ Resident(evicted[t][i].id)
      BY AloneEvicting DEF EvictClear, EvictPcs
    <3>2. 1 \in DOMAIN evicted[t] /\ e = evicted[t][1]
      BY <3>1, PagedOutTail
    <3> QED BY <3>1, <3>2
  <2>c. /\ dirty' = dirty \ {e.id} /\ evicted' = evicted
        /\ pc' = [pc EXCEPT ![t] = "evict_write"] /\ pc[t] = "evict"
        /\ UNCHANGED <<cacheVars, disk, lock, proj, val, after, latest, stopVars>>
    BY <1>2 DEF EvictClear
  <2>w. AloneWorker(t) BY <2>p
  <2> HIDE DEF e
  <2>1. AloneThreads'
    BY <2>o, <2>p, <2>c DEF AloneThreads, Holds, Unlocked, EvictPcs
  <2>2. ASSUME NEW q \in Projects PROVE AloneProject(q)'
    <3>1. AloneProject(q) OBVIOUS
    <3>2. InFlight(q)' <=> InFlight(q) BY <2>c DEF InFlight
    <3>3. Someone(q, "mark_dirty") => Someone(q, "mark_dirty")'
      BY <2>c DEF Someone
    <3>4. Resident(q) => q # e.id BY <2>p
    <3> QED BY <2>c, <3>1, <3>2, <3>3, <3>4 DEF AloneProject, Resident, cacheVars
  <2>3. ASSUME NEW u \in Workers PROVE AloneWorker(u)'
    <3>1. u = t BY <2>o, <2>p
    <3>2. Head(evicted'[t]).state # Absent BY <1>2, <2>c DEF e
    <3>3. pc'[t] = "evict_write" /\ pc[t] \in EvictPcs BY <2>c DEF EvictPcs
    <3> QED BY <2>c, <2>w, <3>1, <3>2, <3>3
        DEF AloneWorker, Resident, cacheVars, EvictPcs
  <2>4. AloneDriver' BY <2>o, <2>p, <2>c DEF AloneDriver, cacheVars
  <2>5. ShutdownOK' BY <2>p, <2>c DEF stopVars, ShutdownOK
  <2> QED BY <2>1, <2>2, <2>3, <2>4, <2>5
<1> QED BY <1>1, <1>2

\* AloneInv is kept in flush_evicted: the victim's state reaches disk.
LEMMA AloneEvictWrite ==
    ASSUME AloneRegime, TypeInv, AloneInv, NEW t \in Threads, EvictWrite(t)
    PROVE  AloneInv'
<1>1. pc[t] \in EvictPcs /\ Head(evicted[t]).state # Absent
  BY DEF EvictWrite, At, EvictPcs, TypeInv, EvictOK
<1> QED BY <1>1, AloneEvictNext DEF EvictWrite

\* AloneInv is kept when the worker takes a project's lock.
LEMMA AloneBeginApply ==
    ASSUME AloneRegime, TypeInv, AloneInv, NEW t \in Threads, NEW p \in Projects,
           BeginApply(t, p)
    PROVE  AloneInv'
<1> USE DEF AloneInv, TypeInv, TypeOK, At, Goto
<1>o. /\ Driver \in Threads /\ Driver \notin Workers
      /\ Workers \subseteq Threads /\ \A u, v \in Workers : u = v
  BY AloneLanes
<1>w. t \in Workers /\ pc[t] = "idle" /\ phase = "up" BY DEF BeginApply, AloneRegime
<1>e. evicted[t] = <<>> BY <1>o, <1>w DEF AloneThreads, EvictPcs
<1>c. /\ pc' = [pc EXCEPT ![t] = "state_of"] /\ proj' = [proj EXCEPT ![t] = p]
      /\ lock[p] = Free /\ lock' = [lock EXCEPT ![p] = t]
      /\ UNCHANGED <<cacheVars, disk, dirty, val, evicted, after, latest, stopVars>>
  BY DEF BeginApply
<1>1. AloneThreads'
  <2>1. ASSUME NEW u \in Threads, u # t, Holds(u) PROVE lock'[proj[u]] = u
    <3>1. lock[proj[u]] = u /\ proj[u] \in Projects /\ u # Free
      BY <2>1, ThreadsAssumption DEF AloneThreads
    <3> QED BY <1>c, <2>1, <3>1
  <2> QED BY <1>o, <1>w, <1>e, <1>c, <2>1 DEF AloneThreads, Holds, EvictPcs, StateOfPcs
<1>2. ASSUME NEW q \in Projects PROVE AloneProject(q)'
  <2>1. AloneProject(q) OBVIOUS
  <2>2. InFlight(q)' <=> InFlight(q) BY <1>c DEF InFlight
  <2>3. Someone(q, "mark_dirty") => Someone(q, "mark_dirty")' BY <1>c, <1>w DEF Someone
  <2> QED BY <1>c, <2>1, <2>2, <2>3 DEF AloneProject, Resident, cacheVars
<1>3. ASSUME NEW u \in Workers PROVE AloneWorker(u)'
  <2>1. u = t BY <1>o, <1>w
  <2>2. DOMAIN evicted'[u] = {} BY <1>e, <1>c, <2>1
  <2> QED BY <1>c, <1>o, <2>1, <2>2 DEF AloneWorker, EvictPcs
<1>4. AloneDriver' BY <1>o, <1>w, <1>c DEF AloneDriver, cacheVars
<1>5. ShutdownOK' BY <1>w, <1>c DEF stopVars, ShutdownOK
<1> QED BY <1>1, <1>2, <1>3, <1>4, <1>5

\* AloneInv is kept when the cadence or shutdown lists a project to flush.
LEMMA AloneBeginFlush ==
    ASSUME AloneRegime, TypeInv, AloneInv, NEW t \in Threads, NEW p \in Projects,
           BeginFlush(t, p)
    PROVE  AloneInv'
<1> USE DEF AloneInv, TypeInv, TypeOK, At, Goto
<1>o. /\ Driver \in Threads /\ Driver \notin Workers
      /\ Workers \subseteq Threads /\ \A u, v \in Workers : u = v
  BY AloneLanes
<1>w. t = Driver /\ pc[t] = "idle" BY DEF BeginFlush, AloneRegime
<1>c. /\ pc' = [pc EXCEPT ![t] = "flush_wait"] /\ proj' = [proj EXCEPT ![t] = p]
      /\ after' = [after EXCEPT ![t] = "answer"]
      /\ UNCHANGED <<cacheVars, disk, dirty, lock, val, evicted, latest, phase,
                     failed, marker>>
      /\ phase \in {"up", "flushing"} /\ (phase = "up" => todo' = todo)
      /\ phase # "up" => todo' = todo \ {p}
  BY <1>o, <1>w DEF BeginFlush, AloneRegime
<1>1. AloneThreads'
  BY <1>o, <1>w, <1>c DEF AloneThreads, Holds, Unlocked, EvictPcs
<1>2. ASSUME NEW q \in Projects PROVE AloneProject(q)'
  <2>1. AloneProject(q) OBVIOUS
  <2>2. InFlight(q)' <=> InFlight(q) BY <1>c DEF InFlight
  <2>3. Someone(q, "mark_dirty") => Someone(q, "mark_dirty")' BY <1>c, <1>w DEF Someone
  <2> QED BY <1>c, <2>1, <2>2, <2>3 DEF AloneProject, Resident, cacheVars
<1>3. ASSUME NEW u \in Workers PROVE AloneWorker(u)'
  <2>1. AloneWorker(u) /\ u # t BY <1>o, <1>w
  <2> QED BY <1>o, <1>c, <2>1 DEF AloneWorker, Resident, cacheVars
<1>4. AloneDriver' BY <1>o, <1>w, <1>c DEF AloneDriver
<1>5. ShutdownOK' BY <1>o, <1>w, <1>c DEF ShutdownOK
<1> QED BY <1>1, <1>2, <1>3, <1>4, <1>5

-----------------------------------------------------------------------------
(* Shutdown, restart and the whole *)

\* What shutdown's own steps leave alone.
LEMMA AloneUnchanged ==
    ASSUME AloneInv,
           UNCHANGED <<cacheVars, disk, dirty, lock, threadVars, latest>>
    PROVE  /\ AloneThreads' /\ AloneDriver'
           /\ \A p \in Projects : AloneProject(p)'
           /\ \A t \in Workers : AloneWorker(t)'
<1> USE DEF AloneInv, threadVars, cacheVars, At
<1>1. AloneThreads' /\ AloneDriver' BY DEF AloneThreads, AloneDriver, Holds
<1>2. ASSUME NEW p \in Projects PROVE AloneProject(p)'
  BY DEF AloneProject, Resident, Someone, InFlight
<1>3. ASSUME NEW t \in Workers PROVE AloneWorker(t)'
  BY DEF AloneWorker, Resident
<1> QED BY <1>1, <1>2, <1>3

\* AloneInv is kept by the steps of shutdown and by a crash or a restart.
LEMMA AloneStop ==
    ASSUME AloneRegime, TypeInv, AloneInv,
           \/ BeginShutdown \/ WriteMarker \/ Restart
           \/ \E p \in Projects : SkipFlush(p)
    PROVE  AloneInv'
<1>o. /\ Driver \in Threads /\ Driver \notin Workers /\ Workers \subseteq Threads
  BY AloneLanes
<1>1. CASE BeginShutdown
  <2>1. /\ AloneThreads' /\ AloneDriver'
        /\ \A p \in Projects : AloneProject(p)'
        /\ \A t \in Workers : AloneWorker(t)'
    BY <1>1, AloneUnchanged DEF BeginShutdown
  <2>2. \A t \in Workers : At(t, "idle") /\ At(t, "idle")'
    BY <1>1 DEF BeginShutdown, threadVars, At
  <2>3. /\ phase' = "flushing" /\ todo' = dirty /\ marker' = marker
        /\ phase = "up" /\ UNCHANGED <<disk, latest>>
    BY <1>1 DEF BeginShutdown
  <2>4. \A p \in Projects : p \in todo' \/ disk'[p] = latest'[p]
    BY <2>2, <2>3, AloneClean
  <2>5. ~ marker BY <2>3 DEF AloneInv, ShutdownOK
  <2>6. ShutdownOK' BY <2>2, <2>3, <2>4, <2>5 DEF ShutdownOK
  <2> QED BY <2>1, <2>6 DEF AloneInv
<1>2. CASE WriteMarker
  <2>1. /\ AloneThreads' /\ AloneDriver'
        /\ \A p \in Projects : AloneProject(p)'
        /\ \A t \in Workers : AloneWorker(t)'
    BY <1>2, AloneUnchanged DEF WriteMarker
  <2>2. /\ phase = "flushing" /\ phase' = "down" /\ todo = {}
        /\ pc[Driver] = "idle" /\ marker' = ~failed
        /\ UNCHANGED <<disk, latest, proj, pc, todo, failed>>
    BY <1>2 DEF WriteMarker, threadVars, At
  <2>3. ShutdownOK' BY <2>2 DEF AloneInv, ShutdownOK, At
  <2> QED BY <2>1, <2>3 DEF AloneInv
<1>3. ASSUME NEW p \in Projects, SkipFlush(p) PROVE AloneInv'
  <2>1. /\ AloneThreads' /\ AloneDriver'
        /\ \A q \in Projects : AloneProject(q)'
        /\ \A t \in Workers : AloneWorker(t)'
    BY <1>3, AloneUnchanged DEF SkipFlush
  <2>2. disk[p] = latest[p]
    BY <1>3, AloneClean DEF SkipFlush, AloneInv, ShutdownOK
  <2>3. /\ phase = "flushing" /\ todo' = todo \ {p}
        /\ UNCHANGED <<disk, latest, proj, pc, phase, failed, marker>>
    BY <1>3 DEF SkipFlush, threadVars
  <2>4. ShutdownOK' BY <2>2, <2>3 DEF AloneInv, ShutdownOK, At
  <2> QED BY <2>1, <2>4 DEF AloneInv
<1>4. CASE Restart
  <2> USE <1>4 DEF Restart, At
  <2>1. AloneThreads' BY DEF AloneThreads, Holds, Unlocked, EvictPcs
  <2>2. ASSUME NEW q \in Projects PROVE AloneProject(q)'
    BY DEF AloneProject, Resident
  <2>3. ASSUME NEW t \in Workers PROVE AloneWorker(t)'
    <3>1. evicted'[t] = <<>> BY <1>o
    <3>2. DOMAIN evicted'[t] = {} BY <3>1
    <3> QED BY <1>o, <3>2 DEF AloneWorker, EvictPcs
  <2>4. AloneDriver' BY <1>o DEF AloneDriver
  <2>5. ShutdownOK' BY DEF ShutdownOK
  <2> QED BY <2>1, <2>2, <2>3, <2>4, <2>5 DEF AloneInv
<1> QED BY <1>1, <1>2, <1>3, <1>4

\* AloneInv is kept by every step of an operation that has begun: those of a
\* client, of a query and of a failed write do not happen here.
LEMMA AloneStep ==
    ASSUME AloneRegime, TypeInv, CoherenceInv, AloneInv, NEW t \in Threads,
           Step(t)
    PROVE  AloneInv'
<1>0. /\ t \notin Clients /\ ~ IoFails
      /\ pc[t] \notin {"write_through", "load_fresh", "clear_dirty",
                       "flush_project", "snapshot", "probe", "build"}
  <2>1. t \notin Clients /\ ~ IoFails BY DEF AloneRegime
  <2>2. t \in Workers \/ t = Driver BY AloneLanes
  <2>3. AloneThreads BY DEF AloneInv
  <2>4. pc[t] # "snapshot"
    BY <2>2, <2>3 DEF AloneThreads, AloneInv, StateOfPcs, EvictPcs
  <2> QED BY <2>1, <2>2, <2>3, <2>4
      DEF AloneThreads, StateOfPcs, EvictPcs, FlushPcs
<1>1. CASE StateOfStep(t)
  BY <1>1, AloneStateOfHit, AloneStateOfMiss, AloneLoadState, AloneLoadInto
  DEF StateOfStep
<1>2. CASE EvictStep(t)
  BY <1>0, <1>2, AloneEvictClear, AloneEvictWrite DEF EvictStep, EvictWriteFails
<1>3. CASE ApplyStep(t)
  <2>1. CASE MutateNoop(t) \/ MutateFails(t) \/ EndApply(t)
    <3>1. /\ pc[t] \in {"mutate", "unlock"} /\ Unlock(t) /\ Return(t)
          /\ UNCHANGED <<cacheVars, disk, dirty, evicted, shares, latest, acked,
                         stopVars>>
      BY <1>0, <2>1 DEF MutateNoop, MutateFails, EndApply, LeaveApply, At
    <3>2. t \in Workers
      BY <3>1, AloneLanes DEF AloneInv, AloneThreads, FlushPcs
    <3> QED BY <3>1, <3>2, AloneLeave
  <2> QED BY <1>0, <1>3, <2>1, AloneMutateChanged, AlonePut, AloneMarkDirty
      DEF ApplyStep, WriteThrough, WriteThroughFails, LoadFresh, ClearDirty, At
<1>4. CASE FlushStep(t)
  BY <1>0, <1>4, AloneFlushLock, AloneFlushLocked, AloneFlushPeek,
     AloneFlushGone, AloneFlushWrite, AloneFlushClean, AloneFlushClear,
     AloneAnswer
  DEF FlushStep, AnswerClean, TrailingFlush, FlushWriteFails, Snapshot, At
<1>5. CASE QueryStep(t)
  BY <1>0, <1>5 DEF QueryStep, Probe, InstallView, AnswerStatus, At
<1> QED BY <1>1, <1>2, <1>3, <1>4, <1>5 DEF Step

\* A daemon starts with nothing paged out.
LEMMA AloneInit == AloneRegime /\ Init => AloneInv
<1> SUFFICES ASSUME AloneRegime, Init PROVE AloneInv OBVIOUS
<1> USE DEF Init, CacheInit, At
<1>o. Driver \in Threads /\ Workers \subseteq Threads BY AloneLanes
<1>1. AloneThreads BY DEF AloneThreads, Holds, Unlocked, EvictPcs
<1>2. ASSUME NEW p \in Projects PROVE AloneProject(p)
  BY DEF AloneProject, Resident
<1>3. ASSUME NEW t \in Workers PROVE AloneWorker(t)
  <2>1. evicted[t] = <<>> BY <1>o
  <2>2. DOMAIN evicted[t] = {} BY <2>1
  <2> QED BY <1>o, <2>2 DEF AloneWorker, EvictPcs
<1>4. AloneDriver BY <1>o DEF AloneDriver
<1>5. ShutdownOK BY DEF ShutdownOK
<1> QED BY <1>1, <1>2, <1>3, <1>4, <1>5 DEF AloneInv

\* So AloneInv holds for ever, for any number of projects and any capacity.
LEMMA AloneAlways ==
    ASSUME AloneRegime
    PROVE  Spec => []AloneInv
<1>1. Init => AloneInv BY AloneInit
<1>2. TypeInv /\ CoherenceInv /\ AloneInv /\ [Next]_vars => AloneInv'
  <2> SUFFICES ASSUME TypeInv, CoherenceInv, AloneInv, [Next]_vars
               PROVE  AloneInv'
    OBVIOUS
  <2>1. ASSUME NEW t \in Threads, NEW p \in Projects, Begin(t, p)
        PROVE  AloneInv'
    BY <2>1, AloneBeginApply, AloneBeginFlush
    DEF Begin, QueryHit, BeginQuery, BeginExport, AloneRegime
  <2>2. CASE UNCHANGED vars
    <3>1. /\ AloneThreads' /\ AloneDriver'
          /\ \A p \in Projects : AloneProject(p)'
          /\ \A t \in Workers : AloneWorker(t)'
      BY <2>2, AloneUnchanged DEF vars
    <3>2. ShutdownOK'
      BY <2>2 DEF vars, threadVars, stopVars, AloneInv, ShutdownOK, At
    <3> QED BY <3>1, <3>2 DEF AloneInv
  <2> QED BY <2>1, <2>2, AloneStep, AloneStop DEF Next
<1> QED BY <1>1, <1>2, CoherenceInvariant, PTL DEF Spec

(***************************************************************************)
(* With one apply at a time, paging loses nothing, for any number of       *)
(* projects and any capacity: an apply builds on the newest state of its   *)
(* project, however often that was written back and paged in again beside  *)
(* the driver's flushes, and the clean marker is honest (flush.rs          *)
(* state_of, flush_evicted, flush_locked; daemon.rs shutdown).             *)
(***************************************************************************)
THEOREM PagingAloneIsSafe ==
    ASSUME AloneRegime
    PROVE  Spec => []AloneSafe
<1>1. AloneInv => AloneSafe
  <2> SUFFICES ASSUME AloneInv PROVE AloneSafe OBVIOUS
  <2>1. NoLostUpdate BY DEF NoLostUpdate, AloneInv, AloneWorker, AloneRegime
  <2>2. MarkerHonest BY DEF MarkerHonest, AloneInv, ShutdownOK, At
  <2> QED BY <2>1, <2>2 DEF AloneSafe
<1> QED BY <1>1, AloneAlways, PTL

(***************************************************************************)
(* Nor does it lose track of anything: wherever a project is between its   *)
(* eviction and its page-in, a state that is not on disk is resident and   *)
(* marked as dirty, or about to be, or in the hands of the write-back, so  *)
(* that a flush that finds the project paged out and drops its flag        *)
(* forgets nothing (flush.rs flush_locked, flush_evicted).                 *)
(***************************************************************************)
THEOREM NothingUnsavedIsForgotten ==
    ASSUME AloneRegime
    PROVE  Spec => []UnsavedIsTracked
<1>1. AloneInv => UnsavedIsTracked
  BY DEF AloneInv, AloneProject, UnsavedIsTracked
<1> QED BY <1>1, AloneAlways, PTL
=============================================================================
