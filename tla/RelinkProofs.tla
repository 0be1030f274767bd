---------------------------- MODULE RelinkProofs ----------------------------
(***************************************************************************)
(* Theorems about module Relink, for every scenario, order of paths and    *)
(* bound: the patch an apply ships gives what the engine computed, only    *)
(* nodes of the graph have a community, and what the applies have made of  *)
(* a tree is what a cold build of it makes.                                *)
(***************************************************************************)
EXTENDS Relink, FiniteSetTheorems, WellFoundedInduction, TLAPS

-----------------------------------------------------------------------------
(* Finite sets *)

\* Induction over the naturals, with a set in the place of the predicate.
LEMMA SetInduction ==
    ASSUME NEW S, 0 \in S, \A n \in Nat : n \in S => n + 1 \in S
    PROVE  Nat \subseteq S
<1> SUFFICES ASSUME Nat \ S # {} PROVE FALSE OBVIOUS
<1> DEFINE I == Nat \ S
<1>1. PICK i \in I : \A j \in I : ~ (<<j, i>> \in OpToRel(<, Nat))
  BY NatLessThanWellFounded, WFMin, Zenon
<1>2. \A j \in I : ~ (j < i) BY <1>1 DEF OpToRel
<1>3. i \in Nat /\ i # 0 BY <1>1
<1>4. i - 1 \in Nat /\ i - 1 < i /\ (i - 1) + 1 = i BY <1>3
<1>5. i - 1 \in S BY <1>2, <1>4
<1> QED BY <1>1, <1>4, <1>5

\* Induction over a finite set: P is the set of those of which it holds.
LEMMA FiniteInduction ==
    ASSUME NEW S, IsFiniteSet(S), NEW P, {} \in P,
           \A T \in SUBSET S : \A x \in S \ T : T \in P => T \cup {x} \in P
    PROVE  S \in P
<1> DEFINE H == {n \in Nat : \A T \in SUBSET S : Cardinality(T) = n => T \in P}
<1>1. \A T \in SUBSET S : IsFiniteSet(T) /\ Cardinality(T) \in Nat
  BY FS_Subset, FS_CardinalityType
<1>2. 0 \in H BY <1>1, FS_EmptySet
<1>3. ASSUME NEW n \in Nat, n \in H PROVE n + 1 \in H
  <2> SUFFICES ASSUME NEW T \in SUBSET S, Cardinality(T) = n + 1 PROVE T \in P OBVIOUS
  <2>1. T # {} BY <1>1, FS_EmptySet
  <2>2. PICK x \in T : TRUE BY <2>1
  <2> DEFINE U == T \ {x}
  <2>3. U \in SUBSET S /\ x \in S \ U /\ U \cup {x} = T BY <2>2
  <2>4. Cardinality(U) = n
    <3>1. IsFiniteSet(T) BY <1>1
    <3>2. Cardinality(U) = Cardinality(T) - 1 BY <2>2, <3>1, FS_RemoveElement
    <3> HIDE DEF U
    <3> QED BY <3>2
  <2>5. U \in P BY <1>3, <2>3, <2>4
  <2> HIDE DEF U
  <2> QED BY <2>3, <2>5
<1> HIDE DEF H
<1>4. Nat \subseteq H BY <1>2, <1>3, SetInduction
<1>5. Cardinality(S) \in H BY <1>1, <1>4
<1> QED BY <1>5 DEF H

\* The image of a finite set.
LEMMA ImageIsFinite ==
    ASSUME NEW S, IsFiniteSet(S), NEW f, DOMAIN f = S
    PROVE  IsFiniteSet({f[x] : x \in S})
<1> DEFINE g == [x \in S |-> f[x]]
           T == {f[x] : x \in S}
<1>1. g \in Surjection(S, T) BY DEF Surjection
<1> QED BY <1>1, FS_Surjection

\* The union of finitely many finite sets.
LEMMA UnionIsFinite ==
    ASSUME NEW S, IsFiniteSet(S), NEW f, DOMAIN f = S, \A x \in S : IsFiniteSet(f[x])
    PROVE  IsFiniteSet(UNION {f[x] : x \in S})
<1> DEFINE P == {T \in SUBSET S : IsFiniteSet(UNION {f[x] : x \in T})}
<1>1. {} \in P
  <2>1. UNION {f[x] : x \in {}} = {} OBVIOUS
  <2> QED BY <2>1, FS_EmptySet
<1>2. ASSUME NEW T \in SUBSET S, NEW x \in S \ T, T \in P PROVE T \cup {x} \in P
  <2> DEFINE V == UNION {f[y] : y \in T}
             W == UNION {f[y] : y \in T \cup {x}}
  <2>1. \A z : z \in W <=> z \in V \/ z \in f[x] BY Zenon
  <2>2. IsFiniteSet(V) /\ IsFiniteSet(f[x]) BY <1>2
  <2>3. T \cup {x} \in SUBSET S OBVIOUS
  <2> HIDE DEF V, W
  <2>4. W = V \cup f[x] BY <2>1
  <2>5. IsFiniteSet(W) BY <2>2, <2>4, FS_Union
  <2> QED BY <2>3, <2>5 DEF W
<1> HIDE DEF P
<1>3. S \in P BY <1>1, <1>2, FiniteInduction
<1> QED BY <1>3 DEF P

\* A finite set has a subset of every number of members up to its own.
LEMMA SubsetOfSize ==
    ASSUME NEW S, IsFiniteSet(S), NEW n \in Nat, n <= Cardinality(S)
    PROVE  \E T \in SUBSET S : Cardinality(T) = n
<1> DEFINE P == {U \in SUBSET S : \A k \in Nat : k <= Cardinality(U) => \E T \in SUBSET U : Cardinality(T) = k}
<1>1. {} \in P
  <2>1. \A k \in Nat : k <= 0 => k = 0 OBVIOUS
  <2> QED BY <2>1, FS_EmptySet
<1>2. ASSUME NEW U \in SUBSET S, NEW x \in S \ U, U \in P PROVE U \cup {x} \in P
  <2>1. IsFiniteSet(U) /\ Cardinality(U) \in Nat BY FS_Subset, FS_CardinalityType
  <2>2. Cardinality(U \cup {x}) = Cardinality(U) + 1 BY <2>1, FS_AddElement
  <2> SUFFICES ASSUME NEW k \in Nat, k <= Cardinality(U \cup {x})
               PROVE  \E T \in SUBSET (U \cup {x}) : Cardinality(T) = k
    OBVIOUS
  <2>3. CASE k = Cardinality(U \cup {x}) BY <2>3
  <2>4. CASE k <= Cardinality(U)
    <3>1. \E T \in SUBSET U : Cardinality(T) = k BY <1>2, <2>4
    <3> QED BY <3>1
  <2>5. k <= Cardinality(U) \/ k = Cardinality(U \cup {x}) BY <2>1, <2>2
  <2> QED BY <2>3, <2>4, <2>5
<1> HIDE DEF P
<1>3. S \in P BY <1>1, <1>2, FiniteInduction
<1> QED BY <1>3 DEF P

-----------------------------------------------------------------------------
(* Bags *)

\* How often a thing is in a bag.
Copies(bag, e) == IF e \in DOMAIN bag THEN bag[e] ELSE 0

\* A bag is known by how often things are in it.
LEMMA BagsEqual ==
    ASSUME NEW a, NEW b, IsABag(a), IsABag(b), \A e : Copies(a, e) = Copies(b, e)
    PROVE  a = b
<1>1. \A e : Copies(a, e) # 0 <=> e \in DOMAIN a BY DEF IsABag, Copies
<1>2. \A e : Copies(b, e) # 0 <=> e \in DOMAIN b BY DEF IsABag, Copies
<1>3. DOMAIN a = DOMAIN b BY <1>1, <1>2
<1>4. \A e \in DOMAIN a : a[e] = b[e] BY <1>3 DEF Copies
<1> QED BY <1>3, <1>4 DEF IsABag

\* The two operations on bags.
LEMMA BagSum ==
    ASSUME NEW a, NEW b, IsABag(a), IsABag(b)
    PROVE  /\ IsABag(a (+) b) /\ DOMAIN (a (+) b) = DOMAIN a \cup DOMAIN b
           /\ \A e : Copies(a (+) b, e) = Copies(a, e) + Copies(b, e)
BY DEF (+), IsABag, Copies

\* How often a thing is in the difference of two bags.
LEMMA BagDifference ==
    ASSUME NEW a, NEW b, IsABag(a), IsABag(b)
    PROVE  /\ IsABag(a (-) b) /\ DOMAIN (a (-) b) \subseteq DOMAIN a
           /\ \A e : Copies(a (-) b, e) = IF Copies(a, e) > Copies(b, e)
                                          THEN Copies(a, e) - Copies(b, e) ELSE 0
BY DEF (-), IsABag, Copies

\* As often as some number of times.
LEMMA CopiesAreMany ==
    ASSUME NEW a, IsABag(a)
    PROVE  \A e : Copies(a, e) \in Nat
BY DEF IsABag, Copies

\* The patch between what is carried and what was there gives what is to be.
LEMMA PatchGives ==
    ASSUME NEW a, NEW c, NEW e, IsABag(a), IsABag(c), IsABag(e),
           \A x : Copies(c, x) <= Copies(a, x)
    PROVE  (a (-) ((a (-) c) (-) e)) (+) (e (-) (a (-) c)) = c (+) e
<1> DEFINE r == a (-) c
           d == r (-) e
           n == e (-) r
           k == a (-) d
<1>1. IsABag(r) /\ \A x : Copies(r, x) = IF Copies(a, x) > Copies(c, x) THEN Copies(a, x) - Copies(c, x) ELSE 0
  BY BagDifference
<1> HIDE DEF r
<1>2. IsABag(d) /\ \A x : Copies(d, x) = IF Copies(r, x) > Copies(e, x) THEN Copies(r, x) - Copies(e, x) ELSE 0
  BY <1>1, BagDifference
<1>3. IsABag(n) /\ \A x : Copies(n, x) = IF Copies(e, x) > Copies(r, x) THEN Copies(e, x) - Copies(r, x) ELSE 0
  BY <1>1, BagDifference
<1> HIDE DEF d, n
<1>4. IsABag(k) /\ \A x : Copies(k, x) = IF Copies(a, x) > Copies(d, x) THEN Copies(a, x) - Copies(d, x) ELSE 0
  BY <1>2, BagDifference
<1> HIDE DEF k
<1>5. IsABag(k (+) n) /\ \A x : Copies(k (+) n, x) = Copies(k, x) + Copies(n, x)
  BY <1>3, <1>4, BagSum
<1>6. IsABag(c (+) e) /\ \A x : Copies(c (+) e, x) = Copies(c, x) + Copies(e, x) BY BagSum
<1>7. ASSUME NEW x PROVE Copies(k (+) n, x) = Copies(c (+) e, x)
  <2>1. Copies(a, x) \in Nat /\ Copies(c, x) \in Nat /\ Copies(e, x) \in Nat BY CopiesAreMany
  <2>2. Copies(c, x) <= Copies(a, x) OBVIOUS
  <2>3. Copies(r, x) = Copies(a, x) - Copies(c, x) BY <1>1, <2>1, <2>2
  <2>4. CASE Copies(r, x) > Copies(e, x)
    <3>1. Copies(d, x) = Copies(r, x) - Copies(e, x) /\ Copies(n, x) = 0 BY <1>2, <1>3, <2>1, <2>3, <2>4
    <3>2. Copies(k, x) = Copies(a, x) - Copies(d, x) BY <1>4, <2>1, <2>2, <2>3, <3>1
    <3> QED BY <1>5, <1>6, <2>1, <2>3, <3>1, <3>2
  <2>5. CASE ~ (Copies(r, x) > Copies(e, x))
    <3>1. Copies(d, x) = 0 /\ Copies(n, x) = Copies(e, x) - Copies(r, x) BY <1>2, <1>3, <2>1, <2>2, <2>3, <2>5
    <3>2. Copies(k, x) = Copies(a, x) BY <1>4, <2>1, <3>1
    <3> QED BY <1>5, <1>6, <2>1, <2>3, <3>1, <3>2
  <2> QED BY <2>4, <2>5
<1>8. k (+) n = c (+) e BY <1>5, <1>6, <1>7, BagsEqual
<1> QED BY <1>8 DEF k, n, d, r

\* A set as a bag.
LEMMA SetIsBag ==
    ASSUME NEW S
    PROVE  IsABag(SetToBag(S)) /\ DOMAIN SetToBag(S) = S
BY DEF SetToBag, IsABag

\* What a function makes of the members of a finite set, as a bag.
LEMMA ImagesAreBag ==
    ASSUME NEW S, IsFiniteSet(S), NEW f, DOMAIN f = S
    PROVE  LET b == [e \in {f[x] : x \in S} |-> Cardinality({x \in S : f[x] = e})]
           IN  IsABag(b) /\ IsFiniteSet(DOMAIN b)
<1> DEFINE T == {f[x] : x \in S}
           b == [e \in T |-> Cardinality({x \in S : f[x] = e})]
<1>1. ASSUME NEW e \in T PROVE Cardinality({x \in S : f[x] = e}) \in {n \in Nat : n > 0}
  <2> DEFINE U == {x \in S : f[x] = e}
  <2>1. U \in SUBSET S /\ U # {} BY <1>1
  <2> HIDE DEF U
  <2>2. IsFiniteSet(U) BY <2>1, FS_Subset
  <2>3. Cardinality(U) \in Nat /\ Cardinality(U) # 0 BY <2>1, <2>2, FS_CardinalityType, FS_EmptySet
  <2>4. Cardinality(U) \in {n \in Nat : n > 0} BY <2>3
  <2> QED BY <2>4 DEF U
<1>2. IsFiniteSet(T) BY ImageIsFinite
<1> HIDE DEF T
<1>3. DOMAIN b = T OBVIOUS
<1>4. IsABag(b) BY <1>1 DEF IsABag
<1> QED BY <1>2, <1>3, <1>4 DEF T

\* The size of a finite bag is a number.
LEMMA SizeIsNumber ==
    ASSUME NEW b, IsABag(b), IsFiniteSet(DOMAIN b)
    PROVE  Size(b) \in Nat
<1> DEFINE f == [e \in DOMAIN b |-> {e} \X (1 .. b[e])]
           U == UNION {{e} \X (1 .. b[e]) : e \in DOMAIN b}
<1>1. ASSUME NEW e \in DOMAIN b PROVE IsFiniteSet(f[e])
  <2>1. b[e] \in Nat BY DEF IsABag
  <2> DEFINE S == 1 .. b[e]
             g == [i \in S |-> <<e, i>>]
  <2>2. IsFiniteSet(S) BY <2>1, FS_Interval
  <2>3. f[e] = {g[i] : i \in S} OBVIOUS
  <2>4. DOMAIN g = S OBVIOUS
  <2> HIDE DEF f, g, S
  <2>5. IsFiniteSet({g[i] : i \in S}) BY <2>2, <2>4, ImageIsFinite
  <2> QED BY <2>3, <2>5
<1>2. U = UNION {f[e] : e \in DOMAIN b} OBVIOUS
<1>3. DOMAIN f = DOMAIN b OBVIOUS
<1> HIDE DEF f
<1>4. IsFiniteSet(UNION {f[e] : e \in DOMAIN b}) BY <1>1, <1>3, UnionIsFinite
<1>5. Cardinality(U) \in Nat BY <1>2, <1>4, FS_CardinalityType
<1> QED BY <1>5 DEF Size

-----------------------------------------------------------------------------
(* What a reference is linked to *)

\* The files whose order is known.
Known == {PathOrder[i] : i \in DOMAIN PathOrder}

\* A node of a project has no file, any other one the file of its id.
NodeOK(n) ==
    /\ DOMAIN n.id = {"file", "label", "impl"}
    /\ IF n.kind = "project" THEN IsProject(n.id) /\ n.file = NoPath
       ELSE ~ IsProject(n.id) /\ n.file = n.id.file /\ n.file \in Known \ {NoPath}

\* What references are linked in: nodes, and an import scope of some of them.
ContextOK(c) ==
    /\ \A n \in c.nodes : NodeOK(n)
    /\ \A k \in DOMAIN c.scope : c.scope[k] \in Defs(c.nodes)

\* A target that is a node is a definition.
TargetOK(c, t) == IsNode(t) => \E n \in Defs(c.nodes) : t = n.id

\* A set of numbers has a least one.
LEMMA LeastOf ==
    ASSUME NEW I \in SUBSET Nat, I # {}
    PROVE  \E i \in I : \A j \in I : i <= j
<1>1. PICK i \in I : \A j \in I : ~ (<<j, i>> \in OpToRel(<, Nat))
  BY NatLessThanWellFounded, WFMin, Zenon
<1>2. \A j \in I : ~ (j < i) BY <1>1 DEF OpToRel
<1>3. \A j \in I : i <= j BY <1>2
<1> QED BY <1>3

\* First finds one of them.
LEMMA FirstIsOne ==
    ASSUME NEW S, S # {}, \A n \in S : n.file \in Known
    PROVE  First(S) \in S
<1> DEFINE I == {i \in DOMAIN PathOrder : \E n \in S : PathOrder[i] = n.file}
<1>1. I \in SUBSET Nat BY PathOrderAssumption DEF PathOrderAssumption
<1>2. I # {} BY DEF Known
<1>3. PICK i \in I : \A j \in I : i <= j BY <1>1, <1>2, LeastOf
<1>4. PICK n \in S : PathOrder[i] = n.file BY <1>3
<1>5. ASSUME NEW m \in S PROVE Before(n.file, m.file)
  <2>1. PICK j \in DOMAIN PathOrder : PathOrder[j] = m.file BY DEF Known
  <2>2. j \in I /\ i \in I BY <1>3, <2>1
  <2>3. i <= j BY <1>3, <2>2
  <2> QED BY <1>4, <2>1, <2>2, <2>3 DEF Before
<1> QED BY <1>4, <1>5 DEF First

\* Definitions have files that are known.
LEMMA DefsHaveFiles ==
    ASSUME NEW nodes, \A n \in nodes : NodeOK(n)
    PROVE  \A n \in Defs(nodes) : n \in nodes /\ n.file \in Known /\ n.kind # "project"
BY DEF Defs, Linkable, NodeOK

\* An import that is found is a definition.
LEMMA ImportsAreDefs ==
    ASSUME NEW g, \A n \in g.nodes : NodeOK(n), NEW refs
    PROVE  LET s == ImportScope(g, refs) IN \A k \in DOMAIN s : s[k] \in Defs(g.nodes)
<1>1. ASSUME NEW file, NEW name PROVE ResolveImport(g, file, name) \subseteq Defs(g.nodes)
  <2> DEFINE S == UNION {LocalDef(g.nodes, k[1], k[2]) : k \in OrElse(Walk(g, file, name), {<<file, name>>})}
  <2>1. S \subseteq Defs(g.nodes) BY DEF LocalDef, Candidates
  <2>2. ResolveImport(g, file, name) = FirstOf(S) BY DEF ResolveImport
  <2> HIDE DEF S
  <2>3. \A n \in S : n.file \in Known BY <2>1, DefsHaveFiles
  <2>4. S # {} => First(S) \in S BY <2>3, FirstIsOne
  <2>5. FirstOf(S) \subseteq S BY <2>4 DEF FirstOf
  <2> QED BY <2>1, <2>2, <2>5
<1>2. ASSUME NEW r PROVE ImportedDef(g, r) \subseteq Defs(g.nodes)
  BY <1>1 DEF ImportedDef
<1> DEFINE B == UNION {{<< <<r.source.file, r.name>>, n>> : n \in ImportedDef(g, r)} : r \in refs}
<1>3. \A b \in B : b[2] \in Defs(g.nodes) BY <1>2
<1>4. ImportScope(g, refs) = AsScope(B) BY DEF ImportScope
<1> HIDE DEF B
<1>5. ASSUME NEW k \in DOMAIN AsScope(B) PROVE AsScope(B)[k] \in Defs(g.nodes)
  <2>1. \E b \in B : b[1] = k BY DEF AsScope
  <2> DEFINE b == CHOOSE x \in B : x[1] = k
  <2>2. b \in B BY <2>1
  <2>3. AsScope(B)[k] = b[2] BY DEF AsScope
  <2> HIDE DEF b
  <2> QED BY <1>3, <2>2, <2>3
<1> QED BY <1>4, <1>5

\* What resolve binds a name to is one of the candidates or imported.
LEMMA ResolveFinds ==
    ASSUME NEW c, ContextOK(c), NEW r, NEW name, NEW cands \in SUBSET Defs(c.nodes), NEW any
    PROVE  TargetOK(c, Resolve(c, r, name, cands, any).target)
<1>0. \A n \in cands : n.file \in Known BY DefsHaveFiles DEF ContextOK
<1>1. ASSUME NEW n \in Defs(c.nodes), NEW conf PROVE TargetOK(c, Bound(n, conf).target)
  BY DEF TargetOK, Bound
<1>2. ASSUME NEW opaque PROVE TargetOK(c, Unresolved(name, opaque).target)
  BY DEF TargetOK, Unresolved, IsNode
<1>3. ASSUME NEW S \in SUBSET cands, S # {}, NEW conf PROVE TargetOK(c, Pick(S, conf).target)
  <2>1. First(S) \in S BY <1>0, <1>3, FirstIsOne
  <2>2. First(S) \in Defs(c.nodes) BY <1>3, <2>1
  <2> QED BY <1>1, <2>2 DEF Pick
<1>4. ASSUME <<r.source.file, name>> \in DOMAIN c.scope
      PROVE  c.scope[<<r.source.file, name>>] \in Defs(c.nodes)
  BY <1>4 DEF ContextOK
<1> DEFINE ids == IF any THEN cands ELSE SameProject(c, r.source.file, cands)
           typed == {n \in ids : SameType(n.impl, r.hint)}
           local == {n \in ids : n.file = r.source.file}
<1>5. ids \subseteq cands /\ typed \subseteq cands /\ local \subseteq cands BY DEF SameProject
<1>6. Resolve(c, r, name, cands, any) =
        CASE <<r.source.file, name>> \in DOMAIN c.scope ->
               Bound(c.scope[<<r.source.file, name>>], "extracted")
          [] OTHER ->
               IF ids = {} THEN Unresolved(name, r.opaque)
               ELSE IF r.hint # NoType
                    THEN IF typed = {} THEN Unresolved(name, r.opaque) ELSE Pick(typed, "extracted")
               ELSE IF local # {} THEN Pick(local, "extracted")
               ELSE IF r.opaque THEN Unresolved(name, r.opaque)
               ELSE Pick(ids, "inferred")
  BY DEF Resolve
<1> HIDE DEF ids, typed, local
<1> QED BY <1>1, <1>2, <1>3, <1>4, <1>5, <1>6

\* So of a qualified name.
LEMMA QualifiedFinds ==
    ASSUME NEW c, ContextOK(c), NEW r, NEW name, NEW crate, NEW any
    PROVE  TargetOK(c, ResolveQualified(c, r, name, crate, any).target)
<1> DEFINE cands == Candidates(c.nodes, name)
           owned == {n \in cands : RootOf(c.ws, n.file) = ByName(c.ws, crate).root}
<1>1. cands \in SUBSET Defs(c.nodes) /\ owned \in SUBSET Defs(c.nodes) BY DEF Candidates
<1>2. TargetOK(c, Unresolved(name, r.opaque).target) BY DEF TargetOK, Unresolved, IsNode
<1>3. ResolveQualified(c, r, name, crate, any) =
        CASE Cardinality(cands) <= 1 -> Resolve(c, r, name, cands, any)
          [] owned # {} -> Resolve(c, r, name, owned, any)
          [] OTHER      -> Unresolved(name, r.opaque)
  BY DEF ResolveQualified
<1> HIDE DEF cands, owned
<1>4. /\ TargetOK(c, Resolve(c, r, name, cands, any).target)
      /\ TargetOK(c, Resolve(c, r, name, owned, any).target)
  BY <1>1, ResolveFinds
<1> QED BY <1>2, <1>3, <1>4

\* And of a reference.
LEMMA RefFinds ==
    ASSUME NEW c, ContextOK(c), NEW r
    PROVE  TargetOK(c, ResolveRef(c, r).target)
<1> DEFINE plain == Resolve(c, r, r.name, Candidates(c.nodes, r.name), FALSE)
           exact == ResolveQualified(c, r, r.name, <<Head(r.name)>>, FALSE)
           stripped == ResolveQualified(c, r, Tail(r.name), <<Head(r.name)>>, TRUE)
           bare == Resolve(c, r, <<Last(r.name)>>, Candidates(c.nodes, <<Last(r.name)>>), TRUE)
<1>1. \A name : Candidates(c.nodes, name) \in SUBSET Defs(c.nodes) BY DEF Candidates
<1>2. TargetOK(c, plain.target) /\ TargetOK(c, bare.target) BY <1>1, ResolveFinds
<1>3. TargetOK(c, exact.target) /\ TargetOK(c, stripped.target) BY QualifiedFinds
<1>4. ResolveRef(c, r) \in {plain, exact, stripped, bare} BY DEF ResolveRef
<1> HIDE DEF plain, exact, stripped, bare
<1> QED BY <1>2, <1>3, <1>4

\* The edge made of a reference: from where it stands to a definition or a name.
LEMMA LinkFinds ==
    ASSUME NEW c, ContextOK(c), NEW r
    PROVE  /\ Link(c, r).source = r.source /\ Link(c, r).rel = r.rel
           /\ TargetOK(c, Link(c, r).target)
<1> DEFINE f == ResolveRef(c, WithHint(c, r))
<1>1. TargetOK(c, f.target) BY RefFinds
<1>2. Link(c, r) = EdgeOf(r, f) BY DEF Link
<1> HIDE DEF f
<1> QED BY <1>1, <1>2 DEF EdgeOf

-----------------------------------------------------------------------------
(* What an apply extracts *)

\* An edge between nodes, and none to a project but from one.
EdgeIn(e, nodes) ==
    /\ e.source \in Ids(nodes)
    /\ IsNode(e.target) => /\ e.target \in Ids(nodes)
                           /\ IsProject(e.target) => IsProject(e.source)

\* A reference of a node.
RefIn(r, nodes) == DOMAIN r = RefFields /\ r.source \in Ids(nodes) /\ ~ IsProject(r.source)

NodesOK(nodes) == IsFiniteSet(nodes) /\ \A n \in nodes : NodeOK(n)
EdgesOK(edges, nodes) ==
    IsABag(edges) /\ IsFiniteSet(DOMAIN edges) /\ \A e \in DOMAIN edges : EdgeIn(e, nodes)
RefsOK(refs, nodes) == IsFiniteSet(refs) /\ \A r \in refs : RefIn(r, nodes)
WorkspaceOK(ws) == IsFiniteSet(ws) /\ \A p \in ws : p.root \in Seq(STRING)

\* A change set that is true of a tree of contents.
ChangeOK(ch, d) ==
    /\ IsFiniteSet(ch.index) /\ NoPath \notin ch.index /\ ch.index \subseteq Known
    /\ \A f \in ch.index : IsContent(d[f])

\* The nodes of a file.
MadeOf(f, d) == {NodeOf(f, n) : n \in d[f].nodes}

\* What extraction makes of a file is in order.
LEMMA MadeNodes ==
    ASSUME NEW ch, NEW d, ChangeOK(ch, d), NEW f \in ch.index
    PROVE  LET N == MadeOf(f, d) \cup {FileNode(f)}
           IN  /\ NodesOK(N) /\ \A n \in N : n.kind # "project" /\ n.file = f
               /\ FileId(f) \in Ids(N) /\ ~ IsProject(FileId(f))
<1> DEFINE g == [n \in d[f].nodes |-> NodeOf(f, n)]
           N == MadeOf(f, d) \cup {FileNode(f)}
<1>0. f \in Known \ {NoPath} /\ IsContent(d[f]) BY DEF ChangeOK
<1>1. IsFiniteSet(N)
  <2>1. MadeOf(f, d) = {g[n] : n \in d[f].nodes} BY DEF MadeOf
  <2>2. IsFiniteSet(d[f].nodes) /\ DOMAIN g = d[f].nodes BY <1>0 DEF IsContent
  <2> HIDE DEF g
  <2>3. IsFiniteSet(MadeOf(f, d)) BY <2>1, <2>2, ImageIsFinite
  <2> QED BY <2>3, FS_AddElement
<1>2. ASSUME NEW n \in d[f].nodes
      PROVE  NodeOK(NodeOf(f, n)) /\ NodeOf(f, n).kind # "project" /\ NodeOf(f, n).file = f
  <2>1. n.label # <<"project">> /\ n.kind # "project" BY <1>0 DEF IsContent
  <2> QED BY <1>0, <2>1 DEF NodeOK, NodeOf, IsProject
<1>3. /\ NodeOK(FileNode(f)) /\ FileNode(f).kind # "project" /\ FileNode(f).file = f
      /\ FileNode(f).id = FileId(f) /\ ~ IsProject(FileId(f))
  <2>1. <<"file">> # <<"project">> OBVIOUS
  <2> QED BY <1>0, <2>1 DEF NodeOK, FileNode, FileId, IsProject
<1>4. \A n \in N : NodeOK(n) /\ n.kind # "project" /\ n.file = f BY <1>2, <1>3 DEF MadeOf
<1>5. FileId(f) \in Ids(N)
  <2>1. FileNode(f) \in N OBVIOUS
  <2> QED BY <1>3, <2>1 DEF Ids
<1> HIDE DEF N
<1>6. NodesOK(N) BY <1>1, <1>4 DEF NodesOK
<1> QED BY <1>3, <1>4, <1>5, <1>6 DEF N

\* The references of a file.
RefOf(f, r) == [r EXCEPT !.source = [file |-> f, label |-> @.label, impl |-> @.impl]]

\* The references extraction makes of a file are made from its nodes.
LEMMA MadeRefs ==
    ASSUME NEW ch, NEW d, ChangeOK(ch, d), NEW f \in ch.index
    PROVE  RefsOK({RefOf(f, r) : r \in d[f].refs}, MadeOf(f, d) \cup {FileNode(f)})
<1> DEFINE g == [r \in d[f].refs |-> RefOf(f, r)]
           N == MadeOf(f, d) \cup {FileNode(f)}
           R == {RefOf(f, r) : r \in d[f].refs}
<1>0. IsContent(d[f]) BY DEF ChangeOK
<1>1. IsFiniteSet(R)
  <2>1. R = {g[r] : r \in d[f].refs} /\ DOMAIN g = d[f].refs OBVIOUS
  <2>2. IsFiniteSet(d[f].refs) BY <1>0 DEF IsContent
  <2> HIDE DEF g, R
  <2> QED BY <2>1, <2>2, ImageIsFinite
<1>2. ASSUME NEW r \in d[f].refs PROVE RefIn(RefOf(f, r), N)
  <2> DEFINE s == [file |-> f, label |-> r.source.label, impl |-> r.source.impl]
  <2>1. DOMAIN r = RefFields BY <1>0 DEF IsContent
  <2>2. DOMAIN RefOf(f, r) = RefFields /\ RefOf(f, r).source = s BY <2>1 DEF RefOf, RefFields
  <2>3. CASE r.source.label = <<"file">> /\ r.source.impl = NoType
    <3>1. s = FileId(f) BY <2>3 DEF FileId
    <3> HIDE DEF s, N
    <3>2. FileId(f) \in Ids(N) /\ ~ IsProject(FileId(f)) BY MadeNodes DEF N
    <3> QED BY <2>2, <3>1, <3>2 DEF RefIn
  <2>4. CASE \E n \in d[f].nodes : r.source.label = n.label /\ r.source.impl = n.impl
    <3>1. PICK n \in d[f].nodes : r.source.label = n.label /\ r.source.impl = n.impl BY <2>4
    <3>2. NodeOf(f, n) \in N /\ NodeOf(f, n).id = s BY <3>1 DEF MadeOf, NodeOf
    <3>3. NodeOK(NodeOf(f, n)) /\ NodeOf(f, n).kind # "project" BY <3>2, MadeNodes DEF NodesOK
    <3>4. ~ IsProject(s) BY <3>2, <3>3 DEF NodeOK
    <3> HIDE DEF s, N
    <3> QED BY <2>2, <3>2, <3>4 DEF RefIn, Ids
  <2>5. \/ r.source.label = <<"file">> /\ r.source.impl = NoType
        \/ \E n \in d[f].nodes : r.source.label = n.label /\ r.source.impl = n.impl
    BY <1>0 DEF IsContent
  <2> QED BY <2>3, <2>4, <2>5
<1>3. \A r \in R : RefIn(r, N) BY <1>2
<1> QED BY <1>1, <1>3 DEF RefsOK

\* More nodes, the same references and edges.
LEMMA MoreNodes ==
    ASSUME NEW N, NEW M, N \subseteq M
    PROVE  /\ Ids(N) \subseteq Ids(M)
           /\ \A e : EdgeIn(e, N) => EdgeIn(e, M)
           /\ \A r : RefIn(r, N) => RefIn(r, M)
<1>1. Ids(N) \subseteq Ids(M) BY DEF Ids
<1> QED BY <1>1 DEF EdgeIn, RefIn

\* What extraction yields of a change.
LEMMA ExtractedOK ==
    ASSUME NEW ch, NEW d, ChangeOK(ch, d)
    PROVE  LET x == ExtractChanged(ch, d)
           IN  /\ NodesOK(x.nodes) /\ \A n \in x.nodes : n.kind # "project" /\ n.file \in ch.index
               /\ EdgesOK(x.structural, x.nodes)
               /\ RefsOK(x.refs, x.nodes)
<1> DEFINE files == {f \in ch.index : ~ IsManifest(f)}
           N(f) == MadeOf(f, d) \cup {FileNode(f)}
           G(f) == {RefOf(f, r) : r \in d[f].refs}
           E(f) == {Edge(FileId(f), "contains", n.id) : n \in MadeOf(f, d)}
           fn == [f \in files |-> N(f)]
           fg == [f \in files |-> G(f)]
           fe == [f \in files |-> E(f)]
           nodes == UNION {N(f) : f \in files}
           refs == UNION {G(f) : f \in files}
           edges == UNION {E(f) : f \in files}
           x == ExtractChanged(ch, d)
<1>1. x.nodes = nodes /\ x.structural = SetToBag(edges) /\ x.refs = refs
  BY DEF ExtractChanged, MadeOf, RefOf
<1>2. IsFiniteSet(files) /\ files \subseteq ch.index
  <2>1. files \in SUBSET ch.index OBVIOUS
  <2> HIDE DEF files
  <2> QED BY <2>1, FS_Subset DEF ChangeOK
<1> HIDE DEF x, files
<1>3. \A f \in files : /\ NodesOK(N(f)) /\ FileId(f) \in Ids(N(f)) /\ ~ IsProject(FileId(f))
                       /\ \A n \in N(f) : n.kind # "project" /\ n.file = f
  BY <1>2, MadeNodes
<1>4. \A f \in files : RefsOK(G(f), N(f)) BY <1>2, MadeRefs
<1>5. \A f \in files : IsFiniteSet(E(f)) /\ \A e \in E(f) : EdgeIn(e, N(f))
  <2> SUFFICES ASSUME NEW f \in files PROVE IsFiniteSet(E(f)) /\ \A e \in E(f) : EdgeIn(e, N(f))
    OBVIOUS
  <2> DEFINE g == [n \in MadeOf(f, d) |-> Edge(FileId(f), "contains", n.id)]
             M == MadeOf(f, d)
  <2>1. E(f) = {g[n] : n \in M} /\ DOMAIN g = M OBVIOUS
  <2>2. IsFiniteSet(M)
    <3>1. M \in SUBSET N(f) /\ IsFiniteSet(N(f)) BY <1>3 DEF NodesOK
    <3> HIDE DEF M, N
    <3> QED BY <3>1, FS_Subset
  <2>3. IsFiniteSet(E(f))
    <3> HIDE DEF g, M, E
    <3> QED BY <2>1, <2>2, ImageIsFinite
  <2>4. ASSUME NEW n \in M PROVE EdgeIn(Edge(FileId(f), "contains", n.id), N(f))
    <3>1. n \in N(f) OBVIOUS
    <3>2. NodeOK(n) /\ n.kind # "project" BY <1>3, <3>1 DEF NodesOK
    <3>3. ~ IsProject(n.id) BY <3>2 DEF NodeOK
    <3>4. n.id \in Ids(N(f)) BY <3>1 DEF Ids
    <3> HIDE DEF N
    <3> QED BY <1>3, <3>3, <3>4 DEF EdgeIn, Edge
  <2>5. \A e \in E(f) : EdgeIn(e, N(f)) BY <2>4
  <2> QED BY <2>3, <2>5
<1> HIDE DEF N, G, E
<1>6. \A f \in files : N(f) \subseteq nodes OBVIOUS
<1>7. IsFiniteSet(nodes) /\ IsFiniteSet(refs) /\ IsFiniteSet(edges)
  <2>1. \A f \in files : IsFiniteSet(fn[f]) /\ IsFiniteSet(fg[f]) /\ IsFiniteSet(fe[f])
    BY <1>3, <1>4, <1>5 DEF NodesOK, RefsOK
  <2>2. DOMAIN fn = files /\ DOMAIN fg = files /\ DOMAIN fe = files OBVIOUS
  <2>3. /\ nodes = UNION {fn[f] : f \in files} /\ refs = UNION {fg[f] : f \in files}
        /\ edges = UNION {fe[f] : f \in files}
    OBVIOUS
  <2> HIDE DEF fn, fg, fe, nodes, refs, edges
  <2> QED BY <1>2, <2>1, <2>2, <2>3, UnionIsFinite
<1>8. \A n \in nodes : NodeOK(n) /\ n.kind # "project" /\ n.file \in ch.index BY <1>2, <1>3 DEF NodesOK
<1>9. ASSUME NEW r \in refs PROVE RefIn(r, nodes)
  <2>1. PICK f \in files : r \in G(f) OBVIOUS
  <2>2. RefIn(r, N(f)) BY <1>4, <2>1 DEF RefsOK
  <2>3. N(f) \subseteq nodes BY <1>6
  <2> HIDE DEF nodes
  <2> QED BY <2>2, <2>3, MoreNodes
<1>10. \A e \in edges : EdgeIn(e, nodes) BY <1>5, <1>6, MoreNodes
<1> HIDE DEF nodes, refs, edges
<1>11. IsABag(SetToBag(edges)) /\ DOMAIN SetToBag(edges) = edges BY SetIsBag
<1>12. NodesOK(nodes) /\ RefsOK(refs, nodes) /\ EdgesOK(SetToBag(edges), nodes)
  BY <1>7, <1>8, <1>9, <1>10, <1>11 DEF NodesOK, RefsOK, EdgesOK
<1> QED BY <1>1, <1>8, <1>12 DEF x

-----------------------------------------------------------------------------
(* The edges an apply gives *)

\* The nodes of the projects.
ProjectNodes(ws) == {ProjectNode(p) : p \in ws}

\* The nodes of the projects are in order.
LEMMA ProjectNodesOK ==
    ASSUME NEW ws, WorkspaceOK(ws)
    PROVE  NodesOK(ProjectNodes(ws)) /\ \A n \in ProjectNodes(ws) : n.kind = "project"
<1> DEFINE g == [p \in ws |-> ProjectNode(p)]
<1>1. ProjectNodes(ws) = {g[p] : p \in ws} /\ DOMAIN g = ws BY DEF ProjectNodes
<1>2. IsFiniteSet(ProjectNodes(ws))
  <2> HIDE DEF g
  <2> QED BY <1>1, ImageIsFinite DEF WorkspaceOK
<1>3. \A p \in ws : NodeOK(ProjectNode(p)) /\ ProjectNode(p).kind = "project"
  BY DEF NodeOK, ProjectNode, ProjectId, IsProject
<1> QED BY <1>2, <1>3 DEF NodesOK, ProjectNodes

\* The project of a file is one of the workspace.
LEMMA RootIsOne ==
    ASSUME NEW ws, WorkspaceOK(ws), NEW path \in Seq(STRING), InProject(ws, path)
    PROVE  \E p \in ws : RootOf(ws, path) = p.root
<1> DEFINE S == Enclosing(ws, path)
           I == {Len(path) - Len(p.root) : p \in S}
<1>1. S # {} /\ S \subseteq ws BY DEF InProject, Enclosing
<1>2. ASSUME NEW p \in S PROVE Len(p.root) \in Nat /\ Len(path) \in Nat /\ Len(path) - Len(p.root) \in Nat
  <2>1. p.root \in Seq(STRING) BY <1>1 DEF WorkspaceOK
  <2>2. Len(p.root) \in Nat /\ Len(path) \in Nat BY <2>1
  <2>3. Len(p.root) <= Len(path) BY DEF Enclosing, IsPrefix
  <2> QED BY <2>2, <2>3
<1>3. I \in SUBSET Nat /\ I # {} BY <1>1, <1>2
<1>4. PICK i \in I : \A j \in I : i <= j BY <1>3, LeastOf
<1>5. PICK p \in S : i = Len(path) - Len(p.root) BY <1>4
<1>6. ASSUME NEW q \in S PROVE Len(q.root) <= Len(p.root)
  <2>1. i <= Len(path) - Len(q.root) BY <1>4
  <2> QED BY <1>2, <1>5, <2>1
<1>7. RootOf(ws, path) = (CHOOSE x \in S : \A q \in S : Len(q.root) <= Len(x.root)).root
  BY DEF RootOf
<1> HIDE DEF S
<1>8. (CHOOSE x \in S : \A q \in S : Len(q.root) <= Len(x.root)) \in S BY <1>5, <1>6
<1> QED BY <1>1, <1>7, <1>8

\* The edges of the projects.
LEMMA ProjectEdgesOK ==
    ASSUME NEW ws, WorkspaceOK(ws), NEW nodes, NodesOK(nodes)
    PROVE  EdgesOK(ProjectEdges(ws, nodes), nodes \cup ProjectNodes(ws))
<1> DEFINE D == DependsOn(ws)
           F == {m \in nodes : m.kind = "file" /\ InProject(ws, m.file)}
           gd == [d \in D |-> Edge(ProjectId(d[1].root), "depends_on", ProjectId(d[2].root))]
           gf == [n \in F |-> Edge(ProjectId(RootOf(ws, n.file)), "contains", n.id)]
           ED == {gd[d] : d \in D}
           EF == {gf[n] : n \in F}
           all == nodes \cup ProjectNodes(ws)
<1>1. ProjectEdges(ws, nodes) = SetToBag(ED \cup EF) BY DEF ProjectEdges
<1>2. IsFiniteSet(D)
  <2>1. D \in SUBSET (ws \X ws) BY DEF DependsOn
  <2>2. IsFiniteSet(ws \X ws) BY FS_Product DEF WorkspaceOK
  <2> HIDE DEF D
  <2> QED BY <2>1, <2>2, FS_Subset
<1>3. IsFiniteSet(F)
  <2>1. F \in SUBSET nodes OBVIOUS
  <2> HIDE DEF F
  <2> QED BY <2>1, FS_Subset DEF NodesOK
<1>4. IsFiniteSet(ED \cup EF)
  <2>1. DOMAIN gd = D /\ DOMAIN gf = F OBVIOUS
  <2> HIDE DEF gd, gf, D, F
  <2>2. IsFiniteSet(ED) /\ IsFiniteSet(EF) BY <1>2, <1>3, <2>1, ImageIsFinite
  <2> HIDE DEF ED, EF
  <2> QED BY <2>2, FS_Union
<1>5. ASSUME NEW p \in ws PROVE ProjectId(p.root) \in Ids(all) /\ IsProject(ProjectId(p.root))
  <2>1. ProjectNode(p) \in all /\ ProjectNode(p).id = ProjectId(p.root) BY DEF ProjectNodes, ProjectNode
  <2> HIDE DEF all
  <2>2. ProjectId(p.root) \in Ids(all) BY <2>1 DEF Ids
  <2> QED BY <2>2 DEF ProjectId, IsProject
<1>6. ASSUME NEW d \in D PROVE EdgeIn(gd[d], all)
  <2>1. d[1] \in ws /\ d[2] \in ws BY DEF DependsOn
  <2>2. gd[d] = Edge(ProjectId(d[1].root), "depends_on", ProjectId(d[2].root)) OBVIOUS
  <2> HIDE DEF D, gd, all
  <2> QED BY <1>5, <2>1, <2>2 DEF EdgeIn, Edge
<1>7. ASSUME NEW n \in F PROVE EdgeIn(gf[n], all)
  <2>1. n \in nodes /\ NodeOK(n) /\ n.kind # "project" /\ InProject(ws, n.file)
    <3>1. n \in nodes /\ n.kind = "file" /\ InProject(ws, n.file) OBVIOUS
    <3>2. NodeOK(n) BY <3>1 DEF NodesOK
    <3> HIDE DEF F
    <3> QED BY <3>1, <3>2
  <2>2. n.file \in Seq(STRING) BY <2>1, PathOrderAssumption DEF NodeOK, Known, PathOrderAssumption
  <2>3. PICK p \in ws : RootOf(ws, n.file) = p.root BY <2>1, <2>2, RootIsOne
  <2>4. gf[n] = Edge(ProjectId(p.root), "contains", n.id) BY <2>3
  <2>5. n.id \in Ids(all) BY <2>1 DEF Ids
  <2> HIDE DEF F, gf, all
  <2> QED BY <1>5, <2>4, <2>5 DEF EdgeIn, Edge
<1>8. \A e \in ED \cup EF : EdgeIn(e, all) BY <1>6, <1>7
<1> HIDE DEF ED, EF, all
<1>9. IsABag(SetToBag(ED \cup EF)) /\ DOMAIN SetToBag(ED \cup EF) = ED \cup EF BY SetIsBag
<1> QED BY <1>1, <1>4, <1>8, <1>9 DEF EdgesOK, all

\* What is left of a bag.
LEMMA RestOfBag ==
    ASSUME NEW b, IsABag(b), IsFiniteSet(DOMAIN b), NEW S \in SUBSET DOMAIN b
    PROVE  LET c == [e \in S |-> b[e]]
           IN  /\ IsABag(c) /\ IsFiniteSet(DOMAIN c) /\ DOMAIN c = S
               /\ \A e : Copies(c, e) <= Copies(b, e)
<1> DEFINE c == [e \in S |-> b[e]]
<1>1. IsFiniteSet(S) BY FS_Subset
<1>2. DOMAIN c = S /\ \A e \in S : c[e] = b[e] /\ b[e] \in Nat /\ b[e] > 0 BY DEF IsABag
<1>3. IsABag(c) BY <1>2 DEF IsABag
<1>4. ASSUME NEW e PROVE Copies(c, e) <= Copies(b, e)
  <2>1. Copies(b, e) \in Nat BY CopiesAreMany
  <2> QED BY <1>2, <2>1 DEF Copies
<1> HIDE DEF c
<1> QED BY <1>1, <1>2, <1>3, <1>4 DEF c

\* Two bags of edges.
LEMMA EdgesTogether ==
    ASSUME NEW a, NEW b, NEW N, EdgesOK(a, N), EdgesOK(b, N)
    PROVE  EdgesOK(a (+) b, N)
<1>1. IsABag(a (+) b) /\ DOMAIN (a (+) b) = DOMAIN a \cup DOMAIN b BY BagSum DEF EdgesOK
<1>2. IsFiniteSet(DOMAIN a \cup DOMAIN b) BY FS_Union DEF EdgesOK
<1> QED BY <1>1, <1>2 DEF EdgesOK

\* Edges between nodes are between them among more.
LEMMA MoreNodesForEdges ==
    ASSUME NEW a, NEW N, NEW M, N \subseteq M, EdgesOK(a, N)
    PROVE  EdgesOK(a, M)
BY MoreNodes DEF EdgesOK

\* The edges of the references.
LEMMA ResolvedOK ==
    ASSUME NEW c, ContextOK(c), NEW how, NEW impact, NEW refs, RefsOK(refs, c.nodes)
    PROVE  EdgesOK(ResolveImpacted(c, how, impact, refs), c.nodes)
<1> DEFINE S == {r \in refs : Impacted(impact, how, Site(r))}
           g == [r \in S |-> Link(c, r)]
           b == [e \in {g[r] : r \in S} |-> Cardinality({r \in S : g[r] = e})]
<1>1. ResolveImpacted(c, how, impact, refs) = b
  <2>1. {Link(c, r) : r \in S} = {g[r] : r \in S} OBVIOUS
  <2>2. \A e : {r \in S : Link(c, r) = e} = {r \in S : g[r] = e} OBVIOUS
  <2>3. ResolveImpacted(c, how, impact, refs)
          = [e \in {Link(c, r) : r \in S} |-> Cardinality({r \in S : Link(c, r) = e})]
    BY DEF ResolveImpacted, BagOf
  <2> HIDE DEF S, g
  <2> QED BY <2>1, <2>2, <2>3
<1>2. S \in SUBSET refs OBVIOUS
<1>3. IsFiniteSet(S)
  <2> HIDE DEF S
  <2> QED BY <1>2, FS_Subset DEF RefsOK
<1>4. DOMAIN g = S /\ DOMAIN b = {g[r] : r \in S} OBVIOUS
<1>5. ASSUME NEW r \in S PROVE EdgeIn(g[r], c.nodes)
  <2>1. g[r] = Link(c, r) /\ RefIn(r, c.nodes) BY DEF RefsOK
  <2>2. g[r].source = r.source /\ TargetOK(c, g[r].target) BY <2>1, LinkFinds
  <2>3. \A n \in Defs(c.nodes) : n.id \in Ids(c.nodes) /\ ~ IsProject(n.id)
    BY DEF Defs, Linkable, Ids, ContextOK, NodeOK
  <2> HIDE DEF g, S
  <2> QED BY <2>1, <2>2, <2>3 DEF EdgeIn, RefIn, TargetOK
<1>6. IsABag(b) /\ IsFiniteSet(DOMAIN b)
  <2> HIDE DEF S, g
  <2> QED BY <1>3, <1>4, ImagesAreBag
<1>7. \A e \in DOMAIN b : EdgeIn(e, c.nodes)
  <2> HIDE DEF g, S, b
  <2> QED BY <1>4, <1>5
<1> HIDE DEF b
<1> QED BY <1>1, <1>6, <1>7 DEF EdgesOK

-----------------------------------------------------------------------------
(* One apply *)

\* What is kept of a state through an apply: every edge and reference is of nodes that are there.
StateOK(s) ==
    /\ NodesOK(s.nodes) /\ WorkspaceOK(s.ws)
    /\ EdgesOK(s.edges, s.nodes) /\ RefsOK(s.refs, s.nodes)
    /\ \A i \in s.assigned : i \in Ids(s.nodes) /\ ~ IsProject(i)

\* The nodes an apply keeps, beside those it drops.
LEMMA KeptNodes ==
    ASSUME NEW s, StateOK(s), NEW ch, NEW d
    PROVE  LET x == FrontExtract(s, ch, d)
           IN  /\ NodesOK(x.surviving) /\ \A n \in x.surviving : ~ IsProject(n.id)
               /\ {n \in s.nodes : n.id \notin Ids(x.dropped \cup x.projects)} = x.surviving
               /\ \A i \in Ids(s.nodes) : ~ IsProject(i) /\ i \notin Ids(x.dropped) => i \in Ids(x.surviving)
<1> DEFINE T == Touched(ch)
           dropped == {n \in s.nodes : n.file \in T}
           projects == {n \in s.nodes : n.kind = "project"}
           surviving == s.nodes \ (dropped \cup projects)
           x == FrontExtract(s, ch, d)
<1>1. x.dropped = dropped /\ x.projects = projects /\ x.surviving = surviving BY DEF FrontExtract
<1> HIDE DEF x, T
<1>2. \A n \in s.nodes : NodeOK(n) BY DEF StateOK, NodesOK
<1>3. surviving \in SUBSET s.nodes /\ \A n \in surviving : n.file \notin T /\ n.kind # "project" OBVIOUS
<1>4. IsFiniteSet(surviving)
  <2> HIDE DEF surviving
  <2> QED BY <1>3, FS_Subset DEF StateOK, NodesOK
<1>5. \A n \in surviving : NodeOK(n) /\ ~ IsProject(n.id) /\ n.id.file = n.file BY <1>2, <1>3 DEF NodeOK
<1>6. ASSUME NEW n \in surviving, NEW m \in dropped \cup projects PROVE n.id # m.id
  <2>1. NodeOK(m) BY <1>2
  <2>2. CASE m.kind = "project" BY <1>5, <2>1, <2>2 DEF NodeOK
  <2>3. CASE m.kind # "project"
    <3>1. m.file \in T /\ m.id.file = m.file BY <2>1, <2>3 DEF NodeOK
    <3> QED BY <1>3, <1>5, <3>1
  <2> QED BY <2>2, <2>3
<1>7. {n \in s.nodes : n.id \notin Ids(dropped \cup projects)} = surviving
  <2>1. ASSUME NEW n \in surviving PROVE n.id \notin Ids(dropped \cup projects)
    <3> HIDE DEF surviving, dropped, projects
    <3> QED BY <1>6 DEF Ids
  <2>2. ASSUME NEW n \in s.nodes, n \notin surviving PROVE n.id \in Ids(dropped \cup projects)
    <3>1. n \in dropped \cup projects BY <2>2
    <3> HIDE DEF surviving, dropped, projects
    <3> QED BY <3>1 DEF Ids
  <2> QED BY <1>3, <2>1, <2>2
<1>8. ASSUME NEW i \in Ids(s.nodes), ~ IsProject(i), i \notin Ids(dropped) PROVE i \in Ids(surviving)
  <2>1. PICK n \in s.nodes : i = n.id BY DEF Ids
  <2>2. n \notin dropped
    <3> HIDE DEF dropped
    <3> QED BY <1>8, <2>1 DEF Ids
  <2>3. n \notin projects BY <1>2, <1>8, <2>1 DEF NodeOK
  <2>4. n \in surviving BY <2>1, <2>2, <2>3
  <2> HIDE DEF surviving
  <2> QED BY <2>1, <2>4 DEF Ids
<1>9. NodesOK(surviving) BY <1>4, <1>5 DEF NodesOK
<1> HIDE DEF dropped, projects, surviving
<1> QED BY <1>1, <1>5, <1>7, <1>8, <1>9 DEF x

\* The edges that are carried are between nodes that are kept.
LEMMA CarriedOK ==
    ASSUME NEW s, StateOK(s), NEW ch, NEW d, NEW how, NEW refs, NEW impact
    PROVE  LET x == FrontExtract(s, ch, d)
               c == Carried(s, how, refs, impact, Ids(x.dropped))
           IN  EdgesOK(c, x.surviving) /\ \A e : Copies(c, e) <= Copies(s.edges, e)
<1> DEFINE x == FrontExtract(s, ch, d)
           gone == Ids(x.dropped)
           left == {e \in DOMAIN s.edges :
                      ~ (\/ IsProject(e.source) \/ e.source \in gone
                         \/ (IsNode(e.target) /\ e.target \in gone)
                         \/ (Site(e) \in {Site(r) : r \in refs} /\ Impacted(impact, how, Site(e))))}
           c == Carried(s, how, refs, impact, gone)
           b == s.edges
<1> HIDE DEF x
<1>1. c = [e \in left |-> b[e]] BY DEF Carried, Without
<1>2. left \in SUBSET DOMAIN b OBVIOUS
<1>3. \A e \in left : /\ ~ IsProject(e.source) /\ e.source \notin gone
                      /\ IsNode(e.target) => e.target \notin gone
  OBVIOUS
<1> HIDE DEF left, c
<1>4. IsABag(b) /\ IsFiniteSet(DOMAIN b) /\ \A e \in DOMAIN b : EdgeIn(e, s.nodes) BY DEF StateOK, EdgesOK
<1>5. IsABag(c) /\ IsFiniteSet(DOMAIN c) /\ DOMAIN c = left /\ \A e : Copies(c, e) <= Copies(b, e)
  <2> HIDE DEF b
  <2> QED BY <1>1, <1>2, <1>4, RestOfBag
<1>6. ASSUME NEW i \in Ids(s.nodes), ~ IsProject(i), i \notin gone PROVE i \in Ids(x.surviving)
  BY <1>6, KeptNodes DEF x
<1>7. ASSUME NEW e \in left PROVE EdgeIn(e, x.surviving)
  <2>1. EdgeIn(e, s.nodes) BY <1>2, <1>4
  <2>2. e.source \in Ids(x.surviving) BY <1>3, <1>6, <2>1 DEF EdgeIn
  <2>3. IsNode(e.target) => e.target \in Ids(x.surviving) /\ ~ IsProject(e.target)
    BY <1>3, <1>6, <2>1 DEF EdgeIn
  <2> QED BY <2>2, <2>3 DEF EdgeIn
<1> QED BY <1>5, <1>7 DEF EdgesOK, c, x

\* The references that are reconstructed stand where others do.
LEMMA HealedOK ==
    ASSUME NEW s, StateOK(s), NEW N, NEW refs, RefsOK(refs, N), NEW gone, NEW imports
    PROVE  RefsOK(Healed(s, refs, gone, imports), N)
<1> DEFINE at(t) == {e \in DOMAIN EdgesAt(s.edges, t) : ~ Claimed(s, refs, imports, e)}
           bareOf(e) == BareRef(CHOOSE n \in NameOf(s, e.target) : TRUE, e)
           bare(t) == {bareOf(e) : e \in at(t)}
           D(t) == Deficit(s.edges, refs, t)
           k(t) == IF Cardinality(bare(t)) < D(t) THEN Cardinality(bare(t)) ELSE D(t)
           some(t) == CHOOSE R \in SUBSET bare(t) : Cardinality(R) = k(t)
           V == Diverged(s, refs, gone)
           sites == {Site(r) : r \in refs}
<1>1. Healed(s, refs, gone, imports) = UNION {some(t) : t \in V} BY DEF Healed
<1>2. IsFiniteSet(V) /\ V \subseteq sites
  <2> DEFINE g == [r \in refs |-> Site(r)]
  <2>1. sites = {g[r] : r \in refs} /\ DOMAIN g = refs OBVIOUS
  <2> HIDE DEF g, sites
  <2>2. IsFiniteSet(sites) BY <2>1, ImageIsFinite DEF RefsOK
  <2>3. V \in SUBSET sites BY DEF Diverged, sites
  <2> HIDE DEF V
  <2> QED BY <2>2, <2>3, FS_Subset
<1>3. ASSUME NEW t PROVE LET b == EdgesAt(s.edges, t)
                         IN IsABag(b) /\ IsFiniteSet(DOMAIN b) /\ \A e \in DOMAIN b : Site(e) = t
  <2> DEFINE S == {e \in DOMAIN s.edges : ~ (Site(e) # t)}
             a == s.edges
  <2>1. EdgesAt(s.edges, t) = [e \in S |-> a[e]] BY DEF EdgesAt, Without
  <2>2. S \in SUBSET DOMAIN a /\ \A e \in S : Site(e) = t OBVIOUS
  <2>3. IsABag(a) /\ IsFiniteSet(DOMAIN a) BY DEF StateOK, EdgesOK
  <2> HIDE DEF S, a
  <2> QED BY <2>1, <2>2, <2>3, RestOfBag
<1>4. ASSUME NEW t PROVE IsFiniteSet(at(t)) /\ \A e \in at(t) : Site(e) = t
  <2>1. at(t) \in SUBSET DOMAIN EdgesAt(s.edges, t) OBVIOUS
  <2> HIDE DEF at
  <2> QED BY <1>3, <2>1, FS_Subset
<1>5. ASSUME NEW t PROVE IsFiniteSet(bare(t))
  <2> DEFINE A == at(t)
             g == [e \in A |-> bareOf(e)]
  <2>1. bare(t) = {g[e] : e \in A} /\ DOMAIN g = A OBVIOUS
  <2>2. IsFiniteSet(A) BY <1>4
  <2> HIDE DEF g, A, bare
  <2> QED BY <2>1, <2>2, ImageIsFinite
<1>6. ASSUME NEW t PROVE D(t) \in Nat
  <2>1. Size(EdgesAt(s.edges, t)) \in Nat
    <3> DEFINE b == EdgesAt(s.edges, t)
    <3>1. IsABag(b) /\ IsFiniteSet(DOMAIN b) BY <1>3
    <3> HIDE DEF b
    <3>2. Size(b) \in Nat BY <3>1, SizeIsNumber
    <3> QED BY <3>2 DEF b
  <2>2. Cardinality(RefsAt(refs, t)) \in Nat
    <3>1. RefsAt(refs, t) \in SUBSET refs BY DEF RefsAt
    <3>2. IsFiniteSet(RefsAt(refs, t)) BY <3>1, FS_Subset DEF RefsOK
    <3> QED BY <3>2, FS_CardinalityType
  <2> QED BY <2>1, <2>2 DEF Deficit
<1> HIDE DEF D
<1>7. ASSUME NEW t PROVE some(t) \in SUBSET bare(t)
  <2> DEFINE B == bare(t)
             n == k(t)
  <2>1. IsFiniteSet(B) /\ Cardinality(B) \in Nat BY <1>5, FS_CardinalityType
  <2>2. n \in Nat /\ n <= Cardinality(B)
    <3> HIDE DEF bare
    <3>1. D(t) \in Nat BY <1>6
    <3> QED BY <2>1, <3>1
  <2> HIDE DEF B, n
  <2>3. \E R \in SUBSET B : Cardinality(R) = n BY <2>1, <2>2, SubsetOfSize
  <2>4. (CHOOSE R \in SUBSET B : Cardinality(R) = n) \in SUBSET B BY <2>3
  <2> QED BY <2>4 DEF B, n
<1> HIDE DEF some
<1>8. ASSUME NEW t \in V, NEW r \in bare(t) PROVE RefIn(r, N)
  <2>1. PICK e \in at(t) : r = bareOf(e) OBVIOUS
  <2>2. Site(e) = t BY <1>4, <2>1
  <2>3. PICK q \in refs : Site(q) = t BY <1>2
  <2>4. e.source = q.source BY <2>2, <2>3 DEF Site
  <2>5. RefIn(q, N) BY <2>3 DEF RefsOK
  <2>6. DOMAIN r = RefFields /\ r.source = e.source BY <2>1 DEF BareRef, RefFields
  <2> QED BY <2>4, <2>5, <2>6 DEF RefIn
<1>9. \A t : IsFiniteSet(some(t)) BY <1>5, <1>7, FS_Subset
<1> HIDE DEF bare, V
<1>10. IsFiniteSet(UNION {some(t) : t \in V})
  <2> DEFINE f == [t \in V |-> some(t)]
  <2>1. DOMAIN f = V /\ {some(t) : t \in V} = {f[t] : t \in V} /\ \A t \in V : IsFiniteSet(f[t]) BY <1>9
  <2> HIDE DEF f
  <2>2. IsFiniteSet(UNION {f[t] : t \in V}) BY <1>2, <2>1, UnionIsFinite
  <2> QED BY <2>1, <2>2
<1>11. \A r \in UNION {some(t) : t \in V} : RefIn(r, N) BY <1>7, <1>8
<1> QED BY <1>1, <1>10, <1>11 DEF RefsOK

\* The projects that the manifests of the change leave and declare.
LEMMA MaintainedOK ==
    ASSUME NEW ws, WorkspaceOK(ws), NEW ch, NEW d, ChangeOK(ch, d)
    PROVE  WorkspaceOK(MaintainWorkspace(ws, ch, d))
<1> DEFINE made(f) == [root |-> DirOf(f), name |-> d[f].project.name, entry |-> d[f].project.entry,
                       deps |-> d[f].project.deps]
           M == {f \in ch.index : IsManifest(f)}
           T == {f \in Touched(ch) : IsManifest(f)}
           F == {f \in M : \A g \in M : DirOf(g) = DirOf(f) => Before(g, f)}
           old == {p \in ws : \A f \in T : p.root # DirOf(f)}
           new == {made(f) : f \in F}
<1>1. MaintainWorkspace(ws, ch, d) = old \cup new BY DEF MaintainWorkspace
<1>2. old \in SUBSET ws /\ F \in SUBSET ch.index OBVIOUS
<1>3. IsFiniteSet(old) /\ \A p \in old : p.root \in Seq(STRING)
  <2> HIDE DEF old
  <2> QED BY <1>2, FS_Subset DEF WorkspaceOK
<1>4. IsFiniteSet(new)
  <2> DEFINE g == [f \in F |-> made(f)]
  <2>1. new = {g[f] : f \in F} /\ DOMAIN g = F OBVIOUS
  <2>2. IsFiniteSet(F)
    <3> HIDE DEF F
    <3> QED BY <1>2, FS_Subset DEF ChangeOK
  <2> HIDE DEF g, new, F
  <2> QED BY <2>1, <2>2, ImageIsFinite
<1>5. ASSUME NEW f \in F PROVE DirOf(f) \in Seq(STRING)
  <2>1. f \in Seq(STRING) BY <1>2, PathOrderAssumption DEF ChangeOK, Known, PathOrderAssumption
  <2>2. Len(f) - 2 <= Len(f) /\ Len(f) \in Nat BY <2>1
  <2>3. \A i \in 1 .. Len(f) - 2 : f[i] \in STRING BY <2>1, <2>2
  <2> QED BY <2>1, <2>2, <2>3 DEF DirOf
<1>6. \A p \in new : p.root \in Seq(STRING) BY <1>5
<1> HIDE DEF old, new
<1>7. IsFiniteSet(old \cup new) BY <1>3, <1>4, FS_Union
<1> QED BY <1>1, <1>3, <1>6, <1>7 DEF WorkspaceOK

\* What the references are linked in, and the references.
LEMMA LinkedOK ==
    ASSUME NEW s, StateOK(s), NEW ch, NEW d, ChangeOK(ch, d), NEW tree
    PROVE  LET x == FrontExtract(s, ch, d)
               l == FrontLink(s, x, tree)
           IN  NodesOK(l.nodes) /\ WorkspaceOK(l.ws) /\ RefsOK(l.refs, l.nodes)
<1> DEFINE x == FrontExtract(s, ch, d)
           l == FrontLink(s, x, tree)
           N == x.surviving \cup x.extracted.nodes
           gone == Ids(x.dropped)
           kept == {r \in s.refs : r.source \notin gone}
           new == x.extracted.refs
<1>1. l.nodes = N /\ l.ws = x.ws /\ l.refs = kept \cup new BY DEF FrontLink, RebuildRefs
<1>2. x.ws = MaintainWorkspace(s.ws, ch, d) /\ x.extracted = ExtractChanged(ch, d) BY DEF FrontExtract
<1> HIDE DEF x, l
<1>3. WorkspaceOK(x.ws) BY <1>2, MaintainedOK DEF StateOK
<1>4. NodesOK(x.extracted.nodes) /\ RefsOK(new, x.extracted.nodes) BY <1>2, ExtractedOK
<1>5. /\ NodesOK(x.surviving)
      /\ \A i \in Ids(s.nodes) : ~ IsProject(i) /\ i \notin gone => i \in Ids(x.surviving)
  BY KeptNodes DEF x
<1>6. NodesOK(N) BY <1>4, <1>5, FS_Union DEF NodesOK
<1>7. kept \in SUBSET s.refs OBVIOUS
<1>8. IsFiniteSet(kept)
  <2> HIDE DEF kept
  <2> QED BY <1>7, FS_Subset DEF StateOK, RefsOK
<1>9. \A r \in kept : RefIn(r, x.surviving) BY <1>5 DEF StateOK, RefsOK, RefIn
<1>10. \A r \in kept \cup new : RefIn(r, N)
  <2>1. \A r \in new : RefIn(r, x.extracted.nodes) BY <1>4 DEF RefsOK
  <2> HIDE DEF kept, new
  <2> QED BY <1>9, <2>1, MoreNodes
<1>11. IsFiniteSet(kept \cup new) BY <1>4, <1>8, FS_Union DEF RefsOK
<1> HIDE DEF N, kept, new
<1>12. RefsOK(kept \cup new, N) BY <1>10, <1>11 DEF RefsOK
<1> QED BY <1>1, <1>3, <1>6, <1>12 DEF l, x

\* Edges are judged by the ids of the nodes.
LEMMA SameIds ==
    ASSUME NEW N, NEW M, Ids(N) = Ids(M)
    PROVE  /\ \A a : EdgesOK(a, N) => EdgesOK(a, M)
           /\ \A q : RefsOK(q, N) => RefsOK(q, M)
BY DEF EdgesOK, RefsOK, EdgeIn, RefIn

\* Nothing dangles where the edges are between the nodes.
LEMMA NothingToPrune ==
    ASSUME NEW edges, NEW N, EdgesOK(edges, N)
    PROVE  PruneDangling(edges, Ids(N)) = edges
<1> DEFINE S == {e \in DOMAIN edges : ~ (e.source \notin Ids(N) \/ (IsNode(e.target) /\ e.target \notin Ids(N)))}
<1>1. PruneDangling(edges, Ids(N)) = [e \in S |-> edges[e]] BY DEF PruneDangling, Without
<1>2. S = DOMAIN edges BY DEF EdgesOK, EdgeIn
<1>3. edges = [e \in DOMAIN edges |-> edges[e]] BY DEF EdgesOK, IsABag
<1> HIDE DEF S
<1> QED BY <1>1, <1>2, <1>3

\* A delta that is the patch from the edges of a state to those carried and those emitted.
IsPatch(s, x, l, healed, assigned, carried, emitted, delta) ==
    LET N == l.nodes \cup ProjectNodes(x.ws)
        diff == DiffEdges(s.edges (-) carried, emitted)
    IN  /\ RefsOK(healed, l.nodes)
        /\ EdgesOK(carried, N) /\ EdgesOK(emitted, N)
        /\ \A e : Copies(carried, e) <= Copies(s.edges, e)
        /\ \A i \in assigned : i \in Ids(N) /\ ~ IsProject(i)
        /\ delta.nodesAdded = x.extracted.nodes \cup ProjectNodes(x.ws)
        /\ delta.nodesRemoved = Ids(x.dropped \cup x.projects)
        /\ delta.edgesAdded = diff.added /\ delta.edgesRemoved = diff.removed
        /\ delta.refsDropped = Ids(x.dropped) /\ delta.refsAdded = x.extracted.refs \cup healed
        /\ delta.ws = x.ws /\ delta.assigned = assigned

\* Merged by the store, a patch gives the nodes, the edges and the references it is the patch for.
LEMMA MergeGives ==
    ASSUME NEW s, StateOK(s), NEW ch, NEW d, ChangeOK(ch, d), NEW tree,
           NEW x, x = FrontExtract(s, ch, d), NEW l, l = FrontLink(s, x, tree),
           NEW healed, NEW assigned, NEW carried, NEW emitted, NEW delta,
           IsPatch(s, x, l, healed, assigned, carried, emitted, delta)
    PROVE  /\ StateOK(Merge(s, delta))
           /\ Merge(s, delta).edges = carried (+) emitted
           /\ Merge(s, delta).refs = l.refs \cup healed
<1> DEFINE P == ProjectNodes(x.ws)
           N == l.nodes \cup P
           diff == DiffEdges(s.edges (-) carried, emitted)
           new == x.extracted.nodes \cup P
           kept == {n \in s.nodes : n.id \notin delta.nodesRemoved}
           added == {n \in new : n.id \notin {m.id : m \in kept}}
           M == kept \cup added
           edges == (s.edges (-) delta.edgesRemoved) (+) delta.edgesAdded
           t == Merge(s, delta)
<1>1. l.nodes = x.surviving \cup x.extracted.nodes /\ l.ws = x.ws
  BY DEF FrontLink
<1>2. l.refs = {r \in s.refs : r.source \notin Ids(x.dropped)} \cup x.extracted.refs
  BY DEF FrontLink, RebuildRefs
<1>3. NodesOK(x.surviving) /\ {n \in s.nodes : n.id \notin Ids(x.dropped \cup x.projects)} = x.surviving
  BY KeptNodes
<1>4. NodesOK(l.nodes) /\ WorkspaceOK(x.ws) /\ RefsOK(l.refs, l.nodes)
  BY <1>1, LinkedOK
<1>5. NodesOK(P) BY <1>4, ProjectNodesOK
<1>6. /\ delta.nodesAdded = new /\ delta.nodesRemoved = Ids(x.dropped \cup x.projects)
      /\ delta.edgesAdded = diff.added /\ delta.edgesRemoved = diff.removed
      /\ delta.refsDropped = Ids(x.dropped) /\ delta.refsAdded = x.extracted.refs \cup healed
      /\ delta.ws = x.ws /\ delta.assigned = assigned
  BY DEF IsPatch
<1>7. /\ RefsOK(healed, l.nodes) /\ EdgesOK(carried, N) /\ EdgesOK(emitted, N)
      /\ \A e : Copies(carried, e) <= Copies(s.edges, e)
      /\ \A i \in assigned : i \in Ids(N) /\ ~ IsProject(i)
  BY DEF IsPatch
<1> HIDE DEF P
<1>8. kept = x.surviving BY <1>3, <1>6
<1>9. N = kept \cup new BY <1>1, <1>8
<1>10. Ids(M) = Ids(kept \cup new)
  <2> HIDE DEF kept, new
  <2> QED BY DEF Ids
<1>11. NodesOK(M)
  <2>1. NodesOK(N) BY <1>4, <1>5, FS_Union DEF NodesOK
  <2>2. M \in SUBSET N BY <1>9
  <2> HIDE DEF M, N
  <2> QED BY <2>1, <2>2, FS_Subset DEF NodesOK
<1>12. /\ t.nodes = M /\ t.edges = PruneDangling(edges, Ids(kept \cup new))
       /\ t.refs = {r \in s.refs : r.source \notin delta.refsDropped} \cup delta.refsAdded
       /\ t.ws = x.ws /\ t.assigned = assigned
  BY <1>6 DEF Merge, MergeReverse, Ids
<1> HIDE DEF t, M, N, diff, kept, new
<1>13. edges = carried (+) emitted
  <2> DEFINE b == s.edges
  <2>1. IsABag(b) /\ IsABag(carried) /\ IsABag(emitted) BY <1>7 DEF StateOK, EdgesOK
  <2>2. \A e : Copies(carried, e) <= Copies(b, e) BY <1>7
  <2>3. edges = (b (-) ((b (-) carried) (-) emitted)) (+) (emitted (-) (b (-) carried))
    BY <1>6 DEF DiffEdges, diff
  <2> HIDE DEF b, edges
  <2> QED BY <2>1, <2>2, <2>3, PatchGives
<1> HIDE DEF edges
<1>14. EdgesOK(edges, N) BY <1>7, <1>13, EdgesTogether
<1>15. Ids(M) = Ids(N) BY <1>9, <1>10
<1>16. t.edges = edges BY <1>9, <1>12, <1>14, NothingToPrune
<1>17. t.refs = l.refs \cup healed BY <1>2, <1>6, <1>12
<1>18. RefsOK(t.refs, N)
  <2>1. RefsOK(l.refs \cup healed, l.nodes) BY <1>4, <1>7, FS_Union DEF RefsOK
  <2>2. l.nodes \subseteq N BY DEF N
  <2>3. \A r : RefIn(r, l.nodes) => RefIn(r, N) BY <2>2, MoreNodes
  <2> QED BY <1>17, <2>1, <2>3 DEF RefsOK
<1>19. EdgesOK(t.edges, t.nodes) /\ RefsOK(t.refs, t.nodes)
  BY <1>12, <1>14, <1>15, <1>16, <1>18, SameIds
<1>20. StateOK(t) BY <1>4, <1>7, <1>11, <1>12, <1>15, <1>19 DEF StateOK
<1> QED BY <1>13, <1>16, <1>17, <1>20 DEF t

\* An apply, merged: the state it leaves, and that its patch gives what was computed.
LEMMA ApplyOK ==
    ASSUME NEW s, StateOK(s), NEW how, NEW told, NEW d, NEW timing,
           ChangeOK(FoldVanished(told, {f \in DOMAIN d : d[f] # Absent}), d)
    PROVE  LET result == EngineApply(s, how, told, d, timing)
           IN  /\ StateOK(Merge(s, result.delta))
               /\ Merge(s, result.delta).edges = result.edges
               /\ Merge(s, result.delta).refs = result.refs
<1> DEFINE tree == {f \in DOMAIN d : d[f] # Absent}
           ch == FoldVanished(told, tree)
           x == FrontExtract(s, ch, d)
           l == FrontLink(s, x, tree)
           scoped == ImportScope(l, l.refs)
           h == FrontHeal(s, x, l, scoped)
           refs == h.refs \cup h.healed
           impact == Impact(s, Touched(x.changes), x.dropped \cup x.extracted.nodes, refs, h.exports, h.ws)
           carried == Carried(s, how, refs, impact, Ids(x.dropped))
           linked == ResolveImpacted(h, how, impact, refs)
           emitted == x.extracted.structural (+) linked (+) ProjectEdges(h.ws, h.nodes)
           edges == Relinked(s, how, x, h, refs, impact)
           diff == DiffEdges(s.edges (-) carried, emitted)
           N == l.nodes \cup ProjectNodes(x.ws)
           assigned == IF timing = "inline" THEN Ids(h.nodes)
                       ELSE CarryPartition(s.assigned, Ids(x.dropped), Ids(x.extracted.nodes))
           manifest == MaintainManifest(s.manifest, x.changes)
           delta == [nodesAdded |-> x.extracted.nodes \cup ProjectNodes(x.ws),
                     nodesRemoved |-> Ids(x.dropped \cup x.projects),
                     edgesAdded |-> diff.added, edgesRemoved |-> diff.removed,
                     refsDropped |-> Ids(x.dropped), refsAdded |-> x.extracted.refs \cup h.healed,
                     exports |-> h.exports, manifest |-> manifest, ws |-> x.ws, assigned |-> assigned]
           result == EngineApply(s, how, told, d, timing)
<1>1. ChangeOK(ch, d) OBVIOUS
<1> HIDE DEF ch, tree
<1>2. result = Delta(s, x, h, edges, DiffEdges(s.edges (-) edges.carried, edges.emitted), timing)
  BY DEF EngineApply, Extracted, Linked, BackHalf, LinkStage, Emit, tree, ch
<1>3. edges.carried = carried /\ edges.emitted = emitted BY DEF Relinked
<1>4. result.delta = delta /\ result.edges = carried (+) emitted /\ result.refs = h.refs \cup h.healed
  <2> HIDE DEF edges, carried, emitted, x, h, result
  <2> QED BY <1>2, <1>3 DEF Delta, ProjectNodes
<1> HIDE DEF result, edges
<1>5. x.extracted = ExtractChanged(ch, d) BY DEF FrontExtract
<1>6. /\ h.nodes = l.nodes /\ h.ws = l.ws /\ h.refs = l.refs /\ h.exports = l.exports /\ h.scope = scoped
      /\ h.healed = Healed(s, l.refs, Ids(x.dropped), scoped)
  BY DEF FrontHeal
<1>7. l.nodes = x.surviving \cup x.extracted.nodes /\ l.ws = x.ws BY DEF FrontLink
<1>8. NodesOK(l.nodes) /\ WorkspaceOK(l.ws) /\ RefsOK(l.refs, l.nodes) BY <1>1, LinkedOK
<1>9. EdgesOK(carried, x.surviving) /\ \A e : Copies(carried, e) <= Copies(s.edges, e)
  <2> HIDE DEF refs, impact
  <2> QED BY CarriedOK
<1>10. EdgesOK(x.extracted.structural, x.extracted.nodes) /\ \A n \in x.extracted.nodes : n.kind # "project"
  BY <1>1, <1>5, ExtractedOK
<1>11. \A i \in Ids(s.nodes) : ~ IsProject(i) /\ i \notin Ids(x.dropped) => i \in Ids(x.surviving)
  BY KeptNodes
<1>12. \A n \in x.surviving : ~ IsProject(n.id) BY KeptNodes
<1>22. x = FrontExtract(s, ch, d) /\ l = FrontLink(s, x, tree) OBVIOUS
<1> HIDE DEF x
<1>13. \A n \in l.nodes : ~ IsProject(n.id) BY <1>7, <1>8, <1>10, <1>12 DEF NodesOK, NodeOK
<1>14. ContextOK(h)
  <2>1. \A k \in DOMAIN scoped : scoped[k] \in Defs(l.nodes)
    <3> DEFINE g == l
    <3>1. \A n \in g.nodes : NodeOK(n) BY <1>8 DEF NodesOK
    <3> HIDE DEF l
    <3> QED BY <3>1, ImportsAreDefs
  <2> HIDE DEF l, h, scoped
  <2> QED BY <1>6, <1>8, <2>1 DEF ContextOK, NodesOK
<1> HIDE DEF l, h, scoped
<1>15. RefsOK(h.healed, l.nodes) BY <1>6, <1>8, HealedOK
<1>16. RefsOK(refs, l.nodes) BY <1>6, <1>8, <1>15, FS_Union DEF RefsOK
<1> HIDE DEF refs, impact
<1>17. EdgesOK(linked, l.nodes) BY <1>6, <1>14, <1>16, ResolvedOK
<1>18. EdgesOK(ProjectEdges(h.ws, h.nodes), N) BY <1>6, <1>7, <1>8, ProjectEdgesOK
<1>19. EdgesOK(carried, N) /\ EdgesOK(emitted, N)
  <2>1. x.surviving \subseteq N /\ x.extracted.nodes \subseteq N /\ l.nodes \subseteq N BY <1>7
  <2> HIDE DEF N, carried, linked
  <2>2. EdgesOK(carried, N) /\ EdgesOK(x.extracted.structural, N) /\ EdgesOK(linked, N)
    BY <1>9, <1>10, <1>17, <2>1, MoreNodesForEdges
  <2>3. EdgesOK(x.extracted.structural (+) linked, N) BY <2>2, EdgesTogether
  <2>4. EdgesOK(emitted, N) BY <1>18, <2>3, EdgesTogether
  <2> QED BY <2>2, <2>4
<1>20. \A i \in assigned : i \in Ids(N) /\ ~ IsProject(i)
  <2>1. Ids(x.surviving) \subseteq Ids(N) /\ Ids(x.extracted.nodes) \subseteq Ids(N) /\ Ids(l.nodes) \subseteq Ids(N)
    BY <1>7 DEF Ids
  <2>2. \A i \in Ids(l.nodes) : ~ IsProject(i) BY <1>13 DEF Ids
  <2> HIDE DEF N
  <2>3. CASE timing = "inline" BY <1>6, <2>1, <2>2, <2>3
  <2>4. CASE timing # "inline"
    <3>1. assigned = s.assigned \ (Ids(x.dropped) \ Ids(x.extracted.nodes)) BY <2>4 DEF CarryPartition
    <3>2. \A i \in s.assigned : i \in Ids(s.nodes) /\ ~ IsProject(i) BY DEF StateOK
    <3> HIDE DEF assigned
    <3> QED BY <1>11, <2>1, <3>1, <3>2
  <2> QED BY <2>3, <2>4
<1> HIDE DEF assigned, manifest, carried, emitted
<1>21. /\ StateOK(Merge(s, delta)) /\ Merge(s, delta).edges = carried (+) emitted
       /\ Merge(s, delta).refs = l.refs \cup h.healed
  <2> DEFINE healed == h.healed
  <2>1. RefsOK(healed, l.nodes) BY <1>15
  <2>2. IsPatch(s, x, l, healed, assigned, carried, emitted, delta)
    <3> HIDE DEF healed
    <3>1. /\ delta.nodesAdded = x.extracted.nodes \cup ProjectNodes(x.ws)
          /\ delta.nodesRemoved = Ids(x.dropped \cup x.projects)
          /\ delta.edgesAdded = diff.added /\ delta.edgesRemoved = diff.removed
          /\ delta.refsDropped = Ids(x.dropped) /\ delta.refsAdded = x.extracted.refs \cup healed
          /\ delta.ws = x.ws /\ delta.assigned = assigned
      BY DEF healed
    <3> HIDE DEF delta
    <3> QED BY <1>9, <1>19, <1>20, <2>1, <3>1 DEF IsPatch
  <2> HIDE DEF healed, delta
  <2>3. /\ StateOK(Merge(s, delta)) /\ Merge(s, delta).edges = carried (+) emitted
        /\ Merge(s, delta).refs = l.refs \cup healed
    BY <1>1, <1>22, <2>2, MergeGives
  <2> QED BY <2>3 DEF healed
<1> HIDE DEF delta
<1> QED BY <1>4, <1>6, <1>21 DEF result

-----------------------------------------------------------------------------
(* The invariant of the specification *)

\* The tree is one of the scenario, and the state is in order and what the engine holds it to be.
InOrder ==
    /\ menu \in Menus /\ DOMAIN disk = DOMAIN menu /\ \A f \in DOMAIN menu : disk[f] \in menu[f]
    /\ pending \subseteq DOMAIN menu
    /\ StateOK(st)
    /\ PatchIsExact

\* A change set of files of the scenario is true of the tree once what has vanished is folded.
LEMMA FoldedOK ==
    ASSUME NEW m \in Menus, NEW d, DOMAIN d = DOMAIN m, \A f \in DOMAIN m : d[f] \in m[f],
           NEW told, told.index \subseteq DOMAIN m
    PROVE  ChangeOK(FoldVanished(told, {f \in DOMAIN d : d[f] # Absent}), d)
<1> DEFINE tree == {f \in DOMAIN d : d[f] # Absent}
           I == told.index \cap tree
           ch == FoldVanished(told, tree)
<1>1. ch.index = I BY DEF FoldVanished
<1>2. I \in SUBSET DOMAIN m OBVIOUS
<1> HIDE DEF I
<1>3. IsFiniteSet(I) BY <1>2, MenuAssumption, FS_Subset DEF MenuAssumption
<1>4. NoPath \notin I /\ I \subseteq Known BY <1>2, MenuAssumption DEF MenuAssumption, Known
<1>5. \A f \in I : IsContent(d[f]) BY <1>2, MenuAssumption DEF MenuAssumption
<1> HIDE DEF ch
<1>6. ChangeOK(ch, d) BY <1>1, <1>3, <1>4, <1>5 DEF ChangeOK
<1> QED BY <1>6 DEF ch

\* The state before anything was indexed.
LEMMA EmptyIsOK == StateOK(EmptyState)
<1>1. IsFiniteSet({}) BY FS_EmptySet
<1>2. IsABag(EmptyBag) /\ DOMAIN EmptyBag = {} BY SetIsBag DEF EmptyBag
<1> QED BY <1>1, <1>2 DEF StateOK, EmptyState, NodesOK, WorkspaceOK, EdgesOK, RefsOK

\* The first state is a cold build.
LEMMA InitInOrder == Init => InOrder
<1> SUFFICES ASSUME Init PROVE InOrder OBVIOUS
<1> DEFINE told == [index |-> {f \in DOMAIN disk : disk[f] # Absent}, removed |-> {}]
           d == disk
<1>1. menu \in Menus /\ DOMAIN disk = DOMAIN menu /\ (\A f \in DOMAIN menu : disk[f] \in menu[f]) /\ pending = {}
  BY DEF Init
<1>2. st = Merge(EmptyState, EngineApply(EmptyState, "global", told, d, "inline").delta)
  BY DEF Init, ColdBuild
<1>3. told.index \subseteq DOMAIN menu BY <1>1
<1> HIDE DEF told
<1>4. ChangeOK(FoldVanished(told, {f \in DOMAIN d : d[f] # Absent}), d)
  <2>1. DOMAIN d = DOMAIN menu /\ \A f \in DOMAIN menu : d[f] \in menu[f] BY <1>1
  <2> HIDE DEF d
  <2> QED BY <1>1, <1>3, <2>1, FoldedOK
<1>5. StateOK(st)
  <2> HIDE DEF d
  <2> QED BY <1>2, <1>4, EmptyIsOK, ApplyOK
<1>6. PatchIsExact BY DEF Init, PatchIsExact
<1> QED BY <1>1, <1>5, <1>6 DEF InOrder

\* And every step keeps the state in order.
LEMMA StepInOrder == InOrder /\ [Next]_vars => InOrder'
<1> SUFFICES ASSUME InOrder, [Next]_vars PROVE InOrder' OBVIOUS
<1> USE DEF InOrder
<1>1. ASSUME NEW f \in Files, Edit(f) PROVE InOrder'
  <2>1. PICK content \in menu[f] \ {disk[f]} : disk' = [disk EXCEPT ![f] = content] BY <1>1 DEF Edit
  <2>2. UNCHANGED <<menu, st, engine>> /\ pending' = pending \cup {f} BY <1>1 DEF Edit
  <2>3. DOMAIN disk' = DOMAIN menu BY <2>1
  <2>4. \A g \in DOMAIN menu : disk'[g] \in menu[g] BY <2>1
  <2>5. f \in DOMAIN menu BY DEF Files
  <2>6. PatchIsExact' BY <2>2 DEF PatchIsExact
  <2> QED BY <2>2, <2>3, <2>4, <2>5, <2>6
<1>2. ASSUME NEW told \in SUBSET pending \ {{}}, Apply(told) PROVE InOrder'
  <2>1. PICK removed \in SUBSET (told \ Tree), timing \in {"inline", "deferred"} :
          /\ st' = Merge(st, EngineApply(st, scope, [index |-> told \ removed, removed |-> removed], disk,
                                         timing).delta)
          /\ engine' = [edges |-> EngineApply(st, scope, [index |-> told \ removed, removed |-> removed], disk,
                                              timing).edges,
                        refs  |-> EngineApply(st, scope, [index |-> told \ removed, removed |-> removed], disk,
                                              timing).refs]
    BY <1>2 DEF Apply
  <2> DEFINE ch == [index |-> told \ removed, removed |-> removed]
             result == EngineApply(st, scope, ch, disk, timing)
             s == st
             d == disk
             how == scope
  <2>2. st' = Merge(s, result.delta) /\ engine'.edges = result.edges /\ engine'.refs = result.refs BY <2>1
  <2>3. UNCHANGED <<menu, disk>> /\ pending' = pending \ told BY <1>2 DEF Apply
  <2>4. ch.index \subseteq DOMAIN menu OBVIOUS
  <2> HIDE DEF ch
  <2>5. ChangeOK(FoldVanished(ch, {f \in DOMAIN d : d[f] # Absent}), d)
    <3>1. DOMAIN d = DOMAIN menu /\ \A f \in DOMAIN menu : d[f] \in menu[f] OBVIOUS
    <3> HIDE DEF d
    <3> QED BY <2>4, <3>1, FoldedOK
  <2>6. StateOK(s) OBVIOUS
  <2>7. result = EngineApply(s, how, ch, d, timing) OBVIOUS
  <2> HIDE DEF s, d, how, result
  <2>8. /\ StateOK(Merge(s, result.delta)) /\ Merge(s, result.delta).edges = result.edges
        /\ Merge(s, result.delta).refs = result.refs
    BY <2>5, <2>6, <2>7, ApplyOK
  <2>9. StateOK(st') /\ PatchIsExact' BY <2>2, <2>8 DEF PatchIsExact
  <2> QED BY <2>3, <2>9
<1>3. ASSUME Recluster PROVE InOrder'
  <2> DEFINE A == {n.id : n \in {m \in st.nodes : m.kind # "project"}}
  <2>1. st' = [st EXCEPT !.assigned = A] /\ UNCHANGED <<menu, disk, pending, engine>> BY <1>3 DEF Recluster
  <2>2. \A i \in A : i \in Ids(st.nodes) /\ ~ IsProject(i) BY DEF StateOK, NodesOK, NodeOK, Ids
  <2> HIDE DEF A
  <2>3. /\ st'.nodes = st.nodes /\ st'.ws = st.ws /\ st'.edges = st.edges /\ st'.refs = st.refs
        /\ \A i \in st'.assigned : i \in A
    BY <2>1
  <2>4. StateOK(st') BY <2>2, <2>3 DEF StateOK
  <2>5. PatchIsExact' BY <2>1, <2>3 DEF PatchIsExact
  <2> QED BY <2>1, <2>4, <2>5
<1>4. ASSUME Tear PROVE InOrder'
  <2>1. PICK r \in st.refs : /\ st' = [st EXCEPT !.refs = @ \ {r}]
                             /\ engine' = [engine EXCEPT !.refs = @ \ {r}]
    BY <1>4 DEF Tear
  <2>2. UNCHANGED <<menu, disk, pending>> BY <1>4 DEF Tear
  <2>3. /\ st'.nodes = st.nodes /\ st'.ws = st.ws /\ st'.edges = st.edges /\ st'.refs = st.refs \ {r}
        /\ st'.assigned = st.assigned
    BY <2>1
  <2>4. RefsOK(st.refs \ {r}, st.nodes) BY FS_Subset DEF StateOK, RefsOK
  <2>5. StateOK(st') BY <2>3, <2>4 DEF StateOK
  <2>6. engine'.edges = engine.edges /\ engine'.refs = engine.refs \ {r} BY <2>1
  <2>7. PatchIsExact' BY <2>3, <2>6 DEF PatchIsExact
  <2> QED BY <2>2, <2>5, <2>7
<1>5. ASSUME UNCHANGED vars PROVE InOrder' BY <1>5 DEF vars, PatchIsExact
<1> QED BY <1>1, <1>2, <1>3, <1>4, <1>5 DEF Next

\* So the state is always in order.
LEMMA AlwaysInOrder == Spec => []InOrder
BY InitInOrder, StepInOrder, PTL DEF Spec

\* In every scenario and after every apply, in either scope, the patch that was shipped gives, merged
\* and pruned by the store, exactly the edges and the references the engine computed.
THEOREM PatchesAreExact == Spec => []PatchIsExact
<1>1. InOrder => PatchIsExact BY DEF InOrder
<1> QED BY <1>1, AlwaysInOrder, PTL

\* Only nodes of the graph have a community, however clustering is put off.
THEOREM CommunitiesStayOfNodes == Spec => []CommunitiesAreOfNodes
<1>1. InOrder => CommunitiesAreOfNodes BY DEF InOrder, StateOK, CommunitiesAreOfNodes, Ids
<1> QED BY <1>1, AlwaysInOrder, PTL

-----------------------------------------------------------------------------
(* The state of a tree *)

\* Contents of files: those the scenarios give, of directories with one manifest.
ContentsOK(d) ==
    /\ d = [f \in DOMAIN d |-> d[f]]
    /\ IsFiniteSet(DOMAIN d) /\ NoPath \notin DOMAIN d /\ DOMAIN d \subseteq Known
    /\ \A f \in DOMAIN d : d[f] # Absent => IsContent(d[f])
    /\ \A f, g \in DOMAIN d : IsManifest(f) /\ IsManifest(g) /\ DirOf(f) = DirOf(g) => f = g

TreeOf(d) == {f \in DOMAIN d : d[f] # Absent}

\* The files nodes are made of, and those that declare projects.
Coded(d) == {f \in TreeOf(d) : ~ IsManifest(f)}
Manifests(d) == {f \in TreeOf(d) : IsManifest(f)}

FileNodes(f, d) == MadeOf(f, d) \cup {FileNode(f)}
FileRefs(f, d) == {RefOf(f, r) : r \in d[f].refs}
FileEdges(f, d) == {Edge(FileId(f), "contains", n.id) : n \in MadeOf(f, d)}
ProjectOf(f, d) == [root |-> DirOf(f), name |-> d[f].project.name, entry |-> d[f].project.entry,
                    deps |-> d[f].project.deps]

NodesFrom(F, d) == UNION {FileNodes(f, d) : f \in F}
RefsFrom(F, d) == UNION {FileRefs(f, d) : f \in F}
ExportsFrom(F, d) == [f \in {g \in F : d[g].exports # <<>>} |-> d[f].exports]
EdgesFrom(F, d) == UNION {FileEdges(f, d) : f \in F}

\* What a cold build makes of the contents d.
TreeNodes(d) == NodesFrom(Coded(d), d)
TreeRefs(d) == RefsFrom(Coded(d), d)
TreeEdges(d) == EdgesFrom(Coded(d), d)
TreeExports(d) == ExportsFrom(Coded(d), d)
TreeProjects(d) == {ProjectOf(f, d) : f \in Manifests(d)}

\* What its references are linked in, import specifiers being looked up in the tree T.
Unlinked(d, T) == [nodes |-> TreeNodes(d), ws |-> TreeProjects(d), tree |-> T, exports |-> TreeExports(d),
                   refs |-> TreeRefs(d)]
Linker(d, T) == [nodes |-> TreeNodes(d), ws |-> TreeProjects(d), tree |-> T, exports |-> TreeExports(d),
                 refs |-> TreeRefs(d), scope |-> ImportScope(Unlinked(d, T), TreeRefs(d)), healed |-> {}]

\* The edges made of references.
LinkedBag(c, refs) == BagOf(refs, LAMBDA r : Link(c, r))

AllEdges(d, T) ==
    SetToBag(TreeEdges(d)) (+) LinkedBag(Linker(d, T), TreeRefs(d)) (+) ProjectEdges(TreeProjects(d), TreeNodes(d))

IsStateOf(s, d, T) ==
    s = [nodes |-> TreeNodes(d) \cup ProjectNodes(TreeProjects(d)), edges |-> AllEdges(d, T),
         refs |-> TreeRefs(d), exports |-> TreeExports(d), manifest |-> TreeOf(d), ws |-> TreeProjects(d),
         assigned |-> s.assigned]

\* The contents once the files of W are read anew from e.
Reread(d, e, W) == [f \in DOMAIN d |-> IF f \in W THEN e[f] ELSE d[f]]

\* A change that names the files of W, true of the tree.
ChangeOf(e, W) == [index |-> W \cap TreeOf(e), removed |-> W \ TreeOf(e)]

\* The contents at hand, before and after.
Rereading(d, e, W) == ContentsOK(d) /\ ContentsOK(e) /\ DOMAIN e = DOMAIN d /\ W \subseteq DOMAIN d

\* The members of such sets.
LEMMA FromFiles ==
    ASSUME NEW F, NEW d
    PROVE  /\ \A y : y \in NodesFrom(F, d) <=> \E f \in F : y \in FileNodes(f, d)
           /\ \A y : y \in RefsFrom(F, d) <=> \E f \in F : y \in FileRefs(f, d)
           /\ \A y : y \in EdgesFrom(F, d) <=> \E f \in F : y \in FileEdges(f, d)
BY Zenon DEF NodesFrom, RefsFrom, EdgesFrom

\* The change is one that extraction can read.
LEMMA RereadOK ==
    ASSUME NEW d, NEW e, NEW W, Rereading(d, e, W)
    PROVE  /\ ChangeOK(ChangeOf(e, W), e) /\ Touched(ChangeOf(e, W)) = W
           /\ ContentsOK(Reread(d, e, W)) /\ DOMAIN Reread(d, e, W) = DOMAIN d
<1> DEFINE I == W \cap TreeOf(e)
           ch == ChangeOf(e, W)
<1>1. ch.index = I /\ Touched(ch) = W BY DEF ChangeOf, Touched
<1>2. I \in SUBSET DOMAIN e /\ I \in SUBSET TreeOf(e) BY DEF Rereading
<1>3. IsFiniteSet(I)
  <2> HIDE DEF I
  <2> QED BY <1>2, FS_Subset DEF Rereading, ContentsOK
<1> HIDE DEF ch, I
<1>4. ChangeOK(ch, e) BY <1>1, <1>2, <1>3 DEF ChangeOK, Rereading, ContentsOK, TreeOf
<1>5. ContentsOK(Reread(d, e, W)) /\ DOMAIN Reread(d, e, W) = DOMAIN d
  BY DEF ContentsOK, Reread, Rereading
<1> QED BY <1>1, <1>4, <1>5 DEF ch

\* Which files there are afterwards, and what they hold.
LEMMA RereadFiles ==
    ASSUME NEW d, NEW e, NEW W, Rereading(d, e, W)
    PROVE  LET n == Reread(d, e, W)
           IN  /\ Coded(n) = (Coded(d) \ W) \cup (Coded(e) \cap W)
               /\ Manifests(n) = (Manifests(d) \ W) \cup (Manifests(e) \cap W)
               /\ TreeOf(n) = (TreeOf(d) \ W) \cup (TreeOf(e) \cap W)
               /\ \A f \in Coded(d) \ W : /\ FileNodes(f, n) = FileNodes(f, d) /\ FileRefs(f, n) = FileRefs(f, d)
                                            /\ FileEdges(f, n) = FileEdges(f, d)
               /\ \A f \in Coded(e) \cap W : /\ FileNodes(f, n) = FileNodes(f, e) /\ FileRefs(f, n) = FileRefs(f, e)
                                               /\ FileEdges(f, n) = FileEdges(f, e)
               /\ \A f \in Manifests(d) \ W : ProjectOf(f, n) = ProjectOf(f, d)
               /\ \A f \in Manifests(e) \cap W : ProjectOf(f, n) = ProjectOf(f, e)
<1> DEFINE n == Reread(d, e, W)
<1>1. DOMAIN n = DOMAIN d /\ DOMAIN e = DOMAIN d /\ W \subseteq DOMAIN d BY DEF Reread, Rereading
<1>2. \A f \in DOMAIN d : n[f] = IF f \in W THEN e[f] ELSE d[f] BY DEF Reread
<1> HIDE DEF n
<1>3. TreeOf(n) = (TreeOf(d) \ W) \cup (TreeOf(e) \cap W) BY <1>1, <1>2 DEF TreeOf
<1>4. /\ Coded(n) = (Coded(d) \ W) \cup (Coded(e) \cap W)
      /\ Manifests(n) = (Manifests(d) \ W) \cup (Manifests(e) \cap W)
  BY <1>3 DEF Coded, Manifests
<1>5. \A f, g : n[f] = g[f] => /\ FileNodes(f, n) = FileNodes(f, g) /\ FileRefs(f, n) = FileRefs(f, g)
                               /\ FileEdges(f, n) = FileEdges(f, g) /\ ProjectOf(f, n) = ProjectOf(f, g)
  BY DEF FileNodes, FileRefs, FileEdges, ProjectOf, MadeOf
<1>6. \A f \in TreeOf(d) \ W : n[f] = d[f] BY <1>2 DEF TreeOf
<1>7. \A f \in TreeOf(e) \cap W : n[f] = e[f] BY <1>1, <1>2 DEF TreeOf
<1>8. /\ Coded(d) \subseteq TreeOf(d) /\ Manifests(d) \subseteq TreeOf(d)
      /\ Coded(e) \subseteq TreeOf(e) /\ Manifests(e) \subseteq TreeOf(e)
  BY DEF Coded, Manifests
<1> QED BY <1>3, <1>4, <1>5, <1>6, <1>7, <1>8 DEF n

\* What stands in a file.
LEMMA InFile ==
    ASSUME NEW d, ContentsOK(d), NEW f \in Coded(d)
    PROVE  /\ NodesOK(FileNodes(f, d)) /\ RefsOK(FileRefs(f, d), FileNodes(f, d))
           /\ \A n \in FileNodes(f, d) : n.kind # "project" /\ n.file = f /\ n.id.file = f /\ ~ IsProject(n.id)
           /\ FileId(f) \in Ids(FileNodes(f, d)) /\ f \in Known \ {NoPath}
           /\ \A r \in FileRefs(f, d) : /\ r.source.file = f /\ r.rel \notin {"contains", "depends_on"}
                                        /\ r.name \in Seq(STRING) \ {<<>>}
<1> DEFINE ch == [index |-> {f}, removed |-> {}]
<1>1. f \in DOMAIN d /\ d[f] # Absent BY DEF Coded, TreeOf
<1>2. ch.index = {f} /\ f \in Known \ {NoPath} /\ IsContent(d[f]) BY <1>1 DEF ContentsOK
<1> HIDE DEF ch
<1>9. IsFiniteSet({f}) BY FS_Singleton
<1>3. ChangeOK(ch, d) BY <1>2, <1>9 DEF ChangeOK
<1>4. f \in ch.index BY <1>2
<1>5. /\ NodesOK(FileNodes(f, d)) /\ \A n \in FileNodes(f, d) : n.kind # "project" /\ n.file = f
      /\ FileId(f) \in Ids(FileNodes(f, d))
  BY <1>3, <1>4, MadeNodes DEF FileNodes
<1>6. RefsOK(FileRefs(f, d), FileNodes(f, d)) BY <1>3, <1>4, MadeRefs DEF FileNodes, FileRefs
<1>7. ASSUME NEW r \in d[f].refs
      PROVE  /\ RefOf(f, r).source.file = f /\ RefOf(f, r).rel \notin {"contains", "depends_on"}
             /\ RefOf(f, r).name \in Seq(STRING) \ {<<>>}
  <2>1. DOMAIN r = RefFields /\ r.name \in Seq(STRING) \ {<<>>} /\ r.rel \notin {"contains", "depends_on"}
    BY <1>2 DEF IsContent
  <2>2. {"source", "rel", "name"} \subseteq RefFields BY DEF RefFields
  <2> QED BY <2>1, <2>2 DEF RefOf
<1>8. \A n \in FileNodes(f, d) : n.id.file = f /\ ~ IsProject(n.id)
  BY <1>5 DEF NodesOK, NodeOK
<1> QED BY <1>2, <1>5, <1>6, <1>7, <1>8 DEF FileRefs

\* The nodes of a tree are none of projects.
LEMMA InTree ==
    ASSUME NEW d, ContentsOK(d)
    PROVE  /\ \A n \in TreeNodes(d) : /\ n.file \in Coded(d) /\ n \in FileNodes(n.file, d)
                                      /\ n.kind # "project" /\ n.id.file = n.file /\ ~ IsProject(n.id)
           /\ \A f \in Coded(d) : FileNodes(f, d) \subseteq TreeNodes(d) /\ FileRefs(f, d) \subseteq TreeRefs(d)
           /\ \A r \in TreeRefs(d) : /\ r.source.file \in Coded(d) /\ r \in FileRefs(r.source.file, d)
                                     /\ r.rel \notin {"contains", "depends_on"} /\ r.name \in Seq(STRING) \ {<<>>}
                                     /\ r.source \in Ids(FileNodes(r.source.file, d))
<1>1. ASSUME NEW f \in Coded(d), NEW n \in FileNodes(f, d)
      PROVE  n.kind # "project" /\ n.file = f /\ n.id.file = f /\ ~ IsProject(n.id)
  BY InFile
<1>2. ASSUME NEW f \in Coded(d), NEW r \in FileRefs(f, d)
      PROVE  /\ r.source.file = f /\ r.rel \notin {"contains", "depends_on"} /\ r.name \in Seq(STRING) \ {<<>>}
             /\ r.source \in Ids(FileNodes(f, d))
  <2>1. RefsOK(FileRefs(f, d), FileNodes(f, d)) BY InFile
  <2>2. r.source \in Ids(FileNodes(f, d)) BY <2>1 DEF RefsOK, RefIn
  <2> QED BY <2>2, InFile
<1>3. \A n \in TreeNodes(d) : \E f \in Coded(d) : n \in FileNodes(f, d) BY FromFiles DEF TreeNodes
<1>4. \A r \in TreeRefs(d) : \E f \in Coded(d) : r \in FileRefs(f, d) BY FromFiles DEF TreeRefs
<1>5. \A f \in Coded(d) : FileNodes(f, d) \subseteq TreeNodes(d) /\ FileRefs(f, d) \subseteq TreeRefs(d)
  BY FromFiles DEF TreeNodes, TreeRefs
<1> QED BY <1>1, <1>2, <1>3, <1>4, <1>5

\* What an apply drops of the state of a tree, and what it keeps.
LEMMA Dropped ==
    ASSUME NEW s, NEW d, NEW T, NEW e, NEW W, Rereading(d, e, W), IsStateOf(s, d, T),
           NEW x, x = FrontExtract(s, ChangeOf(e, W), e)
    PROVE  /\ x.dropped = {n \in TreeNodes(d) : n.file \in W}
           /\ x.surviving = {n \in TreeNodes(d) : n.file \notin W}
           /\ x.projects = ProjectNodes(TreeProjects(d))
           /\ x.changes = ChangeOf(e, W)
           /\ \A n \in TreeNodes(d) : n.id \in Ids(x.dropped) <=> n.file \in W
           /\ \A r \in TreeRefs(d) : r.source \in Ids(x.dropped) <=> r.source.file \in W
<1> DEFINE ch == ChangeOf(e, W)
           P == ProjectNodes(TreeProjects(d))
<1>1. Touched(ch) = W BY RereadOK
<1>2. /\ x.dropped = {n \in s.nodes : n.file \in W} /\ x.projects = {n \in s.nodes : n.kind = "project"}
      /\ x.surviving = s.nodes \ (x.dropped \cup x.projects) /\ x.changes = ch
  BY <1>1 DEF FrontExtract
<1>3. s.nodes = TreeNodes(d) \cup P BY DEF IsStateOf
<1>4. \A n \in P : n.kind = "project" /\ n.file = NoPath BY DEF ProjectNodes, ProjectNode
<1>5. NoPath \notin W BY DEF Rereading, ContentsOK
<1>6. \A n \in TreeNodes(d) : n.kind # "project" /\ n.id.file = n.file BY InTree DEF Rereading
<1> HIDE DEF P, ch
<1>7. x.dropped = {n \in TreeNodes(d) : n.file \in W} BY <1>2, <1>3, <1>4, <1>5
<1>8. x.projects = P BY <1>2, <1>3, <1>4, <1>6
<1>9. x.surviving = {n \in TreeNodes(d) : n.file \notin W} BY <1>2, <1>3, <1>4, <1>6, <1>7, <1>8
<1>10. \A i \in Ids(x.dropped) : i.file \in W BY <1>6, <1>7 DEF Ids
<1>11. \A n \in TreeNodes(d) : n.file \in W => n.id \in Ids(x.dropped) BY <1>7 DEF Ids
<1>12. ASSUME NEW r \in TreeRefs(d), r.source.file \in W PROVE r.source \in Ids(x.dropped)
  <2>1. r.source.file \in Coded(d) /\ r.source \in Ids(FileNodes(r.source.file, d)) BY InTree DEF Rereading
  <2>2. FileNodes(r.source.file, d) \subseteq TreeNodes(d) BY <2>1, InTree DEF Rereading
  <2>3. PICK n \in TreeNodes(d) : r.source = n.id BY <2>1, <2>2 DEF Ids
  <2>4. n.file \in W BY <1>6, <1>12, <2>3
  <2> QED BY <1>11, <2>3, <2>4
<1> QED BY <1>2, <1>6, <1>7, <1>8, <1>9, <1>10, <1>11, <1>12 DEF P, ch

\* What extraction makes of the change.
LEMMA ExtractedIs ==
    ASSUME NEW d, NEW e, NEW W, Rereading(d, e, W),
           NEW x, x = ExtractChanged(ChangeOf(e, W), e), NEW F, F = Coded(e) \cap W
    PROVE  /\ x.nodes = NodesFrom(F, e)
           /\ x.refs = RefsFrom(F, e)
           /\ x.structural = SetToBag(EdgesFrom(F, e))
           /\ x.exports = ExportsFrom(F, e)
<1> DEFINE G == {f \in ChangeOf(e, W).index : ~ IsManifest(f)}
<1>1. G = F BY DEF ChangeOf, Coded
<1>2. /\ x.nodes = NodesFrom(G, e) /\ x.refs = RefsFrom(G, e)
      /\ x.structural = SetToBag(EdgesFrom(G, e))
      /\ x.exports = ExportsFrom(G, e)
  BY DEF ExtractChanged, ExportsFrom, NodesFrom, RefsFrom, EdgesFrom, FileNodes, FileRefs, FileEdges, MadeOf, RefOf
<1> HIDE DEF G
<1> QED BY <1>1, <1>2

\* The nodes and references of the tree as it is now.
LEMMA RereadNodes ==
    ASSUME NEW s, NEW d, NEW T, NEW e, NEW W, Rereading(d, e, W), IsStateOf(s, d, T),
           NEW x, x = FrontExtract(s, ChangeOf(e, W), e)
    PROVE  /\ TreeNodes(Reread(d, e, W)) = x.surviving \cup x.extracted.nodes
           /\ TreeRefs(Reread(d, e, W)) = {r \in s.refs : r.source \notin Ids(x.dropped)} \cup x.extracted.refs
           /\ x.extracted = ExtractChanged(ChangeOf(e, W), e)
<1> DEFINE n == Reread(d, e, W)
           old == Coded(d) \ W
           new == Coded(e) \cap W
<1>1. x.extracted = ExtractChanged(ChangeOf(e, W), e) BY DEF FrontExtract
<1>2. /\ x.extracted.nodes = NodesFrom(new, e)
      /\ x.extracted.refs = RefsFrom(new, e)
  <2> DEFINE y == x.extracted
  <2>1. y = ExtractChanged(ChangeOf(e, W), e) BY <1>1
  <2>2. new = Coded(e) \cap W OBVIOUS
  <2> HIDE DEF y, new
  <2>3. y.nodes = NodesFrom(new, e) /\ y.refs = RefsFrom(new, e)
    BY <2>1, <2>2, ExtractedIs
  <2> QED BY <2>3 DEF y
<1>3. x.surviving = NodesFrom(old, d)
  <2>1. x.surviving = {m \in TreeNodes(d) : m.file \notin W} BY Dropped
  <2>2. ASSUME NEW m PROVE (m \in TreeNodes(d) /\ m.file \notin W) <=> (\E f \in old : m \in FileNodes(f, d))
    <3>1. ASSUME m \in TreeNodes(d), m.file \notin W PROVE \E f \in old : m \in FileNodes(f, d)
      BY <3>1, InTree DEF Rereading
    <3>2. ASSUME NEW f \in old, m \in FileNodes(f, d) PROVE m \in TreeNodes(d) /\ m.file \notin W
      <4>1. m.file = f BY <3>2, InFile DEF Rereading
      <4>2. m \in TreeNodes(d) BY <3>2, FromFiles DEF TreeNodes
      <4> QED BY <4>1, <4>2
    <3> QED BY <3>1, <3>2
  <2>3. \A y : y \in NodesFrom(old, d) <=> \E f \in old : y \in FileNodes(f, d) BY FromFiles
  <2> HIDE DEF old
  <2> QED BY <2>1, <2>2, <2>3
<1>4. {r \in s.refs : r.source \notin Ids(x.dropped)} = RefsFrom(old, d)
  <2>1. s.refs = TreeRefs(d) BY DEF IsStateOf
  <2>2. {r \in s.refs : r.source \notin Ids(x.dropped)} = {r \in TreeRefs(d) : r.source.file \notin W}
    BY <2>1, Dropped
  <2>3. ASSUME NEW r PROVE (r \in TreeRefs(d) /\ r.source.file \notin W) <=> (\E f \in old : r \in FileRefs(f, d))
    <3>1. ASSUME r \in TreeRefs(d), r.source.file \notin W PROVE \E f \in old : r \in FileRefs(f, d)
      BY <3>1, InTree DEF Rereading
    <3>2. ASSUME NEW f \in old, r \in FileRefs(f, d) PROVE r \in TreeRefs(d) /\ r.source.file \notin W
      <4>1. r.source.file = f BY <3>2, InFile DEF Rereading
      <4>2. r \in TreeRefs(d) BY <3>2, FromFiles DEF TreeRefs
      <4> QED BY <4>1, <4>2
    <3> QED BY <3>1, <3>2
  <2>4. \A y : y \in RefsFrom(old, d) <=> \E f \in old : y \in FileRefs(f, d) BY FromFiles
  <2> HIDE DEF old
  <2> QED BY <2>2, <2>3, <2>4
<1>5. /\ Coded(n) = old \cup new
      /\ \A f \in old : FileNodes(f, n) = FileNodes(f, d) /\ FileRefs(f, n) = FileRefs(f, d)
      /\ \A f \in new : FileNodes(f, n) = FileNodes(f, e) /\ FileRefs(f, n) = FileRefs(f, e)
  BY RereadFiles
<1> HIDE DEF n, old, new
<1>6. TreeNodes(n) = NodesFrom(old, d) \cup NodesFrom(new, e)
  <2>1. \A y : y \in TreeNodes(n) <=> \E f \in old \cup new : y \in FileNodes(f, n)
    BY <1>5, FromFiles DEF TreeNodes
  <2>2. \A y : y \in NodesFrom(old, d) <=> \E f \in old : y \in FileNodes(f, n) BY <1>5, FromFiles
  <2>3. \A y : y \in NodesFrom(new, e) <=> \E f \in new : y \in FileNodes(f, n) BY <1>5, FromFiles
  <2> QED BY <2>1, <2>2, <2>3
<1>7. TreeRefs(n) = RefsFrom(old, d) \cup RefsFrom(new, e)
  <2>1. \A y : y \in TreeRefs(n) <=> \E f \in old \cup new : y \in FileRefs(f, n)
    BY <1>5, FromFiles DEF TreeRefs
  <2>2. \A y : y \in RefsFrom(old, d) <=> \E f \in old : y \in FileRefs(f, n) BY <1>5, FromFiles
  <2>3. \A y : y \in RefsFrom(new, e) <=> \E f \in new : y \in FileRefs(f, n) BY <1>5, FromFiles
  <2> QED BY <2>1, <2>2, <2>3
<1> QED BY <1>1, <1>2, <1>3, <1>4, <1>6, <1>7 DEF n

\* The export tables after a change are those of the new tree.
LEMMA RereadExports ==
    ASSUME NEW d, NEW e, NEW W, Rereading(d, e, W)
    PROVE  MaintainExports(TreeExports(d), ChangeOf(e, W), ExportsFrom(Coded(e) \cap W, e))
             = TreeExports(Reread(d, e, W))
<1> DEFINE n == Reread(d, e, W)
           old == Coded(d) \ W
           new == Coded(e) \cap W
           a == ExportsFrom(new, e)
           b == TreeExports(d)
           m == [f \in DOMAIN a \cup (DOMAIN b \ W) |-> IF f \in DOMAIN a THEN a[f] ELSE b[f]]
<1>1. MaintainExports(TreeExports(d), ChangeOf(e, W), a) = m
  <2>1. Touched(ChangeOf(e, W)) = W BY RereadOK
  <2> QED BY <2>1 DEF MaintainExports
<1>2. /\ DOMAIN a = {f \in new : e[f].exports # <<>>} /\ \A f \in DOMAIN a : a[f] = e[f].exports
  BY DEF ExportsFrom
<1>3. /\ DOMAIN TreeExports(d) = {f \in Coded(d) : d[f].exports # <<>>}
      /\ \A f \in DOMAIN TreeExports(d) : TreeExports(d)[f] = d[f].exports
  BY DEF TreeExports, ExportsFrom
<1>4. DOMAIN b \ W = {f \in old : d[f].exports # <<>>} /\ \A f \in DOMAIN b : b[f] = d[f].exports BY <1>3
<1>6. /\ DOMAIN n = DOMAIN d /\ \A f \in DOMAIN d : n[f] = IF f \in W THEN e[f] ELSE d[f]
      /\ Coded(n) = old \cup new
      /\ Coded(d) \subseteq DOMAIN d /\ Coded(e) \subseteq DOMAIN d
  BY RereadFiles DEF Reread, Coded, TreeOf, Rereading
<1>7. /\ DOMAIN TreeExports(n) = {f \in Coded(n) : n[f].exports # <<>>}
      /\ \A f \in DOMAIN TreeExports(n) : TreeExports(n)[f] = n[f].exports
      /\ TreeExports(n) = [f \in DOMAIN TreeExports(n) |-> TreeExports(n)[f]]
  BY DEF TreeExports, ExportsFrom
<1> HIDE DEF n, a, b
<1>8. DOMAIN m = DOMAIN a \cup (DOMAIN b \ W) OBVIOUS
<1>9. DOMAIN m = DOMAIN TreeExports(n) BY <1>2, <1>4, <1>6, <1>7, <1>8
<1>10. ASSUME NEW f \in DOMAIN m PROVE m[f] = TreeExports(n)[f]
  <2>1. m[f] = IF f \in DOMAIN a THEN a[f] ELSE b[f] BY <1>8
  <2>2. CASE f \in DOMAIN a BY <1>2, <1>6, <1>7, <1>9, <2>1, <2>2
  <2>3. CASE f \notin DOMAIN a
    <3>1. f \in DOMAIN b \ W BY <1>8, <2>3
    <3>2. f \in old /\ b[f] = d[f].exports BY <1>4, <3>1
    <3> QED BY <1>6, <1>7, <1>9, <2>1, <2>3, <3>2
  <2> QED BY <2>2, <2>3
<1>11. m = [f \in DOMAIN m |-> m[f]] BY <1>8
<1> HIDE DEF m
<1>12. m = TreeExports(n) BY <1>7, <1>9, <1>10, <1>11
<1> QED BY <1>1, <1>12 DEF n, a

\* The projects after a change are those the manifests of the new tree declare.
LEMMA RereadProjects ==
    ASSUME NEW d, NEW e, NEW W, Rereading(d, e, W)
    PROVE  MaintainWorkspace(TreeProjects(d), ChangeOf(e, W), e) = TreeProjects(Reread(d, e, W))
<1> DEFINE n == Reread(d, e, W)
           ch == ChangeOf(e, W)
           M == {f \in ch.index : IsManifest(f)}
           D == {f \in M : \A g \in M : DirOf(g) = DirOf(f) => Before(g, f)}
           K == {f \in Touched(ch) : IsManifest(f)}
           old == {p \in TreeProjects(d) : \A f \in K : p.root # DirOf(f)}
           new == {ProjectOf(f, e) : f \in D}
<1>1. MaintainWorkspace(TreeProjects(d), ch, e) = old \cup new
  BY DEF MaintainWorkspace, ProjectOf
<1>2. Touched(ch) = W /\ ch.index = W \cap TreeOf(e) BY RereadOK DEF ChangeOf
<1>3. M = Manifests(e) \cap W BY <1>2 DEF Manifests
<1>4. /\ Manifests(n) = (Manifests(d) \ W) \cup (Manifests(e) \cap W)
      /\ \A f \in Manifests(d) \ W : ProjectOf(f, n) = ProjectOf(f, d)
      /\ \A f \in Manifests(e) \cap W : ProjectOf(f, n) = ProjectOf(f, e)
  BY RereadFiles
<1>5. /\ Manifests(d) \subseteq DOMAIN d /\ Manifests(e) \subseteq DOMAIN d /\ W \subseteq DOMAIN d
      /\ \A f \in Manifests(d) \cup Manifests(e) : IsManifest(f)
      /\ \A f, g \in DOMAIN d : IsManifest(f) /\ IsManifest(g) /\ DirOf(f) = DirOf(g) => f = g
      /\ DOMAIN d \subseteq Known
  BY DEF Manifests, TreeOf, Rereading, ContentsOK
<1>6. D = Manifests(e) \cap W
  <2>1. ASSUME NEW f \in M, NEW g \in M, DirOf(g) = DirOf(f) PROVE Before(g, f)
    <3>1. f = g /\ f \in Known BY <1>3, <1>5, <2>1
    <3>2. PICK i \in DOMAIN PathOrder : PathOrder[i] = f BY <3>1 DEF Known
    <3>3. i \in Nat BY <3>2, PathOrderAssumption DEF PathOrderAssumption
    <3>4. i <= i BY <3>3
    <3> QED BY <3>1, <3>2, <3>4 DEF Before
  <2> HIDE DEF M
  <2>2. D = M BY <2>1
  <2> QED BY <1>3, <2>2
<1>7. K = {f \in W : IsManifest(f)} BY <1>2
<1>8. \A f, c : ProjectOf(f, c).root = DirOf(f) BY DEF ProjectOf
<1> HIDE DEF n, ch, D, K, M
<1>9. ASSUME NEW p PROVE p \in old <=> \E f \in Manifests(d) \ W : p = ProjectOf(f, d)
  <2>1. ASSUME p \in old PROVE \E f \in Manifests(d) \ W : p = ProjectOf(f, d)
    <3>1. PICK f \in Manifests(d) : p = ProjectOf(f, d) BY <2>1 DEF TreeProjects
    <3>2. f \notin W BY <1>5, <1>7, <1>8, <2>1, <3>1
    <3> QED BY <3>1, <3>2
  <2>2. ASSUME NEW f \in Manifests(d) \ W, p = ProjectOf(f, d) PROVE p \in old
    <3>1. p \in TreeProjects(d) BY <2>2 DEF TreeProjects
    <3>2. \A g \in K : DirOf(f) # DirOf(g) BY <1>5, <1>7
    <3> QED BY <1>8, <2>2, <3>1, <3>2
  <2> QED BY <2>1, <2>2
<1>10. ASSUME NEW p PROVE p \in new <=> \E f \in Manifests(e) \cap W : p = ProjectOf(f, e) BY <1>6
<1>11. ASSUME NEW p PROVE p \in TreeProjects(n) <=> \E f \in Manifests(n) : p = ProjectOf(f, n)
  BY DEF TreeProjects
<1> HIDE DEF old, new
<1>12. \A p : p \in TreeProjects(n) <=> p \in old \cup new BY <1>4, <1>9, <1>10, <1>11
<1>13. TreeProjects(n) = old \cup new BY <1>12
<1> QED BY <1>1, <1>13 DEF n, ch

\* The manifest after a change lists the files of the new tree.
LEMMA RereadManifest ==
    ASSUME NEW d, NEW e, NEW W, Rereading(d, e, W)
    PROVE  MaintainManifest(TreeOf(d), ChangeOf(e, W)) = TreeOf(Reread(d, e, W))
<1>1. TreeOf(Reread(d, e, W)) = (TreeOf(d) \ W) \cup (TreeOf(e) \cap W) BY RereadFiles
<1> QED BY <1>1 DEF MaintainManifest, ChangeOf

\* So what the references are linked in is what a cold build links them in.
LEMMA RereadLinked ==
    ASSUME NEW s, NEW d, NEW T, NEW e, NEW W, Rereading(d, e, W), IsStateOf(s, d, T),
           NEW x, x = FrontExtract(s, ChangeOf(e, W), e), NEW tree
    PROVE  /\ FrontLink(s, x, tree) = Unlinked(Reread(d, e, W), tree)
           /\ x.ws = TreeProjects(Reread(d, e, W))
           /\ MaintainManifest(s.manifest, x.changes) = TreeOf(Reread(d, e, W))
<1> DEFINE n == Reread(d, e, W)
           l == FrontLink(s, x, tree)
           new == Coded(e) \cap W
<1>1. /\ x.changes = ChangeOf(e, W) /\ x.ws = MaintainWorkspace(s.ws, ChangeOf(e, W), e)
      /\ x.extracted = ExtractChanged(ChangeOf(e, W), e)
  BY DEF FrontExtract
<1>2. s.ws = TreeProjects(d) /\ s.exports = TreeExports(d) /\ s.manifest = TreeOf(d) BY DEF IsStateOf
<1>3. x.ws = TreeProjects(n) BY <1>1, <1>2, RereadProjects
<1>4. x.extracted.exports = ExportsFrom(new, e)
  <2> DEFINE y == x.extracted
  <2>1. y = ExtractChanged(ChangeOf(e, W), e) /\ new = Coded(e) \cap W BY <1>1
  <2> HIDE DEF y, new
  <2>2. y.exports = ExportsFrom(new, e) BY <2>1, ExtractedIs
  <2> QED BY <2>2 DEF y
<1>5. MaintainExports(s.exports, x.changes, x.extracted.exports) = TreeExports(n)
  BY <1>1, <1>2, <1>4, RereadExports
<1>6. x.surviving \cup x.extracted.nodes = TreeNodes(n) BY RereadNodes
<1>7. RebuildRefs(s.refs, Ids(x.dropped), x.extracted.refs) = TreeRefs(n) BY RereadNodes DEF RebuildRefs
<1>8. l = Unlinked(n, tree) BY <1>3, <1>5, <1>6, <1>7 DEF FrontLink, Unlinked
<1>9. MaintainManifest(s.manifest, x.changes) = TreeOf(n) BY <1>1, <1>2, RereadManifest
<1> QED BY <1>3, <1>8, <1>9

-----------------------------------------------------------------------------
(* Counting edges *)

\* How often an edge is in a set.
LEMMA CopiesOfSet ==
    ASSUME NEW S, NEW e
    PROVE  Copies(SetToBag(S), e) = IF e \in S THEN 1 ELSE 0
BY DEF SetToBag, Copies

\* How often a thing is among the images of a set.
LEMMA CopiesOfImages ==
    ASSUME NEW S, IsFiniteSet(S), NEW f, NEW e
    PROVE  Copies([y \in {f[x] : x \in S} |-> Cardinality({x \in S : f[x] = y})], e)
             = Cardinality({x \in S : f[x] = e})
<1> DEFINE T == {f[x] : x \in S}
           b == [y \in T |-> Cardinality({x \in S : f[x] = y})]
<1>1. CASE e \in T
  <2>1. e \in DOMAIN b /\ b[e] = Cardinality({x \in S : f[x] = e}) BY <1>1
  <2> QED BY <2>1 DEF Copies
<1>2. CASE e \notin T
  <2>1. e \notin DOMAIN b BY <1>2
  <2>2. {x \in S : f[x] = e} = {} BY <1>2
  <2>3. Cardinality({x \in S : f[x] = e}) = 0 BY <2>2, FS_EmptySet
  <2> HIDE DEF b
  <2> QED BY <2>1, <2>3 DEF Copies, b
<1> QED BY <1>1, <1>2

\* How often a thing is in what is left of a bag.
LEMMA CopiesOfRest ==
    ASSUME NEW b, NEW S \in SUBSET DOMAIN b, NEW e
    PROVE  Copies([y \in S |-> b[y]], e) = IF e \in S THEN Copies(b, e) ELSE 0
BY DEF Copies

\* There are no more images, each counted as often as it is one, than things they are of.
LEMMA SizeOfImages ==
    ASSUME NEW S, IsFiniteSet(S), NEW f, NEW b,
           b = [y \in {f[x] : x \in S} |-> Cardinality({x \in S : f[x] = y})]
    PROVE  Size(b) \in Nat /\ Size(b) <= Cardinality(S)
<1> DEFINE of(y) == {x \in S : f[x] = y}
           T == {f[x] : x \in S}
           U == UNION {{y} \X (1 .. b[y]) : y \in DOMAIN b}
           way(y) == CHOOSE g : g \in Bijection(1 .. Cardinality(of(y)), of(y))
           h == [u \in U |-> way(u[1])[u[2]]]
<1>1. DOMAIN b = T /\ \A y \in T : b[y] = Cardinality(of(y)) OBVIOUS
<1>2. ASSUME NEW y PROVE IsFiniteSet(of(y)) /\ Cardinality(of(y)) \in Nat
                         /\ way(y) \in Bijection(1 .. Cardinality(of(y)), of(y))
  <2> DEFINE V == of(y)
  <2>1. V \in SUBSET S OBVIOUS
  <2> HIDE DEF V
  <2>2. IsFiniteSet(V) BY <2>1, FS_Subset
  <2>3. Cardinality(V) \in Nat /\ ExistsBijection(1 .. Cardinality(V), V) BY <2>2, FS_CardinalityType
  <2>4. \E g : g \in Bijection(1 .. Cardinality(V), V) BY <2>3 DEF ExistsBijection
  <2>5. (CHOOSE g : g \in Bijection(1 .. Cardinality(V), V)) \in Bijection(1 .. Cardinality(V), V) BY <2>4
  <2> QED BY <2>2, <2>3, <2>5 DEF V
<1> HIDE DEF of, way
<1>3. ASSUME NEW u \in U PROVE /\ u = <<u[1], u[2]>> /\ u[1] \in T /\ u[2] \in 1 .. Cardinality(of(u[1]))
                               /\ h[u] \in of(u[1])
  <2>1. PICK y \in T : u \in {y} \X (1 .. Cardinality(of(y))) BY <1>1
  <2>2. u = <<u[1], u[2]>> /\ u[1] = y /\ u[2] \in 1 .. Cardinality(of(y)) BY <2>1
  <2>3. way(y) \in [1 .. Cardinality(of(y)) -> of(y)] BY <1>2 DEF Bijection, Injection
  <2>4. h[u] = way(u[1])[u[2]] OBVIOUS
  <2> QED BY <2>2, <2>3, <2>4
<1>4. \A y : of(y) \subseteq S /\ \A x \in of(y) : f[x] = y BY DEF of
<1>5. h \in [U -> S] BY <1>3, <1>4
<1>6. ASSUME NEW u \in U, NEW v \in U, h[u] = h[v] PROVE u = v
  <2>1. u[1] = v[1]
    <3>1. h[u] \in of(u[1]) /\ h[v] \in of(v[1]) BY <1>3
    <3> HIDE DEF h, U
    <3>2. f[h[u]] = u[1] BY <1>4, <3>1
    <3>3. f[h[v]] = v[1] BY <1>4, <3>1
    <3> QED BY <1>6, <3>2, <3>3
  <2>2. h[u] = way(u[1])[u[2]] /\ h[v] = way(v[1])[v[2]] OBVIOUS
  <2>3. way(u[1])[u[2]] = way(u[1])[v[2]] BY <1>6, <2>1, <2>2
  <2> DEFINE n == Cardinality(of(u[1]))
             w == way(u[1])
  <2>4. w \in Bijection(1 .. n, of(u[1])) BY <1>2
  <2>5. u[2] \in 1 .. n /\ v[2] \in 1 .. n BY <1>3, <2>1
  <2>6. w[u[2]] = w[v[2]] BY <2>3
  <2> HIDE DEF w, n, h
  <2>7. u[2] = v[2] BY <2>4, <2>5, <2>6 DEF Bijection, Injection, IsInjective
  <2> QED BY <1>3, <2>1, <2>7
<1> HIDE DEF h, U
<1>7. h \in Injection(U, S)
  <2>1. DOMAIN h = U BY <1>5
  <2>2. IsInjective(h) BY <1>6, <2>1 DEF IsInjective
  <2> QED BY <1>5, <2>2 DEF Injection
<1>8. IsFiniteSet(U) /\ Cardinality(U) <= Cardinality(S) BY <1>7, FS_Injection
<1>9. Cardinality(U) \in Nat BY <1>8, FS_CardinalityType
<1> QED BY <1>8, <1>9 DEF Size, U

\* How often an edge is made of references.
LEMMA CopiesOfLinked ==
    ASSUME NEW c, NEW refs, IsFiniteSet(refs)
    PROVE  /\ IsABag(LinkedBag(c, refs)) /\ IsFiniteSet(DOMAIN LinkedBag(c, refs))
           /\ \A e : Copies(LinkedBag(c, refs), e) = Cardinality({r \in refs : Link(c, r) = e})
           /\ \A e \in DOMAIN LinkedBag(c, refs) : \E r \in refs : Link(c, r) = e
<1> DEFINE g == [r \in refs |-> Link(c, r)]
           b == [e \in {g[r] : r \in refs} |-> Cardinality({r \in refs : g[r] = e})]
<1>1. {Link(c, r) : r \in refs} = {g[r] : r \in refs} OBVIOUS
<1>2. \A e : {r \in refs : Link(c, r) = e} = {r \in refs : g[r] = e} OBVIOUS
<1>3. LinkedBag(c, refs) = b
  <2>1. LinkedBag(c, refs) = [e \in {Link(c, r) : r \in refs} |-> Cardinality({r \in refs : Link(c, r) = e})]
    BY DEF LinkedBag, BagOf
  <2> HIDE DEF g
  <2> QED BY <1>1, <1>2, <2>1
<1>4. DOMAIN g = refs /\ \A r \in refs : g[r] = Link(c, r) OBVIOUS
<1> HIDE DEF g
<1>5. IsABag(b) /\ IsFiniteSet(DOMAIN b) BY <1>4, ImagesAreBag
<1>6. \A e : Copies(b, e) = Cardinality({r \in refs : g[r] = e}) BY CopiesOfImages
<1>7. DOMAIN b = {g[r] : r \in refs} OBVIOUS
<1> HIDE DEF b
<1> QED BY <1>2, <1>3, <1>4, <1>5, <1>6, <1>7

\* The empty state is that of contents none of which is there.
LEMMA EmptyIsState ==
    ASSUME NEW D
    PROVE  IsStateOf(EmptyState, [f \in D |-> Absent], {})
<1> DEFINE d == [f \in D |-> Absent]
<1>1. TreeOf(d) = {} BY DEF TreeOf
<1> HIDE DEF d
<1>2. Coded(d) = {} /\ Manifests(d) = {} BY <1>1 DEF Coded, Manifests
<1>3. TreeNodes(d) = {} /\ TreeRefs(d) = {} /\ TreeEdges(d) = {} /\ TreeProjects(d) = {}
  BY <1>2 DEF TreeNodes, TreeRefs, TreeEdges, TreeProjects, NodesFrom, RefsFrom, EdgesFrom
<1>4. TreeExports(d) = <<>>
  <2>1. {g \in {} : d[g].exports # <<>>} = {} OBVIOUS
  <2>2. TreeExports(d) = [f \in {} |-> d[f].exports] BY <1>2, <2>1 DEF TreeExports, ExportsFrom
  <2> QED BY <2>2
<1>5. ProjectNodes({}) = {} BY DEF ProjectNodes
<1>6. ProjectEdges({}, {}) = SetToBag({})
  <2>1. DependsOn({}) = {} BY DEF DependsOn
  <2> DEFINE A == {Edge(ProjectId(k[1].root), "depends_on", ProjectId(k[2].root)) : k \in DependsOn({})}
             B == {Edge(ProjectId(RootOf({}, n.file)), "contains", n.id) :
                     n \in {m \in {} : m.kind = "file" /\ InProject({}, m.file)}}
  <2>2. A = {} /\ B = {} BY <2>1
  <2>3. ProjectEdges({}, {}) = SetToBag(A \cup B) BY DEF ProjectEdges
  <2> HIDE DEF A, B
  <2> QED BY <2>2, <2>3
<1>7. AllEdges(d, {}) = SetToBag({})
  <2> DEFINE a == SetToBag({})
             b == LinkedBag(Linker(d, {}), {})
  <2>1. IsABag(a) /\ DOMAIN a = {} BY SetIsBag
  <2>2. IsABag(b) /\ DOMAIN b = {}
    <3>1. IsFiniteSet({}) BY FS_EmptySet
    <3>2. IsABag(b) /\ \A e \in DOMAIN b : \E r \in {} : Link(Linker(d, {}), r) = e BY <3>1, CopiesOfLinked
    <3> HIDE DEF b
    <3> QED BY <3>2
  <2>3. AllEdges(d, {}) = a (+) b (+) a BY <1>3, <1>6 DEF AllEdges
  <2> HIDE DEF a, b
  <2>4. IsABag(a (+) b) /\ DOMAIN (a (+) b) = {} BY <2>1, <2>2, BagSum
  <2>5. IsABag(a (+) b (+) a) /\ DOMAIN (a (+) b (+) a) = {}
    <3> DEFINE y == a (+) b
    <3>1. IsABag(y) /\ DOMAIN y = {} BY <2>4
    <3> HIDE DEF y
    <3>2. IsABag(y (+) a) /\ DOMAIN (y (+) a) = DOMAIN y \cup DOMAIN a BY <2>1, <3>1, BagSum
    <3>3. DOMAIN (y (+) a) = {} BY <2>1, <3>1, <3>2
    <3> QED BY <3>2, <3>3 DEF y
  <2>6. a (+) b (+) a = a
    <3> DEFINE x == a (+) b (+) a
    <3>1. IsABag(x) /\ DOMAIN x = {} BY <2>5
    <3> HIDE DEF x
    <3>2. \A e : Copies(x, e) = Copies(a, e) BY <2>1, <3>1 DEF Copies
    <3>3. x = a BY <2>1, <3>1, <3>2, BagsEqual
    <3> QED BY <3>3 DEF x
  <2> QED BY <2>3, <2>6 DEF a
<1> QED BY <1>1, <1>3, <1>4, <1>5, <1>7 DEF IsStateOf, EmptyState, EmptyBag, d

\* A cold build reads every file.
LEMMA ReadAll ==
    ASSUME NEW e, ContentsOK(e), NEW d, d = [f \in DOMAIN e |-> Absent]
    PROVE  Rereading(d, e, TreeOf(e)) /\ Reread(d, e, TreeOf(e)) = e
<1>1. DOMAIN d = DOMAIN e /\ \A f \in DOMAIN e : d[f] = Absent OBVIOUS
<1>2. ContentsOK(d) BY <1>1 DEF ContentsOK
<1>3. TreeOf(e) \subseteq DOMAIN d BY <1>1 DEF TreeOf
<1>4. \A f \in DOMAIN e : f \notin TreeOf(e) => e[f] = Absent BY DEF TreeOf
<1>5. Reread(d, e, TreeOf(e)) = [f \in DOMAIN e |-> e[f]] BY <1>1, <1>4 DEF Reread
<1>6. Reread(d, e, TreeOf(e)) = e BY <1>5 DEF ContentsOK
<1>7. Rereading(d, e, TreeOf(e)) BY <1>1, <1>2, <1>3 DEF Rereading
<1> QED BY <1>6, <1>7

\* What is made of the contents is in order.
LEMMA TreeOK ==
    ASSUME NEW e, ContentsOK(e)
    PROVE  NodesOK(TreeNodes(e)) /\ WorkspaceOK(TreeProjects(e)) /\ RefsOK(TreeRefs(e), TreeNodes(e))
<1> DEFINE D == DOMAIN e
           d == [f \in D |-> Absent]
           W == TreeOf(e)
           ch == ChangeOf(e, W)
           s == EmptyState
           x == FrontExtract(s, ch, e)
           l == FrontLink(s, x, {})
<1>1. Rereading(d, e, W) /\ Reread(d, e, W) = e BY ReadAll
<1>2. IsStateOf(s, d, {}) BY EmptyIsState
<1>3. StateOK(s) BY EmptyIsOK
<1> HIDE DEF d, W, s
<1>4. ChangeOK(ch, e) BY <1>1, RereadOK
<1>5. l = Unlinked(e, {}) BY <1>1, <1>2, RereadLinked
<1>6. NodesOK(l.nodes) /\ WorkspaceOK(l.ws) /\ RefsOK(l.refs, l.nodes) BY <1>3, <1>4, LinkedOK
<1> HIDE DEF l
<1> QED BY <1>5, <1>6 DEF Unlinked

\* And its references are linked to definitions of it.
LEMMA LinkerOK ==
    ASSUME NEW d, ContentsOK(d), NEW T
    PROVE  ContextOK(Linker(d, T)) /\ IsFiniteSet(TreeRefs(d))
<1> DEFINE g == Unlinked(d, T)
           bound == ImportScope(g, TreeRefs(d))
<1>1. NodesOK(TreeNodes(d)) /\ RefsOK(TreeRefs(d), TreeNodes(d)) BY TreeOK
<1>2. g.nodes = TreeNodes(d) BY DEF Unlinked
<1> HIDE DEF g
<1>3. \A n \in g.nodes : NodeOK(n) BY <1>1, <1>2 DEF NodesOK
<1>4. \A k \in DOMAIN bound : bound[k] \in Defs(g.nodes) BY <1>3, ImportsAreDefs
<1>5. Linker(d, T).nodes = TreeNodes(d) /\ Linker(d, T).scope = bound BY DEF Linker, g
<1> QED BY <1>1, <1>2, <1>3, <1>4, <1>5 DEF ContextOK, RefsOK

-----------------------------------------------------------------------------
(* What an apply computes from the state of a tree *)

\* How often an edge is among those of a tree, part by part.
LEMMA CopiesOfAll ==
    ASSUME NEW d, ContentsOK(d), NEW T
    PROVE  /\ IsABag(AllEdges(d, T))
           /\ \A e : Copies(AllEdges(d, T), e)
                       = Copies(SetToBag(TreeEdges(d)), e)
                         + Copies(LinkedBag(Linker(d, T), TreeRefs(d)), e)
                         + Copies(ProjectEdges(TreeProjects(d), TreeNodes(d)), e)
<1> DEFINE a == SetToBag(TreeEdges(d))
           b == LinkedBag(Linker(d, T), TreeRefs(d))
           c == ProjectEdges(TreeProjects(d), TreeNodes(d))
           y == a (+) b
<1>1. IsABag(a) BY SetIsBag
<1>2. IsABag(b) BY LinkerOK, CopiesOfLinked
<1>3. IsABag(c) BY SetIsBag DEF ProjectEdges
<1>4. AllEdges(d, T) = y (+) c BY DEF AllEdges
<1> HIDE DEF a, b, c
<1>5. IsABag(y) /\ \A e : Copies(y, e) = Copies(a, e) + Copies(b, e) BY <1>1, <1>2, BagSum
<1> HIDE DEF y
<1>6. IsABag(y (+) c) /\ \A e : Copies(y (+) c, e) = Copies(y, e) + Copies(c, e) BY <1>3, <1>5, BagSum
<1> QED BY <1>4, <1>5, <1>6 DEF a, b, c

\* The kinds of edges: those of projects, those of files to their definitions, those of references.
LEMMA EdgeKinds ==
    ASSUME NEW d, ContentsOK(d), NEW T, NEW e
    PROVE  /\ Copies(SetToBag(TreeEdges(d)), e) # 0 =>
                e \in TreeEdges(d) /\ ~ IsProject(e.source) /\ e.rel = "contains"
           /\ Copies(LinkedBag(Linker(d, T), TreeRefs(d)), e) # 0 =>
                ~ IsProject(e.source) /\ e.rel \notin {"contains", "depends_on"}
           /\ Copies(ProjectEdges(TreeProjects(d), TreeNodes(d)), e) # 0 => IsProject(e.source)
<1>1. ASSUME Copies(SetToBag(TreeEdges(d)), e) # 0
      PROVE  e \in TreeEdges(d) /\ ~ IsProject(e.source) /\ e.rel = "contains"
  <2>1. e \in TreeEdges(d) BY <1>1, CopiesOfSet
  <2>2. PICK f \in Coded(d) : e \in FileEdges(f, d) BY <2>1, FromFiles DEF TreeEdges
  <2>3. e.source = FileId(f) /\ e.rel = "contains" BY <2>2 DEF FileEdges, Edge
  <2> QED BY <2>1, <2>3 DEF FileId, IsProject
<1>2. ASSUME Copies(LinkedBag(Linker(d, T), TreeRefs(d)), e) # 0
      PROVE  ~ IsProject(e.source) /\ e.rel \notin {"contains", "depends_on"}
  <2> DEFINE b == LinkedBag(Linker(d, T), TreeRefs(d))
             c == Linker(d, T)
  <2>1. e \in DOMAIN b BY <1>2 DEF Copies
  <2>2. ContextOK(c) /\ IsFiniteSet(TreeRefs(d)) BY LinkerOK
  <2>3. \E r \in TreeRefs(d) : Link(c, r) = e BY <2>1, <2>2, CopiesOfLinked
  <2>4. PICK r \in TreeRefs(d) : Link(c, r) = e BY <2>3
  <2> HIDE DEF b, c
  <2>5. e.source = r.source /\ e.rel = r.rel BY <2>2, <2>4, LinkFinds
  <2>6. RefsOK(TreeRefs(d), TreeNodes(d)) BY TreeOK
  <2>7. ~ IsProject(r.source) BY <2>6 DEF RefsOK, RefIn
  <2>8. r.rel \notin {"contains", "depends_on"} BY InTree
  <2> QED BY <2>5, <2>7, <2>8
<1>3. ASSUME Copies(ProjectEdges(TreeProjects(d), TreeNodes(d)), e) # 0 PROVE IsProject(e.source)
  <2> DEFINE ws == TreeProjects(d)
             A == {Edge(ProjectId(k[1].root), "depends_on", ProjectId(k[2].root)) : k \in DependsOn(ws)}
             B == {Edge(ProjectId(RootOf(ws, n.file)), "contains", n.id) :
                     n \in {m \in TreeNodes(d) : m.kind = "file" /\ InProject(ws, m.file)}}
  <2>1. ProjectEdges(ws, TreeNodes(d)) = SetToBag(A \cup B) BY DEF ProjectEdges
  <2>2. e \in A \cup B
    <3> HIDE DEF A, B, ws
    <3>1. Copies(SetToBag(A \cup B), e) # 0 BY <1>3, <2>1 DEF ws
    <3> QED BY <3>1, CopiesOfSet
  <2>3. \A k : IsProject(ProjectId(k)) BY DEF IsProject, ProjectId
  <2>4. \E k : e.source = ProjectId(k) BY <2>2 DEF Edge
  <2> QED BY <2>3, <2>4
<1> QED BY <1>1, <1>2, <1>3

\* The edges of a site are those its references make.
LEMMA EdgesOfSite ==
    ASSUME NEW d, ContentsOK(d), NEW T, NEW t, NEW r0, r0.rel \notin {"contains", "depends_on"},
           ~ IsProject(r0.source), t = Site(r0)
    PROVE  /\ Size(EdgesAt(AllEdges(d, T), t)) \in Nat
           /\ Size(EdgesAt(AllEdges(d, T), t)) <= Cardinality(RefsAt(TreeRefs(d), t))
<1> DEFINE c == Linker(d, T)
           all == AllEdges(d, T)
           S == RefsAt(TreeRefs(d), t)
           f == [r \in S |-> Link(c, r)]
           b == [y \in {f[x] : x \in S} |-> Cardinality({x \in S : f[x] = y})]
           E == {e \in DOMAIN all : ~ (Site(e) # t)}
<1>1. ContextOK(c) /\ IsFiniteSet(TreeRefs(d)) BY LinkerOK
<1>2. S \in SUBSET TreeRefs(d) /\ (\A r : r \in S <=> r \in TreeRefs(d) /\ Site(r) = t) BY DEF RefsAt
<1>3. DOMAIN f = S /\ \A r \in S : f[r] = Link(c, r) OBVIOUS
<1>4. EdgesAt(all, t) = [e \in E |-> all[e]] BY DEF EdgesAt, Without
<1>5. \A e : Copies(all, e) = Copies(SetToBag(TreeEdges(d)), e)
                            + Copies(LinkedBag(c, TreeRefs(d)), e)
                            + Copies(ProjectEdges(TreeProjects(d), TreeNodes(d)), e)
  BY CopiesOfAll
<1>6. IsABag(all) BY CopiesOfAll
<1>7. \A e : Copies(LinkedBag(c, TreeRefs(d)), e) = Cardinality({r \in TreeRefs(d) : Link(c, r) = e})
  BY <1>1, CopiesOfLinked
<1>8. \A r \in TreeRefs(d) : Site(Link(c, r)) = Site(r) BY <1>1, LinkFinds DEF Site
<1>9. ASSUME NEW e, Site(e) = t PROVE Copies(all, e) = Cardinality({r \in S : f[r] = e})
  <2>1. e.rel \notin {"contains", "depends_on"} /\ ~ IsProject(e.source) BY <1>9 DEF Site
  <2>2. Copies(SetToBag(TreeEdges(d)), e) = 0 BY <2>1, EdgeKinds
  <2>3. Copies(ProjectEdges(TreeProjects(d), TreeNodes(d)), e) = 0 BY <2>1, EdgeKinds
  <2>4. Cardinality({r \in TreeRefs(d) : Link(c, r) = e}) \in Nat
    <3> DEFINE V == {r \in TreeRefs(d) : Link(c, r) = e}
    <3>1. V \in SUBSET TreeRefs(d) OBVIOUS
    <3> HIDE DEF V
    <3>2. Cardinality(V) \in Nat BY <1>1, <3>1, FS_Subset, FS_CardinalityType
    <3> QED BY <3>2 DEF V
  <2>5. {r \in TreeRefs(d) : Link(c, r) = e} = {r \in S : f[r] = e}
    <3> HIDE DEF S, f, c
    <3> QED BY <1>2, <1>3, <1>8, <1>9
  <2> HIDE DEF S, f, c, all
  <2> QED BY <1>5, <1>7, <2>2, <2>3, <2>4, <2>5
<1>10. IsFiniteSet(S)
  <2> HIDE DEF S
  <2> QED BY <1>1, <1>2, FS_Subset
<1> HIDE DEF S, f, c, all
<1>11. IsABag(b) BY <1>3, <1>10, ImagesAreBag
<1>12. \A e : Copies(b, e) = Cardinality({r \in S : f[r] = e}) BY <1>10, CopiesOfImages
<1>13. DOMAIN b = {f[x] : x \in S} OBVIOUS
<1>14. ASSUME NEW e \in DOMAIN b PROVE Site(e) = t
  <2>1. PICK r \in S : e = f[r] BY <1>13
  <2> QED BY <1>2, <1>3, <1>8, <2>1
<1>15. IsABag([e \in E |-> all[e]]) BY <1>6 DEF IsABag
<1>16. ASSUME NEW e PROVE Copies([y \in E |-> all[y]], e) = Copies(b, e)
  <2>1. CASE Site(e) = t
    <3>1. Copies([y \in E |-> all[y]], e) = Copies(all, e) BY <2>1 DEF Copies
    <3> QED BY <1>9, <1>12, <2>1, <3>1
  <2>2. CASE Site(e) # t
    <3>1. Copies([y \in E |-> all[y]], e) = 0 BY <2>2 DEF Copies
    <3>2. e \notin DOMAIN b BY <1>14, <2>2
    <3> HIDE DEF b, E
    <3> QED BY <3>1, <3>2 DEF Copies
  <2> QED BY <2>1, <2>2
<1>17. EdgesAt(all, t) = b
  <2> DEFINE a == [e \in E |-> all[e]]
  <2>1. IsABag(a) /\ \A e : Copies(a, e) = Copies(b, e) BY <1>15, <1>16
  <2> HIDE DEF a, b
  <2>2. a = b BY <1>11, <2>1, BagsEqual
  <2> QED BY <1>4, <2>2 DEF a
<1>18. Size(b) \in Nat /\ Size(b) <= Cardinality(S)
  <2> DEFINE b0 == b
  <2>1. b0 = [y \in {f[x] : x \in S} |-> Cardinality({x \in S : f[x] = y})] OBVIOUS
  <2> HIDE DEF b0
  <2>2. Size(b0) \in Nat /\ Size(b0) <= Cardinality(S) BY <1>10, <2>1, SizeOfImages
  <2> QED BY <2>2 DEF b0
<1> HIDE DEF b
<1> QED BY <1>17, <1>18 DEF S, all

\* The state of a tree has a reference for every edge made of one: nothing is reconstructed.
LEMMA NothingHealed ==
    ASSUME NEW s, NEW d, ContentsOK(d), NEW T, IsStateOf(s, d, T), NEW refs, IsFiniteSet(refs),
           NEW gone, NEW imports,
           \A r \in TreeRefs(d) : r.source \notin gone => r \in refs,
           \A r \in refs : r.rel \notin {"contains", "depends_on"} /\ ~ IsProject(r.source)
    PROVE  Healed(s, refs, gone, imports) = {}
<1>1. ASSUME NEW r \in refs, r.source \notin gone PROVE Deficit(s.edges, refs, Site(r)) = 0
  <2> DEFINE t == Site(r)
             A == RefsAt(TreeRefs(d), t)
             B == RefsAt(refs, t)
  <2>1. s.edges = AllEdges(d, T) BY DEF IsStateOf
  <2>2. Size(EdgesAt(s.edges, t)) \in Nat /\ Size(EdgesAt(s.edges, t)) <= Cardinality(A)
    BY <2>1, EdgesOfSite
  <2>3. A \in SUBSET B
    <3>1. ASSUME NEW q \in TreeRefs(d), Site(q) = t PROVE q \in refs
      <4>1. q.source = r.source BY <3>1 DEF Site
      <4> QED BY <1>1, <4>1
    <3> QED BY <3>1 DEF RefsAt
  <2>4. B \in SUBSET refs BY DEF RefsAt
  <2> HIDE DEF A, B
  <2>5. IsFiniteSet(B) BY <2>4, FS_Subset
  <2>6. IsFiniteSet(A) /\ Cardinality(A) <= Cardinality(B) BY <2>3, <2>5, FS_Subset
  <2>7. Cardinality(A) \in Nat /\ Cardinality(B) \in Nat BY <2>5, <2>6, FS_CardinalityType
  <2>8. ~ (Size(EdgesAt(s.edges, t)) > Cardinality(B)) BY <2>2, <2>6, <2>7
  <2> QED BY <2>8 DEF Deficit, B
<1>2. Diverged(s, refs, gone) = {}
  <2>1. ASSUME NEW t \in Diverged(s, refs, gone) PROVE FALSE
    <3>1. PICK r \in refs : t = Site(r) BY <2>1 DEF Diverged
    <3>2. t[1] = r.source BY <3>1 DEF Site
    <3>3. r.source \notin gone /\ Deficit(s.edges, refs, t) > 0 BY <2>1, <3>2 DEF Diverged
    <3>4. Deficit(s.edges, refs, Site(r)) = 0 BY <1>1, <3>3
    <3> QED BY <3>1, <3>3, <3>4
  <2> QED BY <2>1
<1> QED BY <1>2 DEF Healed

\* The references that are not linked again: they were there, and would be linked as they are.
Unmoved(d, T, n, U, gone, impact, how) ==
    \A r \in TreeRefs(n) :
      ~ Impacted(impact, how, Site(r)) =>
        /\ r \in TreeRefs(d) /\ r.source \notin gone
        /\ Link(Linker(n, U), r) = Link(Linker(d, T), r)
        /\ IsNode(Link(Linker(n, U), r).target) => Link(Linker(n, U), r).target \notin gone

\* How often an edge of a tree is carried by an apply.
LEMMA CopiesOfCarried ==
    ASSUME NEW s, NEW how, NEW refs, NEW impact, NEW gone, NEW e
    PROVE  LET c == Carried(s, how, refs, impact, gone)
           IN  Copies(c, e) = IF \/ IsProject(e.source) \/ e.source \in gone
                                 \/ (IsNode(e.target) /\ e.target \in gone)
                                 \/ (Site(e) \in {Site(r) : r \in refs} /\ Impacted(impact, how, Site(e)))
                              THEN 0 ELSE Copies(s.edges, e)
<1> DEFINE Q(x) == \/ IsProject(x.source) \/ x.source \in gone
                   \/ (IsNode(x.target) /\ x.target \in gone)
                   \/ (Site(x) \in {Site(r) : r \in refs} /\ Impacted(impact, how, Site(x)))
           S == {x \in DOMAIN s.edges : ~ Q(x)}
           b == s.edges
<1>1. Carried(s, how, refs, impact, gone) = [x \in S |-> b[x]] BY DEF Carried, Without
<1>2. S \in SUBSET DOMAIN b OBVIOUS
<1>3. e \in S <=> e \in DOMAIN b /\ ~ Q(e) OBVIOUS
<1> HIDE DEF b, S, Q
<1>4. Copies([x \in S |-> b[x]], e) = IF e \in S THEN Copies(b, e) ELSE 0 BY <1>2, CopiesOfRest
<1>5. Copies([x \in S |-> b[x]], e) = IF Q(e) THEN 0 ELSE Copies(b, e) BY <1>3, <1>4 DEF Copies
<1> QED BY <1>1, <1>5 DEF Q, b

\* The edges of files to their definitions, after an apply.
LEMMA StructureRelinked ==
    ASSUME NEW d, NEW e, NEW W, Rereading(d, e, W), NEW gone,
           \A m \in TreeNodes(d) : m.id \in gone <=> m.file \in W, NEW y
    PROVE  /\ y \in TreeEdges(Reread(d, e, W)) <=>
                \/ y \in TreeEdges(d) /\ y.source \notin gone /\ y.target \notin gone
                \/ y \in EdgesFrom(Coded(e) \cap W, e)
           /\ ~ (/\ y \in TreeEdges(d) /\ y.source \notin gone /\ y.target \notin gone
                 /\ y \in EdgesFrom(Coded(e) \cap W, e))
<1> DEFINE n == Reread(d, e, W)
           old == Coded(d) \ W
           new == Coded(e) \cap W
<1>1. /\ Coded(n) = old \cup new
      /\ \A f \in old : FileEdges(f, n) = FileEdges(f, d)
      /\ \A f \in new : FileEdges(f, n) = FileEdges(f, e)
  BY RereadFiles
<1>2. ASSUME NEW f \in Coded(d), y \in FileEdges(f, d)
      PROVE  /\ y.source \in gone <=> f \in W
             /\ y.target \in gone <=> f \in W
  <2>1. PICK m \in MadeOf(f, d) : y = Edge(FileId(f), "contains", m.id) BY <1>2 DEF FileEdges
  <2>2. y.source = FileId(f) /\ y.target = m.id BY <2>1 DEF Edge
  <2>3. FileNode(f) \in FileNodes(f, d) /\ m \in FileNodes(f, d) /\ FileNode(f).id = FileId(f)
    BY <2>1 DEF FileNodes, FileNode
  <2>4. FileNodes(f, d) \subseteq TreeNodes(d) BY InTree DEF Rereading
  <2>5. FileNode(f).file = f /\ m.file = f BY <2>3, InFile DEF Rereading
  <2> QED BY <2>2, <2>3, <2>4, <2>5
<1>3. y \in TreeEdges(d) <=> \E f \in Coded(d) : y \in FileEdges(f, d) BY FromFiles DEF TreeEdges
<1>4. y \in EdgesFrom(new, e) <=> \E f \in new : y \in FileEdges(f, e) BY FromFiles
<1>5. y \in TreeEdges(n) <=> \E f \in Coded(n) : y \in FileEdges(f, n) BY FromFiles DEF TreeEdges
<1>6. \A f, c : y \in FileEdges(f, c) => y.source.file = f BY DEF FileEdges, Edge, FileId
<1> HIDE DEF n
<1>7. y \in TreeEdges(d) /\ y.source \notin gone /\ y.target \notin gone
        <=> \E f \in old : y \in FileEdges(f, d)
  BY <1>2, <1>3
<1>8. y \in TreeEdges(n) <=> (\E f \in old : y \in FileEdges(f, d)) \/ (\E f \in new : y \in FileEdges(f, e))
  BY <1>1, <1>5
<1>9. ~ ((\E f \in old : y \in FileEdges(f, d)) /\ (\E f \in new : y \in FileEdges(f, e))) BY <1>6
<1> QED BY <1>4, <1>7, <1>8, <1>9 DEF n

\* The edges of a tree, relinked from those of what it was, are those of a cold build.
LEMMA EdgesRelinked ==
    ASSUME NEW s, NEW d, NEW T, NEW e, NEW W, Rereading(d, e, W), StateOK(s), IsStateOf(s, d, T),
           NEW n, n = Reread(d, e, W), NEW U, NEW impact, NEW how,
           NEW gone, \A m \in TreeNodes(d) : m.id \in gone <=> m.file \in W,
           \A r \in TreeRefs(d) : r.source \notin gone => r \in TreeRefs(n),
           Unmoved(d, T, n, U, gone, impact, how)
    PROVE  Carried(s, how, TreeRefs(n), impact, gone)
             (+) (SetToBag(EdgesFrom(Coded(e) \cap W, e))
                  (+) ResolveImpacted(Linker(n, U), how, impact, TreeRefs(n))
                  (+) ProjectEdges(TreeProjects(n), TreeNodes(n)))
           = AllEdges(n, U)
<1> DEFINE refs == TreeRefs(n)
           c == Linker(n, U)
           c0 == Linker(d, T)
           some == {r \in refs : Impacted(impact, how, Site(r))}
           K == Carried(s, how, refs, impact, gone)
           A == SetToBag(EdgesFrom(Coded(e) \cap W, e))
           B == ResolveImpacted(c, how, impact, refs)
           P == ProjectEdges(TreeProjects(n), TreeNodes(n))
           AB == A (+) B
           ABP == AB (+) P
           all == K (+) ABP
<1>1. ContentsOK(n) /\ ContentsOK(d) BY RereadOK DEF Rereading
<1>2. ContextOK(c) /\ ContextOK(c0) /\ IsFiniteSet(refs) /\ IsFiniteSet(TreeRefs(d)) BY <1>1, LinkerOK
<1>3. some \in SUBSET refs OBVIOUS
<1>4. IsFiniteSet(some)
  <2> HIDE DEF some, refs
  <2> QED BY <1>2, <1>3, FS_Subset
<1>5. B = LinkedBag(c, some) BY DEF ResolveImpacted, LinkedBag
<1>6. IsABag(B) /\ \A y : Copies(B, y) = Cardinality({r \in some : Link(c, r) = y})
  <2> HIDE DEF B, some, c
  <2> QED BY <1>4, <1>5, CopiesOfLinked
<1>7. IsABag(A) /\ \A y : Copies(A, y) = IF y \in EdgesFrom(Coded(e) \cap W, e) THEN 1 ELSE 0
  BY SetIsBag, CopiesOfSet
<1>8. IsABag(P) BY SetIsBag DEF ProjectEdges
<1>9. IsABag(K)
  <2> DEFINE S == {x \in DOMAIN s.edges :
                     ~ (\/ IsProject(x.source) \/ x.source \in gone
                        \/ (IsNode(x.target) /\ x.target \in gone)
                        \/ (Site(x) \in {Site(r) : r \in refs} /\ Impacted(impact, how, Site(x))))}
  <2>1. K = [x \in S |-> s.edges[x]] BY DEF Carried, Without
  <2>2. S \subseteq DOMAIN s.edges OBVIOUS
  <2>3. IsABag(s.edges) BY DEF StateOK, EdgesOK
  <2> HIDE DEF S, K
  <2> QED BY <2>1, <2>2, <2>3 DEF IsABag
<1>10. \A y : Copies(K, y) = IF \/ IsProject(y.source) \/ y.source \in gone
                                \/ (IsNode(y.target) /\ y.target \in gone)
                                \/ (Site(y) \in {Site(r) : r \in refs} /\ Impacted(impact, how, Site(y)))
                             THEN 0 ELSE Copies(s.edges, y)
  BY CopiesOfCarried
<1>11. s.edges = AllEdges(d, T) BY DEF IsStateOf
<1>12. \A y : Copies(s.edges, y) = Copies(SetToBag(TreeEdges(d)), y)
                                  + Copies(LinkedBag(c0, TreeRefs(d)), y)
                                  + Copies(ProjectEdges(TreeProjects(d), TreeNodes(d)), y)
  BY <1>1, <1>11, CopiesOfAll
<1>13. IsABag(AllEdges(n, U)) /\ \A y : Copies(AllEdges(n, U), y) = Copies(SetToBag(TreeEdges(n)), y)
                                                                  + Copies(LinkedBag(c, refs), y) + Copies(P, y)
  BY <1>1, CopiesOfAll
<1>14. \A y : Copies(LinkedBag(c, refs), y) = Cardinality({r \in refs : Link(c, r) = y}) BY <1>2, CopiesOfLinked
<1>15. \A y : Copies(LinkedBag(c0, TreeRefs(d)), y) = Cardinality({r \in TreeRefs(d) : Link(c0, r) = y})
  BY <1>2, CopiesOfLinked
<1>16. \A r \in refs : Site(Link(c, r)) = Site(r) /\ Link(c, r).source = r.source
  BY <1>2, LinkFinds DEF Site
<1>17. \A r \in TreeRefs(d) : Site(Link(c0, r)) = Site(r) /\ Link(c0, r).source = r.source
  BY <1>2, LinkFinds DEF Site
<1>18. \A y : Copies(SetToBag(TreeEdges(n)), y) = IF y \in TreeEdges(n) THEN 1 ELSE 0 BY CopiesOfSet
<1>19. \A y : Copies(SetToBag(TreeEdges(d)), y) = IF y \in TreeEdges(d) THEN 1 ELSE 0 BY CopiesOfSet
<1>20. \A y : Copies(P, y) \in Nat /\ Copies(s.edges, y) \in Nat
  BY <1>8, CopiesAreMany DEF StateOK, EdgesOK
<1>21. Cardinality({}) = 0 BY FS_EmptySet
<1>22. \A r \in refs : r.rel \notin {"contains", "depends_on"} BY <1>1, InTree
<1>23. \A y : (Copies(LinkedBag(c, refs), y) # 0 \/ Copies(LinkedBag(c0, TreeRefs(d)), y) # 0)
                => ~ IsProject(y.source) /\ y.rel \notin {"contains", "depends_on"}
  BY <1>1, EdgeKinds
<1>24. \A y : /\ Copies(P, y) # 0 => IsProject(y.source)
              /\ Copies(ProjectEdges(TreeProjects(d), TreeNodes(d)), y) # 0 => IsProject(y.source)
  BY <1>1, EdgeKinds
<1>25. \A y : /\ y \in TreeEdges(n) => ~ IsProject(y.source) /\ y.rel = "contains"
              /\ y \in TreeEdges(d) => ~ IsProject(y.source) /\ y.rel = "contains"
  BY <1>1, <1>18, <1>19, EdgeKinds
<1>26. \A y \in TreeEdges(d) : IsNode(y.target)
  <2>1. ASSUME NEW y \in TreeEdges(d) PROVE IsNode(y.target)
    <3>1. PICK f \in Coded(d) : y \in FileEdges(f, d) BY FromFiles DEF TreeEdges
    <3>2. PICK m \in MadeOf(f, d) : y = Edge(FileId(f), "contains", m.id) BY <3>1 DEF FileEdges
    <3>3. y.target = m.id /\ m \in FileNodes(f, d) BY <3>2 DEF Edge, FileNodes
    <3>4. NodeOK(m) BY <1>1, <3>3, InFile DEF NodesOK
    <3> QED BY <3>3, <3>4 DEF NodeOK, IsNode
  <2> QED BY <2>1
<1> HIDE DEF K, A, B, P
<1>27. IsABag(AB) /\ \A y : Copies(AB, y) = Copies(A, y) + Copies(B, y) BY <1>6, <1>7, BagSum
<1> HIDE DEF AB
<1>28. IsABag(ABP) /\ \A y : Copies(ABP, y) = Copies(AB, y) + Copies(P, y) BY <1>8, <1>27, BagSum
<1> HIDE DEF ABP
<1>29. IsABag(all) /\ \A y : Copies(all, y) = Copies(K, y) + Copies(ABP, y) BY <1>9, <1>28, BagSum
<1> HIDE DEF all
<1>30. ASSUME NEW y PROVE Copies(all, y) = Copies(AllEdges(n, U), y)
  <2>1. Copies(all, y) = Copies(K, y) + (Copies(A, y) + Copies(B, y) + Copies(P, y))
    <3>1. Copies(all, y) = Copies(K, y) + Copies(ABP, y) BY <1>29
    <3>2. Copies(ABP, y) = Copies(AB, y) + Copies(P, y) BY <1>28
    <3>3. Copies(AB, y) = Copies(A, y) + Copies(B, y) BY <1>27
    <3> QED BY <3>1, <3>2, <3>3
  <2>2. Copies(AllEdges(n, U), y) = Copies(SetToBag(TreeEdges(n)), y) + Copies(LinkedBag(c, refs), y) + Copies(P, y)
    BY <1>13
  <2>3. Copies(B, y) \in Nat /\ Copies(K, y) \in Nat /\ Copies(LinkedBag(c, refs), y) \in Nat
    <3> DEFINE b == LinkedBag(c, refs)
    <3>1. IsABag(b) BY <1>2, CopiesOfLinked
    <3> HIDE DEF b
    <3>2. Copies(b, y) \in Nat BY <3>1, CopiesAreMany
    <3> QED BY <1>6, <1>9, <3>2, CopiesAreMany DEF b
  <2>4. Copies(B, y) # 0 => Copies(LinkedBag(c, refs), y) # 0
    <3>1. ASSUME Copies(LinkedBag(c, refs), y) = 0 PROVE Copies(B, y) = 0
      <4> DEFINE V == {r \in refs : Link(c, r) = y}
                 V1 == {r \in some : Link(c, r) = y}
      <4>1. V \in SUBSET refs /\ V1 \in SUBSET V OBVIOUS
      <4>2. Cardinality(V) = 0 BY <1>14, <3>1
      <4>3. Copies(B, y) = Cardinality(V1) BY <1>6
      <4> HIDE DEF V, V1, refs
      <4>4. IsFiniteSet(V) BY <1>2, <4>1, FS_Subset
      <4>5. V = {} BY <4>2, <4>4, FS_EmptySet
      <4>6. V1 = {} BY <4>1, <4>5
      <4> QED BY <1>21, <4>3, <4>6
    <3> QED BY <3>1
  <2>5. y \in EdgesFrom(Coded(e) \cap W, e) => y \in TreeEdges(n) BY StructureRelinked
  <2>6. CASE IsProject(y.source)
    <3>1. Copies(K, y) = 0 BY <1>10, <2>6
    <3>2. Copies(LinkedBag(c, refs), y) = 0 /\ Copies(B, y) = 0 BY <1>23, <2>4, <2>6
    <3>3. y \notin TreeEdges(n) BY <1>25, <2>6
    <3>4. Copies(A, y) = 0 /\ Copies(SetToBag(TreeEdges(n)), y) = 0 BY <1>7, <1>18, <2>5, <3>3
    <3> QED BY <1>20, <2>1, <2>2, <3>1, <3>2, <3>4
  <2>7. CASE ~ IsProject(y.source) /\ y.rel = "contains"
    <3>1. Copies(LinkedBag(c, refs), y) = 0 /\ Copies(LinkedBag(c0, TreeRefs(d)), y) = 0 /\ Copies(B, y) = 0
      BY <1>23, <2>4, <2>7
    <3>2. Copies(P, y) = 0 /\ Copies(ProjectEdges(TreeProjects(d), TreeNodes(d)), y) = 0 BY <1>24, <2>7
    <3>3. Copies(s.edges, y) = IF y \in TreeEdges(d) THEN 1 ELSE 0 BY <1>12, <1>19, <3>1, <3>2
    <3>4. Site(y) \notin {Site(r) : r \in refs} BY <1>22, <2>7 DEF Site
    <3>5. Copies(K, y) = IF y \in TreeEdges(d) /\ y.source \notin gone /\ y.target \notin gone THEN 1 ELSE 0
      BY <1>10, <1>26, <2>7, <3>3, <3>4
    <3>6. Copies(A, y) = IF y \in EdgesFrom(Coded(e) \cap W, e) THEN 1 ELSE 0 BY <1>7
    <3>7. Copies(SetToBag(TreeEdges(n)), y) = Copies(K, y) + Copies(A, y)
      BY <1>18, <3>5, <3>6, StructureRelinked
    <3> QED BY <1>20, <2>1, <2>2, <2>3, <3>1, <3>2, <3>6, <3>7
  <2>8. CASE ~ IsProject(y.source) /\ y.rel # "contains"
    <3>1. y \notin TreeEdges(n) /\ y \notin TreeEdges(d) BY <1>25, <2>8
    <3>2. Copies(A, y) = 0 /\ Copies(SetToBag(TreeEdges(n)), y) = 0 BY <1>7, <1>18, <2>5, <3>1
    <3>3. Copies(P, y) = 0 /\ Copies(ProjectEdges(TreeProjects(d), TreeNodes(d)), y) = 0 BY <1>24, <2>8
    <3>4. Copies(s.edges, y) = Copies(LinkedBag(c0, TreeRefs(d)), y)
      <4>1. Copies(LinkedBag(c0, TreeRefs(d)), y) \in Nat
        <5> DEFINE b == LinkedBag(c0, TreeRefs(d))
        <5>1. IsABag(b) BY <1>2, CopiesOfLinked
        <5> HIDE DEF b
        <5>2. Copies(b, y) \in Nat BY <5>1, CopiesAreMany
        <5> QED BY <5>2 DEF b
      <4> QED BY <1>12, <1>19, <3>1, <3>3, <4>1
    <3>5. CASE Impacted(impact, how, Site(y))
      <4>1. \A r \in refs : Link(c, r) = y => r \in some BY <1>16, <3>5
      <4>2. {r \in refs : Link(c, r) = y} = {r \in some : Link(c, r) = y} BY <1>3, <4>1
      <4>3. Copies(B, y) = Copies(LinkedBag(c, refs), y) BY <1>6, <1>14, <4>2
      <4>4. Copies(K, y) = 0
        <5>1. CASE Site(y) \in {Site(r) : r \in refs} BY <1>10, <3>5, <5>1
        <5>2. CASE y.source \in gone BY <1>10, <5>2
        <5>3. CASE Site(y) \notin {Site(r) : r \in refs} /\ y.source \notin gone
          <6>1. ASSUME NEW r \in TreeRefs(d), Link(c0, r) = y PROVE FALSE BY <1>17, <5>3, <6>1
          <6>2. {r \in TreeRefs(d) : Link(c0, r) = y} = {} BY <6>1
          <6>3. Copies(s.edges, y) = 0 BY <1>15, <1>21, <3>4, <6>2
          <6> QED BY <1>10, <6>3
        <5> QED BY <5>1, <5>2, <5>3
      <4> QED BY <1>20, <2>1, <2>2, <2>3, <3>2, <4>3, <4>4
    <3>6. CASE ~ Impacted(impact, how, Site(y))
      <4>1. \A r \in some : Link(c, r) # y BY <1>16, <3>6
      <4>2. {r \in some : Link(c, r) = y} = {} BY <4>1
      <4>3. Copies(B, y) = 0 BY <1>6, <1>21, <4>2
      <4>4. ASSUME NEW r \in refs, Link(c, r) = y
            PROVE  /\ r \in TreeRefs(d) /\ Link(c0, r) = y /\ y.source \notin gone
                   /\ IsNode(y.target) => y.target \notin gone
        <5>1. Site(r) = Site(y) /\ y.source = r.source BY <1>16, <4>4
        <5>2. ~ Impacted(impact, how, Site(r)) BY <3>6, <5>1
        <5> HIDE DEF c, c0
        <5> QED BY <4>4, <5>1, <5>2 DEF Unmoved, c, c0
      <4>5. CASE y.source \in gone \/ (IsNode(y.target) /\ y.target \in gone)
        <5>1. Copies(K, y) = 0 BY <1>10, <4>5
        <5>2. {r \in refs : Link(c, r) = y} = {} BY <4>4, <4>5
        <5>3. Copies(LinkedBag(c, refs), y) = 0 BY <1>14, <1>21, <5>2
        <5> QED BY <1>20, <2>1, <2>2, <3>2, <4>3, <5>1, <5>3
      <4>6. CASE y.source \notin gone /\ ~ (IsNode(y.target) /\ y.target \in gone)
        <5>1. Copies(K, y) = Copies(s.edges, y) BY <1>10, <2>8, <3>6, <4>6
        <5>2. ASSUME NEW r \in TreeRefs(d), Link(c0, r) = y PROVE r \in refs /\ Link(c, r) = y
          <6>1. Site(r) = Site(y) /\ y.source = r.source BY <1>17, <5>2
          <6>2. r \in refs BY <4>6, <6>1
          <6>3. ~ Impacted(impact, how, Site(r)) BY <3>6, <6>1
          <6> QED BY <5>2, <6>2, <6>3 DEF Unmoved
        <5>3. {r \in refs : Link(c, r) = y} = {r \in TreeRefs(d) : Link(c0, r) = y} BY <4>4, <5>2
        <5>4. Copies(K, y) = Copies(LinkedBag(c, refs), y) BY <1>14, <1>15, <3>4, <5>1, <5>3
        <5> QED BY <1>20, <2>1, <2>2, <2>3, <3>2, <4>3, <5>4
      <4> QED BY <4>5, <4>6
    <3> QED BY <3>5, <3>6
  <2> QED BY <2>6, <2>7, <2>8
<1>31. all = AllEdges(n, U) BY <1>13, <1>29, <1>30, BagsEqual
<1> QED BY <1>31 DEF all, ABP, AB, K, A, B, P

\* An apply of what has changed leaves the state of the tree as it is now, if the references it does
\* not link again would be linked as they are.
LEMMA RereadState ==
    ASSUME NEW s, NEW d, NEW T, NEW e, NEW W, Rereading(d, e, W), StateOK(s), IsStateOf(s, d, T),
           NEW told, FoldVanished(told, TreeOf(e)) = ChangeOf(e, W), NEW how, NEW timing,
           NEW x, x = FrontExtract(s, ChangeOf(e, W), e), NEW n, n = Reread(d, e, W),
           LET impact == Impact(s, W, x.dropped \cup x.extracted.nodes, TreeRefs(n), TreeExports(n), TreeProjects(n))
           IN  Unmoved(d, T, n, TreeOf(e), Ids(x.dropped), impact, how)
    PROVE  IsStateOf(Merge(s, EngineApply(s, how, told, e, timing).delta), n, TreeOf(e))
<1> DEFINE U == TreeOf(e)
           ch == ChangeOf(e, W)
           gone == Ids(x.dropped)
           l == FrontLink(s, x, U)
           h == FrontHeal(s, x, l, ImportScope(l, l.refs))
           refs == h.refs \cup h.healed
           impact == Impact(s, W, x.dropped \cup x.extracted.nodes, TreeRefs(n), TreeExports(n), TreeProjects(n))
           edges == Relinked(s, how, x, h, refs, impact)
           diff == DiffEdges(s.edges (-) edges.carried, edges.emitted)
           result == EngineApply(s, how, told, e, timing)
           t == Merge(s, result.delta)
           c == Linker(n, U)
<1>1. ContentsOK(n) /\ ContentsOK(d) /\ Touched(ch) = W /\ ChangeOK(ch, e) BY RereadOK DEF Rereading
<1>2. /\ l = Unlinked(n, U) /\ x.ws = TreeProjects(n)
      /\ MaintainManifest(s.manifest, x.changes) = TreeOf(n) /\ x.changes = ch
  BY RereadLinked DEF FrontExtract
<1>3. /\ \A m \in TreeNodes(d) : m.id \in gone <=> m.file \in W
      /\ x.surviving = {m \in TreeNodes(d) : m.file \notin W}
  BY Dropped
<1>4. /\ x.surviving \cup x.extracted.nodes = TreeNodes(n)
      /\ {r \in s.refs : r.source \notin gone} \cup x.extracted.refs = TreeRefs(n)
      /\ x.extracted = ExtractChanged(ch, e)
  BY RereadNodes
<1>5. s.refs = TreeRefs(d) BY DEF IsStateOf
<1>6. \A r \in TreeRefs(d) : r.source \notin gone => r \in TreeRefs(n) BY <1>4, <1>5
<1>7. /\ l.refs = TreeRefs(n) /\ l.nodes = TreeNodes(n) /\ l.ws = TreeProjects(n) /\ l.exports = TreeExports(n)
      /\ l.tree = U
  BY <1>2 DEF Unlinked
<1>8. RefsOK(TreeRefs(n), TreeNodes(n)) BY <1>1, TreeOK
<1>9. \A r \in TreeRefs(n) : r.rel \notin {"contains", "depends_on"} /\ ~ IsProject(r.source)
  BY <1>1, <1>8, InTree DEF RefsOK, RefIn
<1>10. Healed(s, TreeRefs(n), gone, ImportScope(l, l.refs)) = {}
  <2> DEFINE q == TreeRefs(n)
             imports == ImportScope(l, l.refs)
  <2>1. /\ IsFiniteSet(q) /\ \A r \in TreeRefs(d) : r.source \notin gone => r \in q
        /\ \A r \in q : r.rel \notin {"contains", "depends_on"} /\ ~ IsProject(r.source)
    BY <1>6, <1>8, <1>9 DEF RefsOK
  <2> HIDE DEF q, imports, gone
  <2>2. Healed(s, q, gone, imports) = {} BY <1>1, <2>1, NothingHealed
  <2> QED BY <2>2 DEF q, imports
<1>11. h = c
  <2> HIDE DEF l, gone
  <2> QED BY <1>2, <1>7, <1>10 DEF FrontHeal, Linker, gone
<1>12. refs = TreeRefs(n) BY <1>11 DEF Linker
<1>13. h.nodes = TreeNodes(n) /\ h.ws = TreeProjects(n) /\ h.exports = TreeExports(n) /\ h.refs = TreeRefs(n)
       /\ h.healed = {}
  BY <1>11 DEF Linker
<1>14. result = Delta(s, x, h, edges, diff, timing)
  <2> DEFINE tree == {f \in DOMAIN e : e[f] # Absent}
             was == Impact(s, Touched(x.changes), x.dropped \cup x.extracted.nodes, refs, h.exports, h.ws)
  <2>1. result = Extracted(s, how, FrontExtract(s, FoldVanished(told, tree), e), tree, timing) BY DEF EngineApply
  <2>2. tree = U BY DEF TreeOf
  <2> HIDE DEF tree, result, U, ch
  <2>3. result = Extracted(s, how, x, U, timing)
    <3>1. FoldVanished(told, tree) = ch BY <2>2 DEF U, ch
    <3>2. x = FrontExtract(s, ch, e) BY DEF ch
    <3> QED BY <2>1, <2>2, <3>1, <3>2
  <2>4. result = Delta(s, x, h, Relinked(s, how, x, h, refs, was),
                       DiffEdges(s.edges (-) Relinked(s, how, x, h, refs, was).carried,
                                 Relinked(s, how, x, h, refs, was).emitted), timing)
    BY <2>3 DEF Extracted, Linked, BackHalf, LinkStage, Emit
  <2>5. was = impact BY <1>1, <1>2, <1>12, <1>13
  <2> HIDE DEF h, refs, impact, was
  <2> QED BY <2>4, <2>5
<1> HIDE DEF result, h, refs, impact, l, t
<1>15. edges.carried = Carried(s, how, TreeRefs(n), impact, gone)
       /\ edges.emitted = SetToBag(EdgesFrom(Coded(e) \cap W, e)) (+) ResolveImpacted(c, how, impact, TreeRefs(n))
                            (+) ProjectEdges(TreeProjects(n), TreeNodes(n))
  <2> DEFINE y == x.extracted
             F == Coded(e) \cap W
  <2>1. y = ExtractChanged(ChangeOf(e, W), e) /\ F = Coded(e) \cap W BY <1>4
  <2> HIDE DEF y, F
  <2>2. y.structural = SetToBag(EdgesFrom(F, e)) BY <2>1, ExtractedIs
  <2> HIDE DEF c
  <2> QED BY <1>11, <1>12, <1>13, <2>2 DEF Relinked, y, F
<1> HIDE DEF edges
<1>16. edges.carried (+) edges.emitted = AllEdges(n, U)
  <2> HIDE DEF gone, c, U
  <2>1. Unmoved(d, T, n, U, gone, impact, how) BY DEF impact, gone, U
  <2> QED BY <1>3, <1>6, <1>15, <2>1, EdgesRelinked DEF c
<1>17. /\ StateOK(t) /\ t.edges = result.edges /\ t.refs = result.refs
  <2>1. ChangeOK(FoldVanished(told, {f \in DOMAIN e : e[f] # Absent}), e)
    <3>1. TreeOf(e) = {f \in DOMAIN e : e[f] # Absent} BY DEF TreeOf
    <3> QED BY <1>1, <3>1
  <2> QED BY <2>1, ApplyOK DEF t, result
<1>18. t.edges = AllEdges(n, U) /\ t.refs = TreeRefs(n)
  BY <1>13, <1>14, <1>16, <1>17 DEF Delta
<1>19. result.delta.nodesAdded = x.extracted.nodes \cup ProjectNodes(TreeProjects(n))
       /\ result.delta.nodesRemoved = Ids(x.dropped \cup x.projects)
       /\ result.delta.exports = TreeExports(n) /\ result.delta.manifest = TreeOf(n)
       /\ result.delta.ws = TreeProjects(n)
  BY <1>2, <1>13, <1>14 DEF Delta, ProjectNodes
<1>20. /\ t.exports = TreeExports(n) /\ t.manifest = TreeOf(n) /\ t.ws = TreeProjects(n)
       /\ t = [nodes |-> t.nodes, edges |-> t.edges, refs |-> t.refs, exports |-> t.exports,
               manifest |-> t.manifest, ws |-> t.ws, assigned |-> t.assigned]
  BY <1>19 DEF t, Merge
<1>21. t.nodes = TreeNodes(n) \cup ProjectNodes(TreeProjects(n))
  <2> DEFINE kept == {m \in s.nodes : m.id \notin result.delta.nodesRemoved}
             new == x.extracted.nodes \cup ProjectNodes(TreeProjects(n))
  <2>1. t.nodes = kept \cup {m \in new : m.id \notin {k.id : k \in kept}} BY <1>19 DEF t, Merge
  <2>2. kept = x.surviving BY <1>19, KeptNodes
  <2>3. ASSUME NEW m \in new, NEW k \in x.surviving PROVE m.id # k.id
    <3>1. k \in TreeNodes(d) /\ k.file \notin W BY <1>3
    <3>2. k.id.file = k.file /\ ~ IsProject(k.id) BY <1>1, <3>1, InTree
    <3>3. CASE m \in x.extracted.nodes
      <4> DEFINE y == x.extracted
                 F == Coded(e) \cap W
      <4>1. y = ExtractChanged(ChangeOf(e, W), e) /\ F = Coded(e) \cap W BY <1>4
      <4> HIDE DEF y, F
      <4>2. y.nodes = NodesFrom(F, e) BY <4>1, ExtractedIs
      <4>3. m \in NodesFrom(F, e) BY <3>3, <4>2 DEF y
      <4>4. PICK f \in F : m \in FileNodes(f, e) BY <4>3, FromFiles
      <4>5. m.id.file = f /\ f \in W BY <4>1, <4>4, InFile DEF Rereading
      <4> QED BY <3>1, <3>2, <4>5
    <3>4. CASE m \in ProjectNodes(TreeProjects(n))
      <4>1. IsProject(m.id) BY <3>4 DEF ProjectNodes, ProjectNode, ProjectId, IsProject
      <4> QED BY <3>2, <4>1
    <3> QED BY <3>3, <3>4
  <2> HIDE DEF kept
  <2>4. {m \in new : m.id \notin {k.id : k \in kept}} = new BY <2>2, <2>3
  <2> QED BY <1>4, <2>1, <2>2, <2>4
<1>22. t = [nodes |-> TreeNodes(n) \cup ProjectNodes(TreeProjects(n)), edges |-> AllEdges(n, U),
            refs |-> TreeRefs(n), exports |-> TreeExports(n), manifest |-> TreeOf(n), ws |-> TreeProjects(n),
            assigned |-> t.assigned]
  BY <1>18, <1>20, <1>21
<1> QED BY <1>22 DEF IsStateOf, t, result

\* A cold build gives the state of the tree.
LEMMA ColdIs ==
    ASSUME NEW e, ContentsOK(e)
    PROVE  IsStateOf(ColdBuild(e), e, TreeOf(e)) /\ StateOK(ColdBuild(e))
<1> DEFINE D == DOMAIN e
           d == [f \in D |-> Absent]
           W == TreeOf(e)
           s == EmptyState
           told == [index |-> {f \in DOMAIN e : e[f] # Absent}, removed |-> {}]
           x == FrontExtract(s, ChangeOf(e, W), e)
           n == Reread(d, e, W)
           impact == Impact(s, W, x.dropped \cup x.extracted.nodes, TreeRefs(n), TreeExports(n), TreeProjects(n))
           how == "global"
           timing == "inline"
           t == Merge(s, EngineApply(s, how, told, e, timing).delta)
<1>1. Rereading(d, e, W) /\ n = e BY ReadAll
<1>2. IsStateOf(s, d, {}) BY EmptyIsState
<1>3. StateOK(s) BY EmptyIsOK
<1>4. FoldVanished(told, W) = ChangeOf(e, W)
  <2>1. told.index = W /\ told.removed = {} BY DEF TreeOf
  <2> QED BY <2>1 DEF FoldVanished, ChangeOf
<1>5. Unmoved(d, {}, n, W, Ids(x.dropped), impact, how)
  <2>1. \A i, t0 : Impacted(i, how, t0) BY DEF Impacted
  <2> HIDE DEF how
  <2> QED BY <2>1 DEF Unmoved
<1>6. ColdBuild(e) = t BY DEF ColdBuild
<1>7. ChangeOK(FoldVanished(told, {f \in DOMAIN e : e[f] # Absent}), e)
  <2>1. W = {f \in DOMAIN e : e[f] # Absent} BY DEF TreeOf
  <2>2. ChangeOK(ChangeOf(e, W), e) BY <1>1, RereadOK
  <2> QED BY <1>4, <2>1, <2>2
<1>8. StateOK(t)
  <2> HIDE DEF s, told, how, timing
  <2> QED BY <1>3, <1>7, ApplyOK
<1>9. IsStateOf(t, n, W)
  <2> HIDE DEF s, told, how, timing, d
  <2> QED BY <1>1, <1>2, <1>3, <1>4, <1>5, RereadState
<1> HIDE DEF t, n, d
<1> QED BY <1>1, <1>6, <1>8, <1>9

\* References that name their definitions directly, and import none.
Plain(d) ==
    \A r \in TreeRefs(d) : Len(r.name) <= 2 /\ ~ (r.rel = "imports" /\ r.spec # NoSpec)

\* Such references bind no name in a file.
LEMMA NoScope ==
    ASSUME NEW d, Plain(d), NEW T
    PROVE  DOMAIN Linker(d, T).scope = {}
<1> DEFINE g == Unlinked(d, T)
           refs == TreeRefs(d)
           bindings == UNION {{<< <<r.source.file, r.name>>, m>> : m \in ImportedDef(g, r)} : r \in refs}
<1>1. \A r \in refs : ImportedDef(g, r) = {} BY DEF Plain, ImportedDef
<1>2. bindings = {}
  <2> HIDE DEF g, refs
  <2> QED BY <1>1
<1>3. Linker(d, T).scope = ImportScope(g, refs) BY DEF Linker
<1>4. ImportScope(g, refs) = AsScope(bindings) BY DEF ImportScope
<1> HIDE DEF bindings, g, refs
<1>5. DOMAIN AsScope(bindings) = {b[1] : b \in bindings} BY DEF AsScope
<1> QED BY <1>2, <1>3, <1>4, <1>5

\* Where a name leads depends on the definitions of that name and on the projects.
LEMMA SameResolve ==
    ASSUME NEW a, NEW b, a.ws = b.ws, DOMAIN a.scope = {}, DOMAIN b.scope = {},
           NEW r, NEW name, NEW cands, NEW any
    PROVE  Resolve(a, r, name, cands, any) = Resolve(b, r, name, cands, any)
<1>1. \A file : SameProject(a, file, cands) = SameProject(b, file, cands) BY DEF SameProject
<1>2. <<r.source.file, name>> \notin DOMAIN a.scope /\ <<r.source.file, name>> \notin DOMAIN b.scope OBVIOUS
<1> QED BY <1>1, <1>2 DEF Resolve

\* So a reference of at most two segments is linked alike where the definitions it can mean are.
LEMMA SameLink ==
    ASSUME NEW a, NEW b, a.ws = b.ws, DOMAIN a.scope = {}, DOMAIN b.scope = {},
           NEW r, DOMAIN r = RefFields, r.name \in Seq(STRING) \ {<<>>}, Len(r.name) <= 2,
           Candidates(a.nodes, r.name) = Candidates(b.nodes, r.name),
           Qualified(a.ws, r.name) => Candidates(a.nodes, Tail(r.name)) = Candidates(b.nodes, Tail(r.name)),
           Candidates(a.nodes, r.returns) = Candidates(b.nodes, r.returns)
    PROVE  Link(a, r) = Link(b, r)
<1>1. ReturnTypeOf(a, r) = ReturnTypeOf(b, r)
  <2>1. SameProject(a, r.source.file, Candidates(a.nodes, r.returns))
          = SameProject(b, r.source.file, Candidates(b.nodes, r.returns))
    BY DEF SameProject
  <2> QED BY <2>1 DEF ReturnTypeOf
<1>2. WithHint(a, r) = WithHint(b, r) BY <1>1 DEF WithHint
<1> DEFINE q == WithHint(a, r)
<1>3. q.name = r.name BY DEF WithHint, Typed, RefFields
<1>4. ~ (Len(Tail(r.name)) > 1) OBVIOUS
<1>5. ResolveRef(a, q) = ResolveRef(b, q)
  <2> HIDE DEF q
  <2>1. \A name, cands, any : Resolve(a, q, name, cands, any) = Resolve(b, q, name, cands, any) BY SameResolve
  <2>2. \A name, crate, any : Candidates(a.nodes, name) = Candidates(b.nodes, name) =>
          ResolveQualified(a, q, name, crate, any) = ResolveQualified(b, q, name, crate, any)
    BY <2>1 DEF ResolveQualified
  <2>3. CASE ~ Qualified(a.ws, r.name) BY <1>3, <2>1, <2>3 DEF ResolveRef
  <2>4. CASE Qualified(a.ws, r.name)
    <3>1. Candidates(a.nodes, Tail(r.name)) = Candidates(b.nodes, Tail(r.name)) BY <2>4
    <3>2. ResolveQualified(a, q, r.name, <<Head(r.name)>>, FALSE) = ResolveQualified(b, q, r.name, <<Head(r.name)>>, FALSE)
      BY <2>2
    <3>3. ResolveQualified(a, q, Tail(r.name), <<Head(r.name)>>, TRUE)
            = ResolveQualified(b, q, Tail(r.name), <<Head(r.name)>>, TRUE)
      BY <2>2, <3>1
    <3>4. Resolve(a, q, r.name, Candidates(a.nodes, r.name), FALSE)
            = Resolve(b, q, r.name, Candidates(b.nodes, r.name), FALSE)
      BY <2>1
    <3> QED BY <1>3, <1>4, <2>4, <3>2, <3>3, <3>4 DEF ResolveRef
  <2> QED BY <2>3, <2>4
<1> QED BY <1>2, <1>5 DEF Link

\* What an apply in scope "scoped" does not link again would be linked as it is.
LEMMA ScopedUnmoved ==
    ASSUME NEW s, NEW d, NEW T, NEW e, NEW W, Rereading(d, e, W), IsStateOf(s, d, T),
           NEW x, x = FrontExtract(s, ChangeOf(e, W), e), NEW n, n = Reread(d, e, W),
           Plain(d), Plain(n), NEW U, NEW how, NEW impact,
           impact = Impact(s, W, x.dropped \cup x.extracted.nodes, TreeRefs(n), TreeExports(n), TreeProjects(n))
    PROVE  Unmoved(d, T, n, U, Ids(x.dropped), impact, how)
<1> DEFINE names == {m.label : m \in Defs(x.dropped \cup x.extracted.nodes)}
           c == Linker(n, U)
           c0 == Linker(d, T)
           cs == [nodes |-> x.surviving, ws |-> TreeProjects(n), scope |-> <<>>]
           dirty(r) == \/ r.name \in names
                       \/ (Qualified(TreeProjects(n), r.name) /\ Tail(r.name) \in names)
                       \/ r.source.file \in W
                       \/ r.returns \in names
<1>1. /\ impact.full <=> (TreeProjects(n) # s.ws \/ \E f \in W : Table(s.exports, f) # Table(TreeExports(n), f))
      /\ impact.sites = {Site(r) : r \in {q \in TreeRefs(n) : dirty(q)}}
  BY DEF Impact
<1>2. s.ws = TreeProjects(d) /\ s.refs = TreeRefs(d) BY DEF IsStateOf
<1>3. /\ x.dropped = {m \in TreeNodes(d) : m.file \in W} /\ x.surviving = {m \in TreeNodes(d) : m.file \notin W}
      /\ \A m \in TreeNodes(d) : m.id \in Ids(x.dropped) <=> m.file \in W
      /\ \A r \in TreeRefs(d) : r.source \in Ids(x.dropped) <=> r.source.file \in W
  BY Dropped
<1>4. /\ TreeNodes(n) = x.surviving \cup x.extracted.nodes
      /\ TreeRefs(n) = {r \in s.refs : r.source \notin Ids(x.dropped)} \cup x.extracted.refs
      /\ x.extracted = ExtractChanged(ChangeOf(e, W), e)
  BY RereadNodes
<1>5. \A r \in x.extracted.refs : r.source.file \in W
  <2> DEFINE y == x.extracted
             F == Coded(e) \cap W
  <2>1. y = ExtractChanged(ChangeOf(e, W), e) /\ F = Coded(e) \cap W BY <1>4
  <2> HIDE DEF y, F
  <2>2. y.refs = RefsFrom(F, e) BY <2>1, ExtractedIs
  <2>3. ASSUME NEW r \in y.refs PROVE r.source.file \in W
    <3>1. PICK f \in F : r \in FileRefs(f, e) BY <2>2, FromFiles
    <3> QED BY <2>1, <3>1, InFile DEF Rereading
  <2> QED BY <2>3 DEF y
<1>6. \A name : name \notin names =>
        /\ Candidates(TreeNodes(n), name) = Candidates(x.surviving, name)
        /\ Candidates(TreeNodes(d), name) = Candidates(x.surviving, name)
  BY <1>3, <1>4 DEF Candidates, Defs
<1>7. /\ DOMAIN c.scope = {} /\ DOMAIN c0.scope = {} BY NoScope
<1>8. /\ c.nodes = TreeNodes(n) /\ c.ws = TreeProjects(n) /\ c0.nodes = TreeNodes(d) /\ c0.ws = TreeProjects(d)
  BY DEF Linker
<1>9. DOMAIN cs.scope = {} /\ cs.nodes = x.surviving /\ cs.ws = TreeProjects(n) OBVIOUS
<1>10. ContentsOK(n) /\ ContentsOK(d) BY RereadOK DEF Rereading
<1>11. ContextOK(cs)
  <2>1. NodesOK(TreeNodes(d)) BY <1>10, TreeOK
  <2> HIDE DEF cs
  <2> QED BY <1>3, <1>9, <2>1 DEF ContextOK, NodesOK
<1>12. RefsOK(TreeRefs(n), TreeNodes(n)) BY <1>10, TreeOK
<1> HIDE DEF c, c0, cs, names
<1>13. ASSUME NEW r \in TreeRefs(n), ~ Impacted(impact, how, Site(r))
       PROVE  /\ r \in TreeRefs(d) /\ r.source \notin Ids(x.dropped)
              /\ Link(c, r) = Link(c0, r)
              /\ IsNode(Link(c, r).target) => Link(c, r).target \notin Ids(x.dropped)
  <2>1. ~ impact.full /\ Site(r) \notin impact.sites BY <1>13 DEF Impacted
  <2>2. ~ dirty(r)
    <3> HIDE DEF dirty
    <3> QED BY <1>1, <2>1
  <2>3. TreeProjects(n) = TreeProjects(d) BY <1>1, <1>2, <2>1
  <2>4. r \in TreeRefs(d) /\ r.source \notin Ids(x.dropped) BY <1>2, <1>4, <1>5, <2>2
  <2>5. /\ DOMAIN r = RefFields /\ r.name \in Seq(STRING) \ {<<>>} /\ Len(r.name) <= 2
    BY <1>10, <1>12, InTree DEF RefsOK, RefIn, Plain
  <2>6. /\ r.name \notin names /\ r.returns \notin names
        /\ Qualified(TreeProjects(n), r.name) => Tail(r.name) \notin names
    BY <2>2
  <2>7. Link(c, r) = Link(cs, r) BY <1>6, <1>7, <1>8, <1>9, <2>5, <2>6, SameLink
  <2>8. Link(c0, r) = Link(cs, r) BY <1>6, <1>7, <1>8, <1>9, <2>3, <2>5, <2>6, SameLink
  <2>9. TargetOK(cs, Link(cs, r).target) BY <1>11, LinkFinds
  <2>10. ASSUME IsNode(Link(c, r).target) PROVE Link(c, r).target \notin Ids(x.dropped)
    <3>1. PICK m \in x.surviving : Link(c, r).target = m.id BY <1>9, <2>7, <2>9, <2>10 DEF TargetOK, Defs
    <3> QED BY <1>3, <3>1
  <2> QED BY <2>4, <2>7, <2>8, <2>10
<1> QED BY <1>13 DEF Unmoved, c, c0

-----------------------------------------------------------------------------
(* The state is always that of some contents of the scenario *)

\* The scenarios for which the theorem speaks: in the scope "scoped", only references that name their
\* definitions directly and import no module.
Direct == scope = "scoped" => ~ Indirect /\ ~ Importing

\* Contents the files of the scenario may have.
OfMenu(d) == d \in [DOMAIN menu -> UNION {menu[f] : f \in DOMAIN menu}] /\ \A f \in DOMAIN menu : d[f] \in menu[f]

\* The state is that of contents which differ from the files at hand in those that are pending.
LastSeen(d, T) ==
    /\ OfMenu(d) /\ \A f \in DOMAIN menu \ pending : d[f] = disk[f]
    /\ IsStateOf(st, d, T)
    /\ pending = {} => T = Tree

FollowsTree ==
    /\ OfMenu(disk) /\ scope \in {"global", "scoped"}
    /\ OneManifestEach /\ Direct /\ "torn" \notin faults => \E d, T : LastSeen(d, T)

\* Contents of a scenario with one manifest in a directory.
LEMMA OfMenuOK ==
    ASSUME menu \in Menus, OfMenu(disk), OneManifestEach, NEW d, OfMenu(d)
    PROVE  ContentsOK(d) /\ DOMAIN d = DOMAIN menu
<1>1. DOMAIN d = DOMAIN menu /\ d = [f \in DOMAIN d |-> d[f]] /\ DOMAIN disk = DOMAIN menu BY DEF OfMenu
<1>2. IsFiniteSet(DOMAIN menu) /\ NoPath \notin DOMAIN menu /\ DOMAIN menu \subseteq Known
  BY MenuAssumption DEF MenuAssumption, Known
<1>3. \A f \in DOMAIN d : IsContent(d[f]) BY <1>1, MenuAssumption DEF MenuAssumption, OfMenu
<1>4. \A f, g \in DOMAIN d : IsManifest(f) /\ IsManifest(g) /\ DirOf(f) = DirOf(g) => f = g
  BY <1>1 DEF OneManifestEach, Files
<1> QED BY <1>1, <1>2, <1>3, <1>4 DEF ContentsOK

\* The references of such contents are those of the scenario.
LEMMA OfMenuPlain ==
    ASSUME menu \in Menus, OfMenu(disk), OneManifestEach, NEW d, OfMenu(d), ~ Indirect, ~ Importing
    PROVE  Plain(d)
<1>1. ContentsOK(d) /\ DOMAIN d = DOMAIN menu /\ Files = DOMAIN menu BY OfMenuOK DEF Files, OfMenu
<1>2. ASSUME NEW r \in TreeRefs(d) PROVE Len(r.name) <= 2 /\ ~ (r.rel = "imports" /\ r.spec # NoSpec)
  <2>1. PICK f \in Coded(d) : r \in FileRefs(f, d) BY FromFiles DEF TreeRefs
  <2>2. PICK q \in d[f].refs : r = RefOf(f, q) BY <2>1 DEF FileRefs
  <2>3. f \in DOMAIN menu /\ d[f] \in menu[f] BY <1>1 DEF Coded, TreeOf, OfMenu
  <2>4. IsContent(d[f]) BY <2>3, MenuAssumption DEF MenuAssumption
  <2>5. DOMAIN q = RefFields /\ q.name \in Seq(STRING) BY <2>2, <2>4 DEF IsContent
  <2>6. r.name = q.name /\ r.rel = q.rel /\ r.spec = q.spec BY <2>2, <2>5 DEF RefOf, RefFields
  <2>7. ~ (q.rel = "imports" /\ q.spec # NoSpec) BY <1>1, <2>2, <2>3 DEF Importing, AnyRef
  <2>8. ~ (q.imported \notin {NoPath, q.name} \/ Len(q.name) > 2) BY <1>1, <2>2, <2>3 DEF Indirect, AnyRef
  <2>9. Len(q.name) <= 2 BY <2>5, <2>8
  <2> QED BY <2>6, <2>7, <2>9
<1> QED BY <1>2 DEF Plain

\* The first state is that of the contents it was built from.
LEMMA InitFollows == Init => FollowsTree
<1> SUFFICES ASSUME Init PROVE FollowsTree OBVIOUS
<1>1. OfMenu(disk) /\ menu \in Menus /\ st = ColdBuild(disk) /\ scope \in {"global", "scoped"} BY DEF Init, OfMenu
<1>2. ASSUME OneManifestEach PROVE LastSeen(disk, Tree)
  <2> DEFINE e == disk
  <2>1. ContentsOK(e) BY <1>1, <1>2, OfMenuOK
  <2>2. st = ColdBuild(e) BY <1>1
  <2>3. TreeOf(e) = Tree BY DEF TreeOf, Tree, Files
  <2> HIDE DEF e
  <2>4. IsStateOf(st, e, Tree) BY <2>1, <2>2, <2>3, ColdIs
  <2> QED BY <1>1, <2>4 DEF LastSeen, e
<1> QED BY <1>1, <1>2 DEF FollowsTree

\* An apply of some of the pending files.
LEMMA ApplyFollows ==
    ASSUME InOrder, FollowsTree, NEW told \in SUBSET pending \ {{}}, Apply(told)
    PROVE  FollowsTree'
<1>1. PICK removed \in SUBSET (told \ Tree), timing \in {"inline", "deferred"} :
        st' = Merge(st, EngineApply(st, scope, [index |-> told \ removed, removed |-> removed], disk, timing).delta)
  BY DEF Apply
<1>2. UNCHANGED <<menu, scope, disk>> /\ pending' = pending \ told /\ faults \subseteq faults' BY DEF Apply
<1>3. PICK e : e = disk OBVIOUS
<1>4. PICK s : s = st OBVIOUS
<1>5. PICK how : how = scope OBVIOUS
<1> DEFINE ch == [index |-> told \ removed, removed |-> removed]
           t == Merge(s, EngineApply(s, how, ch, e, timing).delta)
<1>6. OfMenu(disk)' /\ OfMenu(e) /\ scope' \in {"global", "scoped"} BY <1>2, <1>3 DEF OfMenu, FollowsTree
<1>7. TreeOf(e) = Tree /\ Tree' = Tree BY <1>2, <1>3 DEF TreeOf, Tree, Files
<1>8. FoldVanished(ch, TreeOf(e)) = ChangeOf(e, told)
  <2>1. removed \cap TreeOf(e) = {} /\ removed \subseteq told BY <1>7
  <2> QED BY <2>1 DEF FoldVanished, ChangeOf
<1>9. ASSUME OneManifestEach', Direct', "torn" \notin faults' PROVE \E d, T : LastSeen(d, T)'
  <2>1. OneManifestEach /\ Direct /\ "torn" \notin faults
    BY <1>2, <1>9 DEF OneManifestEach, Direct, Indirect, Importing, AnyRef, AnyExport, Files
  <2>2. PICK d, T : LastSeen(d, T) BY <2>1 DEF FollowsTree
  <2>3. menu \in Menus /\ pending \subseteq DOMAIN menu /\ StateOK(s) BY <1>4 DEF InOrder
  <2>4. OfMenu(disk) /\ OfMenu(d) /\ IsStateOf(s, d, T) BY <1>4, <2>2 DEF FollowsTree, LastSeen
  <2>5. ContentsOK(d) /\ ContentsOK(e) /\ DOMAIN d = DOMAIN menu /\ DOMAIN e = DOMAIN menu
    BY <1>6, <2>1, <2>3, <2>4, OfMenuOK
  <2>6. told \subseteq DOMAIN d BY <2>3, <2>5
  <2>7. Rereading(d, e, told) BY <2>5, <2>6 DEF Rereading
  <2> DEFINE n == Reread(d, e, told)
             U == TreeOf(e)
             x == FrontExtract(s, ChangeOf(e, told), e)
             impact == Impact(s, told, x.dropped \cup x.extracted.nodes, TreeRefs(n), TreeExports(n), TreeProjects(n))
  <2>8. DOMAIN n = DOMAIN menu /\ \A f \in DOMAIN menu : n[f] = IF f \in told THEN disk[f] ELSE d[f]
    BY <1>3, <2>5 DEF Reread
  <2>9. OfMenu(n)
    <3>1. n = [f \in DOMAIN menu |-> n[f]] BY <2>5 DEF Reread
    <3>2. \A f \in DOMAIN menu : n[f] \in menu[f] BY <2>4, <2>8 DEF OfMenu
    <3> HIDE DEF n
    <3> QED BY <3>1, <3>2 DEF OfMenu
  <2>10. Unmoved(d, T, n, U, Ids(x.dropped), impact, how)
    <3>1. CASE how = "global"
      <4>1. \A i, y : Impacted(i, how, y) BY <3>1 DEF Impacted
      <4> QED BY <4>1 DEF Unmoved
    <3>2. CASE how # "global"
      <4>1. how = "scoped" \/ how = "global" BY <1>5 DEF FollowsTree
      <4>2. ~ Indirect /\ ~ Importing BY <1>5, <2>1, <3>2, <4>1 DEF Direct
      <4> HIDE DEF n
      <4>3. Plain(d) /\ Plain(n) BY <2>1, <2>3, <2>4, <2>9, <4>2, OfMenuPlain
      <4> HIDE DEF x, impact, U
      <4>4. n = Reread(d, e, told) /\ x = FrontExtract(s, ChangeOf(e, told), e) BY DEF n, x
      <4>5. impact = Impact(s, told, x.dropped \cup x.extracted.nodes, TreeRefs(n), TreeExports(n), TreeProjects(n))
        BY DEF impact
      <4> QED BY <2>4, <2>7, <4>3, <4>4, <4>5, ScopedUnmoved
    <3> QED BY <3>1, <3>2
  <2>11. IsStateOf(t, n, U)
    <3> HIDE DEF ch
    <3> QED BY <1>8, <2>3, <2>4, <2>7, <2>10, RereadState
  <2>12. st' = t BY <1>1, <1>3, <1>4, <1>5
  <2>13. \A f \in DOMAIN menu \ pending' : n[f] = disk'[f]
    <3>1. \A f \in DOMAIN menu \ pending : d[f] = disk[f] BY <2>2 DEF LastSeen
    <3> QED BY <1>2, <2>8, <3>1
  <2> HIDE DEF n, t
  <2>14. LastSeen(n, U)' BY <1>2, <1>7, <2>9, <2>11, <2>12, <2>13 DEF LastSeen, OfMenu
  <2> QED BY <2>14
<1> QED BY <1>6, <1>9 DEF FollowsTree

\* Every step keeps the state one of contents that differ from the files only where they are pending.
LEMMA StepFollows == InOrder /\ FollowsTree /\ [Next]_vars => FollowsTree'
<1> SUFFICES ASSUME InOrder, FollowsTree, [Next]_vars PROVE FollowsTree' OBVIOUS
<1>1. ASSUME NEW f \in Files, Edit(f) PROVE FollowsTree'
  <2>1. PICK content \in menu[f] \ {disk[f]} : disk' = [disk EXCEPT ![f] = content] BY <1>1 DEF Edit
  <2>2. UNCHANGED <<menu, scope, st, faults>> /\ pending' = pending \cup {f} BY <1>1 DEF Edit
  <2>3. DOMAIN disk = DOMAIN menu /\ f \in DOMAIN menu /\ DOMAIN disk' = DOMAIN menu
    BY <2>1 DEF FollowsTree, OfMenu, Files
  <2>4. OfMenu(disk)' /\ scope' \in {"global", "scoped"} BY <2>1, <2>2, <2>3 DEF FollowsTree, OfMenu
  <2>5. ASSUME OneManifestEach', Direct', "torn" \notin faults' PROVE \E d, T : LastSeen(d, T)'
    <3>1. OneManifestEach /\ Direct /\ "torn" \notin faults
      BY <2>2, <2>3, <2>5 DEF OneManifestEach, Direct, Indirect, Importing, AnyRef, AnyExport, Files
    <3>2. PICK d, T : LastSeen(d, T) BY <3>1 DEF FollowsTree
    <3>3. OfMenu(d) /\ IsStateOf(st, d, T) /\ \A g \in DOMAIN menu \ pending : d[g] = disk[g]
      BY <3>2 DEF LastSeen
    <3>4. \A g \in DOMAIN menu \ pending' : d[g] = disk'[g] BY <2>1, <2>2, <2>3, <3>3
    <3>5. pending' # {} BY <2>2
    <3>6. LastSeen(d, T)' BY <2>2, <3>3, <3>4, <3>5 DEF LastSeen, OfMenu
    <3> QED BY <3>6
  <2> QED BY <2>4, <2>5 DEF FollowsTree
<1>2. ASSUME NEW told \in SUBSET pending \ {{}}, Apply(told) PROVE FollowsTree' BY <1>2, ApplyFollows
<1>3. ASSUME Recluster PROVE FollowsTree'
  <2>1. /\ st' = [st EXCEPT !.assigned = {n.id : n \in {m \in st.nodes : m.kind # "project"}}]
        /\ UNCHANGED <<menu, scope, disk, pending, faults>>
    BY <1>3 DEF Recluster
  <2>2. \A d, T : IsStateOf(st, d, T) => IsStateOf(st', d, T)
    <3> DEFINE A == {n.id : n \in {m \in st.nodes : m.kind # "project"}}
    <3>1. st' = [st EXCEPT !.assigned = A] BY <2>1
    <3> HIDE DEF A
    <3> QED BY <3>1 DEF IsStateOf
  <2>3. \A d, T : LastSeen(d, T) => LastSeen(d, T)' BY <2>1, <2>2 DEF LastSeen, OfMenu, Tree, Files
  <2> QED BY <2>1, <2>3
    DEF FollowsTree, OfMenu, OneManifestEach, Direct, Indirect, Importing, AnyRef, AnyExport, Files
<1>4. ASSUME Tear PROVE FollowsTree'
  <2>1. "torn" \in faults' /\ UNCHANGED <<menu, scope, disk>> BY <1>4 DEF Tear
  <2> QED BY <2>1 DEF FollowsTree, OfMenu
<1>5. ASSUME UNCHANGED vars PROVE FollowsTree'
  <2>1. UNCHANGED <<menu, scope, disk, pending, st, faults>> BY <1>5 DEF vars
  <2>2. \A d, T : LastSeen(d, T) => LastSeen(d, T)' BY <2>1 DEF LastSeen, OfMenu, Tree, Files, IsStateOf
  <2> QED BY <2>1, <2>2
    DEF FollowsTree, OfMenu, OneManifestEach, Direct, Indirect, Importing, AnyRef, AnyExport, Files
<1> QED BY <1>1, <1>2, <1>3, <1>4, <1>5 DEF Next

\* So the state always is.
LEMMA AlwaysFollows == Spec => [](InOrder /\ FollowsTree)
BY InitInOrder, InitFollows, StepInOrder, StepFollows, PTL DEF Spec

\* Once every edit has been applied, in whatever portions and order, the state is that of a cold build of
\* the tree: in scope "global" for every scenario, in scope "scoped" for those without imports.
THEOREM AppliesAreCold == Spec => []((scope = "scoped" => ~ Importing) => IncrementalIsCold)
<1>1. ASSUME InOrder, FollowsTree, scope = "scoped" => ~ Importing PROVE IncrementalIsCold
  <2> SUFFICES ASSUME Settled, OneManifestEach, scope = "scoped" => ~ Indirect
               PROVE  Facts(st) = Facts(ColdBuild(disk))
    BY DEF IncrementalIsCold
  <2>1. pending = {} /\ "torn" \notin faults /\ Direct BY <1>1 DEF Settled, Direct
  <2>2. PICK d, T : LastSeen(d, T) BY <1>1, <2>1 DEF FollowsTree
  <2>3. OfMenu(d) /\ OfMenu(disk) /\ T = Tree /\ IsStateOf(st, d, T) /\ \A f \in DOMAIN menu : d[f] = disk[f]
    BY <1>1, <2>1, <2>2 DEF LastSeen, FollowsTree
  <2>4. d = disk BY <2>3 DEF OfMenu
  <2>5. ContentsOK(d) BY <1>1, <2>3, OfMenuOK DEF InOrder
  <2>6. Tree = TreeOf(d) BY <2>4 DEF Tree, Files, TreeOf
  <2> DEFINE c == ColdBuild(d)
  <2>7. IsStateOf(c, d, TreeOf(d)) /\ IsStateOf(st, d, TreeOf(d)) BY <2>3, <2>5, <2>6, ColdIs
  <2> HIDE DEF c
  <2>8. Facts(st) = Facts(c) BY <2>7 DEF IsStateOf, Facts
  <2> QED BY <2>4, <2>8 DEF c
<1>2. InOrder /\ FollowsTree => ((scope = "scoped" => ~ Importing) => IncrementalIsCold) BY <1>1
<1> QED BY <1>2, AlwaysFollows, PTL
=============================================================================
