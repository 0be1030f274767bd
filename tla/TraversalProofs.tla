-------------------------- MODULE TraversalProofs --------------------------
(***************************************************************************)
(* Theorems about module Traversal, for every graph, list of seeds, depth  *)
(* and budget.                                                             *)
(***************************************************************************)
EXTENDS Traversal, FiniteSetTheorems, SequenceTheorems, WellFoundedInduction,
        TLAPS

-----------------------------------------------------------------------------
(* Induction and the distance from the seeds *)

\* Induction over the naturals, with a set in the place of the predicate.
LEMMA SetInduction ==
    ASSUME NEW S, 0 \in S, \A n \in Nat : n \in S => n + 1 \in S
    PROVE  Nat \subseteq S
<1> SUFFICES ASSUME Nat \ S # {} PROVE FALSE OBVIOUS
<1> DEFINE I == Nat \ S
<1>1. PICK i \in I : \A j \in I : ~ (<<j, i>> \in OpToRel(<, Nat))
  BY NatLessThanWellFounded, WFMin, Zenon
<1>2. \A j \in I : ~ (j < i) BY <1>1 DEF OpToRel
<1>3. i \in Nat /\ i # 0 BY <1>1
<1>4. i - 1 \in Nat /\ i - 1 < i /\ (i - 1) + 1 = i BY <1>3
<1>5. i - 1 \in S BY <1>2, <1>4
<1> QED BY <1>1, <1>4, <1>5

\* What is one hop from a set of nodes.
Hop(near) == {graph[i][2] : i \in {j \in DOMAIN graph : graph[j][1] \in near}}

\* Ball is the function its recursive definition describes: there is one, for
\* every depth.
LEMMA BallUnfolds ==
    ASSUME depth \in Nat
    PROVE  Ball = [k \in 0 .. depth |->
                      IF k = 0 THEN ToSet(seeds) ELSE Ball[k - 1] \cup Hop(Ball[k - 1])]
<1> DEFINE Upto(g, n) == g = [k \in 0 .. n |->
                      IF k = 0 THEN ToSet(seeds) ELSE g[k - 1] \cup Hop(g[k - 1])]
           S == {n \in Nat : \E g : Upto(g, n)}
<1>1. 0 \in S
  <2> DEFINE g == [k \in 0 .. 0 |-> ToSet(seeds)]
  <2>1. Upto(g, 0) OBVIOUS
  <2> QED BY <2>1
<1>2. ASSUME NEW n \in Nat, n \in S PROVE n + 1 \in S
  <2>1. PICK g : Upto(g, n) BY <1>2
  <2> DEFINE h == [k \in 0 .. n + 1 |-> IF k <= n THEN g[k] ELSE g[n] \cup Hop(g[n])]
  <2>2. ASSUME NEW k \in 0 .. n + 1
        PROVE  h[k] = IF k = 0 THEN ToSet(seeds) ELSE h[k - 1] \cup Hop(h[k - 1])
    <3>1. CASE k = 0
      <4>1. 0 \in 0 .. n /\ 0 \in 0 .. n + 1 OBVIOUS
      <4>2. h[0] = g[0] BY <4>1
      <4> QED BY <3>1, <4>1, <4>2, <2>1
    <3>2. CASE k \in 1 .. n
      <4>1. h[k] = g[k] /\ h[k - 1] = g[k - 1] /\ k \in 0 .. n /\ k # 0 BY <3>2
      <4> HIDE DEF h
      <4> QED BY <4>1, <2>1
    <3>3. CASE k = n + 1
      <4>1. h[k] = g[n] \cup Hop(g[n]) /\ h[k - 1] = g[n] /\ k # 0 BY <3>3
      <4> HIDE DEF h
      <4> QED BY <4>1
    <3> QED BY <3>1, <3>2, <3>3
  <2>3. Upto(h, n + 1)
    <3>1. h = [k \in 0 .. n + 1 |-> h[k]] OBVIOUS
    <3> HIDE DEF h
    <3> QED BY <2>2, <3>1
  <2> HIDE DEF h
  <2>4. \E f : Upto(f, n + 1) BY <2>3
  <2> QED BY <2>4
<1>3. depth \in S
  <2> HIDE DEF S
  <2> QED BY <1>1, <1>2, SetInduction
<1>4. \E f : Upto(f, depth) BY <1>3
<1>5. Ball = CHOOSE f : Upto(f, depth) BY DEF Ball, Hop
<1> QED BY <1>4, <1>5

\* The query does not change while it runs, and so the distances do not.
LEMMA BallStays ==
    ASSUME UNCHANGED queryVars
    PROVE  Ball' = Ball
BY DEF queryVars, Ball, ToSet

\* What is near, and what is one hop further.
LEMMA BallSteps ==
    ASSUME depth \in Nat
    PROVE  /\ Ball[0] = ToSet(seeds)
           /\ \A k \in 0 .. depth : k # depth => Ball[k + 1] = Ball[k] \cup Hop(Ball[k])
<1>1. 0 \in 0 .. depth OBVIOUS
<1>2. Ball[0] = ToSet(seeds) BY <1>1, BallUnfolds
<1>3. ASSUME NEW k \in 0 .. depth, k # depth
      PROVE  Ball[k + 1] = Ball[k] \cup Hop(Ball[k])
  <2>1. k + 1 \in 0 .. depth /\ k + 1 # 0 /\ (k + 1) - 1 = k BY <1>3
  <2> QED BY <2>1, BallUnfolds
<1> QED BY <1>2, <1>3

\* The further one looks the more there is.
LEMMA BallGrows ==
    ASSUME depth \in Nat, NEW j \in 0 .. depth, NEW k \in 0 .. depth, j <= k
    PROVE  Ball[j] \subseteq Ball[k]
<1> DEFINE S == {n \in Nat : j + n <= depth => Ball[j] \subseteq Ball[j + n]}
<1>1. 0 \in S OBVIOUS
<1>2. ASSUME NEW n \in Nat, n \in S PROVE n + 1 \in S
  <2> SUFFICES ASSUME j + (n + 1) <= depth PROVE Ball[j] \subseteq Ball[j + (n + 1)]
    OBVIOUS
  <2>1. j + n \in 0 .. depth /\ j + n # depth /\ (j + n) + 1 = j + (n + 1) OBVIOUS
  <2>2. Ball[j] \subseteq Ball[j + n] BY <1>2, <2>1
  <2>3. Ball[j + n] \subseteq Ball[j + (n + 1)] BY <2>1, BallSteps
  <2> QED BY <2>2, <2>3
<1>3. k - j \in S
  <2> HIDE DEF S
  <2>1. k - j \in Nat OBVIOUS
  <2> QED BY <1>1, <1>2, <2>1, SetInduction
<1>4. j + (k - j) = k OBVIOUS
<1> QED BY <1>3, <1>4

-----------------------------------------------------------------------------
(* Sequences as sets, and the edges of a node *)

\* The elements of a sequence with one more.
LEMMA ToSetAppend ==
    ASSUME NEW S, NEW s \in Seq(S), NEW e \in S
    PROVE  ToSet(Append(s, e)) = ToSet(s) \cup {e}
<1>1. /\ Append(s, e) \in Seq(S) /\ Len(Append(s, e)) = Len(s) + 1 /\ Len(s) \in Nat
      /\ \A i \in 1 .. Len(s) : Append(s, e)[i] = s[i]
      /\ Append(s, e)[Len(s) + 1] = e
  BY AppendProperties, LenProperties
<1>2. DOMAIN Append(s, e) = 1 .. Len(s) + 1 /\ DOMAIN s = 1 .. Len(s)
  BY <1>1, LenProperties
<1>3. \A i \in 1 .. Len(s) + 1 : i \in 1 .. Len(s) \/ i = Len(s) + 1 BY <1>1
<1>4. 1 .. Len(s) \subseteq 1 .. Len(s) + 1 /\ Len(s) + 1 \in 1 .. Len(s) + 1 BY <1>1
<1> QED BY <1>1, <1>2, <1>3, <1>4 DEF ToSet

\* The elements of two sequences in a row.
LEMMA ToSetConcat ==
    ASSUME NEW S, NEW s \in Seq(S), NEW t \in Seq(S)
    PROVE  ToSet(s \o t) = ToSet(s) \cup ToSet(t)
<1> DEFINE u == s \o t
           m == Len(s)
           n == Len(t)
<1>1. /\ u \in Seq(S) /\ Len(u) = m + n /\ m \in Nat /\ n \in Nat
      /\ \A i \in 1 .. m + n : u[i] = IF i <= m THEN s[i] ELSE t[i - m]
  BY ConcatProperties, LenProperties
<1>2. DOMAIN u = 1 .. m + n /\ DOMAIN s = 1 .. m /\ DOMAIN t = 1 .. n
  BY <1>1, LenProperties
<1> HIDE DEF u, m, n
<1>3. ASSUME NEW x \in ToSet(u) PROVE x \in ToSet(s) \cup ToSet(t)
  <2>1. PICK i \in 1 .. m + n : x = u[i] BY <1>2 DEF ToSet
  <2>2. CASE i <= m
    <3>1. i \in DOMAIN s /\ x = s[i] BY <1>1, <1>2, <2>1, <2>2
    <3> QED BY <3>1 DEF ToSet
  <2>3. CASE ~ (i <= m)
    <3>1. i - m \in DOMAIN t /\ x = t[i - m] BY <1>1, <1>2, <2>1, <2>3
    <3> QED BY <3>1 DEF ToSet
  <2> QED BY <2>2, <2>3
<1>4. ASSUME NEW x \in ToSet(s) PROVE x \in ToSet(u)
  <2>1. PICK i \in 1 .. m : x = s[i] BY <1>2 DEF ToSet
  <2>2. i \in DOMAIN u /\ u[i] = x BY <1>1, <1>2, <2>1
  <2> QED BY <2>2 DEF ToSet
<1>5. ASSUME NEW x \in ToSet(t) PROVE x \in ToSet(u)
  <2>1. PICK i \in 1 .. n : x = t[i] BY <1>2 DEF ToSet
  <2>2. i + m \in DOMAIN u /\ u[i + m] = x BY <1>1, <1>2, <2>1
  <2> QED BY <2>2 DEF ToSet
<1> QED BY <1>3, <1>4, <1>5 DEF u

\* Every edge of n is handed out, at the place that counts the later ones.
LEMMA OutEdgeIs ==
    ASSUME graph \in Seq(Symbols \X Symbols), NEW n
    PROVE  LET E == EdgesFrom(n) IN
           /\ IsFiniteSet(E) /\ Cardinality(E) \in Nat
           /\ \A k \in 1 .. Cardinality(E) : OutEdge(n, k) \in E
           /\ \A i \in E : \E k \in 1 .. Cardinality(E) : OutEdge(n, k) = i
<1> DEFINE E == EdgesFrom(n)
           m == Cardinality(E)
           Later(i) == {j \in E : j >= i}
           r == [i \in E |-> Cardinality(Later(i))]
<1>1. Len(graph) \in Nat /\ DOMAIN graph = 1 .. Len(graph) BY LenProperties
<1>2. E \subseteq 1 .. Len(graph) BY <1>1 DEF EdgesFrom
<1> HIDE DEF E
<1>3. IsFiniteSet(E) /\ m \in Nat
  <2>1. IsFiniteSet(1 .. Len(graph)) BY <1>1, FS_Interval
  <2>2. IsFiniteSet(E) BY <1>2, <2>1, FS_Subset
  <2> QED BY <2>2, FS_CardinalityType
<1>4. ASSUME NEW i \in E
      PROVE  /\ IsFiniteSet(Later(i)) /\ Cardinality(Later(i)) \in 1 .. m
  <2>1. Later(i) \subseteq E /\ i \in Later(i) BY <1>1, <1>2
  <2>2. IsFiniteSet(Later(i)) /\ Cardinality(Later(i)) <= m BY <1>3, <2>1, FS_Subset
  <2>3. Cardinality(Later(i)) \in Nat BY <2>2, FS_CardinalityType
  <2>4. Cardinality(Later(i)) # 0 BY <2>1, <2>2, FS_EmptySet
  <2> QED BY <1>3, <2>2, <2>3, <2>4
<1>5. ASSUME NEW i \in E, NEW j \in E, i < j
      PROVE  Cardinality(Later(i)) # Cardinality(Later(j))
  <2>0. i \in Nat /\ j \in Nat BY <1>1, <1>2
  <2>1. \A x \in Later(j) : x \in Nat /\ x >= i BY <1>1, <1>2, <1>5, <2>0
  <2>2. Later(j) \subseteq Later(i) BY <2>1
  <2>3. i \in Later(i) /\ i \notin Later(j) BY <1>5, <2>0
  <2>4. Later(j) # Later(i) BY <2>3
  <2>5. IsFiniteSet(Later(i)) BY <1>4
  <2> HIDE DEF Later
  <2> QED BY <2>2, <2>4, <2>5, FS_Subset
<1>6. \A i, j \in E : r[i] = r[j] => i = j
  <2>1. SUFFICES ASSUME NEW i \in E, NEW j \in E, i # j PROVE r[i] # r[j] OBVIOUS
  <2>2. i < j \/ j < i BY <1>1, <1>2, <2>1
  <2> QED BY <1>5, <2>2
<1>7. r \in [E -> 1 .. m] BY <1>4
<1> HIDE DEF r
<1>8. ASSUME NEW k \in 1 .. m PROVE \E i \in E : r[i] = k
  <2> SUFFICES ASSUME \A i \in E : r[i] # k PROVE FALSE OBVIOUS
  <2> DEFINE T == (1 .. m) \ {k}
  <2>1. r \in [E -> T] BY <1>7
  <2>2. IsFiniteSet(1 .. m) /\ Cardinality(1 .. m) = m BY <1>3, FS_Interval
  <2>3. IsFiniteSet(T) /\ Cardinality(T) = m - 1 BY <2>2, FS_RemoveElement
  <2>4. Cardinality(T) < Cardinality(E) BY <1>3, <2>3
  <2> HIDE DEF T
  <2>5. \E x, y \in E : x # y /\ r[x] = r[y] BY <1>3, <2>1, <2>3, <2>4, FS_PigeonHole
  <2> QED BY <1>6, <2>5
<1>9. \A k \in 1 .. m : OutEdge(n, k) \in E /\ r[OutEdge(n, k)] = k
  <2> SUFFICES ASSUME NEW k \in 1 .. m
               PROVE  OutEdge(n, k) \in E /\ r[OutEdge(n, k)] = k
    OBVIOUS
  <2>1. \E i \in E : Cardinality({j \in E : j >= i}) = k BY <1>8 DEF r
  <2>2. OutEdge(n, k) = CHOOSE i \in E : Cardinality({j \in E : j >= i}) = k
    BY DEF OutEdge, E
  <2>3. OutEdge(n, k) \in E /\ Cardinality({j \in E : j >= OutEdge(n, k)}) = k
    BY <2>1, <2>2
  <2> QED BY <2>3 DEF r
<1>10. ASSUME NEW i \in E PROVE \E k \in 1 .. m : OutEdge(n, k) = i
  <2>1. r[i] \in 1 .. m BY <1>7
  <2> QED BY <1>6, <1>9, <2>1
<1> QED BY <1>3, <1>9, <1>10 DEF E

\* edges_directed hands out all edges of a node, and each once.
LEMMA EdgesOutIs ==
    ASSUME graph \in Seq(Symbols \X Symbols), NEW n
    PROVE  /\ EdgesOut(n) \in Seq(Symbols \X Symbols)
           /\ Len(EdgesOut(n)) = Cardinality(EdgesFrom(n))
           /\ ToSet(EdgesOut(n)) = {e \in ToSet(graph) : e[1] = n}
<1> DEFINE E == EdgesFrom(n)
           m == Cardinality(E)
<1>1. /\ m \in Nat
      /\ \A k \in 1 .. m : OutEdge(n, k) \in E
      /\ \A i \in E : \E k \in 1 .. m : OutEdge(n, k) = i
  BY OutEdgeIs
<1>2. /\ E = {i \in DOMAIN graph : graph[i][1] = n}
      /\ \A i \in E : graph[i] \in Symbols \X Symbols
  BY LenProperties, ElementOfSeq DEF EdgesFrom
<1>3. EdgesOut(n) = [k \in 1 .. m |-> graph[OutEdge(n, k)]] BY DEF EdgesOut
<1> HIDE DEF E, m
<1>4. \A k \in 1 .. m : graph[OutEdge(n, k)] \in Symbols \X Symbols BY <1>1, <1>2
<1>5. EdgesOut(n) \in Seq(Symbols \X Symbols) /\ Len(EdgesOut(n)) = m
  BY <1>1, <1>3, <1>4
<1>6. ToSet(EdgesOut(n)) = {graph[OutEdge(n, k)] : k \in 1 .. m} BY <1>3 DEF ToSet
<1>7. ToSet(EdgesOut(n)) = {graph[i] : i \in E} BY <1>1, <1>6
<1>8. {graph[i] : i \in E} = {e \in ToSet(graph) : e[1] = n} BY <1>2 DEF ToSet
<1> QED BY <1>5, <1>7, <1>8 DEF m, E

-----------------------------------------------------------------------------
(* The invariants of a walk *)

\* A symbol is in the answer, or waits on the queue.
Reached(s) == s \in ToSet(visited) \/ \E x \in ToSet(queue) : x[1] = s

\* Where the edges of a set of nodes are.
EdgesOf(S) == {i \in DOMAIN graph : graph[i][1] \in S}

\* What the state of a walk is made of.
WalkType ==
    /\ graph \in Seq(Symbols \X Symbols) /\ seeds \in Seq(Symbols)
    /\ mode \in {"bfs", "dfs"} /\ depth \in Nat /\ budget \in Nat
    /\ visited \in Seq(Symbols) /\ found \in Seq(Symbols \X Symbols)
    /\ queue \in Seq(Symbols \X (0 .. depth))

\* No node is visited twice or beyond the budget, and what waits is as near
\* as its depth says, which is never more than what has been visited.
WalkInv ==
    /\ IsInjective(visited) /\ Len(visited) <= budget
    /\ IsFiniteSet(ToSet(visited)) /\ Cardinality(ToSet(visited)) = Len(visited)
    /\ ToSet(visited) \subseteq Ball[depth]
    /\ \A x \in ToSet(queue) : x[1] \in Ball[x[2]] /\ x[2] <= Len(visited)

\* The edges found are edges of what was visited above the last level, no
\* more than those have, and all of them when the depth cannot matter.
FoundInv ==
    /\ ToSet(found) \subseteq ToSet(graph)
    /\ \A e \in ToSet(found) : e[1] \in ToSet(visited) /\ depth > 0 /\ e[1] \in Ball[depth - 1]
    /\ Len(found) <= Cardinality(EdgesOf(ToSet(visited)))
    /\ depth >= Cardinality(Symbols) =>
          \A e \in ToSet(graph) : e[1] \in ToSet(visited) => e \in ToSet(found)

\* With budget to spare nothing that was met is forgotten.
MetInv ==
    Len(visited) < budget =>
        /\ \A s \in ToSet(seeds) : s \in ToSet(visited) \/ <<s, 0>> \in ToSet(queue)
        /\ \A e \in ToSet(found) : Reached(e[2])

\* The queue holds at most two levels, the nearer one first.
LevelInv ==
    \A i, j \in DOMAIN queue :
        i <= j => queue[i][2] <= queue[j][2] /\ queue[j][2] <= queue[i][2] + 1

\* The edges of a node visited k hops away are found, and with budget to spare
\* their ends are visited or wait no further than k + 1 hops away.
LeavesInv ==
    \A k \in 0 .. depth, e \in ToSet(graph) :
        k < depth /\ e[1] \in ToSet(visited) /\ e[1] \in Ball[k] =>
            /\ e \in ToSet(found)
            /\ Len(visited) < budget =>
                  \/ e[2] \in ToSet(visited)
                  \/ \E x \in ToSet(queue) : x[1] = e[2] /\ x[2] <= k + 1

\* A node further than k hops away comes after all that is not.
OrderInv ==
    \A i \in DOMAIN visited, k \in 0 .. depth :
        visited[i] \notin Ball[k] => \A v \in Ball[k] : \E j \in 1 .. i - 1 : visited[j] = v

NearInv == mode = "bfs" => LevelInv /\ LeavesInv /\ OrderInv

-----------------------------------------------------------------------------
(* A step of a walk *)

\* One item is taken off the queue, the first one breadth first.
LEMMA PopFacts ==
    ASSUME WalkType, queue # <<>>
    PROVE  /\ NextUp \in Symbols \X (0 .. depth) /\ NextUp \in ToSet(queue)
           /\ Rest \in Seq(Symbols \X (0 .. depth))
           /\ ToSet(queue) = ToSet(Rest) \cup {NextUp}
           /\ mode = "bfs" => /\ Len(queue) = Len(Rest) + 1 /\ NextUp = queue[1]
                              /\ \A i \in 1 .. Len(Rest) : Rest[i] = queue[i + 1]
<1> DEFINE S == Symbols \X (0 .. depth)
           n == Len(queue)
<1>1. queue \in Seq(S) /\ n \in Nat \ {0} /\ DOMAIN queue = 1 .. n
  BY EmptySeq, LenProperties DEF WalkType
<1>2. \A i \in 1 .. n : queue[i] \in S BY <1>1, ElementOfSeq
<1> HIDE DEF S
<1>3. CASE mode = "bfs"
  <2>1. /\ NextUp = queue[1] /\ Rest = Tail(queue) BY <1>3, <1>1 DEF NextUp, Rest
  <2>2. /\ Rest \in Seq(S) /\ Len(Rest) = n - 1
        /\ \A i \in 1 .. Len(Rest) : Rest[i] = queue[i + 1]
    BY <1>1, <2>1, HeadTailProperties
  <2>3. DOMAIN Rest = 1 .. n - 1 BY <2>2, LenProperties
  <2>4. \A i \in 1 .. n : i = 1 \/ (i - 1 \in 1 .. n - 1 /\ (i - 1) + 1 = i) BY <1>1
  <2>5. 1 \in 1 .. n /\ \A i \in 1 .. n - 1 : i + 1 \in 1 .. n BY <1>1
  <2> HIDE DEF n
  <2>6. ToSet(queue) = ToSet(Rest) \cup {NextUp}
    <3>1. ASSUME NEW x \in ToSet(queue) PROVE x \in ToSet(Rest) \cup {NextUp}
      <4>1. PICK i \in 1 .. n : x = queue[i] BY <1>1 DEF ToSet
      <4>2. CASE i = 1 BY <4>1, <4>2, <2>1
      <4>3. CASE i - 1 \in 1 .. n - 1 /\ (i - 1) + 1 = i
        <5>1. Rest[i - 1] = x BY <4>1, <4>3, <2>2
        <5> QED BY <4>3, <5>1, <2>3 DEF ToSet
      <4> QED BY <4>2, <4>3, <2>4
    <3>2. NextUp \in ToSet(queue) BY <1>1, <2>1, <2>5 DEF ToSet
    <3>3. ToSet(Rest) \subseteq ToSet(queue) BY <1>1, <2>2, <2>3, <2>5 DEF ToSet
    <3> QED BY <3>1, <3>2, <3>3
  <2>7. NextUp \in S BY <1>2, <2>1, <2>5
  <2>8. n = Len(Rest) + 1 BY <1>1, <2>2
  <2> QED BY <2>1, <2>2, <2>6, <2>7, <2>8 DEF S, n
<1>4. CASE mode # "bfs"
  <2>1. NextUp = queue[n] /\ Rest = SubSeq(queue, 1, n - 1)
    BY <1>4 DEF NextUp, Rest, Last, Front
  <2>2. \A i \in 1 .. n - 1 : queue[i] \in S BY <1>1, <1>2
  <2>3. 1 \in Int /\ n - 1 \in Int BY <1>1
  <2> HIDE DEF n
  <2>4. /\ Rest \in Seq(S) /\ Len(Rest) = IF 1 <= n - 1 THEN (n - 1) - 1 + 1 ELSE 0
        /\ \A i \in 1 .. (n - 1) - 1 + 1 : Rest[i] = queue[1 + i - 1]
    BY <2>1, <2>2, <2>3, SubSeqProperties
  <2>5. Len(Rest) = n - 1 /\ \A i \in 1 .. n - 1 : Rest[i] = queue[i] BY <1>1, <2>4
  <2>6. DOMAIN Rest = 1 .. n - 1 BY <2>4, <2>5, LenProperties
  <2>7. /\ \A i \in 1 .. n : i = n \/ i \in 1 .. n - 1
        /\ n \in 1 .. n /\ 1 .. n - 1 \subseteq 1 .. n
    BY <1>1
  <2>8. ToSet(queue) = ToSet(Rest) \cup {NextUp} BY <1>1, <2>1, <2>5, <2>6, <2>7 DEF ToSet
  <2>9. NextUp \in S BY <1>2, <2>1, <2>7
  <2> QED BY <1>4, <2>4, <2>8, <2>9 DEF S
<1> QED BY <1>3, <1>4

\* The edges a visit hands out, and what they put on the queue.
Out(n, d) == IF d < depth THEN EdgesOut(n) ELSE <<>>
Onward(n, d) == [i \in DOMAIN Out(n, d) |-> <<Out(n, d)[i][2], d + 1>>]

\* All edges of the node or none, each once, and their ends one hop further.
LEMMA OutFacts ==
    ASSUME WalkType, NEW n \in Symbols, NEW d \in 0 .. depth
    PROVE  /\ Out(n, d) \in Seq(Symbols \X Symbols)
           /\ Len(Out(n, d)) \in Nat /\ Len(Out(n, d)) <= Cardinality(EdgesFrom(n))
           /\ d < depth => ToSet(Out(n, d)) = {e \in ToSet(graph) : e[1] = n}
           /\ ~ (d < depth) => ToSet(Out(n, d)) = {}
           /\ Onward(n, d) \in Seq(Symbols \X (0 .. depth))
           /\ Len(Onward(n, d)) = Len(Out(n, d))
           /\ \A i \in 1 .. Len(Onward(n, d)) : Onward(n, d)[i][2] = d + 1
           /\ ToSet(Onward(n, d)) = {<<e[2], d + 1>> : e \in ToSet(Out(n, d))}
<1>0. graph \in Seq(Symbols \X Symbols) /\ depth \in Nat BY DEF WalkType
<1>1. Cardinality(EdgesFrom(n)) \in Nat BY <1>0, OutEdgeIs
<1>2. CASE d < depth
  <2> DEFINE out == Out(n, d)
             m == Len(out)
  <2>1. out = EdgesOut(n) BY <1>2 DEF Out
  <2>2. /\ out \in Seq(Symbols \X Symbols) /\ m = Cardinality(EdgesFrom(n))
        /\ ToSet(out) = {e \in ToSet(graph) : e[1] = n}
    BY <1>0, <2>1, EdgesOutIs
  <2>3. m \in Nat /\ DOMAIN out = 1 .. m /\ \A i \in 1 .. m : out[i] \in Symbols \X Symbols
    BY <2>2, LenProperties, ElementOfSeq
  <2>4. Onward(n, d) = [i \in 1 .. m |-> <<out[i][2], d + 1>>] BY <2>3 DEF Onward
  <2> HIDE DEF out, m
  <2>5. d + 1 \in 0 .. depth BY <1>0, <1>2
  <2>6. \A i \in 1 .. m : <<out[i][2], d + 1>> \in Symbols \X (0 .. depth) BY <2>3, <2>5
  <2>7. Onward(n, d) \in Seq(Symbols \X (0 .. depth)) /\ Len(Onward(n, d)) = m
    BY <2>3, <2>4, <2>6
  <2>8. \A i \in 1 .. m : Onward(n, d)[i][2] = d + 1 BY <2>4
  <2>9. ToSet(Onward(n, d)) = {<<e[2], d + 1>> : e \in ToSet(out)}
    BY <2>3, <2>4 DEF ToSet
  <2> QED BY <1>1, <1>2, <2>2, <2>3, <2>7, <2>8, <2>9 DEF out, m
<1>3. CASE ~ (d < depth)
  <2>1. Out(n, d) = <<>> BY <1>3 DEF Out
  <2>2. Onward(n, d) = <<>> BY <2>1 DEF Onward
  <2>3. ToSet(<<>>) = {} BY DEF ToSet
  <2> QED BY <1>1, <1>3, <2>1, <2>2, <2>3, EmptySeq
<1> QED BY <1>2, <1>3

\* What a visit changes.
LEMMA VisitFacts ==
    ASSUME WalkType, VisitNode, NEW n \in Symbols, NEW d \in 0 .. depth, NextUp = <<n, d>>
    PROVE  /\ UNCHANGED queryVars
           /\ n \notin ToSet(visited) /\ Len(visited) < budget /\ Len(visited) \in Nat
           /\ visited' = Append(visited, n) /\ visited' \in Seq(Symbols)
           /\ Len(visited') = Len(visited) + 1
           /\ ToSet(visited') = ToSet(visited) \cup {n}
           /\ found' \in Seq(Symbols \X Symbols)
           /\ Len(found') = Len(found) + Len(Out(n, d))
           /\ ToSet(found') = ToSet(found) \cup ToSet(Out(n, d))
           /\ queue' = Rest \o Onward(n, d) /\ queue' \in Seq(Symbols \X (0 .. depth))
           /\ ToSet(queue') = ToSet(Rest) \cup ToSet(Onward(n, d))
           /\ ToSet(queue) = ToSet(Rest) \cup {<<n, d>>}
           /\ <<n, d>> \in ToSet(queue)
<1>0. /\ visited \in Seq(Symbols) /\ found \in Seq(Symbols \X Symbols) /\ budget \in Nat
      /\ queue # <<>>
  BY DEF WalkType, VisitNode
<1>1. NextUp[1] = n /\ NextUp[2] = d OBVIOUS
<1>2. /\ UNCHANGED queryVars /\ visited' = Append(visited, n)
      /\ found' = found \o Out(n, d) /\ queue' = Rest \o Onward(n, d)
  BY <1>1 DEF VisitNode, Out, Onward, Expands
<1>3. n \notin ToSet(visited) /\ Len(visited) < budget /\ Len(visited) \in Nat
  <2>1. Len(visited) \in Nat BY <1>0, LenProperties
  <2> QED BY <1>0, <1>1, <2>1 DEF VisitNode, IsPassedOver
<1>4. /\ Out(n, d) \in Seq(Symbols \X Symbols)
      /\ Onward(n, d) \in Seq(Symbols \X (0 .. depth))
  BY OutFacts
<1>5. /\ Rest \in Seq(Symbols \X (0 .. depth)) /\ <<n, d>> \in ToSet(queue)
      /\ ToSet(queue) = ToSet(Rest) \cup {<<n, d>>}
  BY <1>0, PopFacts
<1>6. /\ visited' \in Seq(Symbols) /\ Len(visited') = Len(visited) + 1
      /\ ToSet(visited') = ToSet(visited) \cup {n}
  BY <1>0, <1>2, AppendProperties, ToSetAppend
<1>7. /\ found' \in Seq(Symbols \X Symbols) /\ Len(found') = Len(found) + Len(Out(n, d))
      /\ ToSet(found') = ToSet(found) \cup ToSet(Out(n, d))
  BY <1>0, <1>2, <1>4, ConcatProperties, ToSetConcat
<1>8. /\ queue' \in Seq(Symbols \X (0 .. depth))
      /\ ToSet(queue') = ToSet(Rest) \cup ToSet(Onward(n, d))
  BY <1>2, <1>4, <1>5, ConcatProperties, ToSetConcat
<1> QED BY <1>2, <1>3, <1>5, <1>6, <1>7, <1>8

\* What passing over an item changes.
LEMMA PassFacts ==
    ASSUME WalkType, PassOver, NEW n \in Symbols, NEW d \in 0 .. depth, NextUp = <<n, d>>
    PROVE  /\ UNCHANGED <<queryVars, visited, found>>
           /\ n \in ToSet(visited) \/ ~ (Len(visited) < budget)
           /\ queue' = Rest /\ queue' \in Seq(Symbols \X (0 .. depth))
           /\ ToSet(queue) = ToSet(queue') \cup {<<n, d>>}
<1>1. NextUp[1] = n /\ queue # <<>> BY DEF PassOver
<1>2. Len(visited) \in Nat /\ budget \in Nat BY LenProperties DEF WalkType
<1>3. n \in ToSet(visited) \/ ~ (Len(visited) < budget)
  BY <1>1, <1>2 DEF PassOver, IsPassedOver
<1>4. UNCHANGED <<queryVars, visited, found>> /\ queue' = Rest BY DEF PassOver
<1>5. Rest \in Seq(Symbols \X (0 .. depth)) /\ ToSet(queue) = ToSet(Rest) \cup {<<n, d>>}
  BY <1>1, PopFacts
<1>6. ToSet(queue') = ToSet(Rest) BY <1>4
<1> QED BY <1>3, <1>4, <1>5, <1>6

\* What is taken off the queue is a node and its depth.
LEMMA NextUpIs ==
    ASSUME WalkType, queue # <<>>
    PROVE  \E n \in Symbols : \E d \in 0 .. depth : NextUp = <<n, d>>
BY PopFacts

-----------------------------------------------------------------------------
(* The invariants are kept *)

\* Every step keeps the types.
LEMMA WalkTypeKept ==
    ASSUME WalkType, [TraversalNext]_walkVars
    PROVE  WalkType'
<1>1. CASE UNCHANGED walkVars BY <1>1 DEF walkVars, queryVars, WalkType
<1>2. CASE VisitNode
  <2>1. queue # <<>> BY <1>2 DEF VisitNode
  <2>2. PICK n \in Symbols : \E d \in 0 .. depth : NextUp = <<n, d>> BY <2>1, NextUpIs
  <2>3. PICK d \in 0 .. depth : NextUp = <<n, d>> BY <2>2
  <2>4. /\ UNCHANGED queryVars /\ visited' \in Seq(Symbols)
        /\ found' \in Seq(Symbols \X Symbols) /\ queue' \in Seq(Symbols \X (0 .. depth))
    BY <1>2, <2>3, VisitFacts
  <2> QED BY <2>4 DEF WalkType, queryVars
<1>3. CASE PassOver
  <2>1. queue # <<>> BY <1>3 DEF PassOver
  <2>2. PICK n \in Symbols : \E d \in 0 .. depth : NextUp = <<n, d>> BY <2>1, NextUpIs
  <2>3. PICK d \in 0 .. depth : NextUp = <<n, d>> BY <2>2
  <2>4. UNCHANGED <<queryVars, visited, found>> /\ queue' \in Seq(Symbols \X (0 .. depth))
    BY <1>3, <2>3, PassFacts
  <2> QED BY <2>4 DEF WalkType, queryVars
<1> QED BY <1>1, <1>2, <1>3 DEF TraversalNext

\* One hop from what is near enough stays within the depth.
LEMMA HopIsNear ==
    ASSUME depth \in Nat, NEW d \in 0 .. depth, d < depth,
           NEW e \in ToSet(graph), e[1] \in Ball[d]
    PROVE  e[2] \in Ball[d + 1]
<1>1. e[2] \in Hop(Ball[d]) BY DEF Hop, ToSet
<1> QED BY <1>1, BallSteps

\* A visit keeps the answer within the budget and the distances true.
LEMMA VisitKeepsWalk ==
    ASSUME WalkType, WalkInv, VisitNode,
           NEW n \in Symbols, NEW d \in 0 .. depth, NextUp = <<n, d>>
    PROVE  WalkInv'
<1>0. depth \in Nat /\ budget \in Nat /\ visited \in Seq(Symbols) BY DEF WalkType
<1>1. /\ UNCHANGED queryVars
      /\ n \notin ToSet(visited) /\ Len(visited) < budget /\ Len(visited) \in Nat
      /\ visited' = Append(visited, n) /\ Len(visited') = Len(visited) + 1
      /\ ToSet(visited') = ToSet(visited) \cup {n}
      /\ ToSet(queue') = ToSet(Rest) \cup ToSet(Onward(n, d))
      /\ ToSet(queue) = ToSet(Rest) \cup {<<n, d>>}
      /\ <<n, d>> \in ToSet(queue)
  BY VisitFacts
<1>2. depth' = depth /\ budget' = budget /\ Ball' = Ball BY <1>1, BallStays DEF queryVars
<1>3. n \in Ball[d] /\ d <= Len(visited) BY <1>1 DEF WalkInv
<1>4. IsInjective(visited')
  <2> DEFINE m == Len(visited)
  <2>1. /\ DOMAIN visited = 1 .. m /\ DOMAIN (visited') = 1 .. m + 1
        /\ \A i \in 1 .. m : visited'[i] = visited[i]
        /\ visited'[m + 1] = n
    BY <1>0, <1>1, AppendProperties, LenProperties
  <2>2. \A i \in 1 .. m : visited[i] # n BY <1>1, <2>1 DEF ToSet
  <2>3. \A i, j \in 1 .. m : visited[i] = visited[j] => i = j
    BY <2>1 DEF WalkInv, IsInjective
  <2>4. \A i \in 1 .. m + 1 : i \in 1 .. m \/ i = m + 1 BY <1>1
  <2> HIDE DEF m
  <2>5. \A i, j \in 1 .. m + 1 : visited'[i] = visited'[j] => i = j
    BY <2>1, <2>2, <2>3, <2>4
  <2> QED BY <2>1, <2>5 DEF IsInjective
<1>5. Len(visited') <= budget' BY <1>0, <1>1, <1>2
<1>6. IsFiniteSet(ToSet(visited')) /\ Cardinality(ToSet(visited')) = Len(visited')
  <2> DEFINE V == ToSet(visited)
  <2>1. IsFiniteSet(V) /\ Cardinality(V) = Len(visited) /\ n \notin V BY <1>1 DEF WalkInv
  <2> HIDE DEF V
  <2>2. IsFiniteSet(V \cup {n}) /\ Cardinality(V \cup {n}) = Len(visited) + 1
    BY <2>1, FS_AddElement
  <2> QED BY <1>1, <2>2 DEF V
<1>7. ToSet(visited') \subseteq Ball'[depth']
  <2>1. Ball[d] \subseteq Ball[depth] BY <1>0, BallGrows
  <2> QED BY <1>1, <1>2, <1>3, <2>1 DEF WalkInv
<1>8. ASSUME NEW x \in ToSet(queue') PROVE x[1] \in Ball[x[2]] /\ x[2] <= Len(visited')
  <2>1. CASE x \in ToSet(Rest)
    <3>1. x[1] \in Ball[x[2]] /\ x[2] <= Len(visited) BY <1>1, <2>1 DEF WalkInv
    <3>2. x[2] \in Int
      <4>1. queue # <<>> BY DEF VisitNode
      <4>2. Rest \in Seq(Symbols \X (0 .. depth)) BY <4>1, PopFacts
      <4>3. x \in Symbols \X (0 .. depth)
        BY <2>1, <4>2, LenProperties, ElementOfSeq DEF ToSet
      <4> QED BY <1>0, <4>3
    <3> QED BY <1>1, <3>1, <3>2
  <2>2. CASE x \in ToSet(Onward(n, d))
    <3>1. x \in {<<e[2], d + 1>> : e \in ToSet(Out(n, d))} BY <2>2, OutFacts
    <3>2. PICK e \in ToSet(Out(n, d)) : x = <<e[2], d + 1>> BY <3>1
    <3>3. d < depth /\ e \in ToSet(graph) /\ e[1] = n BY <3>2, OutFacts
    <3>4. e[2] \in Ball[d + 1] BY <1>0, <1>3, <3>3, HopIsNear
    <3> QED BY <1>0, <1>1, <1>3, <3>2, <3>4
  <2> QED BY <1>1, <2>1, <2>2
<1> QED BY <1>2, <1>4, <1>5, <1>6, <1>7, <1>8 DEF WalkInv

\* A visit finds edges of what was visited only, and no edge twice.
LEMMA VisitKeepsFound ==
    ASSUME WalkType, WalkInv, FoundInv, VisitNode,
           NEW n \in Symbols, NEW d \in 0 .. depth, NextUp = <<n, d>>
    PROVE  FoundInv'
<1>0. /\ depth \in Nat /\ found \in Seq(Symbols \X Symbols)
      /\ graph \in Seq(Symbols \X Symbols) /\ visited \in Seq(Symbols)
  BY DEF WalkType
<1>1. /\ UNCHANGED queryVars
      /\ n \notin ToSet(visited) /\ Len(visited) \in Nat
      /\ ToSet(visited') = ToSet(visited) \cup {n}
      /\ Len(found') = Len(found) + Len(Out(n, d))
      /\ ToSet(found') = ToSet(found) \cup ToSet(Out(n, d))
      /\ <<n, d>> \in ToSet(queue)
  BY VisitFacts
<1>2. depth' = depth /\ graph' = graph /\ Ball' = Ball BY <1>1, BallStays DEF queryVars
<1>3. n \in Ball[d] /\ d <= Len(visited) BY <1>1 DEF WalkInv
<1>4. /\ Len(Out(n, d)) \in Nat /\ Len(Out(n, d)) <= Cardinality(EdgesFrom(n))
      /\ d < depth => ToSet(Out(n, d)) = {e \in ToSet(graph) : e[1] = n}
      /\ ~ (d < depth) => ToSet(Out(n, d)) = {}
  BY OutFacts
<1>5. \A e \in ToSet(Out(n, d)) : d < depth /\ e \in ToSet(graph) /\ e[1] = n BY <1>4
<1>6. ToSet(graph') = ToSet(graph) BY <1>2
<1>7. ToSet(found') \subseteq ToSet(graph') BY <1>1, <1>5, <1>6 DEF FoundInv
<1>8. ASSUME NEW e \in ToSet(found')
      PROVE  e[1] \in ToSet(visited') /\ depth' > 0 /\ e[1] \in Ball'[depth' - 1]
  <2>1. CASE e \in ToSet(found) BY <1>1, <1>2, <2>1 DEF FoundInv
  <2>2. CASE e \in ToSet(Out(n, d))
    <3>1. depth > 0 /\ d <= depth - 1 /\ depth - 1 \in 0 .. depth BY <1>0, <1>5, <2>2
    <3>2. Ball[d] \subseteq Ball[depth - 1] BY <1>0, <3>1, BallGrows
    <3> QED BY <1>1, <1>2, <1>3, <1>5, <2>2, <3>1, <3>2
  <2> QED BY <1>1, <2>1, <2>2
<1>9. Len(found') <= Cardinality(EdgesOf(ToSet(visited))')
  <2> DEFINE A == EdgesOf(ToSet(visited))
             B == EdgesFrom(n)
  <2>1. IsFiniteSet(A) /\ IsFiniteSet(B)
    <3>1. IsFiniteSet(B) BY <1>0, OutEdgeIs
    <3>2. Len(graph) \in Nat /\ DOMAIN graph = 1 .. Len(graph) BY <1>0, LenProperties
    <3>3. IsFiniteSet(1 .. Len(graph)) BY <3>2, FS_Interval
    <3>4. A \subseteq 1 .. Len(graph) BY <3>2 DEF EdgesOf
    <3> HIDE DEF A
    <3> QED BY <3>1, <3>3, <3>4, FS_Subset
  <2>2. EdgesOf(ToSet(visited))' = A \cup B BY <1>1, <1>2 DEF EdgesOf, EdgesFrom
  <2>3. A \cap B = {} BY <1>1 DEF EdgesOf, EdgesFrom
  <2>4. Len(found) <= Cardinality(A) /\ Len(Out(n, d)) <= Cardinality(B)
    BY <1>4 DEF FoundInv
  <2>5. Len(found) \in Nat BY <1>0, LenProperties
  <2> HIDE DEF A, B
  <2>6. Cardinality(A) \in Nat /\ Cardinality(B) \in Nat BY <2>1, FS_CardinalityType
  <2>7. Cardinality(A \cup B) = Cardinality(A) + Cardinality(B)
    BY <2>1, <2>3, <2>6, FS_Union, FS_EmptySet
  <2>8. Len(found') <= Cardinality(A \cup B) BY <1>1, <1>4, <2>4, <2>5, <2>6, <2>7
  <2> QED BY <2>2, <2>8
<1>10. ASSUME depth >= Cardinality(Symbols), NEW e \in ToSet(graph), e[1] \in ToSet(visited')
       PROVE  e \in ToSet(found')
  <2>1. CASE e[1] \in ToSet(visited) BY <1>1, <1>10, <2>1 DEF FoundInv
  <2>2. CASE e[1] = n
    <3>1. IsFiniteSet(Symbols) BY TraversalAssumption
    <3>2. ToSet(visited') \subseteq Symbols
      <4>1. ToSet(visited) \subseteq Symbols BY <1>0, LenProperties, ElementOfSeq DEF ToSet
      <4> QED BY <1>1, <4>1
    <3>3. Cardinality(ToSet(visited')) = Len(visited) + 1
      BY <1>1, FS_AddElement DEF WalkInv
    <3>4. Cardinality(ToSet(visited')) <= Cardinality(Symbols) BY <3>1, <3>2, FS_Subset
    <3>5. Cardinality(Symbols) \in Nat BY <3>1, FS_CardinalityType
    <3>6. d < depth BY <1>0, <1>1, <1>3, <1>10, <3>3, <3>4, <3>5
    <3> QED BY <1>1, <1>4, <2>2, <3>6
  <2> QED BY <1>1, <1>10, <2>1, <2>2
<1> QED BY <1>2, <1>6, <1>7, <1>8, <1>9, <1>10 DEF FoundInv

\* A visit forgets nothing that was met.
LEMMA VisitKeepsMet ==
    ASSUME WalkType, MetInv, VisitNode,
           NEW n \in Symbols, NEW d \in 0 .. depth, NextUp = <<n, d>>
    PROVE  MetInv'
<1>1. /\ UNCHANGED queryVars /\ Len(visited) < budget /\ Len(visited) \in Nat
      /\ ToSet(visited') = ToSet(visited) \cup {n}
      /\ ToSet(found') = ToSet(found) \cup ToSet(Out(n, d))
      /\ ToSet(queue') = ToSet(Rest) \cup ToSet(Onward(n, d))
      /\ ToSet(queue) = ToSet(Rest) \cup {<<n, d>>}
  BY VisitFacts
<1>2. ToSet(seeds') = ToSet(seeds) BY <1>1 DEF queryVars
<1>3. ASSUME NEW s \in ToSet(seeds) PROVE s \in ToSet(visited') \/ <<s, 0>> \in ToSet(queue')
  <2>1. s \in ToSet(visited) \/ <<s, 0>> \in ToSet(queue) BY <1>1 DEF MetInv
  <2>2. <<s, 0>> = <<n, d>> => s = n OBVIOUS
  <2> QED BY <1>1, <2>1, <2>2
<1>4. ASSUME NEW e \in ToSet(found')
      PROVE  e[2] \in ToSet(visited') \/ \E x \in ToSet(queue') : x[1] = e[2]
  <2>1. CASE e \in ToSet(found)
    <3>1. e[2] \in ToSet(visited) \/ \E x \in ToSet(queue) : x[1] = e[2]
      BY <1>1, <2>1 DEF MetInv, Reached
    <3>2. \A x \in ToSet(queue) : x \in ToSet(queue') \/ x[1] = n BY <1>1
    <3> QED BY <1>1, <3>1, <3>2
  <2>2. CASE e \in ToSet(Out(n, d))
    <3>1. <<e[2], d + 1>> \in ToSet(Onward(n, d)) BY <2>2, OutFacts
    <3>2. <<e[2], d + 1>> \in ToSet(queue') BY <1>1, <3>1
    <3> QED BY <3>2
  <2> QED BY <1>1, <2>1, <2>2
<1> QED BY <1>2, <1>3, <1>4 DEF MetInv, Reached

\* Passing over an item changes neither the answer nor what is known of it.
LEMMA PassKeepsWalk ==
    ASSUME WalkType, WalkInv, FoundInv, MetInv, PassOver,
           NEW n \in Symbols, NEW d \in 0 .. depth, NextUp = <<n, d>>
    PROVE  WalkInv' /\ FoundInv' /\ MetInv'
<1>1. /\ UNCHANGED <<queryVars, visited, found>>
      /\ n \in ToSet(visited) \/ ~ (Len(visited) < budget)
      /\ ToSet(queue) = ToSet(queue') \cup {<<n, d>>}
  BY PassFacts
<1>2. /\ Ball' = Ball /\ depth' = depth /\ budget' = budget /\ graph' = graph
      /\ seeds' = seeds /\ visited' = visited /\ found' = found
  BY <1>1, BallStays DEF queryVars
<1>3. /\ ToSet(visited') = ToSet(visited) /\ ToSet(found') = ToSet(found)
      /\ ToSet(graph') = ToSet(graph) /\ ToSet(seeds') = ToSet(seeds)
  BY <1>2
<1>4. WalkInv' BY <1>1, <1>2, <1>3 DEF WalkInv
<1>5. FoundInv' BY <1>2, <1>3 DEF FoundInv, EdgesOf
<1>6. MetInv'
  <2> SUFFICES ASSUME Len(visited) < budget
               PROVE  /\ \A s \in ToSet(seeds) :
                            s \in ToSet(visited) \/ <<s, 0>> \in ToSet(queue')
                      /\ \A e \in ToSet(found) :
                            e[2] \in ToSet(visited) \/ \E x \in ToSet(queue') : x[1] = e[2]
    BY <1>2, <1>3 DEF MetInv, Reached
  <2>1. ASSUME NEW s \in ToSet(seeds)
        PROVE  s \in ToSet(visited) \/ <<s, 0>> \in ToSet(queue')
    <3>1. s \in ToSet(visited) \/ <<s, 0>> \in ToSet(queue) BY DEF MetInv
    <3>2. <<s, 0>> = <<n, d>> => s = n OBVIOUS
    <3> QED BY <1>1, <3>1, <3>2
  <2>2. ASSUME NEW e \in ToSet(found)
        PROVE  e[2] \in ToSet(visited) \/ \E x \in ToSet(queue') : x[1] = e[2]
    <3>1. e[2] \in ToSet(visited) \/ \E x \in ToSet(queue) : x[1] = e[2]
      BY DEF MetInv, Reached
    <3>2. \A x \in ToSet(queue) : x \in ToSet(queue') \/ x[1] = n BY <1>1
    <3> QED BY <1>1, <3>1, <3>2
  <2> QED BY <2>1, <2>2
<1> QED BY <1>4, <1>5, <1>6

\* With budget to spare and nothing left on the queue within k hops, all that
\* is within k hops has been visited.
LEMMA NearIsCovered ==
    ASSUME WalkType, MetInv, LeavesInv, Len(visited) < budget,
           NEW k \in 0 .. depth, \A x \in ToSet(queue) : x[2] > k
    PROVE  Ball[k] \subseteq ToSet(visited)
<1>0. depth \in Nat BY DEF WalkType
<1> DEFINE S == {j \in Nat : j <= k => Ball[j] \subseteq ToSet(visited)}
<1>1. 0 \in S
  <2>1. ASSUME NEW s \in ToSet(seeds) PROVE s \in ToSet(visited)
    <3>1. s \in ToSet(visited) \/ <<s, 0>> \in ToSet(queue) BY DEF MetInv
    <3>2. <<s, 0>> \in ToSet(queue) => 0 > k OBVIOUS
    <3> QED BY <1>0, <3>1, <3>2
  <2> QED BY <1>0, <2>1, BallSteps
<1>2. ASSUME NEW j \in Nat, j \in S PROVE j + 1 \in S
  <2> SUFFICES ASSUME j + 1 <= k PROVE Ball[j + 1] \subseteq ToSet(visited) OBVIOUS
  <2>1. j \in 0 .. depth /\ j < depth /\ j # depth /\ j <= k /\ k \in Nat BY <1>0
  <2>2. Ball[j] \subseteq ToSet(visited) BY <1>2, <2>1
  <2>3. Ball[j + 1] = Ball[j] \cup Hop(Ball[j]) BY <1>0, <2>1, BallSteps
  <2>4. ASSUME NEW v \in Hop(Ball[j]) PROVE v \in ToSet(visited)
    <3>1. PICK e \in ToSet(graph) : v = e[2] /\ e[1] \in Ball[j] BY DEF Hop, ToSet
    <3>2. \/ e[2] \in ToSet(visited)
          \/ \E x \in ToSet(queue) : x[1] = e[2] /\ x[2] <= j + 1
      BY <2>1, <2>2, <3>1 DEF LeavesInv
    <3>3. ASSUME NEW x \in ToSet(queue), x[2] <= j + 1 PROVE FALSE
      <4>1. x[2] > k OBVIOUS
      <4>2. x[2] \in Int
        <5>1. queue \in Seq(Symbols \X (0 .. depth)) BY DEF WalkType
        <5>2. x \in Symbols \X (0 .. depth) BY <5>1, LenProperties, ElementOfSeq DEF ToSet
        <5> QED BY <1>0, <5>2
      <4> QED BY <2>1, <3>3, <4>1, <4>2
    <3> QED BY <3>1, <3>2, <3>3
  <2> QED BY <2>2, <2>3, <2>4
<1>3. k \in S
  <2>1. k \in Nat BY <1>0
  <2> HIDE DEF S
  <2> QED BY <1>1, <1>2, <2>1, SetInduction
<1> QED BY <1>0, <1>3

\* What is visited breadth first is visited at its distance: everything nearer
\* has been visited before.
LEMMA VisitIsNearest ==
    ASSUME WalkType, WalkInv, MetInv, NearInv, mode = "bfs", VisitNode,
           NEW n \in Symbols, NEW d \in 0 .. depth, NextUp = <<n, d>>,
           NEW k \in 0 .. depth, k < d
    PROVE  Ball[k] \subseteq ToSet(visited) /\ n \notin Ball[k]
<1>0. depth \in Nat /\ queue \in Seq(Symbols \X (0 .. depth)) BY DEF WalkType
<1>1. n \notin ToSet(visited) /\ Len(visited) < budget BY VisitFacts
<1>2. queue # <<>> BY DEF VisitNode
<1>3. queue[1] = <<n, d>> BY <1>2, PopFacts
<1>4. ASSUME NEW x \in ToSet(queue) PROVE x[2] > k
  <2>1. DOMAIN queue = 1 .. Len(queue) /\ Len(queue) \in Nat \ {0}
    BY <1>0, <1>2, LenProperties, EmptySeq
  <2>2. PICK i \in 1 .. Len(queue) : x = queue[i] BY <2>1 DEF ToSet
  <2>3. 1 \in 1 .. Len(queue) /\ 1 <= i BY <2>1
  <2>4. queue[1][2] <= queue[i][2] BY <2>1, <2>2, <2>3 DEF NearInv, LevelInv
  <2>5. queue[i][2] \in Int /\ queue[1][2] = d
    BY <1>0, <1>3, <2>2, ElementOfSeq
  <2> QED BY <1>0, <2>2, <2>4, <2>5
<1>5. Ball[k] \subseteq ToSet(visited) BY <1>1, <1>4, NearIsCovered DEF NearInv
<1> QED BY <1>1, <1>5

\* A visit appends to the queue what is one hop further than its head.
LEMMA VisitKeepsLevels ==
    ASSUME WalkType, LevelInv, mode = "bfs", VisitNode,
           NEW n \in Symbols, NEW d \in 0 .. depth, NextUp = <<n, d>>
    PROVE  LevelInv'
<1> DEFINE r == Len(Rest)
           w == Len(Onward(n, d))
           L(i) == queue'[i][2]
<1>0. depth \in Nat /\ queue \in Seq(Symbols \X (0 .. depth)) /\ queue # <<>>
  BY DEF WalkType, VisitNode
<1>1. queue' = Rest \o Onward(n, d) BY VisitFacts
<1>2. /\ Rest \in Seq(Symbols \X (0 .. depth)) /\ Len(queue) = r + 1 /\ queue[1] = <<n, d>>
      /\ \A i \in 1 .. r : Rest[i] = queue[i + 1]
  BY <1>0, PopFacts
<1>3. /\ Onward(n, d) \in Seq(Symbols \X (0 .. depth))
      /\ \A i \in 1 .. w : Onward(n, d)[i][2] = d + 1
  BY OutFacts
<1>4. /\ r \in Nat /\ w \in Nat /\ DOMAIN (queue') = 1 .. r + w
      /\ DOMAIN queue = 1 .. r + 1
      /\ \A i \in 1 .. r + w : queue'[i] = IF i <= r THEN Rest[i] ELSE Onward(n, d)[i - r]
  <2>1. /\ Rest \o Onward(n, d) \in Seq(Symbols \X (0 .. depth))
        /\ Len(Rest \o Onward(n, d)) = r + w
        /\ \A i \in 1 .. r + w :
             (Rest \o Onward(n, d))[i] = IF i <= r THEN Rest[i] ELSE Onward(n, d)[i - r]
    BY <1>2, <1>3, ConcatProperties
  <2>2. DOMAIN (Rest \o Onward(n, d)) = 1 .. r + w BY <2>1, LenProperties
  <2>3. r \in Nat /\ w \in Nat BY <1>2, <1>3, LenProperties
  <2>4. DOMAIN queue = 1 .. r + 1 BY <1>0, <1>2, LenProperties
  <2> QED BY <1>1, <2>1, <2>2, <2>3, <2>4
<1>5. \A i \in 1 .. r + 1 : queue[i][2] \in 0 .. depth BY <1>0, <1>2, ElementOfSeq
<1>6. queue[1][2] = d BY <1>2
<1> HIDE DEF r, w
<1>7. \A i \in 1 .. r + w : i <= r => L(i) = queue[i + 1][2]
  <2> TAKE i \in 1 .. r + w
  <2> HAVE i <= r
  <2>1. i \in 1 .. r BY <1>4
  <2>2. queue'[i] = Rest[i] BY <1>4
  <2> QED BY <1>2, <2>1, <2>2
<1>8. \A i \in 1 .. r + w : ~ (i <= r) => L(i) = d + 1
  <2> TAKE i \in 1 .. r + w
  <2> HAVE ~ (i <= r)
  <2>1. i - r \in 1 .. w BY <1>4
  <2> QED BY <1>3, <1>4, <2>1
<1>9. \A i \in 1 .. r : d <= queue[i + 1][2] /\ queue[i + 1][2] <= d + 1
  <2> TAKE i \in 1 .. r
  <2>1. 1 \in DOMAIN queue /\ i + 1 \in DOMAIN queue /\ 1 <= i + 1 BY <1>4
  <2> QED BY <1>6, <2>1 DEF LevelInv
<1>10. ASSUME NEW i \in 1 .. r + w, NEW j \in 1 .. r + w, i <= j
       PROVE  L(i) <= L(j) /\ L(j) <= L(i) + 1
  <2> HIDE DEF L
  <2>1. CASE j <= r
    <3>1. i <= r /\ i \in 1 .. r /\ j \in 1 .. r BY <1>4, <1>10, <2>1
    <3>2. L(i) = queue[i + 1][2] /\ L(j) = queue[j + 1][2] BY <1>7, <2>1, <3>1
    <3>3. i + 1 \in DOMAIN queue /\ j + 1 \in DOMAIN queue /\ i + 1 <= j + 1
      BY <1>4, <1>10, <3>1
    <3> QED BY <3>2, <3>3 DEF LevelInv
  <2>2. CASE ~ (j <= r) /\ i <= r
    <3>1. i \in 1 .. r /\ i + 1 \in 1 .. r + 1 BY <1>4, <2>2
    <3>2. L(i) = queue[i + 1][2] /\ L(j) = d + 1 BY <1>7, <1>8, <2>2
    <3>3. queue[i + 1][2] \in 0 .. depth BY <1>5, <3>1
    <3>4. d <= queue[i + 1][2] /\ queue[i + 1][2] <= d + 1 BY <1>9, <3>1
    <3> QED BY <1>0, <3>2, <3>3, <3>4
  <2>3. CASE ~ (j <= r) /\ ~ (i <= r)
    <3>1. L(i) = d + 1 /\ L(j) = d + 1 BY <1>8, <2>3
    <3> QED BY <1>0, <3>1
  <2> QED BY <2>1, <2>2, <2>3
<1> QED BY <1>4, <1>10 DEF LevelInv

\* A breadth-first visit keeps the order of the answer and of the queue.
LEMMA VisitKeepsNear ==
    ASSUME WalkType, WalkInv, FoundInv, MetInv, NearInv, VisitNode,
           NEW n \in Symbols, NEW d \in 0 .. depth, NextUp = <<n, d>>
    PROVE  NearInv'
<1>0. depth \in Nat /\ budget \in Nat /\ visited \in Seq(Symbols) BY DEF WalkType
<1>1. /\ UNCHANGED queryVars /\ Len(visited) < budget /\ Len(visited) \in Nat
      /\ visited' = Append(visited, n)
      /\ ToSet(visited') = ToSet(visited) \cup {n} /\ Len(visited') = Len(visited) + 1
      /\ ToSet(found') = ToSet(found) \cup ToSet(Out(n, d))
      /\ ToSet(queue') = ToSet(Rest) \cup ToSet(Onward(n, d))
      /\ ToSet(queue) = ToSet(Rest) \cup {<<n, d>>}
      /\ <<n, d>> \in ToSet(queue)
  BY VisitFacts
<1>2. /\ Ball' = Ball /\ depth' = depth /\ mode' = mode /\ budget' = budget
      /\ ToSet(graph') = ToSet(graph)
  BY <1>1, BallStays DEF queryVars
<1> SUFFICES ASSUME mode = "bfs" PROVE LevelInv' /\ LeavesInv' /\ OrderInv'
  BY <1>2 DEF NearInv
<1>3. LevelInv /\ LeavesInv /\ OrderInv BY DEF NearInv
<1>4. n \in Ball[d] BY <1>1 DEF WalkInv
<1>5. \A k \in 0 .. depth : k < d => Ball[k] \subseteq ToSet(visited) /\ n \notin Ball[k]
  BY VisitIsNearest
<1>6. LevelInv' BY <1>3, VisitKeepsLevels
<1>7. ASSUME NEW k \in 0 .. depth, NEW e \in ToSet(graph),
             k < depth, e[1] \in ToSet(visited'), e[1] \in Ball[k]
      PROVE  /\ e \in ToSet(found')
             /\ Len(visited') < budget =>
                   \/ e[2] \in ToSet(visited')
                   \/ \E x \in ToSet(queue') : x[1] = e[2] /\ x[2] <= k + 1
  <2>1. CASE e[1] \in ToSet(visited)
    <3>1. /\ e \in ToSet(found)
          /\ e[2] \in ToSet(visited) \/ \E x \in ToSet(queue) : x[1] = e[2] /\ x[2] <= k + 1
      BY <1>1, <1>3, <1>7, <2>1 DEF LeavesInv
    <3>2. \A x \in ToSet(queue) : x \in ToSet(queue') \/ x[1] = n BY <1>1
    <3> QED BY <1>1, <3>1, <3>2
  <2>2. CASE e[1] = n
    <3>1. d <= k /\ d < depth BY <1>0, <1>5, <1>7, <2>2
    <3>2. e \in ToSet(Out(n, d)) BY <2>2, <3>1, OutFacts
    <3>3. <<e[2], d + 1>> \in ToSet(Onward(n, d)) BY <3>2, OutFacts
    <3>4. <<e[2], d + 1>> \in ToSet(queue') BY <1>1, <3>3
    <3>5. d + 1 <= k + 1 BY <1>0, <3>1
    <3> QED BY <1>1, <3>2, <3>4, <3>5
  <2> QED BY <1>1, <1>7, <2>1, <2>2
<1>8. LeavesInv' BY <1>2, <1>7 DEF LeavesInv
<1>9. ASSUME NEW i \in DOMAIN (visited'), NEW k \in 0 .. depth, visited'[i] \notin Ball[k],
             NEW v \in Ball[k]
      PROVE  \E j \in 1 .. i - 1 : visited'[j] = v
  <2> DEFINE m == Len(visited)
  <2>1. /\ DOMAIN visited = 1 .. m /\ DOMAIN (visited') = 1 .. m + 1
        /\ \A j \in 1 .. m : visited'[j] = visited[j]
        /\ visited'[m + 1] = n
    BY <1>0, <1>1, AppendProperties, LenProperties
  <2>2. CASE i \in 1 .. m
    <3>1. PICK j \in 1 .. i - 1 : visited[j] = v BY <1>3, <1>9, <2>1, <2>2 DEF OrderInv
    <3>2. j \in 1 .. m BY <1>1, <2>2
    <3> QED BY <2>1, <3>1, <3>2
  <2>3. CASE i = m + 1
    <3>1. n \notin Ball[k] BY <1>9, <2>1, <2>3
    <3>2. k < d
      <4>1. SUFFICES ASSUME d <= k PROVE FALSE BY <1>0
      <4>2. Ball[d] \subseteq Ball[k] BY <1>0, <4>1, BallGrows
      <4> QED BY <1>4, <3>1, <4>2
    <3>3. v \in ToSet(visited) BY <1>5, <3>2
    <3>4. PICK j \in 1 .. m : visited[j] = v BY <2>1, <3>3 DEF ToSet
    <3>5. j \in 1 .. i - 1 BY <1>1, <2>3
    <3> QED BY <2>1, <3>4, <3>5
  <2>4. i \in 1 .. m \/ i = m + 1 BY <1>1, <2>1
  <2> QED BY <2>2, <2>3, <2>4
<1>10. OrderInv' BY <1>2, <1>9 DEF OrderInv
<1> QED BY <1>6, <1>8, <1>10

\* Passing over the head of the queue keeps the order of the rest.
LEMMA PassKeepsNear ==
    ASSUME WalkType, NearInv, PassOver,
           NEW n \in Symbols, NEW d \in 0 .. depth, NextUp = <<n, d>>
    PROVE  NearInv'
<1>1. /\ UNCHANGED <<queryVars, visited, found>> /\ queue' = Rest
      /\ n \in ToSet(visited) \/ ~ (Len(visited) < budget)
      /\ ToSet(queue) = ToSet(queue') \cup {<<n, d>>}
  BY PassFacts
<1>2. /\ Ball' = Ball /\ depth' = depth /\ mode' = mode /\ budget' = budget
      /\ graph' = graph /\ visited' = visited /\ found' = found
  BY <1>1, BallStays DEF queryVars
<1>3. /\ ToSet(visited') = ToSet(visited) /\ ToSet(found') = ToSet(found)
      /\ ToSet(graph') = ToSet(graph)
  BY <1>2
<1> SUFFICES ASSUME mode = "bfs" PROVE LevelInv' /\ LeavesInv' /\ OrderInv'
  BY <1>2 DEF NearInv
<1>4. LevelInv /\ LeavesInv /\ OrderInv BY DEF NearInv
<1>5. LevelInv'
  <2>0. queue \in Seq(Symbols \X (0 .. depth)) /\ queue # <<>> BY DEF WalkType, PassOver
  <2> DEFINE r == Len(Rest)
  <2>1. /\ Rest \in Seq(Symbols \X (0 .. depth)) /\ Len(queue) = r + 1
        /\ \A i \in 1 .. r : Rest[i] = queue[i + 1]
    BY <2>0, PopFacts
  <2>2. r \in Nat /\ DOMAIN Rest = 1 .. r /\ DOMAIN queue = 1 .. r + 1
    BY <2>0, <2>1, LenProperties
  <2> HIDE DEF r
  <2>3. ASSUME NEW i \in 1 .. r, NEW j \in 1 .. r, i <= j
        PROVE  Rest[i][2] <= Rest[j][2] /\ Rest[j][2] <= Rest[i][2] + 1
    <3>1. i + 1 \in DOMAIN queue /\ j + 1 \in DOMAIN queue /\ i + 1 <= j + 1
      BY <2>2, <2>3
    <3>2. Rest[i] = queue[i + 1] /\ Rest[j] = queue[j + 1] BY <2>1
    <3> QED BY <1>4, <3>1, <3>2 DEF LevelInv
  <2> QED BY <1>1, <2>2, <2>3 DEF LevelInv
<1>6. ASSUME NEW k \in 0 .. depth, NEW e \in ToSet(graph),
             k < depth, e[1] \in ToSet(visited), e[1] \in Ball[k]
      PROVE  /\ e \in ToSet(found)
             /\ Len(visited) < budget =>
                   \/ e[2] \in ToSet(visited)
                   \/ \E x \in ToSet(queue') : x[1] = e[2] /\ x[2] <= k + 1
  <2>1. /\ e \in ToSet(found)
        /\ Len(visited) < budget =>
              e[2] \in ToSet(visited) \/ \E x \in ToSet(queue) : x[1] = e[2] /\ x[2] <= k + 1
    BY <1>4, <1>6 DEF LeavesInv
  <2>2. \A x \in ToSet(queue) : x \in ToSet(queue') \/ x[1] = n BY <1>1
  <2> QED BY <1>1, <2>1, <2>2
<1>7. LeavesInv' BY <1>2, <1>3, <1>6 DEF LeavesInv
<1>8. OrderInv' BY <1>2, <1>4 DEF OrderInv
<1> QED BY <1>5, <1>7, <1>8

\* What holds of every walk, in either order.
WalkInvariant == WalkType /\ WalkInv /\ FoundInv /\ MetInv /\ NearInv

\* A query starts with its seeds on the queue and nothing else.
LEMMA WalkBegins ==
    ASSUME TraversalInit
    PROVE  WalkInvariant
<1> DEFINE n == Len(seeds)
<1>1. /\ graph \in Seq(Symbols \X Symbols) /\ seeds \in Seq(Symbols)
      /\ mode \in {"bfs", "dfs"} /\ depth \in Nat /\ budget \in Nat
  BY TraversalAssumption DEF TraversalInit
<1>2. /\ n \in Nat /\ DOMAIN seeds = 1 .. n /\ \A i \in 1 .. n : seeds[i] \in Symbols
  BY <1>1, LenProperties, ElementOfSeq
<1>3. queue = [i \in 1 .. n |-> <<seeds[i], 0>>] /\ visited = <<>> /\ found = <<>>
  BY <1>2 DEF TraversalInit
<1>4. ToSet(visited) = {} /\ ToSet(found) = {} /\ Len(visited) = 0 /\ Len(found) = 0
  BY <1>3 DEF ToSet
<1> HIDE DEF n
<1>5. \A i \in 1 .. n : <<seeds[i], 0>> \in Symbols \X (0 .. depth) BY <1>1, <1>2
<1>6. queue \in Seq(Symbols \X (0 .. depth)) /\ DOMAIN queue = 1 .. n
  BY <1>2, <1>3, <1>5
<1>7. ToSet(queue) = {<<s, 0>> : s \in ToSet(seeds)} BY <1>2, <1>3 DEF ToSet
<1>8. WalkType
  <2>1. visited \in Seq(Symbols) /\ found \in Seq(Symbols \X Symbols) BY <1>3, EmptySeq
  <2> QED BY <1>1, <1>6, <2>1 DEF WalkType
<1>9. WalkInv
  <2>1. IsInjective(visited) BY <1>3 DEF IsInjective
  <2>2. IsFiniteSet(ToSet(visited)) /\ Cardinality(ToSet(visited)) = 0 BY <1>4, FS_EmptySet
  <2>3. \A x \in ToSet(queue) : x[1] \in Ball[x[2]] /\ x[2] <= 0 BY <1>1, <1>7, BallSteps
  <2> QED BY <1>1, <1>4, <2>1, <2>2, <2>3 DEF WalkInv
<1>10. FoundInv
  <2>1. EdgesOf(ToSet(visited)) = {} BY <1>4 DEF EdgesOf
  <2>2. Cardinality(EdgesOf(ToSet(visited))) = 0 BY <2>1, FS_EmptySet
  <2> QED BY <1>4, <2>2 DEF FoundInv
<1>11. MetInv BY <1>4, <1>7 DEF MetInv
<1>12. LevelInv BY <1>3, <1>6 DEF LevelInv
<1>13. LeavesInv BY <1>4 DEF LeavesInv
<1>14. OrderInv BY <1>3 DEF OrderInv
<1> QED BY <1>8, <1>9, <1>10, <1>11, <1>12, <1>13, <1>14 DEF WalkInvariant, NearInv

\* Every step of a walk keeps its invariant.
LEMMA WalkContinues ==
    ASSUME WalkInvariant, [TraversalNext]_walkVars
    PROVE  WalkInvariant'
<1> USE DEF WalkInvariant
<1>1. WalkType' BY WalkTypeKept
<1>2. CASE UNCHANGED walkVars
  <2>1. /\ UNCHANGED queryVars /\ visited' = visited /\ found' = found /\ queue' = queue
        /\ depth' = depth /\ budget' = budget /\ mode' = mode /\ graph' = graph
        /\ seeds' = seeds
    BY <1>2 DEF walkVars, queryVars
  <2>2. Ball' = Ball BY <2>1, BallStays
  <2>3. /\ ToSet(visited') = ToSet(visited) /\ ToSet(found') = ToSet(found)
        /\ ToSet(queue') = ToSet(queue) /\ ToSet(graph') = ToSet(graph)
        /\ ToSet(seeds') = ToSet(seeds)
    BY <2>1
  <2>4. WalkInv' BY <2>1, <2>2, <2>3 DEF WalkInv
  <2>5. FoundInv' BY <2>1, <2>2, <2>3 DEF FoundInv, EdgesOf
  <2>6. MetInv' BY <2>1, <2>2, <2>3 DEF MetInv, Reached
  <2>7. NearInv'
    BY <2>1, <2>2, <2>3 DEF NearInv, LevelInv, LeavesInv, OrderInv
  <2> QED BY <1>1, <2>4, <2>5, <2>6, <2>7
<1>3. CASE VisitNode
  <2>1. queue # <<>> BY <1>3 DEF VisitNode
  <2>2. PICK n \in Symbols : \E d \in 0 .. depth : NextUp = <<n, d>> BY <2>1, NextUpIs
  <2>3. PICK d \in 0 .. depth : NextUp = <<n, d>> BY <2>2
  <2> QED BY <1>1, <1>3, <2>3, VisitKeepsWalk, VisitKeepsFound, VisitKeepsMet, VisitKeepsNear
<1>4. CASE PassOver
  <2>1. queue # <<>> BY <1>4 DEF PassOver
  <2>2. PICK n \in Symbols : \E d \in 0 .. depth : NextUp = <<n, d>> BY <2>1, NextUpIs
  <2>3. PICK d \in 0 .. depth : NextUp = <<n, d>> BY <2>2
  <2> QED BY <1>1, <1>4, <2>3, PassKeepsWalk, PassKeepsNear
<1> QED BY <1>2, <1>3, <1>4 DEF TraversalNext

\* The invariant of a walk is one.
LEMMA WalkInvariantHolds == TraversalSpec => []WalkInvariant
<1>1. TraversalInit => WalkInvariant BY WalkBegins
<1>2. WalkInvariant /\ [TraversalNext]_walkVars => WalkInvariant' BY WalkContinues
<1> QED BY <1>1, <1>2, PTL DEF TraversalSpec

-----------------------------------------------------------------------------
(* What an answer is *)

\* An answer with budget to spare that holds the seeds, and the end of every
\* edge of a node it holds, is everything within the depth.
LEMMA ClosedIsAll ==
    ASSUME depth \in Nat, ToSet(seeds) \subseteq ToSet(visited),
           \A e \in ToSet(graph) : e[1] \in ToSet(visited) => e[2] \in ToSet(visited)
    PROVE  Ball[depth] \subseteq ToSet(visited)
<1> DEFINE S == {j \in Nat : j <= depth => Ball[j] \subseteq ToSet(visited)}
<1>1. 0 \in S BY BallSteps
<1>2. ASSUME NEW j \in Nat, j \in S PROVE j + 1 \in S
  <2> SUFFICES ASSUME j + 1 <= depth PROVE Ball[j + 1] \subseteq ToSet(visited) OBVIOUS
  <2>1. j \in 0 .. depth /\ j # depth /\ j <= depth OBVIOUS
  <2>2. Ball[j] \subseteq ToSet(visited) BY <1>2, <2>1
  <2>3. Hop(Ball[j]) \subseteq ToSet(visited)
    <3> SUFFICES ASSUME NEW v \in Hop(Ball[j]) PROVE v \in ToSet(visited) OBVIOUS
    <3>1. PICK e \in ToSet(graph) : v = e[2] /\ e[1] \in Ball[j] BY DEF Hop, ToSet
    <3> QED BY <2>2, <3>1
  <2> QED BY <2>1, <2>2, <2>3, BallSteps
<1>3. depth \in S
  <2> HIDE DEF S
  <2> QED BY <1>1, <1>2, SetInduction
<1> QED BY <1>3

\* A breadth-first answer is the nearest part of the graph (lib.rs query):
\* nodes come by their distance from the seeds, none is passed over for one
\* further away, and with budget to spare it is everything within the depth,
\* with the edges of all that is nearer; for every graph, seeds and query.
THEOREM BreadthFirstIsNearestFirst == TraversalSpec => []NearestFirst
<1>1. ASSUME WalkInvariant PROVE NearestFirst
  <2> USE <1>1 DEF WalkInvariant
  <2> SUFFICES ASSUME queue = <<>>, mode = "bfs"
      PROVE  /\ \A i \in DOMAIN visited, k \in 0 .. depth : visited[i] \notin Ball[k] =>
                    Ball[k] \subseteq ToSet(SubSeq(visited, 1, i - 1))
             /\ ToSet(visited) \subseteq Ball[depth]
             /\ Len(visited) < budget =>
                  /\ ToSet(visited) = Ball[depth]
                  /\ depth > 0 =>
                        ToSet(found) = {e \in ToSet(graph) : e[1] \in Ball[depth - 1]}
    BY DEF NearestFirst, Answered
  <2>1. depth \in Nat /\ visited \in Seq(Symbols) BY DEF WalkType
  <2>2. LeavesInv /\ OrderInv BY DEF NearInv
  <2>3. ToSet(visited) \subseteq Ball[depth] BY DEF WalkInv
  <2>4. ASSUME NEW i \in DOMAIN visited, NEW k \in 0 .. depth, visited[i] \notin Ball[k],
               NEW v \in Ball[k]
        PROVE  v \in ToSet(SubSeq(visited, 1, i - 1))
    <3> DEFINE t == SubSeq(visited, 1, i - 1)
    <3>1. PICK j \in 1 .. i - 1 : visited[j] = v BY <2>2, <2>4 DEF OrderInv
    <3>2. /\ Len(visited) \in Nat /\ i \in 1 .. Len(visited)
      BY <2>1, LenProperties
    <3>3. \A x \in 1 .. i - 1 : visited[x] \in Symbols BY <2>1, <3>2, ElementOfSeq
    <3>4. 1 \in Int /\ i - 1 \in Int BY <3>2
    <3>5. /\ t \in Seq(Symbols)
          /\ Len(t) = IF 1 <= i - 1 THEN (i - 1) - 1 + 1 ELSE 0
          /\ \A x \in 1 .. (i - 1) - 1 + 1 : t[x] = visited[1 + x - 1]
      BY <3>3, <3>4, SubSeqProperties
    <3> HIDE DEF t
    <3>6. j \in 1 .. Len(t) /\ t[j] = visited[j] BY <3>1, <3>2, <3>5
    <3>7. j \in DOMAIN t BY <3>5, <3>6, LenProperties
    <3> QED BY <3>1, <3>6, <3>7 DEF ToSet, t
  <2>5. ASSUME Len(visited) < budget
        PROVE  /\ ToSet(visited) = Ball[depth]
               /\ depth > 0 => ToSet(found) = {e \in ToSet(graph) : e[1] \in Ball[depth - 1]}
    <3>1. ToSet(queue) = {} BY DEF ToSet
    <3>2. depth \in 0 .. depth BY <2>1
    <3>3. Ball[depth] \subseteq ToSet(visited) BY <2>2, <2>5, <3>1, <3>2, NearIsCovered
    <3>4. ASSUME depth > 0, NEW e \in ToSet(graph), e[1] \in Ball[depth - 1]
          PROVE  e \in ToSet(found)
      <4>1. depth - 1 \in 0 .. depth /\ depth - 1 < depth /\ depth - 1 <= depth
        BY <2>1, <3>4
      <4>2. Ball[depth - 1] \subseteq Ball[depth] BY <2>1, <3>2, <4>1, BallGrows
      <4>3. e[1] \in ToSet(visited) BY <3>3, <3>4, <4>2
      <4> QED BY <2>2, <3>4, <4>1, <4>3 DEF LeavesInv
    <3>5. \A e \in ToSet(found) : e \in ToSet(graph) /\ e[1] \in Ball[depth - 1]
      BY DEF FoundInv
    <3> QED BY <2>3, <3>3, <3>4, <3>5
  <2> QED BY <2>3, <2>4, <2>5
<1> QED BY <1>1, WalkInvariantHolds, PTL

\* An answer holds no node and no edge twice, stays within budget and depth,
\* and is closed: no edge of it starts outside it, and with budget to spare
\* none ends outside it and, the depth being no limit, it is all that can be
\* reached from the seeds (lib.rs query, both orders).
THEOREM AnswersAreSound == TraversalSpec => []AnswerIsSound
<1>1. ASSUME WalkInvariant PROVE AnswerIsSound
  <2> USE <1>1 DEF WalkInvariant
  <2>0. /\ depth \in Nat /\ visited \in Seq(Symbols) /\ found \in Seq(Symbols \X Symbols)
        /\ graph \in Seq(Symbols \X Symbols) /\ queue \in Seq(Symbols \X (0 .. depth))
    BY DEF WalkType
  <2>1. TraversalTypeOK
    <3>1. ToSet(visited) \subseteq Symbols BY <2>0, LenProperties, ElementOfSeq DEF ToSet
    <3>2. IsInjective(visited) /\ Len(visited) <= budget BY DEF WalkInv
    <3>3. ToSet(found) \subseteq ToSet(graph) BY DEF FoundInv
    <3>4. Len(found) <= Len(graph)
      <4> DEFINE E == EdgesOf(ToSet(visited))
      <4>1. Len(graph) \in Nat /\ DOMAIN graph = 1 .. Len(graph) /\ Len(found) \in Nat
        BY <2>0, LenProperties
      <4>2. E \subseteq 1 .. Len(graph) BY <4>1 DEF EdgesOf
      <4>3. Len(found) <= Cardinality(E) BY DEF FoundInv
      <4> HIDE DEF E
      <4>4. IsFiniteSet(1 .. Len(graph)) /\ Cardinality(1 .. Len(graph)) = Len(graph)
        <5> DEFINE g == Len(graph)
        <5>1. g \in Nat /\ 1 \in Int /\ g \in Int BY <4>1
        <5> HIDE DEF g
        <5>2. /\ IsFiniteSet(1 .. g)
              /\ Cardinality(1 .. g) = IF 1 > g THEN 0 ELSE g - 1 + 1
          BY <5>1, FS_Interval
        <5>3. IsFiniteSet(1 .. g) /\ Cardinality(1 .. g) = g BY <5>1, <5>2
        <5> QED BY <5>3 DEF g
      <4>5. Cardinality(E) <= Len(graph) /\ IsFiniteSet(E) BY <4>2, <4>4, FS_Subset
      <4>6. Cardinality(E) \in Nat BY <4>5, FS_CardinalityType
      <4> QED BY <4>1, <4>3, <4>5, <4>6
    <3>5. \A i \in DOMAIN queue : queue[i][2] <= depth
      BY <2>0, LenProperties, ElementOfSeq
    <3> QED BY <3>1, <3>2, <3>3, <3>4, <3>5 DEF TraversalTypeOK
  <2>2. ASSUME queue = <<>>
        PROVE  /\ \A e \in ToSet(found) : e[1] \in ToSet(visited)
               /\ Len(visited) < budget =>
                    /\ ToSet(seeds) \subseteq ToSet(visited)
                    /\ \A e \in ToSet(found) : e[2] \in ToSet(visited)
                    /\ depth >= Cardinality(Symbols) => ToSet(visited) = Ball[depth]
    <3>1. \A e \in ToSet(found) : e[1] \in ToSet(visited) BY DEF FoundInv
    <3>2. ASSUME Len(visited) < budget
          PROVE  /\ ToSet(seeds) \subseteq ToSet(visited)
                 /\ \A e \in ToSet(found) : e[2] \in ToSet(visited)
                 /\ depth >= Cardinality(Symbols) => ToSet(visited) = Ball[depth]
      <4>1. ToSet(queue) = {} BY <2>2 DEF ToSet
      <4>2. ToSet(seeds) \subseteq ToSet(visited) BY <3>2, <4>1 DEF MetInv
      <4>3. \A e \in ToSet(found) : e[2] \in ToSet(visited)
        BY <3>2, <4>1 DEF MetInv, Reached
      <4>4. ASSUME depth >= Cardinality(Symbols) PROVE ToSet(visited) = Ball[depth]
        <5>1. \A e \in ToSet(graph) : e[1] \in ToSet(visited) => e[2] \in ToSet(visited)
          BY <4>3, <4>4 DEF FoundInv
        <5>2. Ball[depth] \subseteq ToSet(visited) BY <2>0, <4>2, <5>1, ClosedIsAll
        <5> QED BY <5>2 DEF WalkInv
      <4> QED BY <4>2, <4>3, <4>4
    <3> QED BY <3>1, <3>2
  <2>3. AnswerIsClosed BY <2>2 DEF AnswerIsClosed, Answered
  <2> QED BY <2>1, <2>3 DEF AnswerIsSound
<1> QED BY <1>1, WalkInvariantHolds, PTL
=============================================================================
