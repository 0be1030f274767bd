----------------------------- MODULE Traversal -----------------------------
(***************************************************************************)
(* A retrieval over the view of a graph (filigrio-query/src/lib.rs, query): *)
(* breadth or depth first from ranked seeds, up to a depth and a budget of *)
(* nodes, one action per item taken off the queue.                          *)
(*                                                                         *)
(* A graph is the list of edges the filter of the query lets through;      *)
(* petgraph hands the edges of a node out latest first.                    *)
(***************************************************************************)
EXTENDS Integers, FiniteSets, SequencesExt

CONSTANTS
    Symbols,     \* the nodes of the graph
    Graphs,      \* sequences of edges <<source, target>>
    SeedLists,   \* ranked seeds, the most relevant first
    Depths,      \* of a query
    Budgets      \* of a query

ASSUME TraversalAssumption ==
    /\ IsFiniteSet(Symbols)
    /\ Graphs \subseteq Seq(Symbols \X Symbols) /\ SeedLists \subseteq Seq(Symbols)
    /\ Depths \subseteq Nat /\ Budgets \subseteq Nat

VARIABLES
    graph, mode, depth, budget, seeds,   \* the query
    visited,  \* nodes, in the order of their visit
    queue,    \* <<node, depth>>
    found     \* edges of the answer, in order

queryVars == <<graph, mode, depth, budget, seeds>>
walkVars == <<queryVars, visited, queue, found>>

-----------------------------------------------------------------------------
\* Where the edges of n are, and edges_directed(ix, Outgoing): the k-th one
\* handed out has k - 1 later ones.
EdgesFrom(n) == {i \in DOMAIN graph : graph[i][1] = n}
OutEdge(n, k) == CHOOSE i \in EdgesFrom(n) : Cardinality({j \in EdgesFrom(n) : j >= i}) = k
EdgesOut(n) == [k \in 1 .. Cardinality(EdgesFrom(n)) |-> graph[OutEdge(n, k)]]

TraversalInit ==
    /\ graph \in Graphs /\ mode \in {"bfs", "dfs"}
    /\ depth \in Depths /\ budget \in Budgets /\ seeds \in SeedLists
    /\ queue = [i \in DOMAIN seeds |-> <<seeds[i], 0>>]
    /\ visited = <<>> /\ found = <<>>

\* Mutation: the other end.
NextUpSwapped == IF mode = "bfs" THEN Last(queue) ELSE Head(queue)

\* pop.
NextUp == IF mode = "bfs" THEN Head(queue) ELSE Last(queue)
Rest == IF mode = "bfs" THEN Tail(queue) ELSE Front(queue)

\* Mutation: one too many.
IsPassedOverLate(n) == n \in ToSet(visited) \/ Len(visited) > budget

IsPassedOver(n) == n \in ToSet(visited) \/ Len(visited) >= budget

PassOver ==
    /\ queue # <<>> /\ IsPassedOver(NextUp[1])
    /\ queue' = Rest
    /\ UNCHANGED <<queryVars, visited, found>>

\* Mutation: the edges of the last nodes are handed out as well.
ExpandsPast(d) == d <= depth

Expands(d) == d < depth

VisitNode ==
    /\ queue # <<>> /\ ~ IsPassedOver(NextUp[1])
    /\ visited' = Append(visited, NextUp[1])
    /\ LET out == IF Expands(NextUp[2]) THEN EdgesOut(NextUp[1]) ELSE <<>>
       IN  /\ found' = found \o out
           /\ queue' = Rest \o [i \in DOMAIN out |-> <<out[i][2], NextUp[2] + 1>>]
    /\ UNCHANGED queryVars

TraversalNext == VisitNode \/ PassOver

TraversalSpec == TraversalInit /\ [][TraversalNext]_walkVars

-----------------------------------------------------------------------------
(* Reference *)

\* Ball[k]: what is at most k hops from the seeds.
Ball[k \in 0 .. depth] ==
    IF k = 0 THEN ToSet(seeds)
    ELSE LET near == Ball[k - 1]
         IN  near \cup {graph[i][2] : i \in {j \in DOMAIN graph : graph[j][1] \in near}}

Answered == queue = <<>>

(***************************************************************************)
(* A breadth-first answer is the nearest part of the graph: nodes come by   *)
(* their distance from the seeds, none is passed over for one further away,*)
(* and with budget to spare it is everything within the depth, with the    *)
(* edges of all that is nearer than that (lib.rs query).                    *)
(***************************************************************************)
NearestFirst ==
    Answered /\ mode = "bfs" =>
        /\ \A i \in DOMAIN visited, k \in 0 .. depth :
              visited[i] \notin Ball[k] => Ball[k] \subseteq ToSet(SubSeq(visited, 1, i - 1))
        /\ ToSet(visited) \subseteq Ball[depth]
        /\ Len(visited) < budget =>
              /\ ToSet(visited) = Ball[depth]
              /\ depth > 0 => ToSet(found) = {e \in ToSet(graph) : e[1] \in Ball[depth - 1]}

(***************************************************************************)
(* No edge of an answer starts outside it, and none ends outside it unless *)
(* the budget is spent; what was left out is one step from the answer or   *)
(* at its depth (lib.rs query, both orders).                               *)
(***************************************************************************)
AnswerIsClosed ==
    Answered =>
        /\ \A e \in ToSet(found) : e[1] \in ToSet(visited)
        /\ Len(visited) < budget =>
              /\ ToSet(seeds) \subseteq ToSet(visited)
              /\ \A e \in ToSet(found) : e[2] \in ToSet(visited)
              /\ depth >= Cardinality(Symbols) => ToSet(visited) = Ball[depth]

\* Type invariant: no node twice, no edge twice, within the budget.
TraversalTypeOK ==
    /\ ToSet(visited) \subseteq Symbols /\ IsInjective(visited) /\ Len(visited) <= budget
    /\ ToSet(found) \subseteq ToSet(graph) /\ Len(found) <= Len(graph)
    /\ \A i \in DOMAIN queue : queue[i][2] <= depth

\* What an answer may hold.
AnswerIsSound == TraversalTypeOK /\ AnswerIsClosed

(***************************************************************************)
(* The most relevant seed is in every answer that has room for one node    *)
(* (lib.rs query, "packing them in priority order means a tight budget     *)
(* keeps the most relevant region").  Violated depth first: pop takes the   *)
(* last seed, the least relevant one, first.                               *)
(***************************************************************************)
SeedsByRelevance == Answered /\ budget > 0 => Head(seeds) \in ToSet(visited)
=============================================================================
