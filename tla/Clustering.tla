----------------------------- MODULE Clustering -----------------------------
(***************************************************************************)
(* Communities of the graph (filigrio-resolve cluster.rs): Louvain, warm    *)
(* from the last partition, in one level (Simple) or several (Full), and    *)
(* the ids the communities inherit.  Nodes are numbered in their order in   *)
(* the state.  A community is called after its first node while it is being *)
(* computed: what is compared of the source's labels is their order only,  *)
(* and they are handed out by first occurrence.                             *)
(*                                                                         *)
(* Weights are whole numbers and modularity is compared exactly, times      *)
(* two_m: the source computes in floating point and asks for a gain above   *)
(* EPS, which is far below what two partitions can differ by.               *)
(***************************************************************************)
EXTENDS Integers, SequencesExt, FiniteSetsExt

CONSTANTS
    Nodes,       \* numbers of nodes
    Weights,     \* weights of an edge, 0 for none
    NoId,        \* no community
    Resolution,  \* numerator and denominator
    MaxEdits     \* bound: edits of the graph

ASSUME ClusteringAssumption ==
    Nodes \subseteq Nat \ {0} /\ Weights \subseteq Nat /\ 0 \in Weights /\ NoId \notin Nat

Pairs == {e \in SUBSET Nodes : Cardinality(e) = 2}
CommunityIds == 0 .. Cardinality(Nodes) - 1

VARIABLES
    nodes,     \* nodes of the graph
    weight,    \* the strongest edge of each pair
    changes,   \* history: edits so far
    prior,     \* the partition: community ids of the nodes
    settled,   \* history: the graph has not changed since it was clustered
    strategy,  \* ClusterStrategy, chosen once
    stage,     \* idle, a level of the clusterer, stabilize
    item,      \* the item of the level each node belongs to
    adj,       \* weights between the items of the level
    deg,       \* their degrees
    label,     \* the community of each item
    sumTot,    \* sum_tot: the degrees of the communities
    visit,     \* the next item of the pass, 0 at its end
    improved   \* the pass has moved an item

graphVars == <<nodes, weight, changes>>
moveVars == <<item, adj, deg, label, sumTot, visit, improved>>
clusterVars == <<graphVars, prior, settled, strategy, stage, moveVars>>

Levels == {"first", "higher"}
Idle == [v \in Nodes |-> 0]

ClusterInit ==
    /\ nodes = Nodes /\ weight \in [Pairs -> Weights] /\ changes = 0
    /\ prior = [v \in Nodes |-> NoId] /\ settled = FALSE
    /\ strategy \in {"simple", "full"} /\ stage = "idle"
    /\ item = Idle /\ adj = Idle /\ deg = Idle /\ label = Idle /\ sumTot = Idle /\ visit = 0 /\ improved = FALSE

-----------------------------------------------------------------------------
(* The undirected projection and what changes it *)

Degree(v) == MapThenSumSet(LAMBDA u : weight[{u, v}], nodes \ {v})

SetEdge(e, w) ==
    /\ e \subseteq nodes /\ weight[e] # w
    /\ weight' = [weight EXCEPT ![e] = w] /\ UNCHANGED <<nodes, prior>>

\* An apply forgets the communities of nodes that go.
DropNode(v) ==
    /\ v \in nodes /\ nodes' = nodes \ {v}
    /\ weight' = [e \in Pairs |-> IF v \in e THEN 0 ELSE weight[e]]
    /\ prior' = [prior EXCEPT ![v] = NoId]

AddNode(v) == v \notin nodes /\ nodes' = nodes \cup {v} /\ UNCHANGED <<weight, prior>>

\* Applies that leave clustering for later.
EditGraph ==
    /\ stage = "idle" /\ changes < MaxEdits /\ changes' = changes + 1
    /\ \/ \E e \in Pairs, w \in Weights : SetEdge(e, w)
       \/ \E v \in Nodes : DropNode(v) \/ AddNode(v)
    /\ settled' = FALSE
    /\ UNCHANGED <<strategy, stage, moveVars>>

-----------------------------------------------------------------------------
(* local_move *)

\* A level starts with the items in the communities `labels`; aggregate sums up what is between two
\* items and leaves out what is inside of one.
StartLevel(items, labels) ==
    LET members == [i \in Nodes |-> {v \in nodes : items[v] = i}]
        degree == [i \in Nodes |-> MapThenSumSet(Degree, members[i])]
    IN  /\ item' = items /\ label' = labels /\ deg' = degree
        /\ adj' = [i \in Nodes |-> [j \in Nodes |-> IF i = j THEN 0
                      ELSE MapThenSumSet(LAMBDA e : weight[e], {{u, v} : u \in members[i], v \in members[j]})]]
        /\ sumTot' = [l \in Nodes |-> MapThenSumSet(LAMBDA i : degree[i], {i \in Nodes : labels[i] = l})]
        /\ visit' = Min({items[v] : v \in nodes}) /\ improved' = FALSE

\* Warm start: nodes without a prior community start alone.
Seeded ==
    [v \in Nodes |-> IF prior[v] = NoId THEN v
                     ELSE Min({u \in nodes \cup {v} : prior[u] = prior[v]})]

\* cluster_with, on a changed graph or once more; without an edge nothing moves.
Seed ==
    /\ stage = "idle" /\ nodes # {}
    /\ StartLevel([v \in Nodes |-> v], Seeded)
    /\ stage' = IF \A e \in Pairs : weight[e] = 0 THEN "stabilize" ELSE "first"
    /\ UNCHANGED <<graphVars, prior, settled, strategy>>

Items == {item[v] : v \in nodes}
TwoM == MapThenSumSet(LAMBDA i : deg[i], Items)

\* sum_tot without the item.
Others(i) == [sumTot EXCEPT ![label[i]] = @ - deg[i]]

Pull(i, l) == MapThenSumSet(LAMBDA j : adj[i][j], {j \in Items : label[j] = l})

\* Mutation: the null model is left out.
GainPlain(i, l) == Pull(i, l)

Gain(i, l) == Resolution[2] * TwoM * Pull(i, l) - Resolution[1] * Others(i)[l] * deg[i]

Reachable(i) == {label[i]} \cup {label[j] : j \in {x \in Items : adj[i][x] > 0}}
Best(i) ==
    LET gain == [l \in Reachable(i) |-> Gain(i, l)]
    IN  {l \in DOMAIN gain : \A k \in DOMAIN gain : gain[k] <= gain[l]}

\* Mutation: a tie moves as well.
ChoiceOfTie(i) == Max(Best(i))

\* The first community with the highest gain, if that is more than staying gives.
Choice(i) == LET best == Best(i) IN IF label[i] \in best THEN label[i] ELSE Min(best)

Visit ==
    /\ stage \in Levels /\ visit # 0
    /\ LET best == Choice(visit)
           later == {i \in Items : i > visit}
       IN  /\ label' = [label EXCEPT ![visit] = best]
           /\ sumTot' = [Others(visit) EXCEPT ![best] = @ + deg[visit]]
           /\ improved' = (improved \/ best # label[visit])
           /\ visit' = IF later = {} THEN 0 ELSE Min(later)
    /\ UNCHANGED <<graphVars, prior, settled, strategy, stage, item, adj, deg>>

\* Mutation: one pass is enough.
PassesOverAtOnce == stage \in Levels /\ visit = 0

\* A pass without a move ends the level.
PassesOver == stage \in Levels /\ visit = 0 /\ ~ improved

NextPass ==
    /\ stage \in Levels /\ visit = 0 /\ ~ PassesOver
    /\ visit' = Min(Items) /\ improved' = FALSE
    /\ UNCHANGED <<graphVars, prior, settled, strategy, stage, item, adj, deg, label, sumTot>>

-----------------------------------------------------------------------------
(* louvain_full *)

\* densify: the communities of the level, each called after its first node.
Dense == [v \in Nodes |-> IF v \in nodes
             THEN Min({u \in nodes : label[item[u]] = label[item[v]]}) ELSE v]

\* Simple has one level, Full goes on until one merges nothing.
LevelsOver == strategy = "simple" \/ (stage = "higher" /\ Dense = item)

Aggregate ==
    /\ PassesOver /\ ~ LevelsOver
    /\ StartLevel(Dense, [v \in Nodes |-> v])
    /\ stage' = "higher"
    /\ UNCHANGED <<graphVars, prior, settled, strategy>>

EndLevels ==
    /\ PassesOver /\ LevelsOver /\ stage' = "stabilize"
    /\ UNCHANGED <<graphVars, prior, settled, strategy, moveVars>>

-----------------------------------------------------------------------------
(* stabilize *)

\* A group is called after its first node.
\* How many nodes of each community of the prior partition a group has.
Overlaps(dense) ==
    [g \in {dense[v] : v \in nodes} |->
        [id \in CommunityIds |-> Cardinality({v \in nodes : dense[v] = g /\ prior[v] = id})]]

BestOf(overlap) == [g \in DOMAIN overlap |-> Max(Range(overlap[g]))]

\* Mutation: the groups choose in their order.
StrongerByOrder(best, g, h) == g < h

Stronger(best, g, h) == best[g] > best[h] \/ (best[g] = best[h] /\ g < h)

\* A group claims the id it overlaps most that no stronger group has taken.
Claim(overlap, claimed, g) ==
    LET free == {id \in CommunityIds \ Range(claimed) : overlap[g][id] > 0}
        most == {id \in free : \A k \in free : overlap[g][k] <= overlap[g][id]}
    IN  IF free = {} THEN claimed ELSE (g :> Min(most)) @@ claimed

\* The rest gets the smallest ids that are left, in the order of the groups.
IdsOf(overlap) ==
    LET best == BestOf(overlap)
        order == SetToSortSeq(DOMAIN overlap, LAMBDA g, h : Stronger(best, g, h))
        claims == FoldLeft(LAMBDA claimed, g : Claim(overlap, claimed, g), <<>>, order)
        late == DOMAIN overlap \ DOMAIN claims
        unused == CommunityIds \ Range(claims)
        rank(S, x) == Cardinality({y \in S : y < x})
    IN  claims @@ [g \in late |-> CHOOSE id \in unused : rank(unused, id) = rank(late, g)]

Stabilize ==
    /\ stage = "stabilize" /\ stage' = "idle"
    /\ LET dense == Dense
           ids == IdsOf(Overlaps(dense))
       IN  prior' = [v \in Nodes |-> IF v \in nodes THEN ids[dense[v]] ELSE NoId]
    /\ settled' = TRUE
    /\ item' = Idle /\ adj' = Idle /\ deg' = Idle /\ label' = Idle /\ sumTot' = Idle /\ visit' = 0 /\ improved' = FALSE
    /\ UNCHANGED <<graphVars, strategy>>

ClusterStep == Seed \/ Visit \/ NextPass \/ Aggregate \/ EndLevels \/ Stabilize

ClusterNext == EditGraph \/ ClusterStep

ClusterSpec == ClusterInit /\ [][ClusterNext]_clusterVars

-----------------------------------------------------------------------------
(* Properties *)

\* Type invariant, with what local_move takes for granted: the degrees it keeps for a community
\* are those of its members, so that no entry is missing ("poisoned_bookkeeping").
ClusterTypeOK ==
    /\ nodes \subseteq Nodes /\ prior \in [Nodes -> CommunityIds \cup {NoId}]
    /\ stage \in {"idle", "stabilize"} \cup Levels
    /\ stage # "idle" => /\ item \in [Nodes -> Nodes] /\ label \in [Nodes -> Nodes]
                         /\ \A l \in Nodes : sumTot[l] =
                              MapThenSumSet(Degree, {v \in nodes : label[item[v]] = l})

\* Modularity, times two_m squared and the resolution's denominator.
Quality(community) ==
    LET internal(l) == MapThenSumSet(LAMBDA e : 2 * weight[e],
                          {e \in Pairs : e \subseteq nodes /\ \A v \in e : community[v] = l})
        total(l) == MapThenSumSet(Degree, {v \in nodes : community[v] = l})
        twoM == TwoM
    IN  MapThenSumSet(LAMBDA l : Resolution[2] * twoM * internal(l) - Resolution[1] * total(l) * total(l),
                      {community[v] : v \in nodes})

(***************************************************************************)
(* Every move is an improvement, on the nodes and on the super-nodes of     *)
(* each level: modularity grows whenever an item changes its community and  *)
(* is the same after aggregation (local_move, "a node moves only on a       *)
(* strict gain"; louvain_full, "two_m is invariant").                       *)
(***************************************************************************)
ModularityGrows ==
    [][{stage, stage'} \subseteq Levels =>
          LET before == Quality([v \in Nodes |-> label[item[v]]])
              after == Quality([v \in Nodes |-> label'[item'[v]]])
          IN  IF item' = item /\ label' # label THEN after > before ELSE after = before]_clusterVars

(***************************************************************************)
(* Clustering once more what has not changed since changes no community:   *)
(* one level ends in a partition no node wants to leave, which the warm     *)
(* start takes up and stabilize gives the same ids.  Of several levels the  *)
(* source promises less: a node may prefer what was only merged later.      *)
(***************************************************************************)
Reproducible ==
    [][stage = "stabilize" /\ settled /\ strategy = "simple" => prior' = prior]_clusterVars

(***************************************************************************)
(* Ids follow the nodes: nodes have the same id exactly if they ended in    *)
(* the same community, and a community that goes without the id it overlaps *)
(* most has lost it to one that overlaps it and some id at least as much    *)
(* (stabilize, "Claim prior ids best-match first").                         *)
(***************************************************************************)
IdsFollowNodes ==
    [][stage = "stabilize" =>
          LET dense == Dense
              overlap == Overlaps(dense)
              best == BestOf(overlap)
          IN  /\ \A u, v \in nodes : prior'[u] = prior'[v] <=> dense[u] = dense[v]
              /\ \A g \in DOMAIN overlap : best[g] > 0 =>
                    \E id \in CommunityIds, h \in DOMAIN overlap :
                       /\ overlap[g][id] = best[g] /\ overlap[h][id] > 0
                       /\ prior'[h] = id /\ best[h] >= best[g]]_clusterVars

\* A partition changes no more than the graph makes it change.
IdsAreStable == Reproducible /\ IdsFollowNodes
=============================================================================
