------------------------------ MODULE MCEngine ------------------------------
(* Instances of four parts that share no state, in one run: a behaviour      *)
(* follows the linking of a change or the clustering of what came out, both  *)
(* of the resolve engine, a retrieval a query runs over such a graph, or     *)
(* what the installer does to a file of the user.                            *)
EXTENDS MCRelink, Clustering, Traversal, ManagedFile

VARIABLE part   \* the part this behaviour is about

engineVars == <<part, vars, clusterVars, walkVars, managedVars>>

\* The one initial state of a part a behaviour is not about.
NoLinking == menu = Empty /\ scope = "global" /\ disk = <<>>
NoClustering == strategy = "simple" /\ weight = [e \in Pairs |-> 0]
NoRetrieval == graph = <<>> /\ mode = "bfs" /\ depth = 0 /\ budget = 1 /\ seeds = <<1>>
NoInstaller == kind = "doc" /\ fs = [p \in Paths |-> Gone] /\ dirless = TRUE

EngineInit ==
    /\ part \in {"linking", "clustering", "retrieval", "installer"}
    /\ part # "linking" => NoLinking
    /\ part # "clustering" => NoClustering
    /\ part # "retrieval" => NoRetrieval
    /\ part # "installer" => NoInstaller
    /\ Init /\ ClusterInit /\ TraversalInit /\ ManagedInit

EngineNext ==
    \/ part = "linking" /\ Next /\ UNCHANGED <<part, clusterVars, walkVars, managedVars>>
    \/ part = "clustering" /\ ClusterNext /\ UNCHANGED <<part, vars, walkVars, managedVars>>
    \/ part = "retrieval" /\ TraversalNext /\ UNCHANGED <<part, vars, clusterVars, managedVars>>
    \/ part = "installer" /\ ManagedNext /\ UNCHANGED <<part, vars, clusterVars, walkVars>>

EngineSpec == EngineInit /\ [][EngineNext]_engineVars

\* Type invariant: of the clusterer's state, that only nodes of the graph have a community, and of
\* the user's files.
EngineTypeOK == ClusterTypeOK /\ CommunitiesAreOfNodes /\ ManagedTypeOK

-----------------------------------------------------------------------------
MCResolution == <<1, 1>>

\* Every graph of which three nodes have an edge to at most two others, and the last one at most
\* an edge back to the first.
MCEdgesOf(n) ==
    {SetToSeq({<<n, t>> : t \in ts}) : ts \in {s \in SUBSET (Symbols \ {n}) : Cardinality(s) <= 2}}
MCGraphs == {a \o b \o c \o e : a \in MCEdgesOf(1), b \in MCEdgesOf(2), c \in MCEdgesOf(3),
                                e \in {<<>>, << <<4, 1>> >>}}
MCSeedLists == {<<1>>, <<2, 1>>}

\* At the destination: nothing, a dangling link, a loop; texts with and without a newline at their
\* end, with a marker in prose, stray blocks and half of one; and a file behind two links.
MCTexts ==
    {<<"a", NL>>, <<"a">>, <<>>, <<"shebang", NL>>, <<"a", "start", NL>>, <<"start", NL, "v2", NL>>,
     <<"a", NL, NL>> \o Block("v1") \o <<"b", NL>> \o Block("v2")}

MCLayouts ==
    LET place(h, m, f) == [here |-> h, middle |-> m, far |-> f]
    IN  {place(Gone, Gone, Gone), place(Symlink("far"), Gone, Gone),
         place(Symlink("middle"), Symlink("here"), Gone)}
        \cup {place(File(t, TRUE), Gone, Gone) : t \in MCTexts}
        \cup {place(Symlink("middle"), Symlink("far"), File(t, FALSE)) : t \in {<<"a">>, <<"shebang", NL>>}}
=============================================================================
