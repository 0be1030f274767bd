------------------------------- MODULE Relink -------------------------------
(***************************************************************************)
(* Incremental re-linking: Engine::apply of filigrio-resolve/src/lib.rs    *)
(* and the merge of its delta in filigrio-store/src/lib.rs.                *)
(*                                                                         *)
(* Files of a tree are edited; from time to time an apply is told which    *)
(* files changed.  It extracts those files only, relinks either every      *)
(* reference (scope "global") or those the change can concern ("scoped",   *)
(* what the daemon runs), and ships a patch that the store merges into the *)
(* state.  What must come out is what a cold build of the tree would give. *)
(*                                                                         *)
(* The content of a file is a record [nodes, refs, exports, project]: the  *)
(* definitions, without their file; the references, with the label and     *)
(* owner they are made from; the export table; what a manifest declares.   *)
(* The files named .toml are the manifests.  Hashes, attributes and        *)
(* communities are left out: of the partition only which nodes have a      *)
(* community is kept.                                                      *)
(***************************************************************************)
EXTENDS Linking, Bags

CONSTANTS Menus,      \* the scenarios: each gives every file the contents it may have
          Tearable,   \* the scenarios in which the state may lose a reference
          Absent,     \* the content of a file that does not exist
          MaxPending  \* how many files may be changed and not applied yet

VARIABLES menu,     \* the scenario, chosen once
          scope,    \* "global" or "scoped", the engine's LinkScope, chosen once
          disk,     \* file -> content
          pending,  \* the files edited since an apply was told of them
          st,       \* the graph state
          engine,   \* what the engine holds the edges and references of the last apply to be
          faults    \* "torn": the state was restored with a reference missing; "skewed": an apply
                    \* saw on disk that a file had come or gone which it was not told of, or which
                    \* changed no export table

vars == <<menu, scope, disk, pending, st, engine, faults>>

RefFields == {"name", "source", "rel", "hint", "spec", "imported", "opaque", "returns", "owner"}

\* What an extractor yields of a file: the labels <<"file">> and <<"project">> are kept for the nodes made
\* for files and projects; a reference is made from the file or a definition of it, and its relation is none of
\* those of the edges that are not made from references.
IsContent(c) ==
  /\ IsFiniteSet(c.nodes) /\ IsFiniteSet(c.refs)
  /\ \A n \in c.nodes : n.label \notin {<<"file">>, <<"project">>} /\ n.kind # "project"
  /\ \A r \in c.refs :
       /\ DOMAIN r = RefFields /\ r.name \in Seq(STRING) \ {<<>>}
       /\ r.rel \notin {"contains", "depends_on"}
       /\ \/ r.source.label = <<"file">> /\ r.source.impl = NoType
          \/ \E n \in c.nodes : r.source.label = n.label /\ r.source.impl = n.impl

ASSUME MenuAssumption ==
  \A m \in Menus : /\ IsFiniteSet(DOMAIN m) /\ NoPath \notin DOMAIN m
                   /\ \A f \in DOMAIN m : \E i \in DOMAIN PathOrder : PathOrder[i] = f
                   /\ \A f \in DOMAIN m : \A c \in m[f] : IsContent(c)

\* What a file exports.
Table(exports, f) == IF f \in DOMAIN exports THEN exports[f] ELSE <<>>

Files == DOMAIN disk
Tree == {f \in Files : disk[f] # Absent}

EmptyState == [nodes |-> {}, edges |-> EmptyBag, refs |-> {}, exports |-> <<>>, manifest |-> {},
               ws |-> {}, assigned |-> {}]

Without(bag, P(_)) == [e \in {e \in DOMAIN bag : ~P(e)} |-> bag[e]]

\* How many members a bag has, each counted as often as it is in it.
Size(bag) == Cardinality(UNION {{e} \X (1 .. bag[e]) : e \in DOMAIN bag})

\* The bag of what F makes of the members of S.
BagOf(S, F(_)) == [e \in {F(x) : x \in S} |-> Cardinality({x \in S : F(x) = e})]

-----------------------------------------------------------------------------
\* Extraction.  A change set is a record [index, removed]; index is what is added or modified.
Touched(ch) == ch.index \cup ch.removed

FoldVanished(ch, tree) == [index |-> ch.index \cap tree, removed |-> ch.removed \cup (ch.index \ tree)]

FileId(f) == [file |-> f, label |-> <<"file">>, impl |-> NoType]

Ids(nodes) == {n.id : n \in nodes}

NodeOf(f, d) == [id |-> [file |-> f, label |-> d.label, impl |-> d.impl], file |-> f, label |-> d.label,
                 kind |-> d.kind, impl |-> d.impl, returns |-> d.returns]

FileNode(f) == [id |-> FileId(f), file |-> f, label |-> <<"file">>, kind |-> "file", impl |-> NoType,
                returns |-> NoType]

IsManifest(f) == Last(f) = ".toml"

Edge(source, rel, target) == [source |-> source, rel |-> rel, target |-> target, conf |-> "extracted"]

ExtractChanged(ch, d) ==
  LET files == {f \in ch.index : ~IsManifest(f)}
      made(f) == {NodeOf(f, n) : n \in d[f].nodes}
      refOf(f, r) == [r EXCEPT !.source = [file |-> f, label |-> @.label, impl |-> @.impl]]
  IN  [nodes |-> UNION {made(f) \cup {FileNode(f)} : f \in files},
       structural |-> SetToBag(UNION {{Edge(FileId(f), "contains", n.id) : n \in made(f)} : f \in files}),
       refs |-> UNION {{refOf(f, r) : r \in d[f].refs} : f \in files},
       exports |-> [f \in {g \in files : d[g].exports # <<>>} |-> d[f].exports]]

\* One project per directory; of two manifests of a directory in a change the later one declares it.
MaintainWorkspace(ws, ch, d) ==
  LET manifests(fs) == {f \in fs : IsManifest(f)}
      declaring == {f \in manifests(ch.index) :
                      \A g \in manifests(ch.index) : DirOf(g) = DirOf(f) => Before(g, f)}
  IN  {p \in ws : \A f \in manifests(Touched(ch)) : p.root # DirOf(f)}
        \cup {[root |-> DirOf(f), name |-> d[f].project.name, entry |-> d[f].project.entry,
               deps |-> d[f].project.deps] : f \in declaring}

MaintainManifest(manifest, ch) == (manifest \cup ch.index) \ ch.removed

MaintainExports(exports, ch, new) ==
  [f \in DOMAIN new \cup (DOMAIN exports \ Touched(ch)) |-> IF f \in DOMAIN new THEN new[f] ELSE exports[f]]

RebuildRefs(refs, droppedIds, new) == {r \in refs : r.source \notin droppedIds} \cup new

-----------------------------------------------------------------------------
\* The repair of a state that lost references: a site, a source and a relation, with more edges than
\* references gets a bare reference for edges no reference accounts for, as many as are missing.
Site(x) == <<x.source, x.rel>>

IsProject(id) == id.label = <<"project">>

EdgesAt(edges, site) == Without(edges, LAMBDA e : Site(e) # site)

RefsAt(refs, site) == {r \in refs : Site(r) = site}

Deficit(edges, refs, site) ==
  LET has == Size(EdgesAt(edges, site))
      had == Cardinality(RefsAt(refs, site))
  IN  IF has > had THEN has - had ELSE 0

Diverged(old, refs, droppedIds) ==
  {s \in {Site(r) : r \in refs} : s[1] \notin droppedIds /\ Deficit(old.edges, refs, s) > 0}

LabelOf(nodes, id) == {n.label : n \in {m \in nodes : m.id = id}}

NameOf(old, target) == IF IsNode(target) THEN LabelOf(old.nodes, target) ELSE {target.name}

Claimed(old, refs, imports, e) ==
  LET names == {r.name : r \in RefsAt(refs, Site(e))}
  IN  \/ NameOf(old, e.target) \subseteq names
      \/ /\ IsNode(e.target)
         /\ \E n \in names : /\ <<e.source.file, n>> \in DOMAIN imports
                             /\ imports[<<e.source.file, n>>].id = e.target

BareRef(name, e) ==
  [name |-> name, source |-> e.source, rel |-> e.rel, hint |-> NoType, spec |-> NoSpec,
   imported |-> NoPath, opaque |-> ~IsNode(e.target) /\ e.target.opaque, returns |-> NoPath,
   owner |-> NoType]

\* Mutation: a reference the state lost is not reconstructed.
HealedNever(old, refs, droppedIds, imports) == {}

Healed(old, refs, droppedIds, imports) ==
  LET bare(s) == {BareRef(CHOOSE n \in NameOf(old, e.target) : TRUE, e) :
                    e \in {x \in DOMAIN EdgesAt(old.edges, s) : ~Claimed(old, refs, imports, x)}}
      some(s) == CHOOSE R \in SUBSET bare(s) :
                   Cardinality(R) = IF Cardinality(bare(s)) < Deficit(old.edges, refs, s)
                                    THEN Cardinality(bare(s)) ELSE Deficit(old.edges, refs, s)
  IN  UNION {some(s) : s \in Diverged(old, refs, droppedIds)}

-----------------------------------------------------------------------------
\* Mutation: neither export tables, qualified names nor receivers' callees make a site dirty.
ImpactByName(old, touched, dirtyNodes, refs, exports, ws) ==
  [full  |-> ws # old.ws,
   sites |-> {Site(r) : r \in {q \in refs : q.name \in {n.label : n \in Defs(dirtyNodes)}
                                           \/ q.source.file \in touched}}]

\* The sites a change can concern.
Impact(old, touched, dirtyNodes, refs, exports, ws) ==
  LET names == {n.label : n \in Defs(dirtyNodes)}
      dirty(r) == \/ r.name \in names
                  \/ (Qualified(ws, r.name) /\ Tail(r.name) \in names)
                  \/ r.source.file \in touched
                  \/ r.returns \in names
  IN  [full  |-> ws # old.ws \/ \E f \in touched : Table(old.exports, f) # Table(exports, f),
       sites |-> {Site(r) : r \in {q \in refs : dirty(q)}}]

Impacted(impact, how, site) == how = "global" \/ impact.full \/ site \in impact.sites

ProjectId(root) == [file |-> root, label |-> <<"project">>, impl |-> NoType]

ProjectNode(p) == [id |-> ProjectId(p.root), file |-> NoPath, label |-> p.name, kind |-> "project",
                   impl |-> NoType, returns |-> NoType]

ProjectEdges(ws, nodes) ==
  SetToBag({Edge(ProjectId(d[1].root), "depends_on", ProjectId(d[2].root)) : d \in DependsOn(ws)}
           \cup {Edge(ProjectId(RootOf(ws, n.file)), "contains", n.id) :
                   n \in {m \in nodes : m.kind = "file" /\ InProject(ws, m.file)}})

\* The prior edges that stay as they are: both ends are there, and no reference emits them again.
Carried(old, how, refs, impact, droppedIds) ==
  LET sites == {Site(r) : r \in refs}
  IN  Without(old.edges, LAMBDA e : \/ IsProject(e.source) \/ e.source \in droppedIds
                                    \/ (IsNode(e.target) /\ e.target \in droppedIds)
                                    \/ (Site(e) \in sites /\ Impacted(impact, how, Site(e))))

ResolveImpacted(c, how, impact, refs) ==
  BagOf({r \in refs : Impacted(impact, how, Site(r))}, LAMBDA r : Link(c, r))

\* Mutation: the communities of dropped nodes are carried.
CarryPartitionAll(assigned, droppedIds, newIds) == assigned

\* Deferred clustering keeps the communities of the nodes that stay or come back.
CarryPartition(assigned, droppedIds, newIds) == assigned \ (droppedIds \ newIds)

DiffEdges(retired, emitted) == [added |-> emitted (-) retired, removed |-> retired (-) emitted]

\* The owned half of the front sequence, of a change set that is true of the tree.
FrontExtract(old, ch, d) ==
  LET dropped  == {n \in old.nodes : n.file \in Touched(ch)}
      projects == {n \in old.nodes : n.kind = "project"}
  IN  [changes |-> ch, dropped |-> dropped, projects |-> projects,
       surviving |-> old.nodes \ (dropped \cup projects),
       ws |-> MaintainWorkspace(old.ws, ch, d), extracted |-> ExtractChanged(ch, d)]

\* What the references resolve against.
FrontLink(old, x, tree) ==
  [nodes   |-> x.surviving \cup x.extracted.nodes,
   ws      |-> x.ws,
   tree    |-> tree,
   exports |-> MaintainExports(old.exports, x.changes, x.extracted.exports),
   refs    |-> RebuildRefs(old.refs, Ids(x.dropped), x.extracted.refs)]

\* The import scope, and the references the divergence guard reconstructs.
FrontHeal(old, x, l, scoped) ==
  [nodes |-> l.nodes, ws |-> l.ws, tree |-> l.tree, exports |-> l.exports, refs |-> l.refs,
   scope |-> scoped, healed |-> Healed(old, l.refs, Ids(x.dropped), scoped)]

\* The edges: those carried, and those of the new files, of the impacted references, of the projects.
Relinked(old, how, x, l, refs, impact) ==
  [carried |-> Carried(old, how, refs, impact, Ids(x.dropped)),
   emitted |-> x.extracted.structural (+) ResolveImpacted(l, how, impact, refs) (+) ProjectEdges(l.ws, l.nodes)]

\* The delta, and the edges and references it is the patch for.
Delta(old, x, l, edges, diff, timing) ==
  [delta |-> [nodesAdded   |-> x.extracted.nodes \cup {ProjectNode(p) : p \in x.ws},
              nodesRemoved |-> Ids(x.dropped \cup x.projects),
              edgesAdded   |-> diff.added,
              edgesRemoved |-> diff.removed,
              refsDropped  |-> Ids(x.dropped),
              refsAdded    |-> x.extracted.refs \cup l.healed,
              exports |-> l.exports, manifest |-> MaintainManifest(old.manifest, x.changes), ws |-> x.ws,
              assigned |-> IF timing = "inline" THEN Ids(l.nodes)
                           ELSE CarryPartition(old.assigned, Ids(x.dropped), Ids(x.extracted.nodes))],
   edges |-> edges.carried (+) edges.emitted,
   refs  |-> l.refs \cup l.healed]

Emit(old, x, l, edges, timing) ==
  Delta(old, x, l, edges, DiffEdges(old.edges (-) edges.carried, edges.emitted), timing)

LinkStage(old, how, x, l, refs) ==
  Relinked(old, how, x, l, refs,
           Impact(old, Touched(x.changes), x.dropped \cup x.extracted.nodes, refs, l.exports, l.ws))

BackHalf(old, how, x, l, timing) == Emit(old, x, l, LinkStage(old, how, x, l, l.refs \cup l.healed), timing)

Linked(old, how, x, l, timing) ==
  BackHalf(old, how, x, FrontHeal(old, x, l, ImportScope(l, l.refs)), timing)

Extracted(old, how, x, tree, timing) == Linked(old, how, x, FrontLink(old, x, tree), timing)

\* Engine::apply, stage by stage.
EngineApply(old, how, told, d, timing) ==
  LET tree == {f \in DOMAIN d : d[f] # Absent}
  IN  Extracted(old, how, FrontExtract(old, FoldVanished(told, tree), d), tree, timing)

PruneDangling(edges, ids) ==
  Without(edges, LAMBDA e : e.source \notin ids \/ (IsNode(e.target) /\ e.target \notin ids))

\* Mutation: the references of the sources that are dropped stay.
MergeReverseAppend(refs, delta) == refs \cup delta.refsAdded

MergeReverse(refs, delta) == {r \in refs : r.source \notin delta.refsDropped} \cup delta.refsAdded

\* The store's merge: nodes, edges and references patched, the rest replaced.
Merge(old, delta) ==
  LET nodes == {n \in old.nodes : n.id \notin delta.nodesRemoved}
      ids   == {n.id : n \in nodes \cup delta.nodesAdded}
      edges == (old.edges (-) delta.edgesRemoved) (+) delta.edgesAdded
  IN  [nodes |-> nodes \cup {n \in delta.nodesAdded : n.id \notin {m.id : m \in nodes}},
       edges |-> PruneDangling(edges, ids),
       refs  |-> MergeReverse(old.refs, delta),
       exports |-> delta.exports, manifest |-> delta.manifest, ws |-> delta.ws,
       assigned |-> delta.assigned]

\* A cold build indexes every file into an empty state.
ColdBuild(d) ==
  Merge(EmptyState,
        EngineApply(EmptyState, "global", [index |-> {f \in DOMAIN d : d[f] # Absent}, removed |-> {}], d,
                    "inline").delta)

-----------------------------------------------------------------------------
Init == /\ menu \in Menus
        /\ scope \in {"global", "scoped"}
        /\ disk \in {d \in [DOMAIN menu -> UNION {menu[f] : f \in DOMAIN menu}] :
                      \A f \in DOMAIN menu : d[f] \in menu[f]}
        /\ pending = {}
        /\ st = ColdBuild(disk)
        /\ engine = [edges |-> st.edges, refs |-> st.refs]
        /\ faults = {}

Edit(f) ==
  /\ Cardinality(pending \cup {f}) <= MaxPending
  /\ \E content \in menu[f] \ {disk[f]} : disk' = [disk EXCEPT ![f] = content]
  /\ pending' = pending \cup {f}
  /\ UNCHANGED <<menu, scope, st, engine, faults>>

\* An apply of what one capture reports: some of the files edited; a file that is gone may be
\* reported as removed or, by a capture that saw it before, as modified.
Apply(told) ==
  \E removed \in SUBSET (told \ Tree), timing \in {"inline", "deferred"} :
  \E result \in {EngineApply(st, scope, [index |-> told \ removed, removed |-> removed], disk, timing)} :
    /\ st' = Merge(st, result.delta)
    /\ engine' = [edges |-> result.edges, refs |-> result.refs]
    /\ pending' = pending \ told
    /\ faults' = faults \cup {x \in {"skewed"} :
                  \E f \in pending : /\ f \in Tree <=> f \notin st.manifest
                                    /\ f \in told => Table(st.exports, f) = Table(st'.exports, f)}
    /\ UNCHANGED <<menu, scope, disk>>

Recluster ==
  /\ st' = [st EXCEPT !.assigned = {n.id : n \in {m \in st.nodes : m.kind # "project"}}]
  /\ UNCHANGED <<menu, scope, disk, pending, engine, faults>>

\* A state restored from a copy that lost a reference.
Tear ==
  /\ menu \in Tearable /\ pending = {} /\ faults = {}
  /\ \E r \in st.refs : /\ st' = [st EXCEPT !.refs = @ \ {r}]
                        /\ engine' = [engine EXCEPT !.refs = @ \ {r}]
  /\ faults' = faults \cup {"torn"}
  /\ UNCHANGED <<menu, scope, disk, pending>>

Next == \/ \E f \in Files : Edit(f)
        \/ \E told \in SUBSET pending \ {{}} : Apply(told)
        \/ Recluster
        \/ Tear

Spec == Init /\ [][Next]_vars

-----------------------------------------------------------------------------
Facts(s) == [s EXCEPT !.assigned = {}]

Settled == pending = {} /\ "torn" \notin faults

\* The references and the exports of the scenario.
AnyRef(P(_)) == \E f \in Files : \E content \in menu[f] : \E r \in content.refs : P(r)
AnyExport(P(_)) ==
  \E f \in Files : \E content \in menu[f] : \E i \in DOMAIN content.exports : P(content.exports[i])

\* Some reference of the scenario reaches a definition whose label is neither its name nor what
\* follows the package its name starts with: an import or an export under another name, a path of
\* modules.
Indirect == \/ AnyRef(LAMBDA r : r.imported \notin {NoPath, r.name} \/ Len(r.name) > 2)
            \/ AnyExport(LAMBDA e : e.kind = "reexport" /\ e.imported # e.name)

\* Some reference imports a module: what it means depends on which files exist.
Importing == AnyRef(LAMBDA r : r.rel = "imports" /\ r.spec # NoSpec)

OneManifestEach == \A f, g \in Files : IsManifest(f) /\ IsManifest(g) /\ DirOf(f) = DirOf(g) => f = g

\* After any sequence of applies the state is the one a cold build of the tree gives: no reference is
\* forgotten, none outlives its file, and every edge is bound as it would be from nothing
\* (LinkScope::Global, lib.rs:170-177).  The same of applies that re-link only the sites a change can
\* concern (LinkScope::Scoped; compute_impact names the sites), as long as every reference names its
\* definition directly and no import was resolved among files that had come or gone unnoticed.
IncrementalIsCold ==
  Settled /\ OneManifestEach /\ (scope = "scoped" => ~Indirect /\ (Importing => "skewed" \notin faults))
    => Facts(st) = Facts(ColdBuild(disk))

\* What the documentation says of the scoped applies, for every tree.
ScopedEqualsGlobal == scope = "scoped" /\ Settled => Facts(st) = Facts(ColdBuild(disk))

\* The patch an apply ships, merged and pruned by the store, gives exactly the edges, as many of
\* each, and the references the engine computed.
PatchIsExact == st.edges = engine.edges /\ st.refs = engine.refs

Sources(s) == {e.source : e \in DOMAIN s.edges}

\* An apply leaves a source that the change does not touch as many edges of a relation as it had,
\* even when the state had lost the reference one of them was made from.
SitesKeepTheirEdges ==
  [][\A site \in {Site(r) : r \in st.refs} :
       (site[1].file \notin pending /\ disk' = disk /\ (scope = "scoped" => ~Indirect)) =>
         Size(EdgesAt(st'.edges, site)) = Size(EdgesAt(st.edges, site))]_vars

\* Only nodes of the graph have a community, however clustering is put off.
CommunitiesAreOfNodes == st.assigned \subseteq {n.id : n \in st.nodes}
=============================================================================
