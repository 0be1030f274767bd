------------------------------ MODULE Linking ------------------------------
(***************************************************************************)
(* How one reference finds the node it means, as in the resolution half of *)
(* filigrio-resolve/src/lib.rs and in export_graph.rs: the import scope    *)
(* built from the export tables, the return type a receiver is deferred    *)
(* to, the workspace qualifier, and the choice among the candidates.       *)
(*                                                                         *)
(* A name is the sequence of its "::"-segments; a type is a record [path,  *)
(* args]; a node is [id, file, label, kind, impl, returns] with id the     *)
(* record [file, label, impl]; a reference is [name, source, rel, hint,    *)
(* spec, imported, opaque, returns, owner].  NoPath stands for an absent   *)
(* name or file and NoType for an absent type.                             *)
(***************************************************************************)
EXTENDS ModuleResolver, FiniteSets

CONSTANT PathOrder   \* the paths in the order node ids sort by

ASSUME PathOrderAssumption ==
  PathOrder \in Seq(Seq(STRING)) /\ \A i, j \in DOMAIN PathOrder : PathOrder[i] = PathOrder[j] => i = j

NoType == [path |-> <<>>, args |-> FALSE]
NoSpec == [sep |-> "/", segs |-> <<>>]

Linkable == {"function", "struct", "enum", "trait", "class", "interface", "type_alias"}

Defs(nodes) == {n \in nodes : n.kind \in Linkable}

Candidates(nodes, name) == {n \in Defs(nodes) : n.label = name}

Before(f, g) == \E i, j \in DOMAIN PathOrder : PathOrder[i] = f /\ PathOrder[j] = g /\ i <= j

First(cands) == CHOOSE n \in cands : \A m \in cands : Before(n.file, m.file)

NormType(type) == Last(type.path)

SameType(s, t) == s # NoType /\ t # NoType /\ NormType(s) = NormType(t)

-----------------------------------------------------------------------------
\* ExportGraph: per module the exported names and the wildcard re-exports.  A later export of a
\* name replaces an earlier one, and a local export needs its definition.
LocalDef(nodes, file, name) == {n \in Candidates(nodes, name) : n.file = file}

Entries(g, file, table, name) ==
  SelectSeq(table, LAMBDA e : e.kind # "star" /\ e.name = name
                              /\ (e.kind = "local" => LocalDef(g.nodes, file, name) # {}))

Stars(table) == SelectSeq(table, LAMBDA e : e.kind = "star")

Target(g, file, spec) == ResolveModule(g.tree, g.ws, file, spec)

\* The module and the name under which what a module exports as a name is defined: its table first, a
\* re-export followed wherever it leads, then each wildcard in order.  seen cuts the cycles; {} is None.
Walk(g, entry, wanted) ==
  LET table(file) == IF file \in DOMAIN g.exports THEN g.exports[file] ELSE <<>>
      walk[file \in Seq(STRING), name \in Seq(STRING), seen \in SUBSET (Seq(STRING) \X Seq(STRING))] ==
        LET follow(spec, as) == walk[Target(g, file, spec), as, seen \cup {<<file, name>>}]
            entries == Entries(g, file, table(file), name)
            found   == SelectSeq([i \in DOMAIN Stars(table(file)) |-> follow(Stars(table(file))[i].spec, name)],
                                 LAMBDA d : d # {})
        IN  CASE file = NoPath \/ <<file, name>> \in seen -> {}
              [] OTHER -> IF entries = <<>> THEN IF found = <<>> THEN {} ELSE Head(found)
                          ELSE IF Last(entries).kind = "local" THEN {<<file, name>>}
                          ELSE follow(Last(entries).spec, Last(entries).imported)
  IN  walk[entry, wanted, {}]

OrElse(found, default) == IF found # {} THEN found ELSE default

FirstOf(defs) == IF defs = {} THEN {} ELSE {First(defs)}

ResolveImport(g, file, name) ==
  FirstOf(UNION {LocalDef(g.nodes, k[1], k[2]) : k \in OrElse(Walk(g, file, name), {<<file, name>>})})

\* What the name an import binds in its file means there.
ImportedDef(g, r) ==
  LET from(entry) == IF entry = NoPath THEN {}
                     ELSE ResolveImport(g, entry, IF r.imported = NoPath THEN r.name ELSE r.imported)
  IN  IF r.rel # "imports" \/ r.spec = NoSpec THEN {} ELSE from(Target(g, r.source.file, r.spec))

\* Of two imports that bind one name in a file some one counts.
AsScope(bindings) == [k \in {b[1] : b \in bindings} |-> (CHOOSE b \in bindings : b[1] = k)[2]]

ImportScope(g, refs) ==
  AsScope(UNION {{<< <<r.source.file, r.name>>, n>> : n \in ImportedDef(g, r)} : r \in refs})

-----------------------------------------------------------------------------
\* c is the link context [nodes, ws, scope].
SameProject(c, file, cands) == {n \in cands : RootOf(c.ws, n.file) = RootOf(c.ws, file)}

\* The one return type of the callees of that name in the project, if there is exactly one.
ReturnTypeOf(c, r) ==
  LET pool == {n \in SameProject(c, r.source.file, Candidates(c.nodes, r.returns)) :
                 r.owner # NoType => SameType(n.impl, r.owner)}
      rets == {n.returns : n \in pool} \ {NoType}
  IN  IF Cardinality(rets) = 1 THEN [path |-> <<NormType(CHOOSE t \in rets : TRUE)>>, args |-> FALSE]
      ELSE NoType

\* A reference whose receiver's type is what a callee returns gets its hint from that callee, and
\* stays opaque when it has no such type.
Typed(r, type) == [r EXCEPT !.hint = type, !.opaque = (type = NoType)]

WithHint(c, r) == IF r.returns = NoPath THEN r ELSE Typed(r, ReturnTypeOf(c, r))

Unresolved(name, opaque) == [target |-> [name |-> name, opaque |-> opaque], conf |-> "extracted"]

Bound(n, conf) == [target |-> n.id, conf |-> conf]

Pick(cands, conf) ==
  IF Cardinality(cands) = 1 THEN Bound(First(cands), conf) ELSE Bound(First(cands), "ambiguous")

\* resolve: the import scope, then the receiver's type, then the own file, then the project.
Resolve(c, r, name, cands, anyProject) ==
  LET file  == r.source.file
      ids   == IF anyProject THEN cands ELSE SameProject(c, file, cands)
      typed == {n \in ids : SameType(n.impl, r.hint)}
      local == {n \in ids : n.file = file}
      none  == Unresolved(name, r.opaque)
  IN  CASE <<file, name>> \in DOMAIN c.scope -> Bound(c.scope[<<file, name>>], "extracted")
        [] OTHER ->
             IF ids = {} THEN none
             ELSE IF r.hint # NoType THEN IF typed = {} THEN none ELSE Pick(typed, "extracted")
             ELSE IF local # {} THEN Pick(local, "extracted")
             ELSE IF r.opaque THEN none
             ELSE Pick(ids, "inferred")

\* A name whose first segment names a package of the workspace.
Qualified(ws, name) == Len(name) > 1 /\ Named(ws, <<Head(name)>>) # {}

\* Several candidates of a qualified name: those of the named package only.
ResolveQualified(c, r, name, crate, anyProject) ==
  LET cands == Candidates(c.nodes, name)
      owned == {n \in cands : RootOf(c.ws, n.file) = ByName(c.ws, crate).root}
  IN  CASE Cardinality(cands) <= 1 -> Resolve(c, r, name, cands, anyProject)
        [] owned # {} -> Resolve(c, r, name, owned, anyProject)
        [] OTHER      -> Unresolved(name, r.opaque)

IsNode(target) == "file" \in DOMAIN target

\* Where a name leads: as written, or without the package it is qualified with, or by its last
\* segment alone.
ResolveRef(c, r) ==
  LET plain    == Resolve(c, r, r.name, Candidates(c.nodes, r.name), FALSE)
      crate    == <<Head(r.name)>>
      short    == Tail(r.name)
      last     == <<Last(r.name)>>
      stripped == ResolveQualified(c, r, short, crate, TRUE)
      bare     == Resolve(c, r, last, Candidates(c.nodes, last), TRUE)
  IN  IF ~Qualified(c.ws, r.name) THEN plain
      ELSE IF Candidates(c.nodes, r.name) # {} THEN ResolveQualified(c, r, r.name, crate, FALSE)
      ELSE IF IsNode(stripped.target) THEN stripped
      ELSE IF Len(short) > 1 /\ IsNode(bare.target) THEN bare
      ELSE plain

EdgeOf(r, found) == [source |-> r.source, rel |-> r.rel, target |-> found.target, conf |-> found.conf]

Link(c, r) == EdgeOf(r, ResolveRef(c, WithHint(c, r)))
=============================================================================
