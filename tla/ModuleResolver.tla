--------------------------- MODULE ModuleResolver ---------------------------
(***************************************************************************)
(* How an import specifier becomes a file of the repository, as in         *)
(* filigrio-resolve/src/modres.rs (the source tier), and the workspace of  *)
(* projects it consults, as in filigrio-core/src/state.rs.                 *)
(*                                                                         *)
(* A path is the sequence of its components, the extension being one of    *)
(* its own: src/lib.rs is <<"src", "lib", ".rs">>.  A specifier is a       *)
(* record [sep, segs]: what separates its segments ("/" or "::") and the   *)
(* segments; "./b" is [sep |-> "/", segs |-> <<".", "b">>].  A tree is the *)
(* set of the paths that exist; a workspace a set of projects [root, name, *)
(* entry, deps], one per root.  NoPath, the empty path, stands for None.   *)
(* In a Rust file a single-segment specifier is a module path; specifiers  *)
(* that start with "@" occur in JavaScript files only.                     *)
(***************************************************************************)
EXTENDS Naturals, Sequences, SequencesExt

NoPath == <<>>

Exts == <<".ts", ".tsx", ".js", ".jsx", ".mjs", ".cjs", ".rs", ".py", ".go">>

DefaultEntries == << <<"index", ".ts">>, <<"index", ".js">>, <<"src", "index", ".ts">>,
                     <<"src", "index", ".js">>, <<"src", "lib", ".rs">>, <<"src", "main", ".rs">> >>

FirstIn(tree, candidates) ==
  LET hits == SelectSeq(candidates, LAMBDA p : p \in tree)
  IN  IF hits = <<>> THEN NoPath ELSE Head(hits)

\* The path as it stands, then with each extension, then as a directory of an index file.
Probe(tree, path) ==
  FirstIn(tree, <<path>> \o [i \in DOMAIN Exts |-> Append(path, Exts[i])]
                         \o [i \in DOMAIN Exts |-> path \o <<"index", Exts[i]>>])

DirOf(path) == SubSeq(path, 1, Len(path) - 2)

\* base/rel, where "." stays, ".." drops a component and stops at the root of the repository.
NormalizeJoin(base, rel) ==
  FoldLeft(LAMBDA acc, part : CASE part = "."  -> acc
                                [] part = ".." -> IF acc = <<>> THEN acc ELSE Front(acc)
                                [] OTHER       -> Append(acc, part),
           base, rel)

-----------------------------------------------------------------------------
\* The project a path belongs to is the one of its nearest ancestor root.
Enclosing(ws, path) == {p \in ws : IsPrefix(p.root, path)}

InProject(ws, path) == Enclosing(ws, path) # {}

RootOf(ws, path) ==
  IF InProject(ws, path)
  THEN (CHOOSE p \in Enclosing(ws, path) :
          \A q \in Enclosing(ws, path) : Len(q.root) <= Len(p.root)).root
  ELSE <<"no project">>

Named(ws, name) == {p \in ws : p.name = name}

\* by_name: of two projects of one name the later root of the map wins; roots are compared by
\* length here, which is enough to make the choice a definite one.
ByName(ws, name) == CHOOSE p \in Named(ws, name) :
                      \A q \in Named(ws, name) : Len(q.root) <= Len(p.root)

\* Declared dependencies that name another project of the workspace.
DependsOn(ws) ==
  {pq \in ws \X ws : pq[1] # pq[2] /\ \E d \in pq[1].deps : Named(ws, d) # {} /\ ByName(ws, d) = pq[2]}

-----------------------------------------------------------------------------
\* The longest prefix of the segments that is the name of a package; 0 when none is.
PackagePrefix(ws, segs) ==
  LET lens == {n \in 1..Len(segs) : Named(ws, SubSeq(segs, 1, n)) # {}}
  IN  IF lens = {} THEN 0 ELSE CHOOSE n \in lens : \A k \in lens : k <= n

EntryOf(tree, pkg) ==
  LET declared == IF pkg.entry = NoPath THEN NoPath ELSE Probe(tree, pkg.root \o pkg.entry)
  IN  IF declared # NoPath THEN declared
      ELSE FirstIn(tree, [i \in DOMAIN DefaultEntries |-> pkg.root \o DefaultEntries[i]])

CrateModuleBase(tree, root) ==
  LET holds(dir) == \E main \in {"lib", "main"} : dir \o <<main, ".rs">> \in tree
  IN  IF ~holds(root \o <<"src">>) /\ holds(root) THEN root ELSE root \o <<"src">>

\* The module path of a file of the crate: its path under the base, without extension, and
\* without the file names that stand for their directory.
Under(base, file) == IF IsPrefix(base, file) THEN SubSeq(file, Len(base) + 1, Len(file)) ELSE file

WithoutExtension(path) == IF Last(path) = ".rs" THEN Front(path) ELSE path

WithoutIndex(segs) == IF segs # <<>> /\ Last(segs) \in {"mod", "lib", "main"} THEN Front(segs) ELSE segs

ModuleSegments(base, file) == WithoutIndex(WithoutExtension(Under(base, file)))

Parent(here) == IF here = <<>> THEN here ELSE Front(here)

ProbeRustModule(tree, base, segs) ==
  IF segs = <<>>
  THEN FirstIn(tree, << base \o <<"lib", ".rs">>, base \o <<"main", ".rs">>, base \o <<"mod", ".rs">> >>)
  ELSE FirstIn(tree, << base \o segs \o <<".rs">>, base \o segs \o <<"mod", ".rs">> >>)

ResolveInCrate(tree, ws, file, segs, base) ==
  CASE Head(segs) = "crate" -> ProbeRustModule(tree, base, Tail(segs))
    [] Head(segs) = "self"  -> ProbeRustModule(tree, base, ModuleSegments(base, file) \o Tail(segs))
    [] Head(segs) = "super" -> ProbeRustModule(tree, base, Parent(ModuleSegments(base, file)) \o Tail(segs))
    [] Named(ws, <<Head(segs)>>) # {} ->
         ProbeRustModule(tree, CrateModuleBase(tree, ByName(ws, <<Head(segs)>>).root), Tail(segs))
    [] OTHER -> NoPath

ResolveRust(tree, ws, file, segs) ==
  IF segs = <<>> \/ ~InProject(ws, file) THEN NoPath
  ELSE ResolveInCrate(tree, ws, file, segs, CrateModuleBase(tree, RootOf(ws, file)))

ResolvePackage(tree, ws, segs) ==
  LET inside(pkg, n) == IF n = Len(segs) THEN EntryOf(tree, pkg)
                        ELSE Probe(tree, pkg.root \o SubSeq(segs, n + 1, Len(segs)))
      after(n) == IF n = 0 THEN NoPath ELSE inside(ByName(ws, SubSeq(segs, 1, n)), n)
  IN  after(PackagePrefix(ws, segs))

\* A path of modules in a Rust file, a relative path, or a package and a path inside it.
ResolveModule(tree, ws, file, spec) ==
  LET relative == spec.segs # <<>> /\ Head(spec.segs) \in {".", ".."}
      modules  == Last(file) = ".rs" /\ ~relative /\ (spec.sep = "::" \/ Len(spec.segs) = 1)
  IN  IF modules THEN ResolveRust(tree, ws, file, spec.segs)
      ELSE IF relative THEN Probe(tree, NormalizeJoin(DirOf(file), spec.segs))
      ELSE ResolvePackage(tree, ws, spec.segs)
=============================================================================
