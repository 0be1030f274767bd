------------------------------ MODULE MCRelink ------------------------------
EXTENDS Relink

Declares(name, deps) == [name |-> name, entry |-> NoPath, deps |-> deps]
MCAbsent == [nodes |-> {}, refs |-> {}, exports |-> <<>>, project |-> Declares(<<"absent">>, {})]

Def(label, kind, impl, returns) == [label |-> <<label>>, kind |-> kind, impl |-> impl, returns |-> returns]
Fn(label) == Def(label, "function", NoType, NoType)
T(name) == [path |-> <<name>>, args |-> FALSE]
Generic(name) == [path |-> <<"m", name>>, args |-> TRUE]

Plain(from, rel, name) ==
  [name |-> name, source |-> [label |-> <<from>>, impl |-> NoType], rel |-> rel, hint |-> NoType,
   spec |-> NoSpec, imported |-> NoPath, opaque |-> FALSE, returns |-> NoPath, owner |-> NoType]
Call(from, name) == Plain(from, "calls", <<name>>)
Import(name, segs, imported) ==
  [Plain("file", "imports", <<name>>) EXCEPT !.spec = [sep |-> "/", segs |-> segs], !.imported = imported]

Content(nodes, refs, exports) == [nodes |-> nodes, refs |-> refs, exports |-> exports, project |-> Declares(<<>>, {})]
Package(name, deps) == [nodes |-> {}, refs |-> {}, exports |-> <<>>, project |-> Declares(<<name>>, deps)]

Local(name) == [kind |-> "local", name |-> <<name>>]
ReExport(name, segs, as) ==
  [kind |-> "reexport", name |-> <<name>>, spec |-> [sep |-> "/", segs |-> segs], imported |-> <<as>>]
Star(segs) == [kind |-> "star", spec |-> [sep |-> "/", segs |-> segs]]

A == <<"a", ".ts">>
B == <<"b", ".ts">>
BI == <<"b", "index", ".ts">>
N == <<"n", ".ts">>
MCPathOrder == <<A, B, BI, N, <<"k", "src", "lib", ".rs">>, <<"k", "src", "u", ".rs">>,
                 <<"src", "main", ".rs">>, <<"k", "Cargo", ".toml">>, <<"Cargo", ".toml">> >>

\* Same-named definitions come and go, one of them in the caller's file; a receiver's type is what
\* a callee returns.
Calls ==
  (A :> {Content({Fn("run")}, {Call("run", "x"), Call("run", "y")}, <<>>),
         Content({Fn("run"), Fn("x")},
                 {Call("run", "x"), [Call("run", "go") EXCEPT !.returns = <<"mk">>]}, <<>>)}) @@
  (B :> {MCAbsent, Content({Fn("x"), Def("mk", "function", NoType, Generic("T"))}, {}, <<>>),
         Content({Fn("mk"), Def("go", "function", Generic("T"), NoType)}, {}, <<>>)}) @@
  (N :> {MCAbsent, Content({Fn("x"), Def("go", "function", T("T"), NoType), Def("go", "function", T("U"), NoType)}, {}, <<>>)})

\* An import through a barrel that re-exports by name or by wildcard, or is hidden by a file that
\* exports nothing.
Imports ==
  (A :> {Content({Fn("run")}, {Call("run", "g"), Import("g", <<".", "b">>, NoPath)}, <<>>)}) @@
  (B :> {MCAbsent, Content({}, {}, <<Star(<<".", "b">>), Star(<<".", "n">>)>>), Content({Fn("h")}, {}, <<>>)}) @@
  (BI :> {MCAbsent, Content({}, {}, <<ReExport("g", <<"..", "n">>, "g")>>)}) @@
  (N :> {MCAbsent, Content({Fn("g")}, {}, <<Local("g")>>), Content({Fn("g"), Fn("h")}, {}, <<Local("g")>>)})

\* An import under another name.
Renamed ==
  (A :> {Content({Fn("run")}, {Call("run", "y"), Import("y", <<".", "b">>, <<"g">>)}, <<>>)}) @@
  (B :> {Content({Fn("g")}, {}, <<Local("g")>>), Content({Fn("g"), Fn("h")}, {}, <<Local("g")>>)})

\* No file yet.
Empty == <<>>

\* A package of the workspace named in a path.
Workspace ==
  (<<"src", "main", ".rs">> :> {Content({Fn("run")}, {Plain("run", "calls", <<"k", "x">>)}, <<>>)}) @@
  (<<"k", "src", "lib", ".rs">> :> {MCAbsent, Content({Fn("x")}, {}, <<>>)}) @@
  (<<"k", "Cargo", ".toml">> :> {MCAbsent, Package("k", {})}) @@
  (<<"Cargo", ".toml">> :> {MCAbsent, Package("app", {<<"k">>})}) @@
  (<<"k", "src", "u", ".rs">> :> {Content({Fn("u")}, {Call("u", "x")}, <<>>), Content({Fn("u"), Fn("x")}, {Call("u", "x")}, <<>>)})

\* A definition named through the modules of another package.
Deep ==
  (<<"src", "main", ".rs">> :> {Content({Fn("run")}, {Plain("run", "calls", <<"k", "m", "x">>)}, <<>>)}) @@
  (<<"k", "src", "lib", ".rs">> :> {Content({Fn("x")}, {}, <<>>), Content({Fn("x"), Fn("h")}, {}, <<>>)}) @@
  (<<"k", "Cargo", ".toml">> :> {Package("k", {})})

MCMenus == {Empty, Calls, Imports, Renamed, Workspace, Deep}
MCTearable == {Calls}
MCRenamed == {Renamed}
MCNoMenus == {}
=============================================================================
