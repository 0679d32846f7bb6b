---------------------------- MODULE RustResolver ----------------------------
(***************************************************************************)
(* Crates and modules of the indexed Rust files (graph/rust_modules.rs)    *)
(* and how Rust facts become edges (graph/resolve_rust.rs).                *)
(*                                                                         *)
(* A crate is [name, kind, root, dir]; a module is a crate and a path in   *)
(* it.  A resolver is [g, crates, declared, impl_types]: what one round of *)
(* resolution computes once.                                               *)
(***************************************************************************)
EXTENDS CodeNodes

MaxHops == 4
MaxModuleDepth == 32

KindOrder == [Lib |-> 1, Bin |-> 2, Other |-> 3]

Within(file, dir) == IsPrefix(dir, file.dir)

File(dir, stem) == [dir |-> dir, stem |-> stem, ext |-> "rs"]

RustFiles(g) ==
  {f \in DOMAIN g.file_nodes_index :
     f.ext = "rs" /\ \E i \in find_file_node(g, f) : g.nodes[i].type = "File"}

Crate(name, kind, root, dir) == [name |-> name, kind |-> kind, root |-> root, dir |-> dir]

\* The names a manifest gives: << >>, <<package>> or <<package, library>>.
Manifest(g, file) ==
  LET data == {i \in find_nodes_by_file(g, file) : g.nodes[i].type = "DataFile"}
  IN  IF data = {} THEN << >> ELSE g.nodes[CHOOSE i \in data : TRUE].crate

\* Roots of a package at dir: the library, the program, and the files and
\* directories of src/bin, tests, benches and examples.
package_crates(dir, names, files) ==
  LET src == Append(dir, "src")
      TargetDirs == {Append(src, "bin")} \cup {Append(dir, d) : d \in {"tests", "benches", "examples"}}
      Main(f) == f.stem = "main" /\ f.dir # << >> /\ Front(f.dir) \in TargetDirs
  IN  {Crate(Last(names), "Lib", f, src) : f \in files \cap {File(src, "lib")}}
      \cup {Crate(names[1], "Bin", f, src) : f \in files \cap {File(src, "main")}}
      \cup {Crate(f.stem, "Other", f, f.dir) :
              f \in {x \in files : x.dir \in TargetDirs \/ Main(x)}}

\* Roots of files outside every crate: main.rs and lib.rs cover their siblings.
loose_crates(files, crates) ==
  LET Covered(f, roots) == \E c \in roots : c.root = f \/ Within(f, c.dir)
      CrateRoot(f) == Crate(f.stem, "Other", f, f.dir)
      loose == {f \in files : ~Covered(f, crates)}
      roots == {CrateRoot(f) : f \in {x \in loose : x.stem \in {"main", "lib"}}}
  IN  roots \cup {CrateRoot(f) : f \in {x \in loose : ~Covered(x, roots)}}

Crates(g) ==
  LET files == RustFiles(g)
      manifests == {f \in DOMAIN g.file_nodes_index :
                      f.stem = "Cargo" /\ f.ext = "toml" /\ Manifest(g, f) # << >>}
      packaged == UNION {package_crates(f.dir, Manifest(g, f), files) : f \in manifests}
  IN  packaged \cup loose_crates(files, packaged)

\* The crates by kind; within a kind the code's order is that of a hash map.
ByKind(crates) == SortSeq(Listed(crates), LAMBDA a, b : KindOrder[a.kind] < KindOrder[b.kind])

\* The file of a module path, in a set of at most one element.
module_file(dir, path, files) ==
  LET flat == File(dir \o Front(path), Last(path))
      nested == File(dir \o path, "mod")
  IN  IF flat \in files THEN {flat} ELSE {nested} \cap files

file_of(r, crate, path) ==
  IF path = << >> THEN {crate.root} ELSE module_file(crate.dir, path, RustFiles(r.g))

\* The modules of the files that `mod x;` declarations lead to from one root;
\* a file belongs to the first root that declares it.
RECURSIVE walk_declarations(_, _, _, _, _, _)
walk_declarations(g, crates, crate, owner, path, declared) ==
  LET Roots == {c.root : c \in crates}
      Follow(module, known) ==
        LET child == Append(path, g.nodes[module].name)
            files == module_file(crate.dir, child, RustFiles(g)) \ (DOMAIN known \cup Roots)
            below == [f \in DOMAIN known \cup files |->
                        IF f \in files THEN [crate |-> crate, path |-> child] ELSE known[f]]
            nodes == UNION {find_file_node(g, f) : f \in files}
        IN  IF g.nodes[module].text # "declares"
            THEN walk_declarations(g, crates, crate, module, child, known)
            ELSE IF nodes = {} THEN below
            ELSE walk_declarations(g, crates, crate, CHOOSE i \in nodes : TRUE, child, below)
      modules == Listed({i \in children(g, owner) : g.nodes[i].type = "Module"})
  IN  IF Len(path) >= MaxModuleDepth THEN declared
      ELSE FoldLeft(LAMBDA known, module : Follow(module, known), declared, modules)

declared_modules(g, crates) ==
  FoldLeft(LAMBDA known, crate :
             LET root == find_file_node(g, crate.root)
             IN  IF root = {} THEN known
                 ELSE walk_declarations(g, crates, crate, CHOOSE i \in root : TRUE, << >>, known),
           EmptyIndex, ByKind(crates))

RootModule(crate) == [crate |-> crate, path |-> << >>]

\* The module of a file: of its own crate, as declared, or by its directory in
\* the innermost crate around it.  A set of at most one element.
module_of_file(r, file) ==
  LET around == {c \in r.crates : Within(file, c.dir)}
      Before(a, b) == \/ Len(a.dir) > Len(b.dir)
                      \/ Len(a.dir) = Len(b.dir) /\ KindOrder[a.kind] < KindOrder[b.kind]
      nearest == SortSeq(Listed(around), Before)
      Relative(c) ==
        SubSeq(file.dir, Len(c.dir) + 1, Len(file.dir))
        \o (IF file.stem = "mod" THEN << >> ELSE <<file.stem>>)
  IN  IF \E c \in r.crates : c.root = file
      THEN {RootModule(CHOOSE c \in r.crates : c.root = file)}
      ELSE IF file \in DOMAIN r.declared THEN {r.declared[file]}
      ELSE {[crate |-> c, path |-> Relative(c)] : c \in First(nearest)}

lib_named(r, name) == {c \in r.crates : c.kind = "Lib" /\ c.name = name}

-----------------------------------------------------------------------------
(* What a path component may lead to. *)

Nowhere == [crate |-> Crate("", "Other", File(<< >>, ""), << >>), path |-> << >>]

NodeItem(i) == [kind |-> "node", node |-> i, module |-> Nowhere]
TypeOnly(i) == [kind |-> "type", node |-> i, module |-> Nowhere]
ModuleItem(module) == [kind |-> "module", node |-> 0, module |-> module]

child_module(module, name) == [module EXCEPT !.path = Append(@, name)]
parent_module(module) ==
  IF module.path = << >> THEN << >> ELSE <<ModuleItem([module EXCEPT !.path = Front(@)])>>

NodeItems(nodes) == [k \in 1 .. Len(nodes) |-> NodeItem(nodes[k])]

NodesIn(items) ==
  LET nodes == SelectSeq(items, LAMBDA item : item.kind = "node")
  IN  [k \in 1 .. Len(nodes) |-> nodes[k].node]

ReferableTypes == CallableTypes \cup {"Struct", "Enum", "Trait", "Variable"}

OfTypes(g, list, types) == SelectSeq(list, LAMBDA i : g.nodes[i].type \in types)

\* A module seen from nowhere inside it: use paths are relative to their module.
module_scope(module) ==
  [source |-> 0, functions |-> << >>, module |-> module, container |-> {}]

RECURSIVE Outward(_, _)
Outward(g, i) ==
  IF g.nodes[i].type = "File" THEN << >>
  ELSE <<i>> \o (IF parent_of(g, i) = {} THEN << >>
                 ELSE Outward(g, CHOOSE p \in parent_of(g, i) : TRUE))

\* The module, the enclosing functions and the impl or trait around a source.
scope_of(r, source) ==
  LET g == r.g
      Names(mods) == [k \in 1 .. Len(mods) |-> g.nodes[mods[k]].name]
      Around(chain, m) ==
        [source |-> source,
         functions |-> OfTypes(g, chain, CallableTypes),
         module |-> [m EXCEPT !.path = @ \o Names(Reverse(OfTypes(g, chain, {"Module"})))],
         container |-> First(SelectSeq(chain, LAMBDA i :
                               g.nodes[i].type = "Trait" \/ is_rust_impl_node(g.nodes[i])))]
  IN  {Around(Outward(g, source), m) : m \in module_of_file(r, g.nodes[source].file)}

RustImports(g, i) ==
  IF g.nodes[i].facts.language \in Syntax THEN g.nodes[i].facts.imports ELSE << >>

\* The node of a module: the longest file prefix, then inline mods.
module_node(r, module) ==
  LET path == module.path
      FilesAt(k) == file_of(r, module.crate, SubSeq(path, 1, k))
      Longest(splits) == CHOOSE k \in splits : \A j \in splits : j <= k
      Inner(owners, name) ==
        {i \in UNION {children(r.g, o) : o \in owners} :
           r.g.nodes[i].type = "Module" /\ r.g.nodes[i].name = name}
      Below(split) ==
        FoldLeft(Inner, UNION {find_file_node(r.g, f) : f \in FilesAt(split)},
                 SubSeq(path, split + 1, Len(path)))
  IN  Below(Longest({k \in 0 .. Len(path) : FilesAt(k) # {}}))

children_named(r, owner, name, module) ==
  LET g == r.g
      Items(named) ==
        NodeItems(OfTypes(g, Listed(named), ReferableTypes))
        \o (IF \E i \in named : g.nodes[i].type = "Module"
            THEN <<ModuleItem(child_module(module, name))>> ELSE << >>)
  IN  Items({i \in children(g, owner) : g.nodes[i].name = name /\ ~is_rust_impl_node(g.nodes[i])})

WithFile(r, inner, child) ==
  IF child \in Elements(inner) \/ file_of(r, child.module.crate, child.module.path) = {}
  THEN inner ELSE Append(inner, child)

RECURSIVE items_named(_, _, _, _), resolve_segments(_, _, _, _), lookup(_, _, _, _),
          Imported(_, _, _, _, _)

resolve_binding(r, binding, module, depth) ==
  IF binding.symbol \in {"*", Whole} THEN << >>
  ELSE resolve_segments(r, Append(binding.module, binding.symbol), module_scope(module), depth)

Bound(r, imports, name, module, depth) ==
  FlatMap(LAMBDA b : resolve_binding(r, b, module, depth),
          SelectSeq(imports, LAMBDA b : b.local = name))

\* A name in a module: its definitions and file modules, else its use bindings,
\* else what its glob imports bring.
items_named(r, module, name, depth) ==
  FlatMap(LAMBDA node :
            Else(WithFile(r, children_named(r, node, name, module),
                          ModuleItem(child_module(module, name))),
                 Imported(r, RustImports(r.g, node), module, name, depth)),
          Listed(module_node(r, module)))

Imported(r, imports, module, name, depth) ==
  IF depth >= MaxHops THEN << >>
  ELSE Else(Bound(r, imports, name, module, depth + 1),
            FlatMap(LAMBDA item : items_named(r, item.module, name, depth + 1),
                    SelectSeq(FlatMap(LAMBDA b : resolve_segments(r, b.module, module_scope(module),
                                                                  depth + 1),
                                      SelectSeq(imports, LAMBDA b : b.local = "*")),
                              LAMBDA item : item.kind = "module")))

\* A name in scope: the items and use bindings of the enclosing functions, from
\* the inside, then the module.
lookup(r, name, scope, depth) ==
  LET Of(function) ==
        Else(SelectSeq(children_named(r, function, name, scope.module),
                       LAMBDA item : item.kind = "node" => r.g.nodes[item.node].type # "Variable"),
             Bound(r, RustImports(r.g, function), name, scope.module, depth + 1))
  IN  FoldRight(LAMBDA function, outside : Else(Of(function), outside), scope.functions,
                items_named(r, scope.module, name, depth))

\* A let of the name that ends above the call shadows the item.
shadowed_by_let(g, scope, name, line) ==
  \E function \in First(scope.functions) :
    \E i \in children(g, function) :
      /\ g.nodes[i].type = "Variable"
      /\ g.nodes[i].name = name
      /\ g.nodes[i].end < line
      /\ g.nodes[i].text = "let"

functions_named(g, owner, name) ==
  Listed({i \in children(g, owner) : g.nodes[i].name = name /\ g.nodes[i].type \in CallableTypes})

-----------------------------------------------------------------------------
(* Types, traits and impl blocks. *)

target_segments(target) ==
  IF target.form = "member" THEN Append(target.qualifier, target.name) ELSE <<target.name>>

ResolvedTypes(r, impl, targets, types) ==
  FlatMap(LAMBDA scope :
            FlatMap(LAMBDA target :
                      OfTypes(r.g, NodesIn(resolve_segments(r, target_segments(target), scope, 0)), types),
                    targets),
          Listed(scope_of(r, impl)))

implemented_types(r, impl) ==
  ResolvedTypes(r, impl, r.g.nodes[impl].facts.impl_type, {"Struct", "Enum"})

implemented_traits(r, impl) ==
  ResolvedTypes(r, impl, r.g.nodes[impl].facts.bases, {"Trait"})

\* The impl blocks of a type, once for each time they resolve to it.
type_impls(r, type) ==
  FlatMap(LAMBDA impl : LET hits == SelectSeq(r.impl_types[impl], LAMBDA t : t = type)
                        IN  [k \in 1 .. Len(hits) |-> impl],
          Listed(DOMAIN r.impl_types))

methods_of_type(r, type, name) ==
  LET Named(owners) == FlatMap(LAMBDA owner : functions_named(r.g, owner, name), owners)
      In(impls) ==
        Else(Named(impls),
             Listed(Elements(Named(FlatMap(LAMBDA impl : implemented_traits(r, impl), impls)))))
  IN  In(type_impls(r, type))

associated(r, type, name) ==
  IF r.g.nodes[type].type = "Trait" THEN functions_named(r.g, type, name)
  ELSE methods_of_type(r, type, name)

container_types(r, container) ==
  IF r.g.nodes[container].type = "Trait" THEN <<container>>
  ELSE IF container \in DOMAIN r.impl_types THEN r.impl_types[container] ELSE << >>

resolve_first(r, first, scope, depth) ==
  CASE first = "crate" -> <<ModuleItem(RootModule(scope.module.crate))>>
    [] first = "self" -> <<ModuleItem(scope.module)>>
    [] first = "super" -> parent_module(scope.module)
    [] first = "Self" ->
         NodeItems(FlatMap(LAMBDA c : container_types(r, c), Listed(scope.container)))
    [] OTHER ->
         Else(lookup(r, first, scope, depth),
              Listed({ModuleItem(RootModule(c)) : c \in First(Listed(lib_named(r, first)))}))

step(r, item, segment, depth) ==
  CASE item.kind = "module" ->
         IF segment = "super" THEN parent_module(item.module)
         ELSE IF segment = "self" THEN <<item>>
         ELSE items_named(r, item.module, segment, depth)
    [] item.kind = "node" ->
         IF r.g.nodes[item.node].type \notin {"Struct", "Enum", "Trait"} THEN << >>
         ELSE Else(NodeItems(associated(r, item.node, segment)), <<TypeOnly(item.node)>>)
    [] OTHER -> <<item>>

\* A path from its first component to its last; after a step no item is twice.
resolve_segments(r, path, scope, depth) ==
  IF path = << >> THEN << >>
  ELSE FoldLeft(LAMBDA items, segment :
                  Listed(UNION {Elements(step(r, item, segment, depth)) : item \in Elements(items)}),
                resolve_first(r, path[1], scope, depth), Tail(path))

\* One round's resolver; the types of impl blocks are resolved without impls.
RustContext(g) ==
  LET Bare(crates) == [g |-> g, crates |-> crates, declared |-> declared_modules(g, crates),
                       impl_types |-> EmptyIndex]
      impls == {i \in Positions(g) :
                  is_rust_impl_node(g.nodes[i]) /\ g.nodes[i].facts.language \in Syntax}
      WithImpls(bare) == [bare EXCEPT !.impl_types = [i \in impls |-> implemented_types(bare, i)]]
  IN  WithImpls(Bare(Crates(g)))

-----------------------------------------------------------------------------
(* Calls, names, imports and bases of a source. *)

\* Methods of impls and traits with the name, if few.
rust_possible(g, name, source) ==
  Possible({i \in find_nodes_by_name(g, name) \ {source} :
              /\ g.nodes[i].type \in CallableTypes
              /\ g.nodes[i].file.ext = "rs"
              /\ \E p \in parent_of(g, i) :
                   is_rust_impl_node(g.nodes[p]) \/ g.nodes[p].type = "Trait"})

\* Functions and structs are called; types whose member is not found are mentioned.
callable(g, items) ==
  LET targets == OfTypes(g, NodesIn(items), CallableTypes \cup {"Struct"})
      types == {item.node : item \in {x \in Elements(items) : x.kind = "type"}}
  IN  [resolution |-> IF targets = << >> THEN External ELSE Exact(targets), types |-> types]

self_members(r, scope, name) ==
  LET OfTypesOr(types, traits) ==
        IF types = << >> THEN FlatMap(LAMBDA t : functions_named(r.g, t, name), traits)
        ELSE FlatMap(LAMBDA t : methods_of_type(r, t, name), types)
  IN  FlatMap(LAMBDA c :
                Else(functions_named(r.g, c, name),
                     IF r.g.nodes[c].type = "Trait" THEN << >>
                     ELSE Listed(Elements(OfTypesOr(container_types(r, c), implemented_traits(r, c))))),
              Listed(scope.container))

resolve_call(r, scope, call) ==
  LET Only(resolution) == [resolution |-> resolution, types |-> {}]
      Known(found) == Only(IF found # << >> THEN Exact(found)
                           ELSE rust_possible(r.g, call.name, scope.source))
  IN  CASE call.form = "bare" ->
             IF shadowed_by_let(r.g, scope, call.name, call.line) THEN Only(External)
             ELSE callable(r.g, lookup(r, call.name, scope, 0))
        [] call.form = "member" ->
             callable(r.g, resolve_segments(r, target_segments(call), scope, 0))
        [] OTHER -> Known(IF call.form = "self" THEN self_members(r, scope, call.name) ELSE << >>)

ImportedNodes(r, item) ==
  IF item.kind = "node" THEN <<item.node>>
  ELSE IF item.kind = "module" THEN Listed(module_node(r, item.module)) ELSE << >>

import_edges(r, scope, imports) ==
  Strongest(UNION {ImportLinks(SelectSeq(
                       FlatMap(LAMBDA item : ImportedNodes(r, item),
                               resolve_binding(r, b, scope.module, 0)),
                       LAMBDA i : i # scope.source)) :
                     b \in {x \in Elements(imports) : x.local # "*"}})

\* What the calls of a source reach, and the items of the paths it names.
Uses(r, source, calls, items) ==
  Links(Strongest({link \in UNION {call_edges(c.resolution) : c \in calls} : link[1] # source}),
        UNION {c.types : c \in calls}
        \cup {item.node : item \in {x \in items : x.kind # "module"
                                    /\ r.g.nodes[x.node].type \in ReferableTypes}},
        source)

\* The links of a source in its scope; the items of its bases that are traits.
rust_links(r, source, scope, facts) ==
  Uses(r, source, {resolve_call(r, scope, call) : call \in facts.calls},
       UNION {Elements(resolve_segments(r, path, scope, 0)) : path \in facts.names})
  \cup import_edges(r, scope, facts.imports)
  \cup {<<i, "Inherits">> :
          i \in Elements(OfTypes(r.g, NodesIn(FlatMap(
                 LAMBDA base : resolve_segments(r, target_segments(base), scope, 0),
                 facts.bases)), {"Trait"})) \ {source}}

rust_references(r, source) ==
  From(source, UNION {rust_links(r, source, scope, r.g.nodes[source].facts) :
                        scope \in scope_of(r, source)})

-----------------------------------------------------------------------------
(* What an incremental update must resolve again. *)

RustBindings(g) ==
  UNION {Elements(g.nodes[i].facts.imports) :
           i \in {j \in Positions(g) : g.nodes[j].facts.language = "rust"}}

RECURSIVE WithUses(_, _, _)
WithUses(bindings, names, rounds) ==
  LET local == {b.local : b \in {x \in bindings : x.local # "*" /\ binding_mentions(x, names)}}
  IN  IF rounds = 0 \/ local \subseteq names THEN names
      ELSE WithUses(bindings, names \cup local, rounds - 1)

rust_expand_affected_names(g, names) == WithUses(RustBindings(g), names, MaxHops)

\* Files with a glob import of an affected path.
files_with_affected_globs(g, names) ==
  {g.nodes[i].file : i \in {j \in Positions(g) :
     /\ g.nodes[j].facts.language \in Syntax
     /\ \E b \in Elements(g.nodes[j].facts.imports) :
          b.local = "*" /\ binding_mentions(b, names)}}

is_crate_root_path(file) ==
  \/ file.stem \in {"lib", "main"}
  \/ file.dir # << >> /\ Last(file.dir) \in {"bin", "tests", "benches", "examples"}

\* The nearest directory around the file with a manifest, or the root.
package_dir(g, file) ==
  LET dirs == {d \in {SubSeq(file.dir, 1, k) : k \in 0 .. Len(file.dir)} :
                 [dir |-> d, stem |-> "Cargo", ext |-> "toml"] \in DOMAIN g.file_nodes_index}
  IN  IF dirs = {} THEN << >>
      ELSE CHOOSE d \in dirs : \A other \in dirs : Len(other) <= Len(d)

module_stem(file) ==
  IF file.stem = "mod" THEN (IF file.dir = << >> THEN {} ELSE {Last(file.dir)}) ELSE {file.stem}

\* The Rust files whose crate or module may have changed: all of a package one
\* of whose changed files is a crate root or declares modules, and those named
\* like an affected module.
files_needing_module_refresh(g, changed, names) ==
  LET packages == {package_dir(g, f) : f \in {x \in changed :
                     /\ x.ext = "rs"
                     /\ \/ is_crate_root_path(x)
                        \/ \E i \in find_nodes_by_file(g, x) : g.nodes[i].type = "Module"}}
  IN  {f \in DOMAIN g.file_nodes_index :
         /\ f.ext = "rs"
         /\ (\E p \in packages : Within(f, p)) \/ module_stem(f) \cap names # {}}

=============================================================================
