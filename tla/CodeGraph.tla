----------------------------- MODULE CodeGraph -----------------------------
(***************************************************************************)
(* The code graph under incremental updates (graph/mod.rs,                 *)
(* swap_file_graphs in engine.rs).  Files are parsed one by one into staged*)
(* graphs; an update replaces the nodes of the changed files and resolves  *)
(* again only the sources the change can reach.                            *)
(***************************************************************************)
EXTENDS PythonResolver, RustResolver, FileSwaps

CONSTANTS
  MaxUpdates,   \* bound on the updates of a behaviour
  MaxChanged    \* bound on the files of an update

VARIABLES
  updates,
  redirected    \* history: an update made an import of an unchanged file lead elsewhere

graphVars == <<fileVars, updates, redirected>>

-----------------------------------------------------------------------------
(* Edges. *)

replace_reference_edges(g, stale, references) ==
  [g EXCEPT !.edges = {e \in @ : ~(e[3] \in ReferenceEdges /\ e[1] \in stale)}
                      \cup references]

-----------------------------------------------------------------------------
(* Lexical sources: the identifiers of a node matched by name. *)

\* An impl block is no target beside a struct of its name.
symbol_targets(g, name) ==
  LET candidates == {i \in find_nodes_by_name(g, name) : is_reference_target_type(g.nodes[i])}
      structs == {i \in candidates : g.nodes[i].type = "Struct"}
  IN  {i \in candidates : structs = {} \/ ~is_rust_impl_node(g.nodes[i])}

RECURSIVE Owners(_, _)
Owners(g, i) == UNION {{p} \cup Owners(g, p) : p \in parent_of(g, i)}

\* The text of a local variable is part of its function's text.
lexical_source_is_covered_by_callable(g, i) ==
  /\ g.nodes[i].type \in {"Variable", "Import"}
  /\ \E p \in Owners(g, i) : g.nodes[p].type \in CallableTypes

\* The declaration's own name is no reference; a real call of the name is.
OwnName(node, token) ==
  LET own == {t \in node.facts.calls : t.name = node.name}
  IN  /\ token.name = node.name
      /\ \/ token.form = "word"
         \/ Cardinality(own) = 1 /\ \A t \in own : t.line = 1

resolve_source_references(g, source) ==
  LET node == g.nodes[source]
      Targets(token) ==
        LET all == symbol_targets(g, token.name) \ {source}
            near == {i \in all : g.nodes[i].file = node.file}
        IN  IF near # {} THEN near ELSE IF Cardinality(all) = 1 THEN all ELSE {}
      Edge(token, targets, target) ==
        IF token.form = "call"
        THEN {IF Cardinality(targets) > 1 THEN "CallAmbiguous" ELSE "CallInferred"}
        ELSE IF Cardinality(targets) = 1 /\ g.nodes[target].type \in TypeTypes \cup {"Module"}
        THEN {"References"} ELSE {}
  IN  UNION {From(source, UNION {{target} \X Edge(token, Targets(token), target) :
                                   target \in Targets(token)}) :
               token \in {t \in node.facts.calls : ~OwnName(node, t)}}

\* The references of a source by its language; Rust needs the round's resolver.
references_of(g, rust, i) ==
  CASE g.nodes[i].facts.language = "python" -> python_references(g, i)
    [] g.nodes[i].facts.language = "rust" -> rust_references(rust, i)
    [] OTHER -> IF lexical_source_is_covered_by_callable(g, i) THEN {}
                ELSE resolve_source_references(g, i)

resolve_references(g, sources) ==
  UNION {references_of(g, rust, i) : rust \in {RustContext(g)}, i \in sources}

-----------------------------------------------------------------------------
(* The full index, and the update of some files. *)

Sources(g) == {i \in Positions(g) : is_reference_source(g.nodes[i])}

rebuild_reference_edges(g) ==
  replace_reference_edges(g, Positions(g), resolve_references(g, Sources(g)))

\* The graph a full index builds from the files' contents.
FullIndex(files) ==
  LET order == SetToSeq(DOMAIN files)
  IN  rebuild_reference_edges(Assembled(order, ParsedFiles(files))[Len(order)])

\* Mutant of reference_target_names: only what the file defines.
defined_target_names(g, file) ==
  {g.nodes[i].name : i \in {j \in find_nodes_by_file(g, file) : is_reference_target_type(g.nodes[j])}}

\* The names by which other sources may reach into a file.
reference_target_names(g, file) ==
  LET nodes == {g.nodes[i] : i \in find_nodes_by_file(g, file)}
      targets == {n \in nodes : is_reference_target_type(n) \/ is_rust_const_or_static(n)}
      imports == UNION {Elements(ImportsOf(g, i)) : i \in find_file_node(g, file)}
  IN  {n.name : n \in targets}
      \cup {b.local : b \in {x \in imports : x.local # "*"}}
      \cup inherited_member_names_in_file(g, file)
      \cup UNION {Elements(n.crate) : n \in {x \in nodes : x.type = "DataFile"}}

ResolveAgain(g, stale) == replace_reference_edges(g, stale, resolve_references(g, stale))

StaleSources(g, changed, affected) ==
  LET files == changed \cup files_with_affected_globs(g, affected)
               \cup files_needing_module_refresh(g, changed, affected)
      Stale(in) == {i \in Sources(g) : g.nodes[i].file \in in
                                       \/ source_mentions_any(g.nodes[i], affected)}
  IN  Stale(files)

affected_names(g, changed, names) ==
  rust_expand_affected_names(g, python_expand_affected_names(g, changed, names))

\* The sources of the changed files, of the files whose modules may differ, and
\* those that mention a name which may now lead elsewhere are resolved again.
refresh_reference_edges(g, changed, names) ==
  ResolveAgain(g, StaleSources(g, changed, affected_names(g, changed, names)))

\* The names a file defines before and after its nodes are replaced.
swapped_names(before, file, staged) ==
  UNION {reference_target_names(g, file) : g \in {before, append_graph(EmptyGraph, staged)}}

swap_in_order(g, staged, order) ==
  LET swapped == Swapped(g, order, staged)
      names == UNION {swapped_names(swapped[k - 1], order[k], staged[order[k]]) : k \in DOMAIN order}
  IN  refresh_reference_edges(swapped[Len(order)], DOMAIN staged, names)

\* Mutant of swap_file_graphs: a file without a staged graph is left as it is.
swap_parsed_graphs(g, staged) ==
  swap_in_order(g, staged, SetToSeq({file \in DOMAIN staged : staged[file] # Gone}))

swap_file_graphs(g, staged) == swap_in_order(g, staged, SetToSeq(DOMAIN staged))

-----------------------------------------------------------------------------
(* What an update can change for the imports of files it does not touch.  The  *)
(* code takes it that only the affected names can; this is where it is wrong.  *)

\* The dotted paths by which Python files may be imported.
ModulePaths(g) ==
  UNION {LET path == python_module_path(f) IN {SubSeq(path, k, Len(path)) : k \in 1 .. Len(path)} :
           f \in PythonFiles(g)}

\* What an import of a symbol from a module finds.
Lookup(g, module, symbol) ==
  <<python_files(g, module) # {}, {g.nodes[i].id : i \in symbol_in_module(g, module, symbol, 0)}>>

\* The bases of the classes of some files, as far as they are in these files.
BasesIn(g, files) ==
  {<<g.nodes[i].id, g.nodes[base].id>> : <<i, base>> \in
     {<<i, base>> \in Positions(g) \X Positions(g) :
        /\ g.nodes[i].type = "Class" /\ g.nodes[i].file \in files /\ g.nodes[i].file.ext = "py"
        /\ g.nodes[base].file \in files /\ base \in Elements(BaseClasses(g, i))}}

\* A name that the update does not list as affected, and that a file which did not
\* change mentions, is found elsewhere, or such a file's class has another base.
Redirects(before, after, changed, affected) ==
  LET files == DOMAIN after.file_nodes_index \ changed
      Mentioned(symbol) == \E i \in Positions(after) :
        after.nodes[i].file \in files /\ source_mentions_any(after.nodes[i], {symbol})
      symbols == {s \in (DOMAIN before.name_index \cup DOMAIN after.name_index) \ affected : Mentioned(s)}
  IN  \/ \E module \in ModulePaths(before) \cup ModulePaths(after), symbol \in symbols :
           Lookup(before, module, symbol) # Lookup(after, module, symbol)
      \/ BasesIn(before, files) # BasesIn(after, files)

UpdateRedirects(staged) ==
  LET names == UNION {swapped_names(code, f, ParsedFiles(staged)[f]) : f \in DOMAIN staged}
  IN  Redirects(code, code', DOMAIN staged, affected_names(code', DOMAIN staged, names))

-----------------------------------------------------------------------------

GraphInit ==
  /\ project \in DOMAIN Projects
  /\ contents \in Versions(DOMAIN Projects[project])
  /\ code = FullIndex(contents)
  /\ updates = 0 /\ redirected = FALSE

Update ==
  /\ updates < MaxUpdates
  /\ \E changed \in SUBSET DOMAIN contents :
       /\ changed # {} /\ Cardinality(changed) <= MaxChanged
       /\ \E staged \in Versions(changed) :
            /\ \A f \in changed : staged[f] # contents[f]
            /\ Change(staged)
            /\ code' = swap_file_graphs(code, ParsedFiles(staged))
            /\ redirected' = (redirected \/ UpdateRedirects(staged))
  /\ updates' = updates + 1
  /\ UNCHANGED project

GraphNext == Update

GraphSpec == GraphInit /\ [][GraphNext]_graphVars

-----------------------------------------------------------------------------
\* A graph but for positions: its nodes, and its edges over identifiers.
Meaning(g) ==
  [nodes |-> {g.nodes[i] : i \in Positions(g)},
   edges |-> {<<g.nodes[e[1]].id, g.nodes[e[2]].id, e[3]>> : e \in g.edges}]

\* An incremental update leaves the graph a full index would build: every other
\* source keeps exactly the edges a full resolution would give it, and no index
\* entry is wrong, whatever moved, as long as no update made a name that it does
\* not list as affected lead elsewhere for a file it did not touch.
UpdateIsRebuild == FilesAreWhole /\ (redirected \/ Meaning(code) = Meaning(FullIndex(contents)))

\* What the refresh claims of itself, without that condition: a reference resolves
\* differently only when the target's name changed, so the edges "stay exactly what
\* a full [`CodeGraph::rebuild_reference_edges`] would produce" (graph/mod.rs:163-172).
RefreshIsRebuild == Meaning(code) = Meaning(FullIndex(contents))

=============================================================================
