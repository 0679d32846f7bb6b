--------------------------- MODULE PythonResolver ---------------------------
(***************************************************************************)
(* How the facts of a Python node become edges (graph/resolve.rs): a name  *)
(* of the same file, an import (through package re-exports), self, super   *)
(* and the members of classes resolve exactly; the rest is possible,       *)
(* inferred or external.                                                   *)
(***************************************************************************)
EXTENDS CodeNodes

CONSTANTS
  PythonBuiltins,    \* names that never lead into the project
  Private            \* names that start with an underscore

MaxReexportDepth == 3
MaxBaseDepth == 3

python_module_path(file) ==
  IF file.stem = "__init__" THEN file.dir ELSE Append(file.dir, file.stem)

PythonFiles(g) ==
  {file \in DOMAIN g.file_nodes_index :
     file.ext = "py" /\ python_module_path(file) # << >>}

Packages(g) == {python_module_path(file) : file \in {f \in PythonFiles(g) : f.stem = "__init__"}}

\* The files of a dotted path: those at exactly that path, or else those that
\* end with it, unless what is cut off is a package.
python_files(g, module) ==
  LET exact == {f \in PythonFiles(g) : python_module_path(f) = module}
      Cut(path) == SubSeq(path, 1, Len(path) - Len(module))
  IN  IF exact # {} THEN exact
      ELSE {f \in PythonFiles(g) :
              LET path == python_module_path(f)
              IN  /\ Len(path) > Len(module)
                  /\ IsSuffix(module, path)
                  /\ Cut(path) \notin Packages(g)}

is_class_member(g, i) == \E p \in parent_of(g, i) : g.nodes[p].type = "Class"

is_python_definition(g, i) ==
  is_reference_target_type(g.nodes[i]) /\ g.nodes[i].file.ext = "py"

module_scope_definitions(g, file, name, exclude) ==
  {i \in find_nodes_by_name(g, name) \ {exclude} :
     /\ is_reference_target_type(g.nodes[i])
     /\ g.nodes[i].file = file
     /\ ~is_class_member(g, i)}

top_level_named(g, file, name) ==
  {i \in find_nodes_by_name(g, name) :
     /\ is_reference_target_type(g.nodes[i])
     /\ g.nodes[i].file = file
     /\ \E p \in parent_of(g, i) : g.nodes[p].type = "File"}

class_members(g, class, name) ==
  Listed({i \in children(g, class) :
              g.nodes[i].name = name /\ g.nodes[i].type \in CallableTypes})

\* Attribute calls on an unknown receiver: the methods of that name, if few.
python_possible(g, source, name) ==
  Possible({i \in find_nodes_by_name(g, name) \ {source} :
              /\ g.nodes[i].type \in CallableTypes
              /\ g.nodes[i].file.ext = "py"
              /\ is_class_member(g, i)})

\* The one definition of the name outside classes, if there is exactly one.
unique_python_definition(g, source, name) ==
  LET found == {i \in find_nodes_by_name(g, name) \ {source} :
                  is_python_definition(g, i) /\ ~is_class_member(g, i)}
  IN  IF Cardinality(found) = 1 THEN Inferred(Listed(found)) ELSE External

RECURSIVE Enclosing(_, _)
Enclosing(g, i) ==
  IF parent_of(g, i) = {} THEN << >>
  ELSE LET p == CHOOSE p \in parent_of(g, i) : TRUE IN <<p>> \o Enclosing(g, p)

ImportsOf(g, i) ==
  IF g.nodes[i].facts.language \in Syntax THEN g.nodes[i].facts.imports ELSE << >>

\* What a source sees: its own bindings, then those around it, and its class.
PythonScope(g, source) ==
  LET Around(outer) ==
        [source |-> source,
         file |-> g.nodes[source].file,
         bindings |-> FlatMap(LAMBDA i : ImportsOf(g, i), <<source>> \o outer),
         class |-> First(SelectSeq(outer, LAMBDA i : g.nodes[i].type = "Class"))]
  IN  Around(Enclosing(g, source))

\* The innermost binding of the name, if there is one.
BindingOf(scope, local) == First(SelectSeq(scope.bindings, LAMBDA b : b.local = local))

Wildcards(scope) == SelectSeq(scope.bindings, LAMBDA b : b.symbol = "*")

NamesSymbol(binding) == binding.symbol \notin {"*", Whole}

\* The definition of a symbol at the top of a module, or what the module re-exports.
RECURSIVE symbol_in_module(_, _, _, _)
symbol_in_module(g, module, symbol, depth) ==
  LET Through(bindings) ==
        UNION {symbol_in_module(g, b.module, IF b.symbol = "*" THEN symbol ELSE b.symbol,
                                depth + 1) : b \in bindings}
      In(defined, named, imports) ==
        IF defined # {} \/ depth >= MaxReexportDepth THEN defined
        ELSE IF named # {} \/ symbol \in Private THEN named
        ELSE Through({b \in imports : b.symbol = "*"})
      Of(file, imports) ==
        In(top_level_named(g, file, symbol),
           Through({b \in imports : b.local = symbol /\ NamesSymbol(b)}), imports)
  IN  UNION {Of(file, UNION {Elements(ImportsOf(g, i)) : i \in find_file_node(g, file)}) :
               file \in python_files(g, module)}

reference_targets(g, scope, name) ==
  LET Symbol(b) == IF b.symbol = "*" THEN name ELSE b.symbol
      In(local, bound) ==
        IF local # {} THEN local
        ELSE UNION {symbol_in_module(g, b.module, Symbol(b), 0) :
                      b \in IF bound # {} THEN {x \in bound : NamesSymbol(x)}
                            ELSE Elements(Wildcards(scope))}
  IN  In(module_scope_definitions(g, scope.file, name, scope.source), BindingOf(scope, name))

\* An imported name: exact, or the one definition the project has of it when its
\* module is in the project but the name is not found there.
resolve_bound(g, scope, binding) ==
  LET Of(targets) ==
        IF ~NamesSymbol(binding) THEN External
        ELSE IF targets # {} THEN Exact(Listed(targets))
        ELSE IF python_files(g, binding.module) = {} THEN External
        ELSE unique_python_definition(g, scope.source, binding.symbol)
  IN  Of(symbol_in_module(g, binding.module, binding.symbol, 0))

resolve_bare(g, scope, name) ==
  LET itself == g.nodes[scope.source].name = name /\ ~is_class_member(g, scope.source)
      Starred(wildcards) ==
        SelectSeq([k \in 1 .. Len(wildcards) |-> symbol_in_module(g, wildcards[k].module, name, 0)],
                  LAMBDA targets : targets # {})
      In(local, bound, starred) ==
        IF local # {} THEN Exact(Listed(local))
        ELSE IF itself THEN External
        ELSE IF bound # {} THEN resolve_bound(g, scope, CHOOSE b \in bound : TRUE)
        ELSE IF starred # << >> THEN Exact(Listed(starred[1]))
        ELSE IF name \in PythonBuiltins THEN External
        ELSE unique_python_definition(g, scope.source, name)
  IN  In(module_scope_definitions(g, scope.file, name, scope.source),
         BindingOf(scope, name), Starred(Wildcards(scope)))

exact_or_possible(g, scope, name, targets) ==
  IF targets = << >> THEN python_possible(g, scope.source, name) ELSE Exact(targets)

RECURSIVE members_with_bases(_, _, _, _), base_members(_, _, _, _),
          resolve_member(_, _, _, _), resolve_target(_, _, _)

members_with_bases(g, class, name, depth) ==
  Else(class_members(g, class, name),
       IF depth >= MaxBaseDepth THEN << >> ELSE base_members(g, class, name, depth))

Surely(resolution) == IF resolution.certainty = "exact" THEN resolution.targets ELSE << >>

\* The classes a class names as its bases, as far as they resolve exactly.
BaseClasses(g, class) ==
  SelectSeq(FlatMap(LAMBDA base : Surely(resolve_target(g, PythonScope(g, class), base)),
                    g.nodes[class].facts.bases),
            LAMBDA base : g.nodes[base].type = "Class" /\ base # class)

base_members(g, class, name, depth) ==
  FlatMap(LAMBDA base : members_with_bases(g, base, name, depth + 1), BaseClasses(g, class))

\* The members of the classes among the nodes.
MembersOf(g, nodes, name) ==
  FlatMap(LAMBDA class : members_with_bases(g, class, name, 0),
          Listed({i \in nodes : g.nodes[i].type = "Class"}))

\* The path a.b of a.b.name(), as the import of a gives it.
ImportedPath(binding, qualifier) ==
  (IF NamesSymbol(binding) THEN Append(binding.module, binding.symbol) ELSE binding.module)
  \o Tail(qualifier)

ImportedSymbols(g, path) ==
  IF Len(path) < 2 THEN {} ELSE symbol_in_module(g, Front(path), Last(path), 0)

resolve_imported(g, scope, binding, path, name) ==
  LET Found(in_module, in_class) ==
        IF in_module # {} THEN Exact(Listed(in_module))
        ELSE IF in_class # << >> THEN Exact(in_class)
        ELSE IF NamesSymbol(binding) /\ python_files(g, binding.module) # {}
        THEN python_possible(g, scope.source, name)
        ELSE External
  IN  Found(symbol_in_module(g, path, name, 0), MembersOf(g, ImportedSymbols(g, path), name))

\* a.b.name(): a is imported, or a class of this file, or anything.
resolve_member(g, scope, qualifier, name) ==
  LET bound == BindingOf(scope, qualifier[1])
  IN  IF bound # {}
      THEN LET b == CHOOSE b \in bound : TRUE
           IN  resolve_imported(g, scope, b, ImportedPath(b, qualifier), name)
      ELSE exact_or_possible(g, scope, name,
             IF Len(qualifier) > 1 THEN << >>
             ELSE MembersOf(g, module_scope_definitions(g, scope.file, qualifier[1], scope.source),
                            name))

resolve_target(g, scope, target) ==
  LET name == target.name
      Members(In(_)) == exact_or_possible(g, scope, name, FlatMap(In, Listed(scope.class)))
  IN  CASE target.form = "bare" -> resolve_bare(g, scope, name)
        [] target.form = "self" ->
             Members(LAMBDA c : members_with_bases(g, c, name, 0))
        [] target.form = "super" -> Members(LAMBDA c : base_members(g, c, name, 0))
        [] target.form = "member" -> resolve_member(g, scope, target.qualifier, name)
        [] OTHER -> python_possible(g, scope.source, name)

python_links(g, source, scope, facts) ==
  Links(Strongest({link \in UNION {call_edges(resolve_target(g, scope, call)) :
                                     call \in facts.calls} : link[1] # source}),
        UNION {reference_targets(g, scope, path[1]) : path \in facts.names},
        source)
  \cup Strongest(UNION {ImportLinks(Listed(symbol_in_module(g, b.module, b.symbol, 0))) :
                          b \in {x \in Elements(facts.imports) : NamesSymbol(x)}})
  \cup {<<i, "Inherits">> : i \in Elements(BaseClasses(g, source))}

python_references(g, source) ==
  From(source, python_links(g, source, PythonScope(g, source), g.nodes[source].facts))

-----------------------------------------------------------------------------
(* What an incremental update must resolve again. *)

RECURSIVE InheritedNames(_, _, _)
InheritedNames(g, class, depth) ==
  IF depth >= MaxBaseDepth THEN {}
  ELSE UNION {{g.nodes[i].name : i \in children(g, base)}
              \cup InheritedNames(g, base, depth + 1) : base \in Elements(BaseClasses(g, class))}

inherited_member_names_in_file(g, file) ==
  UNION {InheritedNames(g, class, 0) :
           class \in {i \in find_nodes_by_file(g, file) : g.nodes[i].type = "Class"}}

\* The aliases under which file-level imports pass an affected name on.
RECURSIVE WithAliases(_, _, _)
WithAliases(bindings, names, rounds) ==
  LET aliases == {b.local : b \in {x \in bindings : NamesSymbol(x) /\ x.symbol \in names}}
  IN  IF rounds = 0 \/ aliases \subseteq names THEN names
      ELSE WithAliases(bindings, names \cup aliases, rounds - 1)

python_expand_affected_names(g, changed, names) ==
  LET files == {i \in Positions(g) : g.nodes[i].type = "File"}
  IN  WithAliases(UNION {Elements(ImportsOf(g, i)) : i \in files},
                  names \cup UNION {inherited_member_names_in_file(g, f) : f \in changed},
                  MaxReexportDepth)

=============================================================================
