---------------------------- MODULE GraphReaders ----------------------------
(***************************************************************************)
(* The tools that read the code graph: names to symbols (graph/mod.rs),    *)
(* the project map (map.rs), the context of a diff and at a cursor         *)
(* (engine.rs).                                                            *)
(***************************************************************************)
EXTENDS FileSwaps

CONSTANT SYMBOLS_PER_FILE    \* symbols a line of the map shows

-----------------------------------------------------------------------------
(* What is at a line. *)

Covers(node, line) == node.start <= line /\ line <= node.end

\* The nodes reached from the file through nodes that cover the line.
Covering(g, owners, line) ==
  LET covers == {i \in Positions(g) : Covers(g.nodes[i], line)}
      steps == {s \in Steps(g, {"Contains"}) : s[2] \in covers}
  IN  Reached(steps, owners \cap covers)[Len(g.nodes)]

Length(g, i) == g.nodes[i].end - g.nodes[i].start

Narrowest(g, nodes) == {i \in nodes : \A j \in nodes : Length(g, i) <= Length(g, j)}

\* One of the narrowest symbols over the line, or the file.
find_node_in_file(g, file, line) ==
  LET over == {i \in Covering(g, find_file_node(g, file), line) :
                 g.nodes[i].type \notin {"File", "DataFile"}}
  IN  IF over = {} THEN find_file_node(g, file) ELSE Narrowest(g, over)

find_enclosing_scopes(g, file, line) ==
  {i \in Covering(g, find_file_node(g, file), line) :
     g.nodes[i].type \in CallableTypes \cup {"Class", "Struct", "Module"}}

\* Mutant of symbol_at: the first symbol over the line.
first_symbol_at(g, file, line) ==
  LET over == {i \in find_nodes_by_file(g, file) :
                 is_reference_target_type(g.nodes[i]) /\ Covers(g.nodes[i], line)}
  IN  {i \in over : \A j \in over : g.nodes[i].start <= g.nodes[j].start}

symbol_at(g, file, line) ==
  LET over == {i \in find_nodes_by_file(g, file) :
                 is_reference_target_type(g.nodes[i]) /\ Covers(g.nodes[i], line)}
  IN  {i \in Narrowest(g, over) : \A j \in Narrowest(g, over) : g.nodes[i].start <= g.nodes[j].start}

-----------------------------------------------------------------------------
(* Names: [owner, name], the owner in a set of at most one. *)

OwnerTypes == {"Class", "Struct", "Enum", "Trait"}

MemberTypes == {"Function", "Method", "Class", "Struct"}

\* Mutant of is_member: only methods are members.
is_method(node) == node.type = "Method"

is_member(node) == node.type \in MemberTypes

is_named_symbol(node) == is_reference_target_type(node) /\ ~is_rust_impl_node(node)

symbols_named(g, target) ==
  IF target.owner = {}
  THEN {i \in find_nodes_by_name(g, target.name) : is_named_symbol(g.nodes[i])}
  ELSE LET owners == {i \in UNION {find_nodes_by_name(g, owner) : owner \in target.owner} :
                        g.nodes[i].type \in OwnerTypes}
       IN  {i \in UNION {children(g, owner) : owner \in owners} :
              g.nodes[i].name = target.name /\ is_member(g.nodes[i])}

qualified_name(g, i) ==
  [owner |-> {g.nodes[p].name : p \in {q \in parent_of(g, i) : g.nodes[q].type \in OwnerTypes}},
   name |-> g.nodes[i].name]

\* The file at the top of the project whose path reads like the name, "core.py".
file_named(g, target) ==
  UNION {find_file_node(g, file) :
           file \in {f \in DOMAIN g.file_nodes_index :
                      f.dir = << >> /\ target = [owner |-> {f.stem}, name |-> f.ext]}}

\* The candidates: an answer if there is one, an error otherwise.
resolve_form(g, form) ==
  CASE form.kind = "id" -> IF form.id \in DOMAIN g.id_index THEN {g.id_index[form.id]} ELSE {}
    [] form.kind = "location" -> symbol_at(g, form.file, form.line)
    [] form.kind = "name" -> IF file_named(g, form.name) # {} THEN file_named(g, form.name)
                             ELSE symbols_named(g, form.name)
    [] form.kind = "file" -> find_file_node(g, form.file)

-----------------------------------------------------------------------------
(* project_map *)

CertainUses == {"Calls", "CallInferred", "References", "Imports", "Inherits"}

uses_from_other_files(g, i) ==
  Cardinality({e \in InEdges(g, i) : /\ e[3] \in CertainUses
                                     /\ g.nodes[e[1]].file # g.nodes[i].file})

\* The symbols of a file that may be listed.
NamedSymbols(g, file) ==
  {i \in find_nodes_by_file(g, file) : is_named_symbol(g.nodes[i])}

\* More used, or as much and defined first; those that tie come in any order.
RankedBefore(g, i, j) ==
  \/ uses_from_other_files(g, i) > uses_from_other_files(g, j)
  \/ /\ uses_from_other_files(g, i) = uses_from_other_files(g, j)
     /\ g.nodes[i].start < g.nodes[j].start

\* file_line: the most used symbols, or the first definitions if none is used; of
\* symbols that tie for the last place any may be shown.
Shown(g, file) ==
  LET used == {i \in NamedSymbols(g, file) : uses_from_other_files(g, i) > 0}
      listed == IF used = {} THEN NamedSymbols(g, file) ELSE used
  IN  {i \in listed : Cardinality({j \in listed : RankedBefore(g, j, i)}) < SYMBOLS_PER_FILE}

CodeFiles(g) ==
  {file \in DOMAIN g.file_nodes_index :
     \E i \in g.file_nodes_index[file] : g.nodes[i].type = "File"}

\* The lines of the map, by file.
project_map(g) == [file \in CodeFiles(g) |-> Shown(g, file)]

-----------------------------------------------------------------------------
(* diff_context and predict_context *)

\* The symbols of the files git reports.
diff_context(g, files) ==
  {i \in UNION {Descendants(g, find_file_node(g, file)) : file \in files} :
     g.nodes[i].type \notin {"File", "DataFile"}}

\* What may stand first: the narrowest scope, or the node at the cursor.
predict_context(g, file, line) ==
  LET at == find_node_in_file(g, file, line)
      scopes == Narrowest(g, find_enclosing_scopes(g, file, line))
      primary == IF scopes = {} THEN at ELSE scopes
  IN  [primary |-> primary, active |-> at,
       related |-> [i \in primary |-> {e[2] : e \in {x \in OutEdges(g, i) :
                                         g.nodes[x[2]].type \notin {"File", "DataFile"}}}]]

-----------------------------------------------------------------------------

\* The three ways to find what is at a line agree after any update: the
\* narrowest symbol is the innermost enclosing scope, and no wider than the node
\* found by walking down from the file.  Where the definitions over the line are
\* nested, the element at the cursor is part of the scope shown first, or wraps it
\* on the same lines (engine.rs:1470-1506).
LineLookupsAgree ==
  \A file \in DOMAIN code.file_nodes_index :
    LET Lines == UNION {code.nodes[i].start .. code.nodes[i].end :
                          i \in find_file_node(code, file)}
    IN  \A line \in Lines :
          LET at == resolve_form(code, [kind |-> "location", file |-> file, line |-> line])
              scopes == find_enclosing_scopes(code, file, line)
              context == predict_context(code, file, line)
              nested == \A i, j \in Covering(code, find_file_node(code, file), line) :
                          i \in Descendants(code, {j}) \/ j \in Descendants(code, {i})
          IN  /\ \A i \in at : code.nodes[i].type \in {"Enum", "Trait"} \/ i \in Narrowest(code, scopes)
              /\ \A i \in at, j \in context.active : Length(code, j) <= Length(code, i)
              /\ at = {} => scopes = {}
              /\ nested =>
                   \A j \in context.active :
                     \/ j \in Descendants(code, context.primary)
                     \/ \E i \in context.primary :
                          i \in Descendants(code, {j}) /\ Length(code, i) = Length(code, j)

\* Every symbol the project map prints can be asked for by the name it is
\* printed with (map.rs:190-191), whatever is renamed, moved or overloaded: the
\* name leads to it, alone or among the candidates.  A member that is an enum, a
\* trait or a module is printed with its owner but not found, and the member "py" of
\* a class "core" is printed as the path of a file, which is found instead.
PrintedNamesResolve ==
  \A file \in DOMAIN project_map(code) : \A i \in project_map(code)[file] :
    LET name == qualified_name(code, i)
    IN  /\ i \in diff_context(code, {file})
        /\ \/ name.owner # {} /\ code.nodes[i].type \notin MemberTypes
           \/ file_named(code, name) # {}
           \/ i \in resolve_form(code, [kind |-> "name", name |-> name])

=============================================================================
