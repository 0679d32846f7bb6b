----------------------------- MODULE FileGraphs -----------------------------
(***************************************************************************)
(* A code graph as the files it is made of (graph/mod.rs): the staged      *)
(* graph a file parses to is appended to it, and a file's nodes leave it.  *)
(* A staged graph lists the nodes of its file, the file's own first, and   *)
(* the position in the list of each one's owner, 0 for the first.          *)
(***************************************************************************)
EXTENDS GraphWalks, FiniteSets

CallableTypes == {"Function", "Method"}

TypeTypes == {"Class", "Struct", "Enum", "Trait"}

TargetTypes == CallableTypes \cup TypeTypes \cup {"Module"}

is_reference_target_type(node) == node.type \in TargetTypes

\* In a .rs file a Class node is an impl block.
is_rust_impl_node(node) == node.type = "Class" /\ node.file.ext = "rs"

find_nodes_by_name(g, name) == Bucket(g.name_index, name)

\* A node is contained by at most one other: the set has at most one element.
parent_of(g, i) == {e[1] : e \in {x \in g.edges : x[2] = i /\ x[3] = "Contains"}}

ReferenceEdges == {"Calls", "CallAmbiguous", "CallInferred", "Imports", "ImportAmbiguous",
                   "Inherits", "References"}

-----------------------------------------------------------------------------

\* A file that is gone has no staged graph.
Gone == [nodes |-> << >>, owner |-> << >>]

add_nodes(g, nodes) ==
  LET added[k \in 0 .. Len(nodes)] ==
        IF k = 0 THEN g ELSE add_node(added[k - 1], nodes[k])
  IN  added[Len(nodes)]

append_graph(g, staged) ==
  LET base == Len(g.nodes)
      contains == {<<base + staged.owner[k], base + k, "Contains">> :
                     k \in {j \in 1 .. Len(staged.nodes) : staged.owner[j] # 0}}
  IN  [add_nodes(g, staged.nodes) EXCEPT !.edges = @ \cup contains]

Descendants(g, owners) == Reached(Steps(g, {"Contains"}), owners)[Len(g.nodes)]

\* The nodes at some positions go, the highest first: what moves stays.
remove_nodes(g, gone) ==
  LET left[k \in 0 .. Len(g.nodes)] ==
        IF k = 0 THEN g
        ELSE IF Len(g.nodes) + 1 - k \in gone
        THEN remove_indexed_node(left[k - 1], Len(g.nodes) + 1 - k)
        ELSE left[k - 1]
  IN  left[Len(g.nodes)]

remove_file_nodes(g, file) == remove_nodes(g, Descendants(g, find_file_node(g, file)))

-----------------------------------------------------------------------------
(* The files of a full index, and of an update, one by one: staged is a    *)
(* function from files to staged graphs, order lists its domain.           *)

Orders(files) ==
  {order \in [1 .. Cardinality(files) -> files] :
     \A file \in files : \E k \in DOMAIN order : order[k] = file}

\* Assembled(order, staged)[k]: the graph of the first k files.
Assembled(order, staged) ==
  LET graph_of[k \in 0 .. Len(order)] ==
        IF k = 0 THEN EmptyGraph ELSE append_graph(graph_of[k - 1], staged[order[k]])
  IN  graph_of

\* Swapped(g, order, staged)[k]: the graph once the first k files are replaced.
Swapped(g, order, staged) ==
  LET swapped[k \in 0 .. Len(order)] ==
        IF k = 0 THEN g
        ELSE append_graph(remove_file_nodes(swapped[k - 1], order[k]), staged[order[k]])
  IN  swapped

=============================================================================
