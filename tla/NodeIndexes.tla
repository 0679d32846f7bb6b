---------------------------- MODULE NodeIndexes ----------------------------
(***************************************************************************)
(* The node table of the code graph and its three indexes                  *)
(* (graph/mod.rs).  Nodes have positions; removing one moves the last node *)
(* into its place, and only the entries of the removed and of the moved    *)
(* node are rewritten.  A graph is a record:                               *)
(*   nodes             the nodes by position (petgraph's NodeIndex)        *)
(*   edges             <<source, target, type>> over positions             *)
(*   id_index          identifier -> position                              *)
(*   name_index        name -> the positions that bear it                  *)
(*   file_nodes_index  file -> the positions of its nodes                  *)
(* A node has the fields id, name and file, and others the indexes ignore. *)
(***************************************************************************)
EXTENDS Integers, Sequences

Positions(g) == 1 .. Len(g.nodes)

EmptyIndex == [key \in {} |-> {}]

EmptyGraph == [nodes |-> << >>, edges |-> {}, id_index |-> EmptyIndex,
               name_index |-> EmptyIndex, file_nodes_index |-> EmptyIndex]

\* A map with one entry set, with one entry dropped.
Bind(map, key, value) == [k \in DOMAIN map \cup {key} |->
                            IF k = key THEN value ELSE map[k]]
Drop(map, key) == [k \in DOMAIN map \ {key} |-> map[k]]

\* The bucket of a key, empty when there is none.
Bucket(index, key) == IF key \in DOMAIN index THEN index[key] ELSE {}

push(index, key, i) == Bind(index, key, Bucket(index, key) \cup {i})

\* Mutant of remove_from_bucket: the whole bucket goes.
remove_bucket(index, key, i) == Drop(index, key)

remove_from_bucket(index, key, i) ==
  IF key \notin DOMAIN index THEN index
  ELSE IF index[key] \ {i} = {} THEN Drop(index, key)
  ELSE Bind(index, key, index[key] \ {i})

replace_in_bucket(index, key, from, to) ==
  IF from \in Bucket(index, key)
  THEN Bind(index, key, (index[key] \ {from}) \cup {to})
  ELSE index

add_node(g, node) ==
  LET i == Len(g.nodes) + 1
  IN  [nodes |-> Append(g.nodes, node), edges |-> g.edges,
       id_index |-> Bind(g.id_index, node.id, i),
       name_index |-> push(g.name_index, node.name, i),
       file_nodes_index |-> push(g.file_nodes_index, node.file, i)]

\* petgraph's remove_node: the edges of the node go, the last node takes its place.
WithoutNode(nodes, i) ==
  [j \in 1 .. Len(nodes) - 1 |-> IF j = i THEN nodes[Len(nodes)] ELSE nodes[j]]

WithoutEdges(edges, i, last) ==
  LET moved(j) == IF j = last THEN i ELSE j
  IN  {<<moved(e[1]), moved(e[2]), e[3]>> : e \in {x \in edges : i \notin {x[1], x[2]}}}

\* The removed node goes with its edges and its entries.
Unindexed(g, i) ==
  LET node == g.nodes[i]
  IN  [nodes |-> WithoutNode(g.nodes, i),
       edges |-> WithoutEdges(g.edges, i, Len(g.nodes)),
       id_index |-> IF node.id \in DOMAIN g.id_index /\ g.id_index[node.id] = i
                    THEN Drop(g.id_index, node.id) ELSE g.id_index,
       name_index |-> remove_from_bucket(g.name_index, node.name, i),
       file_nodes_index |-> remove_from_bucket(g.file_nodes_index, node.file, i)]

\* The entries of the last node follow it to its new place.
Reindexed(g, node, last, i) ==
  [nodes |-> g.nodes, edges |-> g.edges,
   id_index |-> IF node.id \in DOMAIN g.id_index
                THEN Bind(g.id_index, node.id, i) ELSE g.id_index,
   name_index |-> replace_in_bucket(g.name_index, node.name, last, i),
   file_nodes_index |-> replace_in_bucket(g.file_nodes_index, node.file, last, i)]

remove_indexed_node(g, i) ==
  LET last == Len(g.nodes)
      rest == Unindexed(g, i)
  IN  IF i = last THEN rest ELSE Reindexed(rest, g.nodes[last], last, i)

(* rebuild_index: the indexes computed from the nodes.  Identifiers are unique. *)
IdIndex(nodes) ==
  [id \in {nodes[i].id : i \in 1 .. Len(nodes)} |->
     CHOOSE i \in 1 .. Len(nodes) : nodes[i].id = id]

NameIndex(nodes) ==
  [name \in {nodes[i].name : i \in 1 .. Len(nodes)} |->
     {i \in 1 .. Len(nodes) : nodes[i].name = name}]

FileIndex(nodes) ==
  [file \in {nodes[i].file : i \in 1 .. Len(nodes)} |->
     {i \in 1 .. Len(nodes) : nodes[i].file = file}]

rebuild_index(g) == [nodes |-> g.nodes, edges |-> g.edges, id_index |-> IdIndex(g.nodes),
                     name_index |-> NameIndex(g.nodes),
                     file_nodes_index |-> FileIndex(g.nodes)]

UniqueIds(g) ==
  \A i, j \in Positions(g) : g.nodes[i].id = g.nodes[j].id => i = j

Indexed(g) == g = rebuild_index(g)

=============================================================================
