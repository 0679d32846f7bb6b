----------------------------- MODULE NodeTable -----------------------------
(***************************************************************************)
(* The node table of the code graph on its own: nodes come and go one at a *)
(* time (add_node and remove_indexed_node of graph/mod.rs).                *)
(***************************************************************************)
EXTENDS NodeIndexes

\* The nodes that may be added: records with an id, a name and a file.
CONSTANT Node

VARIABLE table

TableInit == table = EmptyGraph

AddNode == \E node \in Node :
  /\ \A i \in Positions(table) : table.nodes[i].id # node.id
  /\ table' = add_node(table, node)

RemoveNode == \E i \in Positions(table) : table' = remove_indexed_node(table, i)

TableNext == AddNode \/ RemoveNode

TableSpec == TableInit /\ [][TableNext]_table

\* The indexes kept up to date entry by entry are those rebuild_index would
\* compute: no name, file or identifier leads to another node's position after
\* nodes have moved, and none is lost (CodeGraph::remove_indexed_node).
TableIndexed == UniqueIds(table) /\ Indexed(table)

=============================================================================
