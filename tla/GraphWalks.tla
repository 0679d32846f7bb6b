----------------------------- MODULE GraphWalks -----------------------------
(***************************************************************************)
(* What is read of a code graph by its edges (graph/mod.rs, usages.rs),    *)
(* and a reference definition of what lies how many steps away.            *)
(***************************************************************************)
EXTENDS NodeIndexes

Elements(list) == {list[k] : k \in 1 .. Len(list)}

InEdges(g, i) == {e \in g.edges : e[2] = i}
OutEdges(g, i) == {e \in g.edges : e[1] = i}

find_nodes_by_file(g, file) == Bucket(g.file_nodes_index, file)

find_file_node(g, file) ==
  {i \in find_nodes_by_file(g, file) : g.nodes[i].type \in {"File", "DataFile"}}

children(g, i) == {e[2] : e \in {x \in g.edges : x[1] = i /\ x[3] = "Contains"}}

UsageRelation == [Calls |-> 0, CallInferred |-> 1, CallAmbiguous |-> 2, References |-> 3,
                  Imports |-> 4, ImportAmbiguous |-> 5, Inherits |-> 6]

usages_of(g, i) ==
  {[node |-> e[1], relation |-> e[3]] : e \in {x \in InEdges(g, i) : x[3] \in DOMAIN UsageRelation}}

\* An old identifier stands for the only node of its file and kind.
find_node_fuzzy_by_id(g, id) ==
  LET alike == {i \in Positions(g) : \A k \in 1 .. 3 : g.nodes[i].id[k] = id[k]}
  IN  IF id \in DOMAIN g.id_index THEN {g.id_index[id]}
      ELSE IF \A i, j \in alike : i = j THEN alike
      ELSE {}

-----------------------------------------------------------------------------
(* Steps are pairs of positions. *)

Steps(g, types) == {<<e[1], e[2]>> : e \in {x \in g.edges : x[3] \in types}}

Back(steps) == {<<s[2], s[1]>> : s \in steps}

Farther(steps, before) == before \cup {s[2] : s \in {x \in steps : x[1] \in before}}

\* Reached(steps, start)[n]: what lies within n steps of a set.
Reached(steps, start) ==
  LET reached[n \in Nat] == IF n = 0 THEN start ELSE Farther(steps, reached[n - 1])
  IN  reached

=============================================================================
