-------------------------- MODULE CodeGraphProofs --------------------------
(***************************************************************************)
(* Proofs about the code graph.  For any nodes, added and removed in any   *)
(* order, the three indexes are those rebuild_index computes: an index     *)
(* over names or files is one over keys by position, so one lemma per      *)
(* operation serves both, and the index over identifiers relies on their   *)
(* being unique.  In any graph, whatever is asked, the two searches find   *)
(* what is nearest: the queue of a breadth-first search holds nodes at two *)
(* adjacent distances, the nearer first, and every visited node that has   *)
(* left it has been followed.  What lies n steps away is a recursive       *)
(* function of n; facts about it are proved by induction, which is the     *)
(* least counterexample of the library's well-founded relations.           *)
(* Last, a graph is the files it is made of: a staged graph joins it at    *)
(* the end, a file's nodes leave it one position at a time, and by         *)
(* induction over the files of an index or an update its nodes and their   *)
(* owners are those of the files' contents.  What the readers find at a    *)
(* line, and by a name, follows from that.                                 *)
(***************************************************************************)
EXTENDS NodeTable, GraphSearches, GraphReaders, FiniteSetTheorems, WellFoundedInduction, TLAPS


\* The positions 1..m by their keys.
Index(key, m) ==
  [k \in {key[i] : i \in 1 .. m} |-> {i \in 1 .. m : key[i] = k}]

\* The keys of the remaining positions once the last one has moved to i.
Moved(key, m, i) == [j \in 1 .. m - 1 |-> IF j = i THEN key[m] ELSE key[j]]

\* An indexed graph with given nodes and edges.
Graph(nodes, edges) ==
  [nodes |-> nodes, edges |-> edges, id_index |-> IdIndex(nodes),
   name_index |-> NameIndex(nodes), file_nodes_index |-> FileIndex(nodes)]

Names(nodes) == [i \in 1 .. Len(nodes) |-> nodes[i].name]
Files(nodes) == [i \in 1 .. Len(nodes) |-> nodes[i].file]

Ids(nodes) == {nodes[i].id : i \in 1 .. Len(nodes)}
Unique(nodes) == \A i, j \in 1 .. Len(nodes) : nodes[i].id = nodes[j].id => i = j

TableInv ==
  /\ table.nodes \in Seq(Node)
  /\ table = Graph(table.nodes, table.edges)
  /\ Unique(table.nodes)

-----------------------------------------------------------------------------
(* Names and files *)

\* The key of a new last position joins the index.
LEMMA PushedIndex ==
  ASSUME NEW m \in Nat, NEW key, NEW longer,
         \A i \in 1 .. m : longer[i] = key[i]
  PROVE  push(Index(key, m), longer[m + 1], m + 1) = Index(longer, m + 1)
<1> DEFINE old == Index(key, m)
           new == Index(longer, m + 1)
           added == push(old, longer[m + 1], m + 1)
<1>1. 1 .. m + 1 = (1 .. m) \cup {m + 1}
  OBVIOUS
<1>2. DOMAIN new = DOMAIN old \cup {longer[m + 1]}
  BY <1>1 DEF Index
<1>3. DOMAIN added = DOMAIN new
  BY <1>2 DEF push, Bind
<1>4. ASSUME NEW k \in DOMAIN new
      PROVE  added[k] = new[k]
  <2>1. new[k] = {i \in 1 .. m + 1 : longer[i] = k}
    BY <1>4 DEF Index
  <2>2. CASE k = longer[m + 1]
    <3>1. added[k] = Bucket(old, k) \cup {m + 1}
      BY <2>2, <1>4, <1>2 DEF push, Bind
    <3>2. Bucket(old, k) = {i \in 1 .. m : key[i] = k}
      BY DEF Bucket, Index
    <3> QED
      BY <1>1, <2>1, <2>2, <3>1, <3>2
  <2>3. CASE k # longer[m + 1]
    <3>1. added[k] = old[k] /\ k \in DOMAIN old
      BY <2>3, <1>4, <1>2 DEF push, Bind
    <3>2. old[k] = {i \in 1 .. m : key[i] = k}
      BY <3>1 DEF Index
    <3> QED
      BY <1>1, <2>1, <2>3, <3>1, <3>2
  <2> QED
    BY <2>2, <2>3
<1> QED
  BY <1>3, <1>4 DEF push, Bind, Index

\* The last position leaves the index.
LEMMA PoppedIndex ==
  ASSUME NEW m \in Nat \ {0}, NEW key
  PROVE  remove_from_bucket(Index(key, m), key[m], m) = Index(key, m - 1)
<1> DEFINE old == Index(key, m)
           new == Index(key, m - 1)
           rest == remove_from_bucket(old, key[m], m)
<1>1. 1 .. m = (1 .. m - 1) \cup {m} /\ m \notin 1 .. m - 1
  OBVIOUS
<1>2. key[m] \in DOMAIN old /\ old[key[m]] = {i \in 1 .. m : key[i] = key[m]}
  BY <1>1 DEF Index
<1>3. old[key[m]] \ {m} = {i \in 1 .. m - 1 : key[i] = key[m]}
  BY <1>1, <1>2
<1>4. \A k \in DOMAIN old : k # key[m] => k \in DOMAIN new /\ old[k] = new[k]
  BY <1>1 DEF Index
<1>5. DOMAIN new \subseteq DOMAIN old
  BY <1>1 DEF Index
<1>6. CASE old[key[m]] \ {m} = {}
  <2>1. rest = Drop(old, key[m])
    BY <1>2, <1>6 DEF remove_from_bucket
  <2>2. key[m] \notin DOMAIN new
    BY <1>3, <1>6 DEF Index
  <2>3. DOMAIN rest = DOMAIN new
    BY <1>4, <1>5, <2>1, <2>2 DEF Drop
  <2>4. \A k \in DOMAIN new : rest[k] = new[k]
    BY <1>4, <1>5, <2>1, <2>2 DEF Drop
  <2> QED
    BY <2>1, <2>3, <2>4 DEF Drop, Index
<1>7. CASE old[key[m]] \ {m} # {}
  <2>1. rest = Bind(old, key[m], old[key[m]] \ {m})
    BY <1>2, <1>7 DEF remove_from_bucket
  <2>2. key[m] \in DOMAIN new /\ new[key[m]] = old[key[m]] \ {m}
    BY <1>3, <1>7 DEF Index
  <2>3. DOMAIN rest = DOMAIN new
    BY <1>2, <1>4, <1>5, <2>1, <2>2 DEF Bind
  <2>4. \A k \in DOMAIN new : rest[k] = new[k]
    BY <1>4, <1>5, <2>1, <2>2 DEF Bind
  <2> QED
    BY <2>1, <2>3, <2>4 DEF Bind, Index
<1> QED
  BY <1>6, <1>7

\* What is left of the index when position i, not the last, has left it.
LEMMA RemainingIndex ==
  ASSUME NEW m \in Nat, NEW i \in 1 .. m - 1, NEW key
  PROVE  LET rest == remove_from_bucket(Index(key, m), key[i], i)
         IN  rest = [k \in {key[j] : j \in (1 .. m) \ {i}} |->
                       {j \in (1 .. m) \ {i} : key[j] = k}]
<1> DEFINE old == Index(key, m)
           rest == remove_from_bucket(old, key[i], i)
           new == [k \in {key[j] : j \in (1 .. m) \ {i}} |-> {j \in (1 .. m) \ {i} : key[j] = k}]
<1>1. key[i] \in DOMAIN old /\ old[key[i]] = {j \in 1 .. m : key[j] = key[i]}
  BY DEF Index
<1>2. \A k \in DOMAIN old : k # key[i] => k \in DOMAIN new /\ old[k] = new[k]
  BY DEF Index
<1>3. DOMAIN new \subseteq DOMAIN old
  BY DEF Index
<1>4. CASE old[key[i]] \ {i} = {}
  <2>1. rest = Drop(old, key[i])
    BY <1>1, <1>4 DEF remove_from_bucket
  <2>2. key[i] \notin DOMAIN new
    BY <1>1, <1>4
  <2>3. DOMAIN rest = DOMAIN new
    BY <1>2, <1>3, <2>1, <2>2 DEF Drop
  <2>4. \A k \in DOMAIN new : rest[k] = new[k]
    BY <1>2, <1>3, <2>1, <2>2 DEF Drop
  <2> QED
    BY <2>1, <2>3, <2>4 DEF Drop
<1>5. CASE old[key[i]] \ {i} # {}
  <2>1. rest = Bind(old, key[i], old[key[i]] \ {i})
    BY <1>1, <1>5 DEF remove_from_bucket
  <2>2. key[i] \in DOMAIN new /\ new[key[i]] = old[key[i]] \ {i}
    BY <1>1, <1>5
  <2>3. DOMAIN rest = DOMAIN new
    BY <1>1, <1>2, <1>3, <2>1, <2>2 DEF Bind
  <2>4. \A k \in DOMAIN new : rest[k] = new[k]
    BY <1>2, <1>3, <2>1, <2>2 DEF Bind
  <2> QED
    BY <2>1, <2>3, <2>4 DEF Bind
<1> QED
  BY <1>4, <1>5

\* Position i leaves the index and the last one takes its place.
LEMMA MovedIndex ==
  ASSUME NEW m \in Nat, NEW i \in 1 .. m - 1, NEW key
  PROVE  replace_in_bucket(remove_from_bucket(Index(key, m), key[i], i), key[m], m, i)
           = Index(Moved(key, m, i), m - 1)
<1> DEFINE rest == remove_from_bucket(Index(key, m), key[i], i)
           out == replace_in_bucket(rest, key[m], m, i)
           new == Index(Moved(key, m, i), m - 1)
<1>1. rest = [k \in {key[j] : j \in (1 .. m) \ {i}} |-> {j \in (1 .. m) \ {i} : key[j] = k}]
  BY RemainingIndex
<1>2. m \in (1 .. m) \ {i} /\ (1 .. m) \ {i} = ((1 .. m - 1) \ {i}) \cup {m}
  OBVIOUS
<1>3. key[m] \in DOMAIN rest /\ m \in rest[key[m]]
  BY <1>1, <1>2
<1>4. out = Bind(rest, key[m], (rest[key[m]] \ {m}) \cup {i})
  BY <1>3 DEF replace_in_bucket, Bucket
<1>5. DOMAIN out = DOMAIN rest
  BY <1>3, <1>4 DEF Bind
<1>6. DOMAIN new = DOMAIN rest
  <2>1. DOMAIN new = {Moved(key, m, i)[j] : j \in 1 .. m - 1}
    BY DEF Index
  <2>2. Moved(key, m, i)[i] = key[m]
    BY DEF Moved
  <2>3. \A j \in (1 .. m - 1) \ {i} : Moved(key, m, i)[j] = key[j]
    BY DEF Moved
  <2>4. DOMAIN rest = {key[j] : j \in (1 .. m) \ {i}}
    BY <1>1
  <2> QED
    BY <1>2, <2>1, <2>2, <2>3, <2>4
<1>7. ASSUME NEW k \in DOMAIN rest
      PROVE  out[k] = new[k]
  <2>1. new[k] = {j \in 1 .. m - 1 : Moved(key, m, i)[j] = k}
    BY <1>6 DEF Index
  <2>2. new[k] = {j \in (1 .. m - 1) \ {i} : key[j] = k} \cup (IF k = key[m] THEN {i} ELSE {})
    BY <2>1 DEF Moved
  <2>3. rest[k] = {j \in (1 .. m) \ {i} : key[j] = k}
    BY <1>1
  <2>4. CASE k = key[m]
    <3>1. out[k] = (rest[k] \ {m}) \cup {i}
      BY <1>4, <2>4 DEF Bind
    <3> QED
      BY <1>2, <2>2, <2>3, <2>4, <3>1
  <2>5. CASE k # key[m]
    <3>1. out[k] = rest[k]
      BY <1>4, <2>5 DEF Bind
    <3> QED
      BY <1>2, <2>2, <2>3, <2>5, <3>1
  <2> QED
    BY <2>4, <2>5
<1> QED
  BY <1>4, <1>5, <1>6, <1>7 DEF Bind, Index

-----------------------------------------------------------------------------
(* Identifiers *)

\* What IdIndex is when identifiers are unique, without the choice.
LEMMA IdIndexIs ==
  ASSUME NEW nodes, Unique(nodes)
  PROVE  /\ DOMAIN IdIndex(nodes) = Ids(nodes)
         /\ \A i \in 1 .. Len(nodes) : IdIndex(nodes)[nodes[i].id] = i
<1>1. DOMAIN IdIndex(nodes) = Ids(nodes)
  BY DEF IdIndex, Ids
<1>2. ASSUME NEW i \in 1 .. Len(nodes)
      PROVE  IdIndex(nodes)[nodes[i].id] = i
  <2>1. IdIndex(nodes)[nodes[i].id] =
          (CHOOSE j \in 1 .. Len(nodes) : nodes[j].id = nodes[i].id)
    BY DEF IdIndex
  <2> QED
    BY <2>1 DEF Unique
<1> QED
  BY <1>1, <1>2

\* A function with those values is the index.
LEMMA IdIndexOnly ==
  ASSUME NEW nodes, Unique(nodes), NEW map,
         map = [k \in Ids(nodes) |-> map[k]],
         \A i \in 1 .. Len(nodes) : map[nodes[i].id] = i
  PROVE  map = IdIndex(nodes)
<1>1. \A k \in Ids(nodes) : map[k] = IdIndex(nodes)[k]
  BY IdIndexIs DEF Ids
<1>2. IdIndex(nodes) = [k \in Ids(nodes) |-> IdIndex(nodes)[k]]
  BY IdIndexIs DEF IdIndex, Ids
<1> QED
  BY <1>1, <1>2

\* A new identifier joins the index.
LEMMA PushedId ==
  ASSUME NEW Any, NEW nodes \in Seq(Any), Unique(nodes), NEW node \in Any, node.id \notin Ids(nodes)
  PROVE  /\ Unique(Append(nodes, node))
         /\ Bind(IdIndex(nodes), node.id, Len(nodes) + 1) = IdIndex(Append(nodes, node))
<1> DEFINE longer == Append(nodes, node)
           map == Bind(IdIndex(nodes), node.id, Len(nodes) + 1)
<1>1. /\ Len(nodes) \in Nat /\ Len(longer) = Len(nodes) + 1
      /\ \A i \in 1 .. Len(nodes) : longer[i] = nodes[i]
      /\ longer[Len(nodes) + 1] = node
  OBVIOUS
<1>2. \A i \in 1 .. Len(longer) : i = Len(nodes) + 1 \/ i \in 1 .. Len(nodes)
  BY <1>1
<1>3. Unique(longer)
  BY <1>1, <1>2 DEF Unique, Ids
<1>4. Ids(longer) = Ids(nodes) \cup {node.id}
  <2> HIDE DEF longer
  <2> QED
    BY <1>1, <1>2 DEF Ids
<1>5. map = [k \in Ids(longer) |-> map[k]]
  BY <1>4, IdIndexIs DEF Bind
<1>6. ASSUME NEW i \in 1 .. Len(longer)
      PROVE  map[longer[i].id] = i
  <2>1. CASE i = Len(nodes) + 1
    BY <2>1, <1>1, IdIndexIs DEF Bind
  <2>2. CASE i \in 1 .. Len(nodes)
    <3>1. longer[i].id = nodes[i].id /\ nodes[i].id \in Ids(nodes)
      BY <2>2, <1>1 DEF Ids
    <3>2. map[nodes[i].id] = IdIndex(nodes)[nodes[i].id]
      BY <3>1, IdIndexIs DEF Bind
    <3> QED
      BY <2>2, <3>1, <3>2, IdIndexIs
  <2> QED
    BY <1>2, <2>1, <2>2
<1> QED
  BY <1>3, <1>5, <1>6, IdIndexOnly

\* The nodes that remain when position i is removed.
LEMMA Remaining ==
  ASSUME NEW Any, NEW nodes \in Seq(Any), NEW i \in 1 .. Len(nodes)
  PROVE  LET rest == WithoutNode(nodes, i)
         IN  /\ rest \in Seq(Any)
             /\ Len(rest) = Len(nodes) - 1
             /\ \A j \in 1 .. Len(nodes) - 1 :
                  rest[j] = IF j = i THEN nodes[Len(nodes)] ELSE nodes[j]
<1>1. Len(nodes) \in Nat /\ \A j \in 1 .. Len(nodes) : nodes[j] \in Any
  OBVIOUS
<1>2. WithoutNode(nodes, i) \in [1 .. Len(nodes) - 1 -> Any]
  BY <1>1 DEF WithoutNode
<1>3. Len(nodes) - 1 \in Nat
  BY <1>1
<1>4. WithoutNode(nodes, i) \in Seq(Any) /\ Len(WithoutNode(nodes, i)) = Len(nodes) - 1
  BY <1>2, <1>3
<1> QED
  BY <1>4 DEF WithoutNode

\* The identifier of the removed node leaves, that of the moved one follows it.
LEMMA MovedId ==
  ASSUME NEW Any, NEW nodes \in Seq(Any), Unique(nodes), NEW i \in 1 .. Len(nodes)
  PROVE  LET last == Len(nodes)
             rest == WithoutNode(nodes, i)
             dropped == Drop(IdIndex(nodes), nodes[i].id)
         IN  /\ Unique(rest)
             /\ IdIndex(rest) = IF i = last THEN dropped ELSE Bind(dropped, nodes[last].id, i)
             /\ i # last => nodes[last].id \in DOMAIN dropped
<1> DEFINE last == Len(nodes)
           rest == WithoutNode(nodes, i)
           dropped == Drop(IdIndex(nodes), nodes[i].id)
           map == IF i = last THEN dropped ELSE Bind(dropped, nodes[last].id, i)
<1>1. /\ Len(rest) = last - 1 /\ last \in Nat
      /\ \A j \in 1 .. last - 1 : rest[j] = IF j = i THEN nodes[last] ELSE nodes[j]
  BY Remaining
<1> HIDE DEF rest
<1>2. Unique(rest)
  BY <1>1 DEF Unique
<1>3. Ids(rest) = Ids(nodes) \ {nodes[i].id}
  <2>1. ASSUME NEW j \in 1 .. last - 1
        PROVE  rest[j].id \in Ids(nodes) \ {nodes[i].id}
    BY <1>1, SMTT(30) DEF Unique, Ids
  <2>2. ASSUME NEW j \in 1 .. last, nodes[j].id # nodes[i].id
        PROVE  \E h \in 1 .. last - 1 : rest[h].id = nodes[j].id
    <3>1. CASE j = last
      BY <3>1, <2>2, <1>1
    <3>2. CASE j # last
      BY <3>2, <2>2, <1>1
    <3> QED
      BY <3>1, <3>2
  <2> QED
    BY <1>1, <2>1, <2>2, SMTT(30) DEF Ids
<1>4. /\ DOMAIN dropped = Ids(rest)
      /\ \A k \in Ids(rest) : dropped[k] = IdIndex(nodes)[k]
      /\ dropped = [k \in Ids(rest) |-> dropped[k]]
  BY <1>3, IdIndexIs DEF Drop
<1>5. i # last => nodes[last].id \in DOMAIN dropped
  <2>1. last \in 1 .. Len(nodes)
    BY <1>1
  <2>2. nodes[last].id \in Ids(nodes)
    BY <2>1 DEF Ids
  <2>3. i # last => nodes[last].id # nodes[i].id
    BY <2>1 DEF Unique
  <2> QED
    BY <1>3, <1>4, <2>2, <2>3
<1>6. map = [k \in Ids(rest) |-> map[k]]
  BY <1>4, <1>5 DEF Bind
<1>7. ASSUME NEW j \in 1 .. Len(rest)
      PROVE  map[rest[j].id] = j
  <2>1. rest[j].id \in Ids(rest)
    BY DEF Ids
  <2>2. CASE j = i
    BY <1>1, <1>4, <2>1, <2>2 DEF Bind
  <2>3. CASE j # i
    <3>1. rest[j] = nodes[j] /\ j \in 1 .. last /\ nodes[j].id # nodes[last].id
      BY <1>1, <2>3 DEF Unique
    <3>2. map[rest[j].id] = dropped[rest[j].id]
      BY <1>4, <2>1, <3>1 DEF Bind
    <3> QED
      BY <1>4, <2>1, <3>1, <3>2, IdIndexIs
  <2> QED
    BY <2>2, <2>3
<1>8. map = IdIndex(rest)
  BY <1>2, <1>6, <1>7, IdIndexOnly
<1> QED
  BY <1>2, <1>5, <1>8 DEF rest

-----------------------------------------------------------------------------
(* The operations on an indexed graph *)

\* The indexes of a list of nodes are indexes by the keys of its positions.
LEMMA IndexesByKey ==
  ASSUME NEW nodes
  PROVE  /\ NameIndex(nodes) = Index(Names(nodes), Len(nodes))
         /\ FileIndex(nodes) = Index(Files(nodes), Len(nodes))
BY DEF NameIndex, FileIndex, Index, Names, Files

\* An index looks at the keys of its positions only.
LEMMA IndexAgrees ==
  ASSUME NEW m, NEW a, NEW b, \A i \in 1 .. m : a[i] = b[i]
  PROVE  Index(a, m) = Index(b, m)
<1>1. {a[i] : i \in 1 .. m} = {b[i] : i \in 1 .. m}
  OBVIOUS
<1>2. \A k : {i \in 1 .. m : a[i] = k} = {i \in 1 .. m : b[i] = k}
  OBVIOUS
<1> QED
  BY <1>1, <1>2 DEF Index

\* add_node, on a graph with any edges.
LEMMA AddedNode ==
  ASSUME NEW Any, NEW nodes \in Seq(Any), NEW edges, Unique(nodes),
         NEW node \in Any, node.id \notin Ids(nodes)
  PROVE  add_node(Graph(nodes, edges), node) = Graph(Append(nodes, node), edges)
<1> DEFINE longer == Append(nodes, node)
           m == Len(nodes)
<1>1. /\ m \in Nat /\ Len(longer) = m + 1
      /\ \A i \in 1 .. m : longer[i] = nodes[i]
      /\ longer[m + 1] = node
  OBVIOUS
<1>2. /\ \A i \in 1 .. m : Names(longer)[i] = Names(nodes)[i]
      /\ Names(longer)[m + 1] = node.name
      /\ \A i \in 1 .. m : Files(longer)[i] = Files(nodes)[i]
      /\ Files(longer)[m + 1] = node.file
  <2> HIDE DEF longer
  <2> QED
    BY <1>1 DEF Names, Files
<1>3. push(NameIndex(nodes), node.name, m + 1) = NameIndex(longer)
  <2>1. push(Index(Names(nodes), m), Names(longer)[m + 1], m + 1) = Index(Names(longer), m + 1)
    BY <1>1, <1>2, PushedIndex
  <2> QED
    BY <1>1, <1>2, <2>1, IndexesByKey
<1>4. push(FileIndex(nodes), node.file, m + 1) = FileIndex(longer)
  <2>1. push(Index(Files(nodes), m), Files(longer)[m + 1], m + 1) = Index(Files(longer), m + 1)
    BY <1>1, <1>2, PushedIndex
  <2> QED
    BY <1>1, <1>2, <2>1, IndexesByKey
<1>5. Bind(IdIndex(nodes), node.id, m + 1) = IdIndex(longer)
  BY PushedId
<1> HIDE DEF longer, m
<1>6. add_node(Graph(nodes, edges), node) =
        [nodes |-> longer, edges |-> edges,
         id_index |-> Bind(IdIndex(nodes), node.id, m + 1),
         name_index |-> push(NameIndex(nodes), node.name, m + 1),
         file_nodes_index |-> push(FileIndex(nodes), node.file, m + 1)]
  BY DEF add_node, Graph, longer, m
<1> QED
  BY <1>3, <1>4, <1>5, <1>6 DEF Graph, longer

\* remove_indexed_node, on a graph with any edges.
LEMMA RemovedNode ==
  ASSUME NEW Any, NEW nodes \in Seq(Any), NEW edges, Unique(nodes), NEW i \in 1 .. Len(nodes)
  PROVE  remove_indexed_node(Graph(nodes, edges), i)
           = Graph(WithoutNode(nodes, i), WithoutEdges(edges, i, Len(nodes)))
<1> DEFINE last == Len(nodes)
           rest == WithoutNode(nodes, i)
           restEdges == WithoutEdges(edges, i, last)
           dropped == Drop(IdIndex(nodes), nodes[i].id)
           names == remove_from_bucket(NameIndex(nodes), nodes[i].name, i)
           files == remove_from_bucket(FileIndex(nodes), nodes[i].file, i)
           bare == [nodes |-> rest, edges |-> restEdges, id_index |-> dropped,
                    name_index |-> names, file_nodes_index |-> files]
<1>1. /\ last \in Nat \ {0} /\ Len(rest) = last - 1
      /\ \A j \in 1 .. last - 1 : rest[j] = IF j = i THEN nodes[last] ELSE nodes[j]
  <2>1. last \in Nat \ {0}
    OBVIOUS
  <2> QED
    BY <2>1, Remaining
<1>2. /\ \A j \in 1 .. last : Names(nodes)[j] = nodes[j].name
      /\ \A j \in 1 .. last : Files(nodes)[j] = nodes[j].file
  BY DEF Names, Files
<1>3. /\ \A j \in 1 .. last - 1 :
           Names(rest)[j] = IF j = i THEN Names(nodes)[last] ELSE Names(nodes)[j]
      /\ \A j \in 1 .. last - 1 :
           Files(rest)[j] = IF j = i THEN Files(nodes)[last] ELSE Files(nodes)[j]
  <2> HIDE DEF rest
  <2> QED
    BY <1>1, <1>2 DEF Names, Files
<1>4. nodes[i].id \in DOMAIN IdIndex(nodes) /\ IdIndex(nodes)[nodes[i].id] = i
  BY IdIndexIs DEF Ids
<1>5. Unindexed(Graph(nodes, edges), i) = bare
  BY <1>4 DEF Unindexed, Graph
<1>6. CASE i = last
  <2>1. remove_indexed_node(Graph(nodes, edges), i) = bare
    BY <1>5, <1>6 DEF remove_indexed_node, Graph
  <2>2. names = NameIndex(rest)
    <3>1. names = Index(Names(nodes), last - 1)
      BY <1>1, <1>2, <1>6, IndexesByKey, PoppedIndex
    <3>2. Index(Names(nodes), last - 1) = Index(Names(rest), last - 1)
      BY <1>3, <1>6, IndexAgrees
    <3> QED
      BY <1>1, <3>1, <3>2, IndexesByKey
  <2>3. files = FileIndex(rest)
    <3>1. files = Index(Files(nodes), last - 1)
      BY <1>1, <1>2, <1>6, IndexesByKey, PoppedIndex
    <3>2. Index(Files(nodes), last - 1) = Index(Files(rest), last - 1)
      BY <1>3, <1>6, IndexAgrees
    <3> QED
      BY <1>1, <3>1, <3>2, IndexesByKey
  <2>4. dropped = IdIndex(rest)
    BY <1>6, MovedId
  <2> QED
    BY <2>1, <2>2, <2>3, <2>4 DEF Graph
<1>7. CASE i # last
  <2>1. i \in 1 .. last - 1
    BY <1>1, <1>7
  <2>2. remove_indexed_node(Graph(nodes, edges), i) = Reindexed(bare, nodes[last], last, i)
    BY <1>5, <1>7 DEF remove_indexed_node, Graph
  <2>3. nodes[last].id \in DOMAIN dropped
    BY <1>7, MovedId
  <2>4. Reindexed(bare, nodes[last], last, i) =
          [nodes |-> rest, edges |-> restEdges,
           id_index |-> Bind(dropped, nodes[last].id, i),
           name_index |-> replace_in_bucket(names, nodes[last].name, last, i),
           file_nodes_index |-> replace_in_bucket(files, nodes[last].file, last, i)]
    BY <2>3 DEF Reindexed
  <2>5. replace_in_bucket(names, nodes[last].name, last, i) = NameIndex(rest)
    <3>1. replace_in_bucket(names, nodes[last].name, last, i) = Index(Moved(Names(nodes), last, i), last - 1)
      <4>1. replace_in_bucket(remove_from_bucket(Index(Names(nodes), last), Names(nodes)[i], i),
                              Names(nodes)[last], last, i)
              = Index(Moved(Names(nodes), last, i), last - 1)
        BY <1>1, <2>1, MovedIndex
      <4>2. /\ NameIndex(nodes) = Index(Names(nodes), last)
            /\ nodes[i].name = Names(nodes)[i] /\ nodes[last].name = Names(nodes)[last]
        BY <1>1, <1>2, IndexesByKey
      <4> QED
        BY <4>1, <4>2
    <3>2. Index(Moved(Names(nodes), last, i), last - 1) = Index(Names(rest), last - 1)
      BY <1>3, IndexAgrees DEF Moved
    <3> QED
      BY <1>1, <3>1, <3>2, IndexesByKey
  <2>6. replace_in_bucket(files, nodes[last].file, last, i) = FileIndex(rest)
    <3>1. replace_in_bucket(files, nodes[last].file, last, i) = Index(Moved(Files(nodes), last, i), last - 1)
      <4>1. replace_in_bucket(remove_from_bucket(Index(Files(nodes), last), Files(nodes)[i], i),
                              Files(nodes)[last], last, i)
              = Index(Moved(Files(nodes), last, i), last - 1)
        BY <1>1, <2>1, MovedIndex
      <4>2. /\ FileIndex(nodes) = Index(Files(nodes), last)
            /\ nodes[i].file = Files(nodes)[i] /\ nodes[last].file = Files(nodes)[last]
        BY <1>1, <1>2, IndexesByKey
      <4> QED
        BY <4>1, <4>2
    <3>2. Index(Moved(Files(nodes), last, i), last - 1) = Index(Files(rest), last - 1)
      BY <1>3, IndexAgrees DEF Moved
    <3> QED
      BY <1>1, <3>1, <3>2, IndexesByKey
  <2>7. Bind(dropped, nodes[last].id, i) = IdIndex(rest)
    BY <1>7, MovedId
  <2> QED
    BY <2>2, <2>4, <2>5, <2>6, <2>7 DEF Graph
<1> QED
  BY <1>6, <1>7

-----------------------------------------------------------------------------

\* The initial, empty table.
LEMMA TableInvInit == TableInit => TableInv
<1> SUFFICES ASSUME TableInit PROVE TableInv
  OBVIOUS
<1>1. IdIndex(<< >>) = EmptyIndex /\ NameIndex(<< >>) = EmptyIndex /\ FileIndex(<< >>) = EmptyIndex
  BY DEF IdIndex, NameIndex, FileIndex, EmptyIndex
<1>2. table = Graph(<< >>, {})
  BY <1>1 DEF TableInit, EmptyGraph, Graph
<1> QED
  BY <1>2 DEF TableInv, Graph, Unique

\* Each operation leaves the indexes rebuild_index would compute.
LEMMA TableInvStep == TableInv /\ [TableNext]_table => TableInv'
<1> SUFFICES ASSUME TableInv, [TableNext]_table PROVE TableInv'
  OBVIOUS
<1> DEFINE nodes == table.nodes
           edges == table.edges
<1>1. /\ nodes \in Seq(Node) /\ Unique(nodes) /\ table = Graph(nodes, edges)
      /\ Positions(table) = 1 .. Len(nodes)
  BY DEF TableInv, Positions
<1> HIDE DEF nodes, edges
<1>2. ASSUME NEW node \in Node,
             \A i \in Positions(table) : table.nodes[i].id # node.id,
             table' = add_node(table, node)
      PROVE  TableInv'
  <2>1. node.id \notin Ids(nodes)
    BY <1>1, <1>2 DEF Ids, nodes
  <2>2. table' = Graph(Append(nodes, node), edges)
    BY <1>1, <1>2, <2>1, AddedNode
  <2>3. Append(nodes, node) \in Seq(Node)
    BY <1>1
  <2>4. Unique(Append(nodes, node))
    BY <1>1, <2>1, PushedId
  <2>5. table'.nodes = Append(nodes, node) /\ table'.edges = edges
    BY <2>2 DEF Graph
  <2> QED
    BY <2>2, <2>3, <2>4, <2>5 DEF TableInv
<1>3. ASSUME NEW i \in Positions(table), table' = remove_indexed_node(table, i)
      PROVE  TableInv'
  <2> DEFINE rest == WithoutNode(nodes, i)
             restEdges == WithoutEdges(edges, i, Len(nodes))
  <2>1. i \in 1 .. Len(nodes)
    BY <1>1, <1>3
  <2>2. table' = Graph(rest, restEdges)
    BY <1>1, <1>3, <2>1, RemovedNode
  <2>3. rest \in Seq(Node)
    BY <1>1, <2>1, Remaining
  <2>4. Unique(rest)
    BY <1>1, <2>1, MovedId
  <2>5. table'.nodes = rest /\ table'.edges = restEdges
    BY <2>2 DEF Graph
  <2> HIDE DEF rest, restEdges
  <2> QED
    BY <2>2, <2>3, <2>4, <2>5 DEF TableInv
<1>4. CASE UNCHANGED table
  BY <1>4 DEF TableInv
<1> QED
  BY <1>2, <1>3, <1>4 DEF TableNext, AddNode, RemoveNode

\* The invariant says what TableIndexed asks.
LEMMA InvIsIndexed == TableInv => TableIndexed
BY DEF TableInv, TableIndexed, UniqueIds, Unique, Positions, Indexed, rebuild_index, Graph

\* For any nodes, added and removed in any order: the indexes that
\* CodeGraph::remove_indexed_node and add_node keep up to date entry by entry are
\* those rebuild_index computes.
THEOREM IndexesAreRebuilt == TableSpec => []TableIndexed
BY TableInvInit, TableInvStep, InvIsIndexed, PTL DEF TableSpec

-----------------------------------------------------------------------------
(* Induction over the naturals, as the least element of a set *)

Below == {p \in Nat \X Nat : p[1] < p[2]}

\* Every set of numbers that is not empty has a least element.
LEMMA BelowIsWellFounded == IsWellFoundedOn(Below, Nat)
<1>1. Below = OpToRel(<, Nat)
  BY Zenon DEF OpToRel, Below
<1> QED
  BY <1>1, NatLessThanWellFounded

\* A set that contains 0 and the successor of each element contains every number.
LEMMA Induction ==
  ASSUME NEW T \in SUBSET Nat, 0 \in T, \A n \in T : n + 1 \in T
  PROVE  T = Nat
<1>1. SUFFICES ASSUME Nat \ T # {}
               PROVE  FALSE
  OBVIOUS
<1>2. PICK n \in Nat \ T : \A m \in Nat \ T : ~(<<m, n>> \in Below)
  <2>1. Nat \ T \subseteq Nat /\ Nat \ T # {}
    BY <1>1
  <2> QED
    BY <2>1, BelowIsWellFounded, WFMin
<1>3. n # 0 /\ n - 1 \in Nat /\ (n - 1) + 1 = n
  OBVIOUS
<1>4. n - 1 \in T
  <2>1. <<n - 1, n>> \in Below
    BY <1>3 DEF Below
  <2> QED
    BY <2>1, <1>2, <1>3
<1> QED
  BY <1>3, <1>4

-----------------------------------------------------------------------------
(* What lies how many steps away *)

\* A function starts and goes on as Reached does, up to m.
Follows(f, steps, start, m) ==
  f[0] = start /\ \A k \in 0 .. m - 1 : f[k + 1] = Farther(steps, f[k])

\* Such a function exists for every m...
LEMMA ReachedExists ==
  ASSUME NEW steps, NEW start, NEW m \in Nat
  PROVE  \E f : Follows(f, steps, start, m)
<1> DEFINE T == {n \in Nat : \E f : Follows(f, steps, start, n)}
<1>1. 0 \in T
  <2>1. Follows([k \in {0} |-> start], steps, start, 0)
    BY DEF Follows
  <2> QED
    BY <2>1
<1>2. ASSUME NEW n \in T
      PROVE  n + 1 \in T
  <2>1. PICK f : Follows(f, steps, start, n)
    OBVIOUS
  <2> DEFINE g == [k \in 0 .. n + 1 |-> IF k = n + 1 THEN Farther(steps, f[n]) ELSE f[k]]
  <2>2. ASSUME NEW k \in 0 .. n
        PROVE  g[k + 1] = Farther(steps, g[k])
    <3>1. CASE k = n
      BY <3>1
    <3>2. CASE k # n
      <4>1. k \in 0 .. n - 1
        BY <3>2
      <4> QED
        BY <4>1, <2>1 DEF Follows
    <3> QED
      BY <3>1, <3>2
  <2>3. Follows(g, steps, start, n + 1)
    BY <2>1, <2>2 DEF Follows
  <2>4. \E h : Follows(h, steps, start, n + 1)
    <3> HIDE DEF g
    <3> QED
      BY <2>3
  <2> QED
    BY <2>4
<1>3. T = Nat
  <2> HIDE DEF T
  <2>1. T \in SUBSET Nat
    BY DEF T
  <2> QED
    BY <1>1, <1>2, <2>1, Induction
<1> QED
  BY <1>3

\* ... and is unique as far as it goes.
LEMMA ReachedUnique ==
  ASSUME NEW steps, NEW start, NEW m \in Nat, NEW n \in Nat, NEW f, NEW g,
         Follows(f, steps, start, m), Follows(g, steps, start, n)
  PROVE  \A k \in Nat : k <= m /\ k <= n => f[k] = g[k]
<1> DEFINE T == {k \in Nat : k <= m /\ k <= n => f[k] = g[k]}
<1>1. 0 \in T
  BY DEF Follows
<1>2. ASSUME NEW k \in T
      PROVE  k + 1 \in T
  <2> SUFFICES ASSUME k + 1 <= m, k + 1 <= n
               PROVE  f[k + 1] = g[k + 1]
    OBVIOUS
  <2>1. f[k] = g[k] /\ k \in 0 .. m - 1 /\ k \in 0 .. n - 1
    OBVIOUS
  <2>2. f[k + 1] = Farther(steps, f[k]) /\ g[k + 1] = Farther(steps, g[k])
    BY <2>1 DEF Follows
  <2> QED
    BY <2>1, <2>2
<1>3. T = Nat
  <2> HIDE DEF T
  <2>1. T \in SUBSET Nat
    BY DEF T
  <2> QED
    BY <1>1, <1>2, <2>1, Induction
<1> QED
  BY <1>3

\* So Reached is what its definition says: the start, and one step more each time.
LEMMA ReachedIs ==
  ASSUME NEW steps, NEW start
  PROVE  /\ Reached(steps, start)[0] = start
         /\ \A n \in Nat : Reached(steps, start)[n + 1] = Farther(steps, Reached(steps, start)[n])
<1> DEFINE h(m) == CHOOSE f : Follows(f, steps, start, m)
           w == [m \in Nat |-> h(m)[m]]
           Def(f) == [n \in Nat |-> IF n = 0 THEN start ELSE Farther(steps, f[n - 1])]
           r == Reached(steps, start)
<1>1. \A m \in Nat : Follows(h(m), steps, start, m)
  BY ReachedExists
<1>2. w[0] = start
  <2>1. w[0] = h(0)[0]
    OBVIOUS
  <2> HIDE DEF h, w
  <2> QED
    BY <1>1, <2>1 DEF Follows
<1>3. ASSUME NEW n \in Nat
      PROVE  w[n + 1] = Farther(steps, w[n])
  <2>1. w[n + 1] = h(n + 1)[n + 1] /\ w[n] = h(n)[n]
    OBVIOUS
  <2> HIDE DEF h, w
  <2>2. h(n + 1)[n + 1] = Farther(steps, h(n + 1)[n])
    BY <1>1 DEF Follows
  <2>3. h(n + 1)[n] = h(n)[n]
    BY <1>1, ReachedUnique
  <2> QED
    BY <2>1, <2>2, <2>3
<1>4. w = Def(w)
  <2>1. ASSUME NEW n \in Nat
        PROVE  w[n] = Def(w)[n]
    <3> HIDE DEF w
    <3>1. CASE n = 0
      BY <3>1, <1>2
    <3>2. CASE n # 0
      <4>1. n - 1 \in Nat /\ (n - 1) + 1 = n
        BY <3>2
      <4> QED
        BY <4>1, <3>2, <1>3
    <3> QED
      BY <3>1, <3>2
  <2> QED
    BY <2>1
<1>5. r = CHOOSE f : f = Def(f)
  BY Zenon DEF Reached
<1>6. r = Def(r)
  <2> HIDE DEF w, Def, r
  <2> QED
    BY <1>4, <1>5, Zenon
<1>7. r[0] = start
  <2> HIDE DEF r
  <2> QED
    BY <1>6
<1>8. ASSUME NEW n \in Nat
      PROVE  r[n + 1] = Farther(steps, r[n])
  <2> HIDE DEF r
  <2>1. n + 1 \in Nat /\ n + 1 # 0 /\ (n + 1) - 1 = n
    OBVIOUS
  <2>2. Def(r)[n + 1] = Farther(steps, r[n])
    BY <2>1
  <2> HIDE DEF Def
  <2> QED
    BY <1>6, <2>2
<1> QED
  BY <1>7, <1>8

\* More steps reach more.
LEMMA ReachedGrows ==
  ASSUME NEW steps, NEW start, NEW m \in Nat, NEW n \in Nat, m <= n
  PROVE  Reached(steps, start)[m] \subseteq Reached(steps, start)[n]
<1> DEFINE r == Reached(steps, start)
           T == {k \in Nat : r[m] \subseteq r[m + k]}
<1> HIDE DEF r
<1>1. 0 \in T
  OBVIOUS
<1>2. ASSUME NEW k \in T
      PROVE  k + 1 \in T
  <2>1. m + k \in Nat /\ m + (k + 1) = (m + k) + 1
    OBVIOUS
  <2>2. r[(m + k) + 1] = Farther(steps, r[m + k])
    BY <2>1, ReachedIs DEF r
  <2> QED
    BY <2>1, <2>2 DEF Farther
<1>3. T = Nat
  <2> HIDE DEF T
  <2>1. T \in SUBSET Nat
    BY DEF T
  <2> QED
    BY <1>1, <1>2, <2>1, Induction
<1>4. n - m \in Nat /\ m + (n - m) = n
  OBVIOUS
<1>5. n - m \in T
  <2> HIDE DEF T
  <2> QED
    BY <1>3, <1>4
<1> QED
  BY <1>4, <1>5 DEF r

\* A set that contains the start, and each step from what it shares with fewer
\* than m steps, contains all within m steps.
LEMMA ReachedStays ==
  ASSUME NEW steps, NEW start, NEW m \in Nat, NEW V, start \subseteq V,
         \A n \in 0 .. m - 1 : \A s \in steps :
           s[1] \in V \cap Reached(steps, start)[n] => s[2] \in V
  PROVE  Reached(steps, start)[m] \subseteq V
<1> DEFINE r == Reached(steps, start)
           T == {k \in Nat : k <= m => r[k] \subseteq V}
<1> HIDE DEF r
<1>1. 0 \in T
  BY ReachedIs DEF r
<1>2. ASSUME NEW k \in T
      PROVE  k + 1 \in T
  <2> SUFFICES ASSUME k + 1 <= m
               PROVE  r[k + 1] \subseteq V
    OBVIOUS
  <2>1. r[k] \subseteq V /\ k \in 0 .. m - 1
    OBVIOUS
  <2>2. r[k + 1] = Farther(steps, r[k])
    BY ReachedIs DEF r
  <2>3. \A s \in steps : s[1] \in r[k] => s[2] \in V
    BY <2>1 DEF r
  <2> QED
    BY <2>1, <2>2, <2>3 DEF Farther
<1>3. T = Nat
  <2> HIDE DEF T
  <2>1. T \in SUBSET Nat
    BY DEF T
  <2> QED
    BY <1>1, <1>2, <2>1, Induction
<1> QED
  BY <1>3 DEF r

-----------------------------------------------------------------------------
(* Breadth first: what holds of the queue, the nodes visited and the depth *)

\* n steps away and no fewer.
Away(steps, start, i, n) ==
  i \in Reached(steps, start)[n] /\ \A m \in 0 .. n - 1 : i \notin Reached(steps, start)[m]

Queued(entries, i) == \E k \in 1 .. Len(entries) : entries[k].node = i

Entries(steps, start, bound) == [node : start \cup {s[2] : s \in steps}, depth : 0 .. bound]

\* All within the depth c of the last visit are known; what waits is c or c + 1
\* steps away, the nearer first.
Frontier(steps, start, bound, entries, c, known) ==
  /\ entries \in Seq(Entries(steps, start, bound))
  /\ Reached(steps, start)[c] \subseteq known
  /\ \A k \in 1 .. Len(entries) :
       /\ entries[k].node \in known /\ entries[k].depth \in {c, c + 1}
       /\ Away(steps, start, entries[k].node, entries[k].depth)
  /\ \A k, l \in 1 .. Len(entries) : k < l => entries[k].depth <= entries[l].depth

\* What is known and does not wait has been followed to what is known or pending,
\* unless it is at the bound.
Explored(steps, start, bound, entries, known, pending) ==
  \A i \in known :
    Queued(entries, i) \/ \A s \in steps, n \in 0 .. bound - 1 :
                            s[1] = i /\ i \in Reached(steps, start)[n] => s[2] \in known \cup pending

\* A node has one distance.
LEMMA AwayUnique ==
  ASSUME NEW steps, NEW start, NEW i, NEW m \in Nat, NEW n \in Nat,
         Away(steps, start, i, m), Away(steps, start, i, n)
  PROVE  m = n
BY DEF Away

\* The head of the queue is the nearest that waits; with nothing pending, all as near
\* as it are known.
LEMMA FrontierTake ==
  ASSUME NEW steps, NEW start, NEW bound \in Nat, NEW entries, NEW c \in Nat, NEW known,
         Frontier(steps, start, bound, entries, c, known), entries # << >>,
         Explored(steps, start, bound, entries, known, {})
  PROVE  /\ Head(entries) = entries[1] /\ entries[1].depth \in 0 .. bound
         /\ entries[1].node \in known
         /\ Away(steps, start, entries[1].node, entries[1].depth)
         /\ Frontier(steps, start, bound, Tail(entries), entries[1].depth, known)
         /\ \A i : Queued(entries, i) => i = entries[1].node \/ Queued(Tail(entries), i)
<1> DEFINE r == Reached(steps, start)
           d == entries[1].depth
           E == Entries(steps, start, bound)
<1>1. /\ entries \in Seq(E) /\ Len(entries) \in Nat \ {0}
      /\ Head(entries) = entries[1] /\ Tail(entries) \in Seq(E)
      /\ Len(Tail(entries)) = Len(entries) - 1
      /\ \A k \in 1 .. Len(Tail(entries)) : Tail(entries)[k] = entries[k + 1]
      /\ \A k \in 1 .. Len(entries) : entries[k] \in E
  <2>1. entries \in Seq(E)
    BY DEF Frontier
  <2> HIDE DEF E
  <2>2. Len(entries) \in Nat \ {0} /\ Head(entries) = entries[1]
    BY <2>1
  <2>3. /\ Tail(entries) \in Seq(E) /\ Len(Tail(entries)) = Len(entries) - 1
        /\ \A k \in 1 .. Len(Tail(entries)) : Tail(entries)[k] = entries[k + 1]
    BY <2>1, <2>2
  <2>4. \A k \in 1 .. Len(entries) : entries[k] \in E
    BY <2>1
  <2> QED
    BY <2>1, <2>2, <2>3, <2>4
<1>2. 1 \in 1 .. Len(entries) /\ d \in 0 .. bound /\ d \in {c, c + 1}
  BY <1>1 DEF Frontier, Entries
<1>3. \A k \in 1 .. Len(entries) : entries[k].depth \in 0 .. bound /\ entries[k].depth >= d
  <2> TAKE k \in 1 .. Len(entries)
  <2>1. entries[k].depth \in 0 .. bound
    BY <1>1 DEF Entries
  <2>2. k = 1 \/ 1 < k
    BY <1>1
  <2>3. 1 < k => d <= entries[k].depth
    BY <1>2 DEF Frontier
  <2> QED
    BY <2>1, <2>2, <2>3, <1>2
<1>4. r[d] \subseteq known
  <2>1. CASE d = c
    BY <2>1 DEF Frontier
  <2>2. CASE d = c + 1
    <3>1. ASSUME NEW s \in steps, s[1] \in r[c]
          PROVE  s[2] \in known
      <4>1. s[1] \in known
        BY <3>1 DEF Frontier
      <4>2. ~Queued(entries, s[1])
        <5>1. ASSUME NEW k \in 1 .. Len(entries), entries[k].node = s[1]
              PROVE  FALSE
          <6>1. Away(steps, start, s[1], entries[k].depth)
            BY <5>1 DEF Frontier
          <6>2. c \in 0 .. entries[k].depth - 1
            BY <1>3, <2>2
          <6> QED
            BY <6>1, <6>2, <3>1 DEF Away
        <5> QED
          BY <5>1 DEF Queued
      <4>3. c \in 0 .. bound - 1
        BY <1>2, <2>2
      <4> QED
        BY <4>1, <4>2, <4>3, <3>1 DEF Explored
    <3>2. r[c + 1] = Farther(steps, r[c])
      BY ReachedIs
    <3> QED
      BY <3>1, <3>2, <2>2 DEF Frontier, Farther
  <2> QED
    BY <2>1, <2>2, <1>2
<1>5. ASSUME NEW k \in 1 .. Len(Tail(entries))
      PROVE  /\ Tail(entries)[k].node \in known /\ Tail(entries)[k].depth \in {d, d + 1}
             /\ Away(steps, start, Tail(entries)[k].node, Tail(entries)[k].depth)
  <2>1. k + 1 \in 1 .. Len(entries) /\ Tail(entries)[k] = entries[k + 1]
    BY <1>1
  <2>2. /\ entries[k + 1].node \in known /\ entries[k + 1].depth \in {c, c + 1}
        /\ Away(steps, start, entries[k + 1].node, entries[k + 1].depth)
    BY <2>1 DEF Frontier
  <2>3. entries[k + 1].depth >= d
    BY <2>1, <1>3
  <2> QED
    BY <2>1, <2>2, <2>3, <1>2
<1>6. \A k, l \in 1 .. Len(Tail(entries)) : k < l => Tail(entries)[k].depth <= Tail(entries)[l].depth
  <2> TAKE k, l \in 1 .. Len(Tail(entries))
  <2> HAVE k < l
  <2>1. k + 1 \in 1 .. Len(entries) /\ l + 1 \in 1 .. Len(entries) /\ k + 1 < l + 1
    BY <1>1
  <2>2. entries[k + 1].depth <= entries[l + 1].depth
    BY <2>1 DEF Frontier
  <2> QED
    BY <2>2, <1>1
<1>7. Frontier(steps, start, bound, Tail(entries), d, known)
  BY <1>1, <1>4, <1>5, <1>6 DEF Frontier
<1>8. ASSUME NEW i, Queued(entries, i)
      PROVE  i = entries[1].node \/ Queued(Tail(entries), i)
  <2>1. PICK k \in 1 .. Len(entries) : entries[k].node = i
    BY <1>8 DEF Queued
  <2>2. CASE k = 1
    BY <2>1, <2>2
  <2>3. CASE k # 1
    <3>1. k - 1 \in 1 .. Len(Tail(entries)) /\ Tail(entries)[k - 1] = entries[(k - 1) + 1] /\ (k - 1) + 1 = k
      BY <2>3, <1>1
    <3> QED
      BY <3>1, <2>1 DEF Queued
  <2> QED
    BY <2>2, <2>3
<1>9. entries[1].node \in known /\ Away(steps, start, entries[1].node, entries[1].depth)
  BY <1>2 DEF Frontier
<1> QED
  BY <1>1, <1>2, <1>7, <1>8, <1>9

\* A node found from the one that is visited is one step farther, and waits last.
LEMMA FrontierAdd ==
  ASSUME NEW steps, NEW start, NEW bound \in Nat, NEW entries, NEW c \in Nat, NEW known,
         NEW i, NEW j,
         Frontier(steps, start, bound, entries, c, known), c < bound,
         Away(steps, start, i, c), <<i, j>> \in steps, j \notin known
  PROVE  /\ Away(steps, start, j, c + 1)
         /\ Frontier(steps, start, bound, Enqueue(entries, j, c + 1), c, known \cup {j})
         /\ Queued(Enqueue(entries, j, c + 1), j)
         /\ \A x : Queued(entries, x) => Queued(Enqueue(entries, j, c + 1), x)
<1> DEFINE r == Reached(steps, start)
           more == Enqueue(entries, j, c + 1)
           E == Entries(steps, start, bound)
<1>1. Away(steps, start, j, c + 1)
  <2>1. j \in r[c + 1]
    <3>1. r[c + 1] = Farther(steps, r[c])
      BY ReachedIs
    <3>2. i \in r[c]
      BY DEF Away
    <3> QED
      BY <3>1, <3>2 DEF Farther
  <2>2. ASSUME NEW m \in 0 .. (c + 1) - 1
        PROVE  j \notin r[m]
    <3>1. m \in Nat /\ m <= c
      OBVIOUS
    <3>2. r[m] \subseteq r[c]
      BY <3>1, ReachedGrows
    <3> QED
      BY <3>2 DEF Frontier
  <2> QED
    BY <2>1, <2>2 DEF Away
<1>2. Entry(j, c + 1) \in E
  BY DEF Entries, Entry
<1>3. /\ entries \in Seq(E) /\ Len(entries) \in Nat /\ more \in Seq(E) /\ Len(more) = Len(entries) + 1
      /\ \A k \in 1 .. Len(entries) : more[k] = entries[k]
      /\ more[Len(entries) + 1] = Entry(j, c + 1)
  <2> HIDE DEF E
  <2>1. entries \in Seq(E)
    BY DEF Frontier, E
  <2> QED
    BY <2>1, <1>2 DEF Enqueue
<1>4. Entry(j, c + 1).node = j /\ Entry(j, c + 1).depth = c + 1
  BY DEF Entry
<1>5. ASSUME NEW k \in 1 .. Len(more)
      PROVE  /\ more[k].node \in known \cup {j} /\ more[k].depth \in {c, c + 1}
             /\ Away(steps, start, more[k].node, more[k].depth)
  <2>1. CASE k = Len(entries) + 1
    BY <2>1, <1>1, <1>3, <1>4
  <2>2. CASE k \in 1 .. Len(entries)
    BY <2>2, <1>3 DEF Frontier
  <2> QED
    BY <2>1, <2>2, <1>3
<1>6. \A k, l \in 1 .. Len(more) : k < l => more[k].depth <= more[l].depth
  <2> TAKE k, l \in 1 .. Len(more)
  <2> HAVE k < l
  <2>1. k \in 1 .. Len(entries)
    BY <1>3
  <2>2. CASE l = Len(entries) + 1
    <3>1. more[k].depth \in {c, c + 1} /\ more[l].depth = c + 1
      BY <1>3, <1>4, <1>5, <2>2
    <3> QED
      BY <3>1
  <2>3. CASE l \in 1 .. Len(entries)
    BY <2>1, <2>3, <1>3 DEF Frontier
  <2> QED
    BY <2>2, <2>3, <1>3
<1>7. Frontier(steps, start, bound, more, c, known \cup {j})
  BY <1>3, <1>5, <1>6 DEF Frontier
<1>8. Queued(more, j)
  BY <1>3, <1>4 DEF Queued
<1>9. ASSUME NEW x, Queued(entries, x)
      PROVE  Queued(more, x)
  <2>1. PICK k \in 1 .. Len(entries) : entries[k].node = x
    BY <1>9 DEF Queued
  <2>2. k \in 1 .. Len(more) /\ more[k].node = x
    BY <2>1, <1>3
  <2> QED
    BY <2>2 DEF Queued
<1> QED
  BY <1>1, <1>7, <1>8, <1>9

\* With nothing left to visit or to follow, all within the bound is known.
LEMMA ExploredAll ==
  ASSUME NEW steps, NEW start, NEW bound \in Nat, NEW entries, entries = << >>, NEW known, start \subseteq known,
         Explored(steps, start, bound, entries, known, {})
  PROVE  Reached(steps, start)[bound] \subseteq known
<1>1. \A i : ~Queued(entries, i)
  BY DEF Queued
<1>2. \A n \in 0 .. bound - 1 : \A s \in steps :
        s[1] \in known \cap Reached(steps, start)[n] => s[2] \in known
  BY <1>1 DEF Explored
<1> QED
  BY <1>2, ReachedStays

\* Nothing is reached from nothing.
LEMMA NothingReached ==
  ASSUME NEW steps, NEW n \in Nat
  PROVE  Reached(steps, {})[n] = {}
<1>1. \A k \in 0 .. n - 1 : \A s \in steps : s[1] \in {} \cap Reached(steps, {})[k] => s[2] \in {}
  OBVIOUS
<1>2. Reached(steps, {})[n] \subseteq {}
  BY <1>1, ReachedStays
<1> QED
  BY <1>2

\* An identifier stands for one node at most.
LEMMA FuzzyIsOne ==
  ASSUME NEW g, NEW id
  PROVE  \A i, j \in find_node_fuzzy_by_id(g, id) : i = j
<1> DEFINE alike == {i \in Positions(g) : \A k \in 1 .. 3 : g.nodes[i].id[k] = id[k]}
<1> HIDE DEF alike
<1>1. find_node_fuzzy_by_id(g, id) = IF id \in DOMAIN g.id_index THEN {g.id_index[id]}
                                     ELSE IF \A i, j \in alike : i = j THEN alike ELSE {}
  BY DEF find_node_fuzzy_by_id, alike
<1> QED
  BY <1>1

-----------------------------------------------------------------------------
(* trace_call_chain *)

Calls == Steps(graph, CallEdges)

\* The edges of the visited node that the inner loop has not seen.
Callees == {e[2] : e \in left}

Idle ==
  stage = "idle" =>
    /\ queue = << >> /\ current = Entry(0, 0) /\ left = {} /\ visited = {}
    /\ parent = [i \in {} |-> 0] /\ chain = << >> /\ own = {} /\ stack = {} /\ results = << >>

Asked ==
  stage \in {"trace", "unwind", "traced"} =>
    /\ asked.max_depth \in Nat
    /\ \A i, j \in asked.from : i = j
    /\ \A i, j \in asked.to : i = j

\* Whatever was found was found by a call from one step nearer.
Parents ==
  stage \in {"trace", "unwind"} =>
    /\ asked.from # {} /\ DOMAIN parent = visited \ asked.from
    /\ \A i \in DOMAIN parent :
         /\ parent[i] \in visited /\ <<parent[i], i>> \in Calls
         /\ \E n \in Nat : Away(Calls, asked.from, parent[i], n) /\ Away(Calls, asked.from, i, n + 1)

Tracing ==
  stage = "trace" =>
    /\ current.depth \in Nat /\ chain = << >>
    /\ Frontier(Calls, asked.from, asked.max_depth, queue, current.depth, visited)
    /\ Explored(Calls, asked.from, asked.max_depth, queue, visited, Callees)
    /\ \A i \in asked.to \cap visited : Queued(queue, i)
    /\ left # {} => /\ current.depth < asked.max_depth /\ current.node \in visited
                    /\ Away(Calls, asked.from, current.node, current.depth)
    /\ \A e \in left : e \in graph.edges /\ e[1] = current.node /\ e[3] \in CallEdges

\* The path back from the target, and how far its nodes are from the start.
Path ==
  /\ chain \in Seq(visited) /\ chain # << >>
  /\ current.depth \in 0 .. asked.max_depth /\ Len(chain) <= current.depth + 1
  /\ chain[Len(chain)] \in asked.to
  /\ \A k \in 1 .. Len(chain) - 1 : <<chain[k], chain[k + 1]>> \in Calls
  /\ \A k \in 1 .. Len(chain) :
       Away(Calls, asked.from, chain[k], current.depth + k - Len(chain))

Unwinding == stage = "unwind" => Path

Traced ==
  stage = "traced" =>
    \/ chain = << >> /\ asked.to \cap Reached(Calls, asked.from)[asked.max_depth] = {}
    \/ Path /\ Len(chain) = current.depth + 1

ChainInv == Idle /\ Asked /\ Parents /\ Tracing /\ Unwinding /\ Traced

\* The start waits alone; an identifier that stands for no node reaches none
\* (engine.rs:1070-1096).
LEMMA TraceStarts ==
  ASSUME ChainInv, NEW from_id \in AskedIds, NEW to_id \in AskedIds, NEW max_depth \in MaxDepths,
         trace_call_chain(from_id, to_id, max_depth)
  PROVE  ChainInv'
<1> DEFINE from == find_node_fuzzy_by_id(graph, from_id)
           to == find_node_fuzzy_by_id(graph, to_id)
<1> HIDE DEF from, to
<1>1. /\ stage = "idle" /\ UNCHANGED <<graph, current, left, parent, chain>>
      /\ asked' = [kind |-> "chain", from |-> from, to |-> to, max_depth |-> max_depth]
      /\ IF from = {} \/ to = {} THEN stage' = "traced" /\ UNCHANGED <<queue, visited>>
         ELSE \E i \in from : stage' = "trace" /\ queue' = Enqueue(<< >>, i, 0) /\ visited' = {i}
  BY DEF trace_call_chain, from, to
<1>2. /\ asked'.from = from /\ asked'.to = to /\ asked'.max_depth = max_depth
      /\ max_depth \in Nat
      /\ (\A i, j \in from : i = j) /\ (\A i, j \in to : i = j)
  BY <1>1, FuzzyIsOne, SearchAssumption DEF from, to
<1>3. /\ queue = << >> /\ current = Entry(0, 0) /\ left = {} /\ visited = {}
      /\ parent = [i \in {} |-> 0] /\ chain = << >>
  BY <1>1 DEF ChainInv, Idle
<1>4. Calls' = Calls
  BY <1>1 DEF Calls
<1>5. CASE from = {} \/ to = {}
  <2>1. stage' = "traced" /\ chain' = << >>
    BY <1>1, <1>3, <1>5
  <2>2. to \cap Reached(Calls, from)[max_depth] = {}
    BY <1>2, <1>5, NothingReached
  <2>3. Traced'
    BY <2>1, <2>2, <1>2, <1>4 DEF Traced
  <2> QED
    BY <2>1, <2>3, <1>2 DEF ChainInv, Idle, Asked, Parents, Tracing, Unwinding
<1>6. CASE ~(from = {} \/ to = {})
  <2>1. PICK i \in from : stage' = "trace" /\ queue' = Enqueue(<< >>, i, 0) /\ visited' = {i}
    BY <1>1, <1>6
  <2>2. from = {i}
    BY <1>2
  <2>3. Reached(Calls, from)[0] = from
    BY ReachedIs
  <2>4. /\ Len(queue') = 1 /\ queue'[1].node = i /\ queue'[1].depth = 0
        /\ queue' \in Seq(Entries(Calls, from, max_depth))
    BY <2>1, <2>2, <1>2 DEF Enqueue, Entry, Entries
  <2>5. Away(Calls, from, i, 0)
    BY <2>3 DEF Away
  <2>6. Frontier(Calls, from, max_depth, queue', 0, {i})
    <3>1. 1 .. Len(queue') = {1}
      BY <2>4
    <3>2. Reached(Calls, from)[0] \subseteq {i}
      BY <2>2, <2>3
    <3>3. \A k \in 1 .. Len(queue') :
            /\ queue'[k].node \in {i} /\ queue'[k].depth \in {0, 0 + 1}
            /\ Away(Calls, from, queue'[k].node, queue'[k].depth)
      BY <3>1, <2>4, <2>5
    <3>4. \A k, l \in 1 .. Len(queue') : k < l => queue'[k].depth <= queue'[l].depth
      BY <3>1
    <3> QED
      BY <2>4, <3>2, <3>3, <3>4 DEF Frontier
  <2>7. Queued(queue', i)
    BY <2>4 DEF Queued
  <2>8. Explored(Calls, from, max_depth, queue', {i}, Callees')
    BY <2>7 DEF Explored
  <2>9. current'.depth = 0 /\ left' = {} /\ chain' = << >> /\ DOMAIN parent' = {}
    BY <1>1, <1>3 DEF Entry
  <2>10. Tracing'
    BY <2>1, <2>6, <2>7, <2>8, <2>9, <1>2, <1>4 DEF Tracing
  <2>11. Parents'
    BY <2>1, <2>2, <2>9, <1>2 DEF Parents
  <2> QED
    BY <2>1, <2>10, <2>11, <1>2 DEF ChainInv, Idle, Asked, Unwinding, Traced
<1> QED
  BY <1>5, <1>6

\* The node visited is the target, or its calls become pending.  Whatever its turn
\* is, it is the nearest that waits.
LEMMA TraceVisits ==
  ASSUME ChainInv, VisitCaller
  PROVE  ChainInv'
<1> DEFINE from == asked.from
           bound == asked.max_depth
           i == queue[1].node
           d == queue[1].depth
<1>1. /\ stage = "trace" /\ left = {} /\ queue # << >> /\ current' = Head(queue) /\ queue' = Tail(queue)
      /\ UNCHANGED <<graph, asked, visited, parent>>
  BY DEF VisitCaller
<1>2. /\ bound \in Nat /\ Asked /\ Parents /\ Tracing /\ current.depth \in Nat /\ chain = << >>
      /\ Frontier(Calls, from, bound, queue, current.depth, visited)
  BY <1>1 DEF ChainInv, Asked, Tracing
<1>3. Explored(Calls, from, bound, queue, visited, {})
  <2>1. Callees = {}
    BY <1>1 DEF Callees
  <2> QED
    BY <2>1, <1>1, <1>2 DEF Tracing
<1>4. /\ current' = queue[1] /\ d \in 0 .. bound /\ i \in visited /\ Away(Calls, from, i, d)
      /\ Frontier(Calls, from, bound, queue', d, visited)
      /\ \A x : Queued(queue, x) => x = i \/ Queued(queue', x)
  BY <1>1, <1>2, <1>3, FrontierTake
<1>5. Calls' = Calls
  BY <1>1 DEF Calls
<1>6. stage' \in {"trace", "unwind"}
  BY <1>1 DEF VisitCaller
<1>7. Asked' /\ Parents'
  BY <1>1, <1>2, <1>5, <1>6 DEF Asked, Parents
<1>8. CASE i \in asked.to
  <2>1. stage' = "unwind" /\ chain' = <<i>>
    BY <1>1, <1>4, <1>8 DEF VisitCaller
  <2>2. /\ chain' \in Seq(visited') /\ chain' # << >> /\ Len(chain') = 1 /\ chain'[1] = i
    BY <2>1, <1>1, <1>4
  <2>3. Path'
    BY <2>2, <1>1, <1>2, <1>4, <1>5, <1>8 DEF Path
  <2> QED
    BY <2>1, <2>3, <1>7 DEF ChainInv, Idle, Tracing, Unwinding, Traced
<1>9. CASE i \notin asked.to
  <2>1. /\ stage' = "trace" /\ chain' = chain
        /\ left' = {e \in OutEdges(graph, i) : e[3] \in CallEdges /\ Deepens(d, bound)}
    BY <1>1, <1>4, <1>9 DEF VisitCaller
  <2>2. ASSUME NEW x \in visited, ~Queued(queue', x),
               NEW s \in Calls, NEW n \in 0 .. bound - 1, s[1] = x, x \in Reached(Calls, from)[n]
        PROVE  s[2] \in visited \cup Callees'
    <3>1. CASE Queued(queue, x)
      <4>1. x = i
        BY <3>1, <2>2, <1>4
      <4>2. d <= n
        <5>1. SUFFICES ASSUME n < d
                       PROVE  FALSE
          BY <1>4
        <5>2. n \in 0 .. d - 1
          BY <5>1, <1>4
        <5> QED
          BY <5>2, <4>1, <2>2, <1>4 DEF Away
      <4>3. PICK e \in graph.edges : e[3] \in CallEdges /\ s = <<e[1], e[2]>>
        BY DEF Calls, Steps
      <4>4. e \in left'
        BY <4>1, <4>2, <4>3, <2>1, <2>2, <1>2, <1>4 DEF OutEdges, Deepens
      <4> QED
        BY <4>3, <4>4 DEF Callees
    <3>2. CASE ~Queued(queue, x)
      BY <3>2, <2>2, <1>3 DEF Explored
    <3> QED
      BY <3>1, <3>2
  <2>3. Explored(Calls, from, bound, queue', visited, Callees')
    BY <2>2 DEF Explored
  <2>4. \A x \in asked.to \cap visited : Queued(queue', x)
    BY <1>1, <1>2, <1>4, <1>9 DEF Tracing
  <2>5. left' # {} => d < bound
    BY <2>1 DEF Deepens
  <2>6. \A e \in left' : e \in graph.edges /\ e[1] = i /\ e[3] \in CallEdges
    BY <2>1 DEF OutEdges
  <2>7. Tracing'
    BY <2>1, <2>3, <2>4, <2>5, <2>6, <1>1, <1>2, <1>4, <1>5 DEF Tracing
  <2> QED
    BY <2>1, <2>7, <1>7 DEF ChainInv, Idle, Unwinding, Traced
<1> QED
  BY <1>8, <1>9

\* A call is dropped when its target is known, else the target is one call farther.
LEMMA TraceFollows ==
  ASSUME ChainInv, NEW e \in left, FollowCall(e)
  PROVE  ChainInv'
<1> DEFINE from == asked.from
           bound == asked.max_depth
           c == current.depth
           i == current.node
           j == e[2]
<1>1. /\ stage = "trace" /\ left' = left \ {e}
      /\ UNCHANGED <<graph, stage, asked, current, chain>>
  BY DEF FollowCall
<1>2. /\ bound \in Nat /\ Asked /\ Parents /\ Tracing /\ c \in Nat /\ chain = << >>
      /\ Frontier(Calls, from, bound, queue, c, visited)
      /\ Explored(Calls, from, bound, queue, visited, Callees)
      /\ c < bound /\ i \in visited /\ Away(Calls, from, i, c)
      /\ e \in graph.edges /\ e[1] = i /\ e[3] \in CallEdges
      /\ \A x \in asked.to \cap visited : Queued(queue, x)
  BY <1>1 DEF ChainInv, Asked, Tracing
<1>3. Calls' = Calls /\ <<i, j>> \in Calls
  BY <1>1, <1>2 DEF Calls, Steps
<1>4. \A x \in left' : x \in graph.edges /\ x[1] = i /\ x[3] \in CallEdges
  BY <1>1, <1>2 DEF Tracing
<1>5. Callees \subseteq Callees' \cup {j}
  BY <1>1 DEF Callees
<1>6. Asked'
  BY <1>1, <1>2 DEF Asked
<1>7. CASE j \in visited
  <2>1. UNCHANGED <<visited, parent, queue>>
    BY <1>7 DEF FollowCall
  <2>2. Explored(Calls, from, bound, queue, visited, Callees')
    BY <1>2, <1>5, <1>7 DEF Explored
  <2>3. Tracing'
    BY <1>1, <1>2, <1>3, <1>4, <2>1, <2>2 DEF Tracing
  <2>4. Parents'
    BY <1>1, <1>2, <1>3, <2>1 DEF Parents
  <2> QED
    BY <1>1, <1>6, <2>3, <2>4 DEF ChainInv, Idle, Unwinding, Traced
<1>8. CASE j \notin visited
  <2>1. /\ visited' = visited \cup {j} /\ parent' = Bind(parent, j, i)
        /\ queue' = Enqueue(queue, j, c + 1)
    BY <1>8 DEF FollowCall
  <2>2. /\ Away(Calls, from, j, c + 1)
        /\ Frontier(Calls, from, bound, queue', c, visited')
        /\ Queued(queue', j)
        /\ \A x : Queued(queue, x) => Queued(queue', x)
    <3>1. /\ bound \in Nat /\ c \in Nat /\ c < bound /\ <<i, j>> \in Calls /\ j \notin visited
          /\ Frontier(Calls, from, bound, queue, c, visited) /\ Away(Calls, from, i, c)
      BY <1>2, <1>3, <1>8
    <3> HIDE DEF from, bound, c, i, j
    <3> QED
      BY <3>1, <2>1, FrontierAdd
  <2>3. Explored(Calls, from, bound, queue', visited', Callees')
    BY <1>2, <1>5, <2>1, <2>2 DEF Explored
  <2>4. \A x \in asked.to \cap visited' : Queued(queue', x)
    BY <1>2, <2>1, <2>2
  <2>5. Tracing'
    BY <1>1, <1>2, <1>3, <1>4, <2>1, <2>2, <2>3, <2>4 DEF Tracing
  <2>6. j \notin from
    <3>1. Reached(Calls, from)[0] = from
      BY ReachedIs
    <3>2. 0 \in 0 .. (c + 1) - 1
      BY <1>2
    <3> QED
      BY <2>2, <3>1, <3>2 DEF Away
  <2>7. /\ DOMAIN parent' = DOMAIN parent \cup {j} /\ parent'[j] = i
        /\ \A x \in DOMAIN parent : x # j => parent'[x] = parent[x]
    BY <2>1 DEF Bind
  <2>8. DOMAIN parent' = visited' \ from /\ from # {}
    BY <1>1, <1>2, <2>1, <2>6, <2>7 DEF Parents
  <2>9. ASSUME NEW x \in DOMAIN parent'
        PROVE  /\ parent'[x] \in visited' /\ <<parent'[x], x>> \in Calls
               /\ \E n \in Nat : Away(Calls, from, parent'[x], n) /\ Away(Calls, from, x, n + 1)
    <3>1. CASE x = j
      BY <3>1, <1>2, <1>3, <2>1, <2>2, <2>7
    <3>2. CASE x # j
      BY <3>2, <1>1, <1>2, <2>1, <2>7 DEF Parents
    <3> QED
      BY <3>1, <3>2
  <2>10. Parents'
    BY <1>1, <1>3, <2>8, <2>9 DEF Parents
  <2> QED
    BY <1>1, <1>6, <2>5, <2>10 DEF ChainInv, Idle, Unwinding, Traced
<1> QED
  BY <1>7, <1>8

\* An empty queue means that all within max_depth was visited, the target not.
LEMMA TraceFails ==
  ASSUME ChainInv, NoChain
  PROVE  ChainInv'
<1> DEFINE from == asked.from
           bound == asked.max_depth
<1>1. /\ stage = "trace" /\ left = {} /\ queue = << >> /\ stage' = "traced"
      /\ UNCHANGED <<graph, asked, chain, visited, current>>
  BY DEF NoChain
<1>2. /\ bound \in Nat /\ Asked /\ chain = << >>
      /\ Frontier(Calls, from, bound, queue, current.depth, visited)
      /\ Explored(Calls, from, bound, queue, visited, Callees) /\ Callees = {}
      /\ \A x \in asked.to \cap visited : Queued(queue, x)
  BY <1>1 DEF ChainInv, Asked, Tracing, Callees
<1>3. from \subseteq visited
  <2>1. Reached(Calls, from)[0] \subseteq Reached(Calls, from)[current.depth]
    BY <1>1, ReachedGrows DEF ChainInv, Tracing
  <2> QED
    BY <2>1, <1>2, ReachedIs DEF Frontier
<1>4. Reached(Calls, from)[bound] \subseteq visited
  BY <1>1, <1>2, <1>3, ExploredAll
<1>5. asked.to \cap visited = {}
  BY <1>1, <1>2 DEF Queued
<1>6. Calls' = Calls
  BY <1>1 DEF Calls
<1>7. Traced'
  BY <1>1, <1>2, <1>4, <1>5, <1>6 DEF Traced
<1>8. Asked'
  BY <1>1, <1>2 DEF Asked
<1> QED
  BY <1>1, <1>7, <1>8 DEF ChainInv, Idle, Parents, Tracing, Unwinding

\* The parent is one call nearer, so the path closes after as many turns as the
\* target is away.
LEMMA TraceUnwinds ==
  ASSUME ChainInv, Unwind
  PROVE  ChainInv'
<1> DEFINE from == asked.from
           d == current.depth
           h == chain[1]
           l == Len(chain)
<1>1. stage = "unwind" /\ UNCHANGED <<graph, asked, visited, parent, current>>
  BY DEF Unwind
<1>2. Asked /\ Parents /\ Path /\ Calls' = Calls
  BY <1>1 DEF ChainInv, Unwinding, Calls
<1>3. /\ chain \in Seq(visited) /\ l \in Nat \ {0} /\ Head(chain) = h /\ h \in visited
      /\ d \in Nat /\ l <= d + 1 /\ d <= asked.max_depth /\ asked.max_depth \in Nat
      /\ Away(Calls, from, h, d + 1 - l)
  BY <1>1, <1>2 DEF Path, Asked
<1>4. CASE h \notin DOMAIN parent
  <2>1. stage' = "traced" /\ UNCHANGED chain
    BY <1>3, <1>4 DEF Unwind
  <2>2. h \in from
    BY <1>1, <1>2, <1>3, <1>4 DEF Parents
  <2>3. Away(Calls, from, h, 0)
    BY <2>2, ReachedIs DEF Away
  <2>4. l = d + 1
    <3>1. d + 1 - l \in Nat
      BY <1>3
    <3>2. d + 1 - l = 0
      BY <2>3, <1>3, <3>1, AwayUnique
    <3> QED
      BY <3>2, <1>3
  <2>5. Path'
    BY <1>1, <1>2, <2>1 DEF Path
  <2>6. Traced'
    BY <1>1, <2>1, <2>4, <2>5 DEF Traced
  <2>7. Asked'
    BY <1>1, <1>2, <2>1 DEF Asked
  <2> QED
    BY <2>1, <2>6, <2>7 DEF ChainInv, Idle, Parents, Tracing, Unwinding
<1>5. CASE h \in DOMAIN parent
  <2> DEFINE p == parent[h]
  <2>1. stage' = stage /\ chain' = <<p>> \o chain
    BY <1>1, <1>3, <1>5 DEF Unwind
  <2>2. /\ p \in visited /\ <<p, h>> \in Calls
        /\ \E n \in Nat : Away(Calls, from, p, n) /\ Away(Calls, from, h, n + 1)
    BY <1>1, <1>2, <1>5 DEF Parents
  <2>3. PICK n \in Nat : Away(Calls, from, p, n) /\ Away(Calls, from, h, n + 1)
    BY <2>2
  <2>4. d + 1 - l = n + 1
    <3>1. d + 1 - l \in Nat /\ n + 1 \in Nat
      BY <1>3
    <3> HIDE DEF d, l, h
    <3> QED
      BY <3>1, <2>3, <1>3, AwayUnique
  <2>5. /\ chain' \in Seq(visited) /\ Len(chain') = l + 1 /\ chain'[1] = p
        /\ \A k \in 1 .. l : chain'[k + 1] = chain[k]
    <3> HIDE DEF p
    <3> QED
      BY <1>3, <2>1, <2>2
  <2>6. ASSUME NEW k \in 1 .. Len(chain') - 1
        PROVE  <<chain'[k], chain'[k + 1]>> \in Calls
    <3>1. CASE k = 1
      <4>1. chain'[1] = p /\ chain'[1 + 1] = h
        BY <2>5, <1>3
      <4> QED
        BY <3>1, <4>1, <2>2
    <3>2. CASE k # 1
      <4>1. k - 1 \in 1 .. l - 1 /\ (k - 1) + 1 = k
        BY <3>2, <2>5, <1>3
      <4>2. chain'[k] = chain[k - 1] /\ chain'[k + 1] = chain[k]
        <5>1. k - 1 \in 1 .. l /\ k \in 1 .. l
          BY <4>1, <1>3
        <5> QED
          BY <5>1, <4>1, <2>5
      <4>3. <<chain[k - 1], chain[k]>> \in Calls
        BY <4>1, <1>2 DEF Path
      <4> QED
        BY <4>2, <4>3
    <3> QED
      BY <3>1, <3>2
  <2>7. ASSUME NEW k \in 1 .. Len(chain')
        PROVE  Away(Calls, from, chain'[k], d + k - Len(chain'))
    <3>1. CASE k = 1
      <4>1. d + k - Len(chain') = n
        BY <3>1, <2>4, <2>5, <1>3
      <4> QED
        BY <4>1, <3>1, <2>3, <2>5
    <3>2. CASE k # 1
      <4>1. k - 1 \in 1 .. l /\ (k - 1) + 1 = k /\ d + k - Len(chain') = d + (k - 1) - l
        BY <3>2, <2>5, <1>3
      <4>2. chain'[k] = chain[k - 1]
        BY <4>1, <2>5
      <4>3. Away(Calls, from, chain[k - 1], d + (k - 1) - l)
        BY <4>1, <1>2 DEF Path
      <4> QED
        BY <4>1, <4>2, <4>3
    <3> QED
      BY <3>1, <3>2
  <2>8. chain'[Len(chain')] \in asked.to
    <3>1. chain[l] \in asked.to
      BY <1>2 DEF Path
    <3> QED
      BY <3>1, <2>5, <1>3
  <2>9. Len(chain') <= d + 1
    BY <2>4, <2>5, <1>3
  <2>10. Path'
    <3>1. chain' # << >>
      BY <2>5, <1>3
    <3>2. d \in 0 .. asked.max_depth
      BY <1>3
    <3> QED
      BY <1>1, <1>2, <2>5, <2>6, <2>7, <2>8, <2>9, <3>1, <3>2 DEF Path
  <2>11. Asked' /\ Parents'
    BY <1>1, <1>2, <2>1 DEF Asked, Parents
  <2> QED
    BY <1>1, <2>1, <2>10, <2>11 DEF ChainInv, Idle, Tracing, Unwinding, Traced
<1> QED
  BY <1>4, <1>5

\* The stages of the other search
LEMMA ChainElsewhere ==
  ASSUME ChainInv, stage' \in {"collect", "impact", "reported"}
  PROVE  ChainInv'
BY DEF ChainInv, Idle, Asked, Parents, Tracing, Unwinding, Traced

\* So the invariant of trace_call_chain holds throughout.
LEMMA ChainInvariant == SearchSpec => []ChainInv
<1>1. SearchInit => ChainInv
  BY DEF SearchInit, SearchStarts, ChainInv, Idle, Asked, Parents, Tracing, Unwinding, Traced
<1>2. ChainInv /\ [SearchNext]_searchVars => ChainInv'
  <2> SUFFICES ASSUME ChainInv, [SearchNext]_searchVars
               PROVE  ChainInv'
    OBVIOUS
  <2>1. CASE \E from_id, to_id \in AskedIds, max_depth \in MaxDepths :
               trace_call_chain(from_id, to_id, max_depth)
    BY <2>1, TraceStarts
  <2>2. CASE VisitCaller
    BY <2>2, TraceVisits
  <2>3. CASE \E e \in left : FollowCall(e)
    BY <2>3, TraceFollows
  <2>4. CASE NoChain
    BY <2>4, TraceFails
  <2>5. CASE Unwind
    BY <2>5, TraceUnwinds
  <2>6. CASE \E file \in AskedFiles, limit \in Limits : impact_of_change(file, limit)
    BY <2>6, ChainElsewhere DEF impact_of_change
  <2>7. CASE \E i \in stack : Collect(i)
    BY <2>7, ChainElsewhere DEF Collect
  <2>8. CASE StartWalk
    BY <2>8, ChainElsewhere DEF StartWalk
  <2>9. CASE VisitUsed
    BY <2>9, ChainElsewhere DEF VisitUsed
  <2>10. CASE \E e \in left : FollowUse(e)
    BY <2>10, ChainElsewhere DEF FollowUse
  <2>11. CASE Report
    BY <2>11, ChainElsewhere DEF Report
  <2>12. CASE UNCHANGED searchVars
    <3>1. Calls' = Calls /\ Callees' = Callees
      BY <2>12 DEF searchVars, Calls, Callees
    <3>2. Path' = Path
      BY <3>1, <2>12 DEF searchVars, Path
    <3> QED
      BY <3>1, <3>2, <2>12 DEF searchVars, ChainInv, Idle, Asked, Parents, Tracing, Unwinding, Traced
  <2> QED
    BY <2>1, <2>2, <2>3, <2>4, <2>5, <2>6, <2>7, <2>8, <2>9, <2>10, <2>11, <2>12 DEF SearchNext
<1> QED
  BY <1>1, <1>2, PTL DEF SearchSpec

\* When the search has ended, it says what callers rely on.
LEMMA ChainEnds == ChainInv => CallChainsAreShortest
<1> SUFFICES ASSUME ChainInv, stage = "traced"
             PROVE  LET calls == Steps(graph, CallEdges)
                        Near(n) == asked.to \cap Reached(calls, asked.from)[n]
                    IN  /\ (chain # << >>) = (Near(asked.max_depth) # {})
                        /\ chain # << >> =>
                             /\ chain[1] \in asked.from /\ chain[Len(chain)] \in asked.to
                             /\ \A k \in 1 .. Len(chain) - 1 : <<chain[k], chain[k + 1]>> \in calls
                             /\ Len(chain) > 1 => Near(Len(chain) - 2) = {}
  BY DEF CallChainsAreShortest
<1> DEFINE r == Reached(Calls, asked.from)
           l == Len(chain)
<1>1. CASE chain = << >> /\ asked.to \cap r[asked.max_depth] = {}
  BY <1>1 DEF Calls
<1>2. CASE Path /\ l = current.depth + 1
  <2>1. /\ l \in Nat \ {0} /\ chain # << >> /\ current.depth \in Nat /\ current.depth <= asked.max_depth
        /\ asked.max_depth \in Nat /\ \A i, j \in asked.to : i = j
    BY <1>2 DEF Path, ChainInv, Asked
  <2>2. Away(Calls, asked.from, chain[1], 0)
    <3>1. 1 \in 1 .. l /\ current.depth + 1 - l = 0
      BY <2>1, <1>2
    <3> QED
      BY <3>1, <1>2 DEF Path
  <2>3. chain[1] \in asked.from
    BY <2>2, ReachedIs DEF Away
  <2>4. Away(Calls, asked.from, chain[l], current.depth) /\ chain[l] \in asked.to
    <3>1. l \in 1 .. l /\ current.depth + l - l = current.depth
      BY <2>1
    <3> QED
      BY <3>1, <1>2 DEF Path
  <2>5. chain[l] \in r[asked.max_depth]
    <3>1. r[current.depth] \subseteq r[asked.max_depth]
      BY <2>1, ReachedGrows
    <3> QED
      BY <3>1, <2>4 DEF Away
  <2>6. ASSUME l > 1
        PROVE  asked.to \cap r[l - 2] = {}
    <3>1. l - 2 \in 0 .. current.depth - 1
      BY <2>6, <2>1, <1>2
    <3>2. chain[l] \notin r[l - 2]
      BY <3>1, <2>4 DEF Away
    <3> QED
      BY <3>2, <2>1, <2>4
  <2>7. \A k \in 1 .. l - 1 : <<chain[k], chain[k + 1]>> \in Calls
    BY <1>2 DEF Path
  <2> QED
    BY <2>1, <2>3, <2>4, <2>5, <2>6, <2>7 DEF Calls
<1> QED
  BY <1>1, <1>2 DEF ChainInv, Traced

\* In any graph, trace_call_chain finds a shortest path of calls between the two
\* symbols exactly when there is one of at most max_depth calls.
THEOREM CallChains == SearchSpec => []CallChainsAreShortest
BY ChainInvariant, ChainEnds, PTL

-----------------------------------------------------------------------------
(* impact_of_change *)

Uses == Back(Steps(graph, ImpactEdges))

\* The users of the visited node that the inner loop has not seen.
Users == {e[1] : e \in left}

Near(n) == Reached(Uses, own)[n]

Closed(nodes) == \A i \in nodes : children(graph, i) \subseteq nodes

Fresh ==
  /\ graph \in ReadGraphs
  /\ stage \in {"idle", "collect"} =>
       queue = << >> /\ current = Entry(0, 0) /\ left = {} /\ results = << >>
  /\ stage = "idle" => own = {} /\ stack = {}

\* The nodes collected are the file and what it contains.
Collected ==
  stage \in {"collect", "impact", "reported"} =>
    /\ asked.limit \in Nat /\ IsFiniteSet(own)
    /\ \A i, j \in asked.file : i = j
    /\ asked.file \subseteq own /\ stack \subseteq own
    /\ \A i \in own \ stack : children(graph, i) \subseteq own
    /\ \A nodes : Closed(nodes) => own \subseteq nodes \/ asked.file \cap nodes = {}
    /\ stage # "collect" => stack = {}

\* What was listed before k.
Before(k) == {results[l] : l \in 1 .. k - 1}

Listed ==
  stage \in {"impact", "reported"} =>
    /\ results \in Seq(Near(MAX_IMPACT_DEPTH + 1) \ own)
    /\ Len(results) <= asked.limit
    /\ \A k \in 1 .. Len(results) : results[k] \notin Before(k)
    /\ \A k \in 1 .. Len(results), n \in 1 .. MAX_IMPACT_DEPTH + 1 :
         results[k] \in Near(n) \/ Near(n) \ own \subseteq Before(k)

Walking ==
  stage = "impact" =>
    /\ current.depth \in 0 .. MAX_IMPACT_DEPTH
    /\ Frontier(Uses, own, MAX_IMPACT_DEPTH, queue, current.depth, visited)
    /\ own \subseteq visited /\ visited \subseteq own \cup Elements(results)
    /\ ~Full(results) =>
         /\ Explored(Uses, own, MAX_IMPACT_DEPTH, queue, visited, Users)
         /\ \A i \in visited : Queued(queue, i) \/
              \A s \in Uses : s[1] = i => s[2] \in own \cup Elements(results) \cup Users
    /\ left # {} => ~Full(results) /\ Away(Uses, own, current.node, current.depth)
    /\ \A e \in left : e \in graph.edges /\ e[2] = current.node /\ e[3] \in ImpactEdges

Reported ==
  stage = "reported" =>
    Full(results) \/ Near(MAX_IMPACT_DEPTH + 1) \ own \subseteq Elements(results)

ImpactInv == Fresh /\ Collected /\ Listed /\ Walking /\ Reported

\* A node has finitely many children, as the graph has finitely many edges.
LEMMA FiniteChildren ==
  ASSUME NEW g \in ReadGraphs, NEW i
  PROVE  IsFiniteSet(children(g, i))
<1> DEFINE held == {x \in g.edges : x[1] = i /\ x[3] = "Contains"}
           second == [x \in held |-> x[2]]
<1>1. IsFiniteSet(held)
  BY SearchAssumption, FS_Subset
<1>2. second \in Surjection(held, children(g, i))
  BY DEF Surjection, children
<1> QED
  BY <1>1, <1>2, FS_Surjection

\* The search starts with the node of the file, or with nothing at all.
LEMMA ImpactStarts ==
  ASSUME ImpactInv, NEW file \in AskedFiles, NEW limit \in Limits, impact_of_change(file, limit)
  PROVE  ImpactInv'
<1>1. /\ stage = "idle" /\ UNCHANGED <<graph, queue, current, left, visited, results>>
      /\ limit \in Nat
  BY SearchAssumption DEF impact_of_change
<1>2. /\ graph \in ReadGraphs /\ own = {} /\ stack = {} /\ results = << >> /\ left = {}
      /\ queue = << >> /\ current = Entry(0, 0)
  BY <1>1 DEF ImpactInv, Fresh
<1>3. CASE /\ asked' = [kind |-> "impact", file |-> {}, limit |-> limit]
           /\ stage' = "reported" /\ UNCHANGED <<own, stack>>
  <2>1. /\ stage' = "reported" /\ asked'.file = {} /\ asked'.limit = limit /\ own' = {} /\ stack' = {}
        /\ results' = << >> /\ graph' \in ReadGraphs
    BY <1>1, <1>2, <1>3
  <2>2. Fresh' /\ Walking'
    BY <2>1 DEF Fresh, Walking
  <2>3. IsFiniteSet({})
    BY FS_EmptySet
  <2>4. Collected'
    BY <1>1, <2>1, <2>3 DEF Collected
  <2>5. Near(MAX_IMPACT_DEPTH + 1)' = {}
    BY <2>1, NothingReached DEF Near, MAX_IMPACT_DEPTH
  <2>6. Listed' /\ Reported'
    BY <1>1, <2>1, <2>5 DEF Listed, Reported
  <2> QED
    BY <2>2, <2>4, <2>6 DEF ImpactInv
<1>4. ASSUME NEW i \in find_file_node(graph, file),
             asked' = [kind |-> "impact", file |-> {i}, limit |-> limit],
             stage' = "collect", own' = {i}, stack' = {i}
      PROVE  ImpactInv'
  <2>1. asked'.file = {i} /\ asked'.limit = limit
    BY <1>4
  <2>2. Fresh'
    BY <1>1, <1>2, <1>4 DEF Fresh
  <2>3. IsFiniteSet({i})
    BY FS_Singleton
  <2>4. Collected'
    BY <1>1, <1>4, <2>1, <2>3 DEF Collected
  <2> QED
    BY <1>4, <2>2, <2>4 DEF ImpactInv, Listed, Walking, Reported
<1> QED
  BY <1>3, <1>4 DEF impact_of_change

\* The children of a collected node are collected: what is collected grows within
\* every set that holds the file and is closed under children.
LEMMA ImpactCollects ==
  ASSUME ImpactInv, NEW i \in stack, Collect(i)
  PROVE  ImpactInv'
<1>1. /\ stage = "collect" /\ own' = own \cup children(graph, i)
      /\ stack' = (stack \ {i}) \cup (children(graph, i) \ own)
      /\ UNCHANGED <<graph, stage, asked, queue, current, left, results>>
  BY DEF Collect
<1>2. Fresh /\ Collected /\ Fresh'
  BY <1>1 DEF ImpactInv, Fresh
<1>3. IsFiniteSet(own')
  BY <1>1, <1>2, FiniteChildren, FS_Union DEF Collected, Fresh
<1>4. \A j \in own' \ stack' : children(graph, j) \subseteq own'
  <2> TAKE j \in own' \ stack'
  <2>1. j = i \/ j \in own \ stack
    BY <1>1
  <2> QED
    BY <2>1, <1>1, <1>2 DEF Collected
<1>5. \A nodes : Closed(nodes) => own' \subseteq nodes \/ asked.file \cap nodes = {}
  <2> SUFFICES ASSUME NEW nodes, Closed(nodes), asked.file \cap nodes # {}
               PROVE  own' \subseteq nodes
    OBVIOUS
  <2>1. own \subseteq nodes /\ i \in own
    BY <1>1, <1>2 DEF Collected
  <2> QED
    BY <2>1, <1>1 DEF Closed
<1>6. Closed(own)' = Closed(own)' /\ \A nodes : Closed(nodes)' = Closed(nodes)
  BY <1>1 DEF Closed
<1>7. Collected'
  BY <1>1, <1>2, <1>3, <1>4, <1>5, <1>6 DEF Collected, Closed
<1> QED
  BY <1>1, <1>2, <1>7 DEF ImpactInv, Listed, Walking, Reported

\* All nodes of the file wait, at distance 0.
LEMMA ImpactWalks ==
  ASSUME ImpactInv, StartWalk
  PROVE  ImpactInv'
<1>1. /\ stage = "collect" /\ stack = {} /\ stage' = "impact" /\ visited' = own
      /\ UNCHANGED <<graph, asked, current, left, own, stack, results>>
  BY DEF StartWalk
<1>2. PICK order \in Sorted(own) : queue' = [k \in DOMAIN order |-> Entry(order[k], 0)]
  BY DEF StartWalk
<1>3. /\ Fresh /\ Collected /\ IsFiniteSet(own) /\ asked.limit \in Nat
      /\ results = << >> /\ left = {} /\ current.depth = 0
  BY <1>1 DEF ImpactInv, Fresh, Collected, Entry
<1>4. /\ Cardinality(own) \in Nat /\ order \in [1 .. Cardinality(own) -> own] /\ Elements(order) = own
  BY <1>2, <1>3, FS_CardinalityType DEF Sorted
<1>5. Len(order) = Cardinality(own) /\ Len(queue') = Len(order) /\ DOMAIN queue' = 1 .. Len(order)
  BY <1>2, <1>4
<1>6. \A k \in 1 .. Len(order) : queue'[k].node = order[k] /\ queue'[k].depth = 0 /\ order[k] \in own
  BY <1>2, <1>4, <1>5 DEF Entry
<1>7. Uses' = Uses /\ Users' = {}
  BY <1>1, <1>3 DEF Uses, Users
<1>8. Reached(Uses, own)[0] = own
  BY ReachedIs
<1>9. queue' \in Seq(Entries(Uses, own, MAX_IMPACT_DEPTH))
  <2>1. \A k \in 1 .. Len(order) : queue'[k] \in Entries(Uses, own, MAX_IMPACT_DEPTH)
    BY <1>2, <1>4, <1>5 DEF Entry, Entries, MAX_IMPACT_DEPTH
  <2>2. queue' = [k \in 1 .. Len(order) |-> queue'[k]] /\ Len(order) \in Nat
    BY <1>2, <1>4, <1>5
  <2> QED
    BY <2>1, <2>2
<1>10. Frontier(Uses, own, MAX_IMPACT_DEPTH, queue', 0, own)
  <2>1. ASSUME NEW k \in 1 .. Len(queue')
        PROVE  /\ queue'[k].node \in own /\ queue'[k].depth \in {0, 0 + 1}
               /\ Away(Uses, own, queue'[k].node, queue'[k].depth)
    BY <1>5, <1>6, <1>8 DEF Away
  <2>2. \A k, l \in 1 .. Len(queue') : k < l => queue'[k].depth <= queue'[l].depth
    BY <1>5, <1>6
  <2> QED
    BY <1>8, <1>9, <2>1, <2>2 DEF Frontier
<1>11. \A i \in own : Queued(queue', i)
  <2> TAKE i \in own
  <2>1. PICK k \in 1 .. Len(order) : order[k] = i
    BY <1>4 DEF Elements
  <2> QED
    BY <2>1, <1>5, <1>6 DEF Queued
<1>12. Explored(Uses, own, MAX_IMPACT_DEPTH, queue', own, {})
  BY <1>11 DEF Explored
<1>13. Walking'
  <2>1. current'.depth \in 0 .. MAX_IMPACT_DEPTH
    BY <1>1, <1>3 DEF MAX_IMPACT_DEPTH
  <2> QED
    BY <2>1, <1>1, <1>3, <1>7, <1>10, <1>11, <1>12 DEF Walking
<1>14. Listed'
  <2>1. results' = << >> /\ Len(results') = 0 /\ asked'.limit \in Nat
    BY <1>1, <1>3
  <2> QED
    BY <2>1 DEF Listed
<1>15. Fresh'
  BY <1>1, <1>3 DEF Fresh
<1>16. Collected'
  BY <1>1, <1>3 DEF Collected, Closed
<1> QED
  BY <1>1, <1>13, <1>14, <1>15, <1>16 DEF ImpactInv, Reported

\* What a step of the walk leaves alone
LEMMA WalkKeeps ==
  ASSUME ImpactInv, stage \in {"impact"}, stage' \in {"impact", "reported"},
         UNCHANGED <<graph, asked, own, stack>>
  PROVE  /\ Fresh' /\ Collected' /\ Uses' = Uses
         /\ \A n : Reached(Uses, own)'[n] = Near(n)
BY DEF ImpactInv, Fresh, Collected, Closed, Uses, Near

\* The uses of the nearest node that waits become pending.
LEMMA ImpactVisits ==
  ASSUME ImpactInv, VisitUsed
  PROVE  ImpactInv'
<1> DEFINE i == queue[1].node
           d == queue[1].depth
           bound == MAX_IMPACT_DEPTH
<1>1. /\ stage = "impact" /\ stage' = "impact" /\ left = {} /\ queue # << >> /\ ~Full(results)
      /\ current' = Head(queue) /\ queue' = Tail(queue)
      /\ left' = {e \in InEdges(graph, current'.node) : e[3] \in ImpactEdges}
      /\ UNCHANGED <<graph, asked, visited, own, stack, results>>
  BY DEF VisitUsed
<1>2. /\ Fresh' /\ Collected' /\ Uses' = Uses
  BY <1>1, WalkKeeps
<1>3. /\ bound \in Nat /\ current.depth \in Nat /\ Users = {} /\ Walking /\ Listed
      /\ Frontier(Uses, own, bound, queue, current.depth, visited)
      /\ Explored(Uses, own, bound, queue, visited, {})
      /\ own \subseteq visited /\ visited \subseteq own \cup Elements(results)
      /\ \A x \in visited : Queued(queue, x) \/ \A s \in Uses : s[1] = x => s[2] \in own \cup Elements(results)
  <2>1. Users = {} /\ bound \in Nat
    BY <1>1 DEF Users, MAX_IMPACT_DEPTH
  <2> QED
    BY <2>1, <1>1 DEF ImpactInv, Walking
<1>4. /\ current' = queue[1] /\ d \in 0 .. bound /\ i \in visited /\ Away(Uses, own, i, d)
      /\ Frontier(Uses, own, bound, queue', d, visited)
      /\ \A x : Queued(queue, x) => x = i \/ Queued(queue', x)
  <2> HIDE DEF bound
  <2> QED
    BY <1>1, <1>3, FrontierTake
<1>5. /\ left' = {e \in graph.edges : e[2] = i /\ e[3] \in ImpactEdges}
  BY <1>1, <1>4 DEF InEdges
<1>6. \A s \in Uses : s[1] = i => s[2] \in Users'
  BY <1>5 DEF Users, Uses, Back, Steps
<1>7. Explored(Uses, own, bound, queue', visited, Users')
  BY <1>3, <1>4, <1>6 DEF Explored
<1>8. \A x \in visited : Queued(queue', x) \/ \A s \in Uses : s[1] = x => s[2] \in own \cup Elements(results) \cup Users'
  BY <1>3, <1>4, <1>6
<1>9. Full(results)' = Full(results)
  BY <1>1 DEF Full
<1>10. Walking'
  BY <1>1, <1>2, <1>3, <1>4, <1>5, <1>7, <1>8, <1>9 DEF Walking
<1>11. Listed'
  BY <1>1, <1>2, <1>3 DEF Listed, Near, Before
<1> QED
  BY <1>1, <1>2, <1>10, <1>11 DEF ImpactInv, Reported

\* A result more
LEMMA ListedMore ==
  ASSUME ImpactInv, stage = "impact", NEW j, j \notin own, j \notin Elements(results), ~Full(results),
         j \in Near(current.depth + 1)
  PROVE  LET more == Append(results, j)
         IN  /\ more \in Seq(Near(MAX_IMPACT_DEPTH + 1) \ own) /\ Len(more) <= asked.limit
             /\ \A k \in 1 .. Len(more) : more[k] \notin {more[l] : l \in 1 .. k - 1}
             /\ \A k \in 1 .. Len(more), n \in 1 .. MAX_IMPACT_DEPTH + 1 :
                  more[k] \in Near(n) \/ Near(n) \ own \subseteq {more[l] : l \in 1 .. k - 1}
             /\ Elements(more) = Elements(results) \cup {j}
<1> DEFINE more == Append(results, j)
           S == Near(MAX_IMPACT_DEPTH + 1) \ own
           c == current.depth
           m == Len(results)
<1>1. /\ c \in 0 .. MAX_IMPACT_DEPTH /\ MAX_IMPACT_DEPTH = 3 /\ results \in Seq(S) /\ asked.limit \in Nat
      /\ Near(c) \subseteq own \cup Elements(results)
      /\ \A k \in 1 .. m : results[k] \notin Before(k)
      /\ \A k \in 1 .. m, n \in 1 .. MAX_IMPACT_DEPTH + 1 :
           results[k] \in Near(n) \/ Near(n) \ own \subseteq Before(k)
  BY DEF ImpactInv, Walking, Listed, Collected, Frontier, Near, MAX_IMPACT_DEPTH
<1>2. \A n \in Nat : n <= c => Near(n) \subseteq Near(c)
  BY <1>1, ReachedGrows DEF Near
<1>3. \A n \in Nat : c + 1 <= n => Near(c + 1) \subseteq Near(n)
  BY <1>1, ReachedGrows DEF Near
<1>4. j \in S
  BY <1>1, <1>3
<1>5. /\ m \in Nat /\ more \in Seq(S) /\ Len(more) = m + 1 /\ more[m + 1] = j
      /\ \A k \in 1 .. m : more[k] = results[k]
  <2> HIDE DEF S
  <2> QED
    BY <1>1, <1>4
<1>6. \A k \in 1 .. m + 1 : {more[l] : l \in 1 .. k - 1} = Before(k)
  BY <1>5 DEF Before
<1>7. Before(m + 1) = Elements(results)
  BY <1>5 DEF Before, Elements
<1>8. Len(more) <= asked.limit
  BY <1>1, <1>5 DEF Full
<1>9. \A k \in 1 .. Len(more) : more[k] \notin {more[l] : l \in 1 .. k - 1}
  <2> HIDE DEF more, m
  <2> QED
    BY <1>1, <1>5, <1>6, <1>7
<1>10. ASSUME NEW k \in 1 .. Len(more), NEW n \in 1 .. MAX_IMPACT_DEPTH + 1
       PROVE  more[k] \in Near(n) \/ Near(n) \ own \subseteq {more[l] : l \in 1 .. k - 1}
  <2>1. CASE k \in 1 .. m
    <3> HIDE DEF more, m
    <3> QED
      BY <2>1, <1>1, <1>5, <1>6
  <2>2. CASE k = m + 1
    <3>1. CASE n <= c
      <4>1. Near(n) \subseteq own \cup Elements(results)
        BY <3>1, <1>1, <1>2
      <4> QED
        BY <4>1, <2>2, <1>5, <1>6, <1>7
    <3>2. CASE c + 1 <= n
      <4>1. j \in Near(n)
        BY <3>2, <1>1, <1>3
      <4> QED
        BY <4>1, <2>2, <1>5
    <3> QED
      BY <3>1, <3>2, <1>1
  <2> QED
    BY <2>1, <2>2, <1>5
<1>11. Elements(more) = Elements(results) \cup {j}
  <2>1. 1 .. m + 1 = (1 .. m) \cup {m + 1}
    BY <1>5
  <2> HIDE DEF more, m
  <2>2. Elements(more) = {more[k] : k \in 1 .. m} \cup {more[m + 1]}
    BY <2>1, <1>5 DEF Elements
  <2>3. Elements(results) = {results[k] : k \in 1 .. m}
    BY DEF Elements, m
  <2> QED
    BY <2>2, <2>3, <1>5
<1> QED
  BY <1>5, <1>8, <1>9, <1>10, <1>11

\* An edge is a step back from what is used to its user.
LEMMA UseIsAStep ==
  ASSUME NEW e \in graph.edges, e[3] \in ImpactEdges
  PROVE  <<e[2], e[1]>> \in Uses
<1>1. <<e[1], e[2]>> \in Steps(graph, ImpactEdges)
  BY DEF Steps
<1>2. <<e[1], e[2]>>[1] = e[1] /\ <<e[1], e[2]>>[2] = e[2]
  OBVIOUS
<1> QED
  BY <1>1, <1>2 DEF Uses, Back

\* A user is in the file, is listed already, or is listed as the next nearest; the
\* limit ends the search.
LEMMA ImpactFollows ==
  ASSUME ImpactInv, NEW e \in left, FollowUse(e)
  PROVE  ImpactInv'
<1> DEFINE i == current.node
           c == current.depth
           j == e[1]
           bound == MAX_IMPACT_DEPTH
<1>1. /\ stage = "impact" /\ stage' = "impact"
      /\ UNCHANGED <<graph, asked, current, own, stack>>
  BY DEF FollowUse
<1>2. /\ Fresh' /\ Collected' /\ Uses' = Uses
  BY <1>1, WalkKeeps
<1>3. /\ bound \in Nat /\ bound = 3 /\ c \in 0 .. bound /\ Walking /\ Listed
      /\ Frontier(Uses, own, bound, queue, c, visited)
      /\ Explored(Uses, own, bound, queue, visited, Users)
      /\ own \subseteq visited /\ visited \subseteq own \cup Elements(results)
      /\ \A x \in visited : Queued(queue, x) \/
           \A s \in Uses : s[1] = x => s[2] \in own \cup Elements(results) \cup Users
      /\ ~Full(results) /\ Away(Uses, own, i, c)
      /\ e \in graph.edges /\ e[2] = i /\ e[3] \in ImpactEdges
      /\ \A x \in left : x \in graph.edges /\ x[2] = i /\ x[3] \in ImpactEdges
  BY <1>1 DEF ImpactInv, Walking, MAX_IMPACT_DEPTH
<1>4. <<i, j>> \in Uses
  BY <1>3, UseIsAStep
<1>5. j \in Near(c + 1)
  <2>1. Near(c + 1) = Farther(Uses, Near(c))
    BY <1>3, ReachedIs DEF Near
  <2>2. i \in Near(c)
    BY <1>3 DEF Away, Near
  <2> QED
    BY <2>1, <2>2, <1>4 DEF Farther
<1>6. CASE j \in own
  <2>1. left' = left \ {e} /\ UNCHANGED <<results, visited, queue>>
    BY <1>6 DEF FollowUse
  <2>2. Users \subseteq Users' \cup {j}
    BY <2>1 DEF Users
  <2>3. Explored(Uses, own, bound, queue, visited, Users')
    BY <1>3, <1>6, <2>2 DEF Explored
  <2>4. Full(results)' = Full(results)
    BY <1>1, <2>1 DEF Full
  <2>5. \A x \in visited : Queued(queue, x) \/
           \A s \in Uses : s[1] = x => s[2] \in own \cup Elements(results) \cup Users'
    BY <1>3, <1>6, <2>2
  <2>6. Walking'
    <3>1. /\ left' # {} => ~Full(results) /\ Away(Uses, own, i, c)
          /\ \A x \in left' : x \in graph.edges /\ x[2] = i /\ x[3] \in ImpactEdges
      BY <1>3, <2>1
    <3>2. UNCHANGED <<results, visited, queue, own, graph, current>>
      BY <1>1, <2>1
    <3>3. /\ current'.depth \in 0 .. bound /\ Frontier(Uses, own, bound, queue, current'.depth, visited)
          /\ own \subseteq visited /\ visited \subseteq own \cup Elements(results)
      BY <1>3, <3>2
    <3> QED
      BY <1>2, <2>3, <2>4, <2>5, <3>1, <3>2, <3>3 DEF Walking
  <2>7. Listed'
    <3>1. UNCHANGED <<asked, own, results>> /\ Listed /\ stage = "impact" /\ Uses' = Uses
      BY <1>1, <1>2, <1>3, <2>1
    <3> QED
      BY <3>1 DEF Listed, Near, Before
  <2> QED
    BY <1>1, <1>2, <2>6, <2>7 DEF ImpactInv, Reported
<1>7. CASE j \notin own
  <2>1. /\ results' = IF j \in Elements(results) THEN results ELSE Append(results, j)
        /\ IF c < bound /\ j \notin visited
           THEN visited' = visited \cup {j} /\ queue' = Enqueue(queue, j, c + 1)
           ELSE UNCHANGED <<visited, queue>>
        /\ left' = IF Full(results') THEN {} ELSE left \ {e}
    BY <1>7 DEF FollowUse
  <2>2. /\ results' \in Seq(Near(bound + 1) \ own) /\ Len(results') <= asked.limit
        /\ \A k \in 1 .. Len(results') : results'[k] \notin {results'[l] : l \in 1 .. k - 1}
        /\ \A k \in 1 .. Len(results'), n \in 1 .. bound + 1 :
             results'[k] \in Near(n) \/ Near(n) \ own \subseteq {results'[l] : l \in 1 .. k - 1}
        /\ Elements(results') = Elements(results) \cup {j}
    <3>1. CASE j \in Elements(results)
      BY <3>1, <2>1, <1>1, <1>3 DEF Listed, Before
    <3>2. CASE j \notin Elements(results)
      BY <3>2, <2>1, <1>1, <1>3, <1>5, <1>7, ListedMore
    <3> QED
      BY <3>1, <3>2
  <2>3. Listed'
    BY <1>1, <1>2, <2>2 DEF Listed, Near, Before
  <2>4. /\ Frontier(Uses, own, bound, queue', c, visited')
        /\ visited \subseteq visited' /\ visited' \subseteq visited \cup {j}
        /\ \A x : Queued(queue, x) => Queued(queue', x)
        /\ j \in visited' \ visited => Queued(queue', j)
        /\ c < bound => j \in visited'
    <3>1. CASE c < bound /\ j \notin visited
      <4>1. visited' = visited \cup {j} /\ queue' = Enqueue(queue, j, c + 1)
        BY <3>1, <2>1
      <4>2. /\ bound \in Nat /\ c \in Nat /\ c < bound
            /\ Frontier(Uses, own, bound, queue, c, visited) /\ Away(Uses, own, i, c)
        BY <1>3, <3>1
      <4> HIDE DEF bound, c, i, j
      <4> QED
        BY <4>1, <4>2, <3>1, <1>4, FrontierAdd
    <3>2. CASE ~(c < bound /\ j \notin visited)
      BY <3>2, <2>1, <1>3
    <3> QED
      BY <3>1, <3>2
  <2>5. CASE Full(results')
    <3>1. left' = {} /\ Full(results)'
      BY <2>5, <2>1, <1>1 DEF Full
    <3>2. own \subseteq visited' /\ visited' \subseteq own \cup Elements(results')
      BY <1>3, <2>2, <2>4
    <3>3. Walking'
      BY <1>1, <1>2, <1>3, <2>4, <3>1, <3>2 DEF Walking
    <3> QED
      BY <1>1, <1>2, <2>3, <3>3 DEF ImpactInv, Reported
  <2>6. CASE ~Full(results')
    <3>1. left' = left \ {e} /\ ~Full(results)'
      BY <2>6, <2>1, <1>1 DEF Full
    <3>2. own \subseteq visited' /\ visited' \subseteq own \cup Elements(results')
      BY <1>3, <2>2, <2>4
    <3>3. Users \subseteq Users' \cup {j}
      BY <3>1 DEF Users
    <3>4. \A x \in visited' : Queued(queue', x) \/
             \A s \in Uses : s[1] = x => s[2] \in own \cup Elements(results') \cup Users'
      <4> TAKE x \in visited'
      <4>1. CASE x \in visited
        BY <4>1, <1>3, <2>2, <2>4, <3>3
      <4>2. CASE x \notin visited
        BY <4>2, <2>4
      <4> QED
        BY <4>1, <4>2
    <3>5. Explored(Uses, own, bound, queue', visited', Users')
      <4>1. ASSUME NEW x \in visited', ~Queued(queue', x), NEW s \in Uses, NEW n \in 0 .. bound - 1,
                   s[1] = x, x \in Reached(Uses, own)[n]
            PROVE  s[2] \in visited' \cup Users'
        <5>1. x \in visited /\ ~Queued(queue, x)
          BY <4>1, <2>4
        <5>2. s[2] \in visited \cup Users
          BY <5>1, <4>1, <1>3 DEF Explored
        <5>3. CASE c < bound
          BY <5>2, <5>3, <2>4, <3>3
        <5>4. CASE c = bound
          <6>1. Near(n + 1) = Farther(Uses, Near(n)) /\ n + 1 \in Nat /\ n + 1 <= bound
            BY <4>1, <1>3, ReachedIs DEF Near
          <6>2. s[2] \in Near(n + 1)
            BY <6>1, <4>1 DEF Farther, Near
          <6>3. Near(n + 1) \subseteq Near(bound)
            BY <6>1, <1>3, ReachedGrows DEF Near
          <6>4. Near(bound) \subseteq visited
            BY <5>4, <1>3 DEF Frontier, Near
          <6> QED
            BY <6>2, <6>3, <6>4, <2>4
        <5> QED
          BY <5>3, <5>4, <1>3
      <4> QED
        BY <4>1 DEF Explored
    <3>6. \A x \in left' : x \in graph.edges /\ x[2] = i /\ x[3] \in ImpactEdges
      BY <1>3, <3>1
    <3>7. Walking'
      BY <1>1, <1>2, <1>3, <2>4, <3>1, <3>2, <3>4, <3>5, <3>6 DEF Walking
    <3> QED
      BY <1>1, <1>2, <2>3, <3>7 DEF ImpactInv, Reported
  <2> QED
    BY <2>5, <2>6
<1> QED
  BY <1>6, <1>7

\* An empty queue means that all within the depth was visited, so that all one use
\* farther is listed.
LEMMA ImpactReports ==
  ASSUME ImpactInv, Report
  PROVE  ImpactInv'
<1> DEFINE bound == MAX_IMPACT_DEPTH
<1>1. /\ stage = "impact" /\ stage' = "reported" /\ left = {} /\ (queue = << >> \/ Full(results))
      /\ UNCHANGED <<graph, asked, own, stack, results>>
  BY DEF Report
<1>2. /\ Fresh' /\ Collected' /\ Uses' = Uses
  BY <1>1, WalkKeeps
<1>3. Listed'
  BY <1>1, <1>2 DEF ImpactInv, Listed, Near, Before
<1>4. Full(results)' = Full(results)
  BY <1>1 DEF Full
<1>5. ASSUME ~Full(results)
      PROVE  Near(bound + 1) \ own \subseteq Elements(results)
  <2>1. /\ queue = << >> /\ own \subseteq visited /\ visited \subseteq own \cup Elements(results)
        /\ Explored(Uses, own, bound, queue, visited, {}) /\ bound \in Nat
        /\ \A x \in visited : Queued(queue, x) \/
             \A s \in Uses : s[1] = x => s[2] \in own \cup Elements(results)
    <3>1. Users = {} /\ bound \in Nat
      BY <1>1 DEF Users, MAX_IMPACT_DEPTH
    <3> QED
      BY <3>1, <1>1, <1>5 DEF ImpactInv, Walking
  <2>2. Near(bound) \subseteq visited
    BY <2>1, ExploredAll DEF Near
  <2>3. Near(bound + 1) = Farther(Uses, Near(bound))
    BY <2>1, ReachedIs DEF Near
  <2>4. \A s \in Uses : s[1] \in Near(bound) => s[2] \in own \cup Elements(results)
    BY <2>1, <2>2 DEF Queued
  <2> QED
    BY <2>1, <2>2, <2>3, <2>4 DEF Farther
<1>6. Reported'
  BY <1>1, <1>2, <1>4, <1>5 DEF Reported, Near
<1> QED
  BY <1>1, <1>2, <1>3, <1>6 DEF ImpactInv, Walking

\* The stages of the other search
LEMMA ImpactElsewhere ==
  ASSUME ImpactInv, UNCHANGED graph, stage' \in {"trace", "unwind", "traced"}
  PROVE  ImpactInv'
BY DEF ImpactInv, Fresh, Collected, Listed, Walking, Reported

\* So the invariant of impact_of_change holds throughout.
LEMMA ImpactInvariant == SearchSpec => []ImpactInv
<1>1. SearchInit => ImpactInv
  BY DEF SearchInit, SearchStarts, ImpactInv, Fresh, Collected, Listed, Walking, Reported
<1>2. ImpactInv /\ [SearchNext]_searchVars => ImpactInv'
  <2> SUFFICES ASSUME ImpactInv, [SearchNext]_searchVars
               PROVE  ImpactInv'
    OBVIOUS
  <2>1. CASE \E from_id, to_id \in AskedIds, max_depth \in MaxDepths :
               trace_call_chain(from_id, to_id, max_depth)
    <3>1. stage' \in {"trace", "traced"} /\ UNCHANGED graph
      BY <2>1 DEF trace_call_chain
    <3> QED
      BY <3>1, ImpactElsewhere
  <2>2. CASE VisitCaller
    BY <2>2, ImpactElsewhere DEF VisitCaller
  <2>3. CASE \E e \in left : FollowCall(e)
    BY <2>3, ImpactElsewhere DEF FollowCall
  <2>4. CASE NoChain
    BY <2>4, ImpactElsewhere DEF NoChain
  <2>5. CASE Unwind
    BY <2>5, ImpactElsewhere DEF Unwind
  <2>6. CASE \E file \in AskedFiles, limit \in Limits : impact_of_change(file, limit)
    BY <2>6, ImpactStarts
  <2>7. CASE \E i \in stack : Collect(i)
    BY <2>7, ImpactCollects
  <2>8. CASE StartWalk
    BY <2>8, ImpactWalks
  <2>9. CASE VisitUsed
    BY <2>9, ImpactVisits
  <2>10. CASE \E e \in left : FollowUse(e)
    BY <2>10, ImpactFollows
  <2>11. CASE Report
    BY <2>11, ImpactReports
  <2>12. CASE UNCHANGED searchVars
    <3>1. Uses' = Uses /\ Users' = Users /\ Full(results)' = Full(results)
      BY <2>12 DEF searchVars, Uses, Users, Full
    <3>2. Fresh'
      BY <2>12 DEF searchVars, ImpactInv, Fresh
    <3>3. Collected'
      BY <2>12 DEF searchVars, ImpactInv, Collected, Closed
    <3>4. Listed'
      BY <2>12, <3>1 DEF searchVars, ImpactInv, Listed, Near, Before
    <3>5. Walking'
      BY <2>12, <3>1 DEF searchVars, ImpactInv, Walking
    <3>6. Reported'
      BY <2>12, <3>1 DEF searchVars, ImpactInv, Reported, Near
    <3> QED
      BY <3>2, <3>3, <3>4, <3>5, <3>6 DEF ImpactInv
  <2> QED
    BY <2>1, <2>2, <2>3, <2>4, <2>5, <2>6, <2>7, <2>8, <2>9, <2>10, <2>11, <2>12 DEF SearchNext
<1> QED
  BY <1>1, <1>2, PTL DEF SearchSpec

\* When the search has ended, it says what callers rely on.
LEMMA ImpactEnds == ImpactInv => ImpactIsNearestFirst
<1> SUFFICES ASSUME ImpactInv, stage = "reported"
             PROVE  ImpactIsNearestFirst
  BY DEF ImpactIsNearestFirst
<1> DEFINE Around(n) == Reached(Back(Steps(graph, ImpactEdges)), own)[n] \ own
           all == Around(MAX_IMPACT_DEPTH + 1)
<1>1. Collected /\ Listed /\ Reported
  BY DEF ImpactInv
<1>2. /\ asked.limit \in Nat /\ asked.file \subseteq own
      /\ \A i \in own : children(graph, i) \subseteq own
  BY <1>1 DEF Collected
<1>3. ASSUME NEW others \in SUBSET own,
             \A i \in others : children(graph, i) \subseteq others
      PROVE  others = own \/ asked.file \cap others = {}
  BY <1>1, <1>3 DEF Collected, Closed
<1>4. \A n : Around(n) = Near(n) \ own
  BY DEF Near, Uses
<1>5. /\ results \in Seq(all) /\ Len(results) <= asked.limit /\ Len(results) \in Nat
      /\ DOMAIN results = 1 .. Len(results)
  <2>1. results \in Seq(all) /\ Len(results) <= asked.limit
    BY <1>1, <1>4 DEF Listed
  <2> HIDE DEF all
  <2> QED
    BY <2>1
<1>6. Elements(results) \subseteq all
  <2> HIDE DEF all
  <2> QED
    BY <1>5 DEF Elements
<1>7. ASSUME NEW k \in DOMAIN results, NEW l \in DOMAIN results, results[k] = results[l]
      PROVE  k = l
  <2>1. \A a, b \in 1 .. Len(results) : a < b => results[a] # results[b]
    BY <1>1, <1>5 DEF Listed, Before
  <2> QED
    BY <2>1, <1>5, <1>7
<1>8. \A k \in DOMAIN results, n \in 1 .. MAX_IMPACT_DEPTH + 1 :
        results[k] \in Around(n) \/ Around(n) \subseteq {results[l] : l \in 1 .. k - 1}
  <2> TAKE k \in DOMAIN results, n \in 1 .. MAX_IMPACT_DEPTH + 1
  <2>1. results[k] \notin own
    BY <1>5, <1>6 DEF Elements
  <2>2. results[k] \in Near(n) \/ Near(n) \ own \subseteq {results[l] : l \in 1 .. k - 1}
    BY <1>1, <1>5 DEF Listed, Before
  <2> QED
    BY <2>1, <2>2, <1>4
<1>9. Full(results) \/ Elements(results) = all
  BY <1>1, <1>4, <1>6 DEF Reported
<1>10. ASSUME NEW i \in own, NEW use \in usages_of(graph, i)
       PROVE  use.node \in own \/ use.node \in Elements(results) \/ Full(results)
  <2>1. PICK e \in graph.edges : e[2] = i /\ e[3] \in DOMAIN UsageRelation /\ use.node = e[1]
    BY DEF usages_of, InEdges
  <2>2. e[3] \in ImpactEdges
    BY <2>1 DEF UsageRelation, ImpactEdges
  <2>3. <<i, e[1]>> \in Uses
    BY <2>1, <2>2, UseIsAStep
  <2>4. Near(0) = own /\ Near(0 + 1) = Farther(Uses, Near(0)) /\ Near(1) \subseteq Near(MAX_IMPACT_DEPTH + 1)
    BY ReachedIs, ReachedGrows DEF Near, MAX_IMPACT_DEPTH
  <2>5. e[1] \in Near(MAX_IMPACT_DEPTH + 1)
    BY <2>3, <2>4 DEF Farther
  <2> QED
    BY <2>1, <2>5, <1>4, <1>9
<1> QED
  BY <1>2, <1>3, <1>5, <1>6, <1>7, <1>8, <1>9, <1>10 DEF ImpactIsNearestFirst

\* In any graph, impact_of_change lists what depends on the file within four uses,
\* each once and nearest first, all of it unless the limit cuts the list.
THEOREM Impacts == SearchSpec => []ImpactIsNearestFirst
BY ImpactInvariant, ImpactEnds, PTL

-----------------------------------------------------------------------------
(* The graphs that loops build one step at a time *)

\* add_nodes adds m nodes.
Adds(f, g, nodes, m) ==
  f[0] = g /\ \A k \in 1 .. m : f[k] = add_node(f[k - 1], nodes[k])

\* add_nodes goes through the graphs Adds describes.
LEMMA AddsIs ==
  ASSUME NEW g, NEW nodes, Len(nodes) \in Nat
  PROVE  \E f : Adds(f, g, nodes, Len(nodes)) /\ add_nodes(g, nodes) = f[Len(nodes)]
<1> DEFINE Def(f, n) == [k \in 0 .. n |-> IF k = 0 THEN g ELSE add_node(f[k - 1], nodes[k])]
           T == {n \in Nat : \E f : f = Def(f, n)}
           m == Len(nodes)
           r == CHOOSE f : f = Def(f, m)
<1>1. 0 \in T
  <2>1. [k \in {0} |-> g] = Def([k \in {0} |-> g], 0)
    OBVIOUS
  <2> QED
    BY <2>1
<1>2. ASSUME NEW n \in T
      PROVE  n + 1 \in T
  <2>1. PICK f : f = Def(f, n)
    OBVIOUS
  <2> DEFINE new == add_node(f[n], nodes[n + 1])
             h == [k \in 0 .. n + 1 |-> IF k = n + 1 THEN new ELSE f[k]]
  <2>2. ASSUME NEW k \in 0 .. n + 1
        PROVE  h[k] = Def(h, n + 1)[k]
    <3>1. CASE k = n + 1
      <4>1. h[k] = new /\ k - 1 = n /\ k # 0 /\ h[n] = f[n]
        BY <3>1
      <4> HIDE DEF h
      <4> QED
        BY <3>1, <4>1
    <3>2. CASE k # n + 1
      <4>1. k \in 0 .. n /\ h[k] = f[k] /\ (k # 0 => k - 1 \in 0 .. n + 1 /\ h[k - 1] = f[k - 1])
        BY <3>2
      <4>2. f[k] = Def(f, n)[k]
        BY <2>1
      <4> HIDE DEF h
      <4> QED
        BY <4>1, <4>2
    <3> QED
      BY <3>1, <3>2
  <2>3. h = Def(h, n + 1)
    BY <2>2
  <2>4. \E e : e = Def(e, n + 1)
    <3> HIDE DEF h, Def
    <3> QED
      BY <2>3
  <2> HIDE DEF Def
  <2> QED
    BY <2>4
<1>3. \E f : f = Def(f, m)
  <2>1. T = Nat
    <3> HIDE DEF T
    <3>1. T \in SUBSET Nat
      BY DEF T
    <3> QED
      BY <1>1, <1>2, <3>1, Induction
  <2> QED
    BY <2>1
<1>4. r = Def(r, m)
  <2> HIDE DEF Def
  <2> QED
    BY <1>3, Zenon
<1>5. add_nodes(g, nodes) = r[Len(nodes)]
  BY Zenon DEF add_nodes
<1> HIDE DEF r
<1>6. ASSUME NEW k \in 1 .. m
      PROVE  r[k] = add_node(r[k - 1], nodes[k])
  <2> HIDE DEF m
  <2>1. k \in 0 .. m /\ k # 0
    OBVIOUS
  <2>2. Def(r, m)[k] = add_node(r[k - 1], nodes[k])
    BY <2>1
  <2> HIDE DEF Def
  <2> QED
    BY <1>4, <2>2
<1>7. r[0] = g
  BY <1>4
<1>8. Adds(r, g, nodes, m)
  <2> HIDE DEF Def
  <2> QED
    BY <1>6, <1>7 DEF Adds
<1> QED
  BY <1>5, <1>8

\* What remove_nodes does with the k-th position from the end.
Removal(g, gone, rest, k) ==
  IF Len(g.nodes) + 1 - k \in gone THEN remove_indexed_node(rest, Len(g.nodes) + 1 - k) ELSE rest

\* remove_nodes has looked at the last m positions.
Removes(f, g, gone, m) ==
  f[0] = g /\ \A k \in 1 .. m : f[k] = Removal(g, gone, f[k - 1], k)

\* remove_nodes goes through the graphs Removes describes.
LEMMA RemovesIs ==
  ASSUME NEW g, NEW gone, Len(g.nodes) \in Nat
  PROVE  \E f : Removes(f, g, gone, Len(g.nodes)) /\ remove_nodes(g, gone) = f[Len(g.nodes)]
<1> DEFINE Def(f, n) == [k \in 0 .. n |-> IF k = 0 THEN g ELSE Removal(g, gone, f[k - 1], k)]
           T == {n \in Nat : \E f : f = Def(f, n)}
           m == Len(g.nodes)
           r == CHOOSE f : f = Def(f, m)
<1>1. 0 \in T
  <2>1. [k \in {0} |-> g] = Def([k \in {0} |-> g], 0)
    OBVIOUS
  <2> QED
    BY <2>1
<1>2. ASSUME NEW n \in T
      PROVE  n + 1 \in T
  <2>1. PICK f : f = Def(f, n)
    OBVIOUS
  <2> DEFINE new == Removal(g, gone, f[n], n + 1)
             h == [k \in 0 .. n + 1 |-> IF k = n + 1 THEN new ELSE f[k]]
  <2>2. ASSUME NEW k \in 0 .. n + 1
        PROVE  h[k] = Def(h, n + 1)[k]
    <3>1. CASE k = n + 1
      <4>1. h[k] = new /\ k - 1 = n /\ k # 0 /\ h[n] = f[n]
        BY <3>1
      <4> HIDE DEF h
      <4> QED
        BY <3>1, <4>1
    <3>2. CASE k # n + 1
      <4>1. k \in 0 .. n /\ h[k] = f[k] /\ (k # 0 => k - 1 \in 0 .. n + 1 /\ h[k - 1] = f[k - 1])
        BY <3>2
      <4>2. f[k] = Def(f, n)[k]
        BY <2>1
      <4> HIDE DEF h
      <4> QED
        BY <4>1, <4>2
    <3> QED
      BY <3>1, <3>2
  <2>3. h = Def(h, n + 1)
    BY <2>2
  <2>4. \E e : e = Def(e, n + 1)
    <3> HIDE DEF h, Def
    <3> QED
      BY <2>3
  <2> HIDE DEF Def
  <2> QED
    BY <2>4
<1>3. \E f : f = Def(f, m)
  <2>1. T = Nat
    <3> HIDE DEF T
    <3>1. T \in SUBSET Nat
      BY DEF T
    <3> QED
      BY <1>1, <1>2, <3>1, Induction
  <2> QED
    BY <2>1
<1>4. r = Def(r, m)
  <2> HIDE DEF Def
  <2> QED
    BY <1>3, Zenon
<1>5. remove_nodes(g, gone) = r[Len(g.nodes)]
  BY Zenon DEF remove_nodes, Removal
<1> HIDE DEF r
<1>6. ASSUME NEW k \in 1 .. m
      PROVE  r[k] = Removal(g, gone, r[k - 1], k)
  <2> HIDE DEF m
  <2>1. k \in 0 .. m /\ k # 0
    OBVIOUS
  <2>2. Def(r, m)[k] = Removal(g, gone, r[k - 1], k)
    BY <2>1
  <2> HIDE DEF Def
  <2> QED
    BY <1>4, <2>2
<1>7. r[0] = g
  BY <1>4
<1>8. Removes(r, g, gone, m)
  <2> HIDE DEF Def
  <2> QED
    BY <1>6, <1>7 DEF Removes
<1> QED
  BY <1>5, <1>8

\* Assembled appends m files.
Assembles(f, order, staged, m) ==
  f[0] = EmptyGraph /\ \A k \in 1 .. m : f[k] = append_graph(f[k - 1], staged[order[k]])

\* Assembled is the graphs Assembles describes.
LEMMA AssembledIs ==
  ASSUME NEW order, NEW staged, Len(order) \in Nat
  PROVE  \E f : Assembles(f, order, staged, Len(order)) /\ Assembled(order, staged) = f
<1> DEFINE Def(f, n) == [k \in 0 .. n |-> IF k = 0 THEN EmptyGraph ELSE append_graph(f[k - 1], staged[order[k]])]
           T == {n \in Nat : \E f : f = Def(f, n)}
           m == Len(order)
           r == CHOOSE f : f = Def(f, m)
<1>1. 0 \in T
  <2>1. [k \in {0} |-> EmptyGraph] = Def([k \in {0} |-> EmptyGraph], 0)
    OBVIOUS
  <2> QED
    BY <2>1
<1>2. ASSUME NEW n \in T
      PROVE  n + 1 \in T
  <2>1. PICK f : f = Def(f, n)
    OBVIOUS
  <2> DEFINE new == append_graph(f[n], staged[order[n + 1]])
             h == [k \in 0 .. n + 1 |-> IF k = n + 1 THEN new ELSE f[k]]
  <2>2. ASSUME NEW k \in 0 .. n + 1
        PROVE  h[k] = Def(h, n + 1)[k]
    <3>1. CASE k = n + 1
      <4>1. h[k] = new /\ k - 1 = n /\ k # 0 /\ h[n] = f[n]
        BY <3>1
      <4> HIDE DEF h
      <4> QED
        BY <3>1, <4>1
    <3>2. CASE k # n + 1
      <4>1. k \in 0 .. n /\ h[k] = f[k] /\ (k # 0 => k - 1 \in 0 .. n + 1 /\ h[k - 1] = f[k - 1])
        BY <3>2
      <4>2. f[k] = Def(f, n)[k]
        BY <2>1
      <4> HIDE DEF h
      <4> QED
        BY <4>1, <4>2
    <3> QED
      BY <3>1, <3>2
  <2>3. h = Def(h, n + 1)
    BY <2>2
  <2>4. \E e : e = Def(e, n + 1)
    <3> HIDE DEF h, Def
    <3> QED
      BY <2>3
  <2> HIDE DEF Def
  <2> QED
    BY <2>4
<1>3. \E f : f = Def(f, m)
  <2>1. T = Nat
    <3> HIDE DEF T
    <3>1. T \in SUBSET Nat
      BY DEF T
    <3> QED
      BY <1>1, <1>2, <3>1, Induction
  <2> QED
    BY <2>1
<1>4. r = Def(r, m)
  <2> HIDE DEF Def
  <2> QED
    BY <1>3, Zenon
<1>5. Assembled(order, staged) = r
  BY Zenon DEF Assembled
<1> HIDE DEF r
<1>6. ASSUME NEW k \in 1 .. m
      PROVE  r[k] = append_graph(r[k - 1], staged[order[k]])
  <2> HIDE DEF m
  <2>1. k \in 0 .. m /\ k # 0
    OBVIOUS
  <2>2. Def(r, m)[k] = append_graph(r[k - 1], staged[order[k]])
    BY <2>1
  <2> HIDE DEF Def
  <2> QED
    BY <1>4, <2>2
<1>7. r[0] = EmptyGraph
  BY <1>4
<1>8. Assembles(r, order, staged, m)
  <2> HIDE DEF Def
  <2> QED
    BY <1>6, <1>7 DEF Assembles
<1> QED
  BY <1>5, <1>8

\* Swapped replaces m files.
Swaps(f, g, order, staged, m) ==
  f[0] = g /\ \A k \in 1 .. m : f[k] = append_graph(remove_file_nodes(f[k - 1], order[k]), staged[order[k]])

\* Swapped is the graphs Swaps describes.
LEMMA SwappedIs ==
  ASSUME NEW g, NEW order, NEW staged, Len(order) \in Nat
  PROVE  \E f : Swaps(f, g, order, staged, Len(order)) /\ Swapped(g, order, staged) = f
<1> DEFINE Def(f, n) == [k \in 0 .. n |-> IF k = 0 THEN g ELSE append_graph(remove_file_nodes(f[k - 1], order[k]), staged[order[k]])]
           T == {n \in Nat : \E f : f = Def(f, n)}
           m == Len(order)
           r == CHOOSE f : f = Def(f, m)
<1>1. 0 \in T
  <2>1. [k \in {0} |-> g] = Def([k \in {0} |-> g], 0)
    OBVIOUS
  <2> QED
    BY <2>1
<1>2. ASSUME NEW n \in T
      PROVE  n + 1 \in T
  <2>1. PICK f : f = Def(f, n)
    OBVIOUS
  <2> DEFINE new == append_graph(remove_file_nodes(f[n], order[n + 1]), staged[order[n + 1]])
             h == [k \in 0 .. n + 1 |-> IF k = n + 1 THEN new ELSE f[k]]
  <2>2. ASSUME NEW k \in 0 .. n + 1
        PROVE  h[k] = Def(h, n + 1)[k]
    <3>1. CASE k = n + 1
      <4>1. h[k] = new /\ k - 1 = n /\ k # 0 /\ h[n] = f[n]
        BY <3>1
      <4> HIDE DEF h
      <4> QED
        BY <3>1, <4>1
    <3>2. CASE k # n + 1
      <4>1. k \in 0 .. n /\ h[k] = f[k] /\ (k # 0 => k - 1 \in 0 .. n + 1 /\ h[k - 1] = f[k - 1])
        BY <3>2
      <4>2. f[k] = Def(f, n)[k]
        BY <2>1
      <4> HIDE DEF h
      <4> QED
        BY <4>1, <4>2
    <3> QED
      BY <3>1, <3>2
  <2>3. h = Def(h, n + 1)
    BY <2>2
  <2>4. \E e : e = Def(e, n + 1)
    <3> HIDE DEF h, Def
    <3> QED
      BY <2>3
  <2> HIDE DEF Def
  <2> QED
    BY <2>4
<1>3. \E f : f = Def(f, m)
  <2>1. T = Nat
    <3> HIDE DEF T
    <3>1. T \in SUBSET Nat
      BY DEF T
    <3> QED
      BY <1>1, <1>2, <3>1, Induction
  <2> QED
    BY <2>1
<1>4. r = Def(r, m)
  <2> HIDE DEF Def
  <2> QED
    BY <1>3, Zenon
<1>5. Swapped(g, order, staged) = r
  BY Zenon DEF Swapped
<1> HIDE DEF r
<1>6. ASSUME NEW k \in 1 .. m
      PROVE  r[k] = append_graph(remove_file_nodes(r[k - 1], order[k]), staged[order[k]])
  <2> HIDE DEF m
  <2>1. k \in 0 .. m /\ k # 0
    OBVIOUS
  <2>2. Def(r, m)[k] = append_graph(remove_file_nodes(r[k - 1], order[k]), staged[order[k]])
    BY <2>1
  <2> HIDE DEF Def
  <2> QED
    BY <1>4, <2>2
<1>7. r[0] = g
  BY <1>4
<1>8. Swaps(r, g, order, staged, m)
  <2> HIDE DEF Def
  <2> QED
    BY <1>6, <1>7 DEF Swaps
<1> QED
  BY <1>5, <1>8

-----------------------------------------------------------------------------
(* What a graph says: its nodes, and which contains which *)

EdgeTypes == {"Contains"} \cup ReferenceEdges

\* The nodes of all staged graphs.
AnyNode == UNION {UNION {UNION {Elements(Projects[name][file][v].nodes) :
                                  v \in DOMAIN Projects[name][file]} :
                           file \in DOMAIN Projects[name]} :
                    name \in DOMAIN Projects}

Sound(g) ==
  /\ g.nodes \in Seq(AnyNode) /\ Unique(g.nodes) /\ g = Graph(g.nodes, g.edges)
  /\ g.edges \subseteq Positions(g) \X Positions(g) \X EdgeTypes

\* Two lists of nodes as one.
Joined(nodes, more, n) ==
  [k \in 1 .. Len(nodes) + n |-> IF k <= Len(nodes) THEN nodes[k] ELSE more[k - Len(nodes)]]

\* Joined lists have the nodes of both in their order.
LEMMA JoinedIs ==
  ASSUME NEW nodes \in Seq(AnyNode), NEW more \in Seq(AnyNode), NEW n \in 0 .. Len(more)
  PROVE  /\ Joined(nodes, more, n) \in Seq(AnyNode)
         /\ Len(Joined(nodes, more, n)) = Len(nodes) + n
         /\ \A k \in 1 .. Len(nodes) : Joined(nodes, more, n)[k] = nodes[k]
         /\ \A k \in 1 .. n : Joined(nodes, more, n)[Len(nodes) + k] = more[k]
<1> DEFINE m == Len(nodes)
           j == Joined(nodes, more, n)
<1>1. m \in Nat /\ Len(more) \in Nat /\ n \in Nat
  OBVIOUS
<1>2. /\ \A k \in 1 .. m : nodes[k] \in AnyNode
      /\ \A k \in 1 .. Len(more) : more[k] \in AnyNode
  OBVIOUS
<1>3. j = [k \in 1 .. m + n |-> IF k <= m THEN nodes[k] ELSE more[k - m]]
  BY DEF Joined
<1> HIDE DEF m, j
<1>4. j \in [1 .. m + n -> AnyNode]
  <2>1. ASSUME NEW k \in 1 .. m + n
        PROVE  (IF k <= m THEN nodes[k] ELSE more[k - m]) \in AnyNode
    <3>1. CASE k <= m
      BY <3>1, <1>1, <1>2
    <3>2. CASE ~(k <= m)
      <4>1. k - m \in 1 .. Len(more)
        BY <3>2, <1>1
      <4> QED
        BY <3>2, <4>1, <1>2
    <3> QED
      BY <3>1, <3>2
  <2> QED
    BY <1>3, <2>1
<1>5. m + n \in Nat
  BY <1>1
<1>6. j \in Seq(AnyNode) /\ Len(j) = m + n
  BY <1>4, <1>5
<1>7. \A k \in 1 .. m : j[k] = nodes[k]
  BY <1>1, <1>3
<1>8. ASSUME NEW k \in 1 .. n
      PROVE  j[m + k] = more[k]
  <2>1. m + k \in 1 .. m + n /\ ~(m + k <= m) /\ (m + k) - m = k
    BY <1>1
  <2> QED
    BY <1>3, <2>1
<1> QED
  BY <1>6, <1>7, <1>8 DEF m, j

\* Nodes with new identifiers, added one by one, come after the others.
LEMMA NodesAdded ==
  ASSUME NEW nodes \in Seq(AnyNode), NEW edges, NEW more \in Seq(AnyNode),
         Unique(nodes), Unique(more), Ids(nodes) \cap Ids(more) = {}
  PROVE  LET all == Joined(nodes, more, Len(more))
         IN  Unique(all) /\ add_nodes(Graph(nodes, edges), more) = Graph(all, edges)
<1> DEFINE g == Graph(nodes, edges)
           m == Len(nodes)
           all(n) == Joined(nodes, more, n)
<1>1. m \in Nat /\ Len(more) \in Nat
  OBVIOUS
<1>2. PICK f : Adds(f, g, more, Len(more)) /\ add_nodes(g, more) = f[Len(more)]
  BY <1>1, AddsIs
<1> DEFINE T == {n \in Nat : n <= Len(more) => f[n] = Graph(all(n), edges) /\ Unique(all(n))}
<1>3. 0 \in T
  <2>1. all(0) = nodes
    <3>1. all(0) \in Seq(AnyNode) /\ Len(all(0)) = m /\ \A k \in 1 .. m : all(0)[k] = nodes[k]
      BY <1>1, JoinedIs
    <3> HIDE DEF all
    <3> QED
      BY <3>1
  <2> HIDE DEF all
  <2> QED
    BY <1>2, <2>1 DEF Adds
<1>4. ASSUME NEW n \in T
      PROVE  n + 1 \in T
  <2> SUFFICES ASSUME n + 1 <= Len(more)
               PROVE  f[n + 1] = Graph(all(n + 1), edges) /\ Unique(all(n + 1))
    OBVIOUS
  <2>1. n \in 0 .. Len(more) /\ n + 1 \in 1 .. Len(more) /\ n + 1 \in 0 .. Len(more)
    OBVIOUS
  <2>2. f[n] = Graph(all(n), edges) /\ Unique(all(n))
    BY <2>1
  <2>3. f[n + 1] = add_node(f[n], more[n + 1])
    BY <1>2, <2>1 DEF Adds
  <2> DEFINE old == all(n)
             new == all(n + 1)
  <2>4. /\ old \in Seq(AnyNode) /\ Len(old) = m + n
        /\ \A k \in 1 .. m : old[k] = nodes[k]
        /\ \A k \in 1 .. n : old[m + k] = more[k]
    BY <2>1, JoinedIs
  <2>5. /\ new \in Seq(AnyNode) /\ Len(new) = m + (n + 1)
        /\ \A k \in 1 .. m : new[k] = nodes[k]
        /\ \A k \in 1 .. n + 1 : new[m + k] = more[k]
    BY <2>1, JoinedIs
  <2> HIDE DEF all, old, new
  <2>6. \A k \in 1 .. m + n : k \in 1 .. m \/ (k - m \in 1 .. n /\ m + (k - m) = k)
    BY <1>1
  <2>7. ASSUME NEW k \in 1 .. m + n
        PROVE  new[k] = old[k]
    <3>1. CASE k \in 1 .. m
      BY <3>1, <2>4, <2>5
    <3>2. CASE k - m \in 1 .. n /\ m + (k - m) = k
      <4>1. k - m \in 1 .. n + 1
        BY <3>2
      <4>2. old[m + (k - m)] = more[k - m] /\ new[m + (k - m)] = more[k - m]
        BY <3>2, <4>1, <2>4, <2>5
      <4> QED
        BY <3>2, <4>2
    <3> QED
      BY <3>1, <3>2, <2>6
  <2>8. more[n + 1] \in AnyNode
    BY <2>1
  <2>9. new = Append(old, more[n + 1])
    <3> DEFINE added == Append(old, more[n + 1])
    <3>1. /\ added \in Seq(AnyNode) /\ Len(added) = m + n + 1
          /\ \A k \in 1 .. m + n : added[k] = old[k]
          /\ added[m + n + 1] = more[n + 1]
      <4> DEFINE x == more[n + 1]
                 l == m + n
      <4>1. l \in Nat /\ Len(old) = l /\ old \in Seq(AnyNode) /\ x \in AnyNode
        BY <1>1, <2>4, <2>8
      <4> HIDE DEF m, x, l
      <4>2. /\ Append(old, x) \in Seq(AnyNode) /\ Len(Append(old, x)) = l + 1
            /\ \A k \in 1 .. l : Append(old, x)[k] = old[k]
            /\ Append(old, x)[l + 1] = x
        BY <4>1
      <4> QED
        BY <4>2 DEF x, l
    <3>2. new[m + n + 1] = more[n + 1] /\ Len(new) = m + n + 1
      BY <1>1, <2>5
    <3>3. \A k \in 1 .. m + n + 1 : k \in 1 .. m + n \/ k = m + n + 1
      BY <1>1
    <3> HIDE DEF added
    <3>4. \A k \in 1 .. Len(new) : new[k] = added[k]
      BY <3>1, <3>2, <3>3, <2>7
    <3>5. new = added
      BY <3>1, <3>2, <3>4, <2>5
    <3> QED
      BY <3>5 DEF added
  <2>10. more[n + 1].id \notin Ids(old)
    <3> SUFFICES ASSUME NEW k \in 1 .. m + n, old[k].id = more[n + 1].id
                 PROVE  FALSE
      BY <2>4 DEF Ids
    <3>1. CASE k \in 1 .. m
      BY <3>1, <2>1, <2>4 DEF Ids
    <3>2. CASE k - m \in 1 .. n /\ m + (k - m) = k
      <4>1. old[k] = more[k - m] /\ k - m \in 1 .. Len(more) /\ k - m # n + 1
        BY <3>2, <2>1, <2>4
      <4> QED
        BY <4>1, <2>1 DEF Unique
    <3> QED
      BY <3>1, <3>2, <2>6
  <2>11. add_node(Graph(old, edges), more[n + 1]) = Graph(new, edges) /\ Unique(new)
    BY <2>2, <2>4, <2>8, <2>9, <2>10, AddedNode, PushedId DEF old
  <2> QED
    BY <2>2, <2>3, <2>11 DEF old, new
<1>5. T = Nat
  <2> HIDE DEF T
  <2>1. T \in SUBSET Nat
    BY DEF T
  <2> QED
    BY <1>3, <1>4, <2>1, Induction
<1>6. Len(more) \in T
  <2> HIDE DEF T
  <2> QED
    BY <1>1, <1>5
<1> HIDE DEF all
<1> QED
  BY <1>2, <1>6 DEF all

\* The staged graph of a file with new identifiers joins the graph.
LEMMA FileAppended ==
  ASSUME NEW g, Sound(g), NEW file, NEW staged, IsStaged(staged, file),
         Elements(staged.nodes) \subseteq AnyNode, Ids(g.nodes) \cap Ids(staged.nodes) = {}
  PROVE  LET a == append_graph(g, staged)
         IN  /\ Sound(a)
             /\ Elements(a.nodes) = Elements(g.nodes) \cup Elements(staged.nodes)
             /\ Ownership(a) = Ownership(g) \cup Owned(staged)
<1> DEFINE nodes == g.nodes
           more == staged.nodes
           m == Len(nodes)
           n == Len(more)
           owned == {k \in 1 .. n : staged.owner[k] # 0}
           contains == {<<m + staged.owner[k], m + k, "Contains">> : k \in owned}
           all == Joined(nodes, more, n)
           edges == g.edges \cup contains
           a == append_graph(g, staged)
<1>1. /\ nodes \in Seq(AnyNode) /\ Unique(nodes) /\ g = Graph(nodes, g.edges)
      /\ g.edges \subseteq (1 .. m) \X (1 .. m) \X EdgeTypes /\ m \in Nat
  BY DEF Sound, Positions
<1>2. /\ more \in Seq(AnyNode) /\ Unique(more) /\ n \in Nat
      /\ \A k \in owned : k \in 1 .. n /\ staged.owner[k] \in 1 .. n
  <2>1. more \in Seq(Elements(more)) /\ Unique(more)
    BY DEF IsStaged, Unique
  <2>2. more \in Seq(AnyNode) /\ n \in Nat
    BY <2>1
  <2>3. \A k \in 1 .. n : staged.owner[k] \in Nat /\ staged.owner[k] < k
    BY DEF IsStaged
  <2>4. ASSUME NEW k \in owned
        PROVE  k \in 1 .. n /\ staged.owner[k] \in 1 .. n
    <3>1. k \in 1 .. n /\ staged.owner[k] # 0
      OBVIOUS
    <3>2. staged.owner[k] \in Nat /\ staged.owner[k] < k
      BY <2>3, <3>1
    <3> HIDE DEF n
    <3> QED
      BY <2>2, <3>1, <3>2
  <2> HIDE DEF n, more, owned
  <2> QED
    BY <2>1, <2>2, <2>4
<1>3. /\ all \in Seq(AnyNode) /\ Len(all) = m + n
      /\ \A k \in 1 .. m : all[k] = nodes[k]
      /\ \A k \in 1 .. n : all[m + k] = more[k]
  <2>1. n \in 0 .. Len(more)
    BY <1>2
  <2> HIDE DEF nodes, more
  <2> QED
    BY <1>1, <1>2, <2>1, JoinedIs
<1>4. Unique(all) /\ add_nodes(Graph(nodes, g.edges), more) = Graph(all, g.edges)
  <2>1. Ids(nodes) \cap Ids(more) = {}
    OBVIOUS
  <2> HIDE DEF nodes, more
  <2> QED
    BY <1>1, <1>2, <2>1, NodesAdded
<1>5. a = Graph(all, edges)
  <2>1. a = [add_nodes(g, more) EXCEPT !.edges = @ \cup contains]
    BY DEF append_graph
  <2>2. add_nodes(g, more) = Graph(all, g.edges)
    BY <1>1, <1>4
  <2> HIDE DEF contains, all, a, more
  <2> QED
    BY <2>1, <2>2 DEF Graph
<1>6. a.nodes = all /\ a.edges = edges
  <2> HIDE DEF a, all, edges
  <2> QED
    BY <1>5 DEF Graph
<1> HIDE DEF a, all, nodes, more, n, m
<1>7. edges \subseteq (1 .. m + n) \X (1 .. m + n) \X EdgeTypes
  <2>1. g.edges \subseteq (1 .. m + n) \X (1 .. m + n) \X EdgeTypes
    <3>1. 1 .. m \subseteq 1 .. m + n
      BY <1>1, <1>2
    <3> QED
      BY <1>1, <3>1
  <2>2. ASSUME NEW k \in owned
        PROVE  <<m + staged.owner[k], m + k, "Contains">> \in (1 .. m + n) \X (1 .. m + n) \X EdgeTypes
    <3>1. k \in 1 .. n /\ staged.owner[k] \in 1 .. n
      BY <1>2
    <3>2. m + staged.owner[k] \in 1 .. m + n /\ m + k \in 1 .. m + n
      BY <3>1, <1>1, <1>2
    <3> QED
      BY <3>2 DEF EdgeTypes
  <2> QED
    BY <2>1, <2>2
<1>8. Sound(a)
  BY <1>3, <1>4, <1>5, <1>6, <1>7 DEF Sound, Positions
<1>9. Elements(a.nodes) = Elements(nodes) \cup Elements(more)
  <2>1. \A k \in 1 .. m + n : k \in 1 .. m \/ (k - m \in 1 .. n /\ m + (k - m) = k)
    BY <1>1, <1>2
  <2>2. \A k \in 1 .. m : k \in 1 .. m + n
    BY <1>1, <1>2
  <2>3. \A k \in 1 .. n : m + k \in 1 .. m + n
    BY <1>1, <1>2
  <2>4. Elements(all) \subseteq Elements(nodes) \cup Elements(more)
    <3> SUFFICES ASSUME NEW k \in 1 .. m + n
                 PROVE  all[k] \in Elements(nodes) \cup Elements(more)
      BY <1>3 DEF Elements
    <3>1. CASE k \in 1 .. m
      BY <3>1, <1>3 DEF Elements, m
    <3>2. CASE k - m \in 1 .. n /\ m + (k - m) = k
      <4>1. all[k] = more[k - m]
        BY <3>2, <1>3
      <4> QED
        BY <3>2, <4>1 DEF Elements, n
    <3> QED
      BY <3>1, <3>2, <2>1
  <2>5. Elements(nodes) \subseteq Elements(all)
    BY <1>3, <2>2 DEF Elements, m, n
  <2>6. Elements(more) \subseteq Elements(all)
    BY <1>3, <2>3 DEF Elements, m, n
  <2> QED
    BY <1>6, <2>4, <2>5, <2>6
<1>10. Ownership(a) = Ownership(g) \cup Owned(staged)
  <2>1. \A e \in g.edges : e[1] \in 1 .. m /\ e[2] \in 1 .. m
    BY <1>1
  <2>2. \A e \in g.edges : all[e[1]] = nodes[e[1]] /\ all[e[2]] = nodes[e[2]]
    BY <1>3, <2>1
  <2>3. Ownership(g) = {<<all[e[1]], all[e[2]]>> : e \in {x \in g.edges : x[3] = "Contains"}}
    BY <2>2 DEF Ownership, nodes
  <2>4. Owned(staged) = {<<all[e[1]], all[e[2]]>> : e \in contains}
    <3>1. Owned(staged) = {<<more[staged.owner[k]], more[k]>> : k \in owned}
      BY DEF Owned, more, n
    <3>2. \A k \in owned : all[m + staged.owner[k]] = more[staged.owner[k]] /\ all[m + k] = more[k]
      BY <1>2, <1>3
    <3> DEFINE edge(k) == <<m + staged.owner[k], m + k, "Contains">>
    <3>3. \A k \in owned : edge(k)[1] = m + staged.owner[k] /\ edge(k)[2] = m + k
      OBVIOUS
    <3>4. contains = {edge(k) : k \in owned}
      OBVIOUS
    <3> HIDE DEF edge, contains, owned
    <3> QED
      BY <3>1, <3>2, <3>3, <3>4
  <2>5. Ownership(a) = {<<all[e[1]], all[e[2]]>> : e \in {x \in edges : x[3] = "Contains"}}
    BY <1>6 DEF Ownership
  <2>6. {x \in edges : x[3] = "Contains"} = {x \in g.edges : x[3] = "Contains"} \cup contains
    OBVIOUS
  <2> HIDE DEF contains, edges
  <2> QED
    BY <2>3, <2>4, <2>5, <2>6
<1> QED
  BY <1>8, <1>9, <1>10 DEF a, nodes, more

\* One node goes: it leaves the nodes, its edges go with it, and the nodes before it
\* stay where they are.
LEMMA NodeRemoved ==
  ASSUME NEW g, Sound(g), NEW i \in Positions(g)
  PROVE  LET r == remove_indexed_node(g, i)
         IN  /\ Sound(r) /\ Len(r.nodes) = Len(g.nodes) - 1
             /\ \A j \in 1 .. i - 1 : r.nodes[j] = g.nodes[j]
             /\ Elements(r.nodes) = Elements(g.nodes) \ {g.nodes[i]}
             /\ Ownership(r) = {p \in Ownership(g) : g.nodes[i] # p[1] /\ g.nodes[i] # p[2]}
<1> DEFINE nodes == g.nodes
           edges == g.edges
           last == Len(nodes)
           rest == WithoutNode(nodes, i)
           moved(j) == IF j = last THEN i ELSE j
           restEdges == WithoutEdges(edges, i, last)
           r == remove_indexed_node(g, i)
           kept == {e \in edges : i # e[1] /\ i # e[2]}
<1>1. /\ nodes \in Seq(AnyNode) /\ Unique(nodes) /\ g = Graph(nodes, edges)
      /\ edges \subseteq (1 .. last) \X (1 .. last) \X EdgeTypes /\ i \in 1 .. last /\ last \in Nat
  BY DEF Sound, Positions
<1>2. /\ rest \in Seq(AnyNode) /\ Len(rest) = last - 1
      /\ \A j \in 1 .. last - 1 : rest[j] = IF j = i THEN nodes[last] ELSE nodes[j]
  <2> HIDE DEF nodes
  <2> QED
    BY <1>1, Remaining
<1>3. Unique(rest)
  <2> HIDE DEF nodes
  <2> QED
    BY <1>1, MovedId
<1>4. r = Graph(rest, restEdges)
  <2> HIDE DEF nodes, edges, rest, restEdges
  <2> QED
    BY <1>1, RemovedNode DEF rest, restEdges, last
<1>5. r.nodes = rest /\ r.edges = restEdges
  <2> HIDE DEF r, rest, restEdges
  <2> QED
    BY <1>4 DEF Graph
<1>6. restEdges = {<<moved(e[1]), moved(e[2]), e[3]>> : e \in kept}
  <2>1. restEdges = {<<moved(e[1]), moved(e[2]), e[3]>> : e \in {x \in edges : i \notin {x[1], x[2]}}}
    BY DEF WithoutEdges
  <2>2. kept = {x \in edges : i \notin {x[1], x[2]}}
    OBVIOUS
  <2> HIDE DEF kept, restEdges
  <2> QED
    BY <2>1, <2>2
<1>7. /\ \A j \in 1 .. last : j # i => moved(j) \in 1 .. last - 1
      /\ \A j \in 1 .. last : j # i => rest[moved(j)] = nodes[j]
  <2> HIDE DEF nodes, rest, last
  <2> QED
    BY <1>1, <1>2
<1>8. \A e \in kept : /\ e[1] \in 1 .. last /\ e[2] \in 1 .. last /\ e[3] \in EdgeTypes
                      /\ e[1] # i /\ e[2] # i /\ e \in edges
  BY <1>1
<1> HIDE DEF nodes, rest, last, edges, restEdges, r, kept
<1>9. restEdges \subseteq (1 .. last - 1) \X (1 .. last - 1) \X EdgeTypes
  <2> HIDE DEF moved
  <2> QED
    BY <1>6, <1>7, <1>8
<1>10. Sound(r)
  BY <1>2, <1>3, <1>4, <1>5, <1>9 DEF Sound, Positions
<1>11. \A j \in 1 .. i - 1 : r.nodes[j] = nodes[j]
  BY <1>1, <1>2, <1>5
<1>12. \A j \in 1 .. last : nodes[j] = nodes[i] => j = i
  BY <1>1 DEF Unique, last
<1>13. Elements(r.nodes) = Elements(nodes) \ {nodes[i]}
  <2>1. ASSUME NEW k \in 1 .. last - 1
        PROVE  \E j \in 1 .. last : j # i /\ moved(j) = k
    <3>1. CASE k = i
      BY <3>1, <1>1
    <3>2. CASE k # i
      <4>1. k \in 1 .. last /\ moved(k) = k
        BY <1>1
      <4> QED
        BY <3>2, <4>1
    <3> QED
      BY <3>1, <3>2
  <2> HIDE DEF moved
  <2>2. ASSUME NEW k \in 1 .. last - 1
        PROVE  rest[k] \in Elements(nodes) \ {nodes[i]}
    <3>1. PICK j \in 1 .. last : j # i /\ moved(j) = k
      BY <2>1
    <3> QED
      BY <3>1, <1>7, <1>12 DEF Elements, last
  <2>3. ASSUME NEW j \in 1 .. last, nodes[j] # nodes[i]
        PROVE  nodes[j] \in Elements(rest)
    <3>1. moved(j) \in 1 .. last - 1 /\ rest[moved(j)] = nodes[j]
      BY <2>3, <1>7
    <3> QED
      BY <3>1, <1>2 DEF Elements
  <2>4. Elements(rest) \subseteq Elements(nodes) \ {nodes[i]}
    BY <2>2, <1>2 DEF Elements
  <2>5. Elements(nodes) \ {nodes[i]} \subseteq Elements(rest)
    BY <2>3 DEF Elements, last
  <2> QED
    BY <1>5, <2>4, <2>5
<1>14. Ownership(r) = {p \in Ownership(g) : nodes[i] # p[1] /\ nodes[i] # p[2]}
  <2>1. Ownership(r) = {<<rest[e[1]], rest[e[2]]>> : e \in {x \in restEdges : x[3] = "Contains"}}
    BY <1>5 DEF Ownership
  <2> DEFINE tied == {e \in kept : e[3] = "Contains"}
  <2>2. {<<rest[e[1]], rest[e[2]]>> : e \in {x \in restEdges : x[3] = "Contains"}}
          = {<<nodes[e[1]], nodes[e[2]]>> : e \in tied}
    <3> DEFINE edge(e) == <<moved(e[1]), moved(e[2]), e[3]>>
    <3>1. \A e \in kept : /\ edge(e)[1] = moved(e[1]) /\ edge(e)[2] = moved(e[2])
                          /\ edge(e)[3] = e[3]
      <4> HIDE DEF moved
      <4> QED
        OBVIOUS
    <3>2. restEdges = {edge(e) : e \in kept}
      BY <1>6
    <3> HIDE DEF edge, moved
    <3>3. \A e \in kept : rest[edge(e)[1]] = nodes[e[1]] /\ rest[edge(e)[2]] = nodes[e[2]]
      BY <3>1, <1>7, <1>8
    <3>4. {x \in restEdges : x[3] = "Contains"} = {edge(e) : e \in tied}
      BY <3>1, <3>2
    <3>5. \A e \in tied : <<rest[edge(e)[1]], rest[edge(e)[2]]>> = <<nodes[e[1]], nodes[e[2]]>>
      BY <3>3
    <3> HIDE DEF tied
    <3> QED
      BY <3>4, <3>5
  <2>3. Ownership(g) = {<<nodes[e[1]], nodes[e[2]]>> : e \in {x \in edges : x[3] = "Contains"}}
    BY DEF Ownership, nodes, edges
  <2>4. tied = {e \in {x \in edges : x[3] = "Contains"} : nodes[i] # nodes[e[1]] /\ nodes[i] # nodes[e[2]]}
    <3>1. \A e \in edges : e[1] \in 1 .. last /\ e[2] \in 1 .. last
      BY <1>1
    <3>2. \A e \in edges : (i # e[1] <=> nodes[i] # nodes[e[1]]) /\ (i # e[2] <=> nodes[i] # nodes[e[2]])
      BY <3>1, <1>12
    <3> QED
      BY <3>2 DEF kept
  <2> DEFINE pair(e) == <<nodes[e[1]], nodes[e[2]]>>
             ties == {x \in edges : x[3] = "Contains"}
  <2>5. \A e \in ties : pair(e)[1] = nodes[e[1]] /\ pair(e)[2] = nodes[e[2]]
    OBVIOUS
  <2> HIDE DEF tied
  <2>6. {pair(e) : e \in tied} = {p \in {pair(e) : e \in ties} : nodes[i] # p[1] /\ nodes[i] # p[2]}
    <3> HIDE DEF pair, ties
    <3> QED
      BY <2>4, <2>5 DEF ties
  <2> QED
    BY <2>1, <2>2, <2>3, <2>6
<1> QED
  BY <1>2, <1>5, <1>10, <1>11, <1>13, <1>14 DEF r, nodes, last

\* Some nodes go: they leave the nodes, and their edges go with them.
LEMMA NodesRemoved ==
  ASSUME NEW g, Sound(g), NEW gone, gone \subseteq Positions(g)
  PROVE  LET r == remove_nodes(g, gone)
             out == {g.nodes[j] : j \in gone}
         IN  /\ Sound(r)
             /\ Elements(r.nodes) = Elements(g.nodes) \ out
             /\ Ownership(r) = {p \in Ownership(g) : p[1] \notin out /\ p[2] \notin out}
<1> DEFINE last == Len(g.nodes)
           out(k) == {g.nodes[j] : j \in {x \in gone : x > last - k}}
           Left(h, k) ==
             /\ Sound(h) /\ last - k <= Len(h.nodes)
             /\ \A j \in 1 .. last - k : h.nodes[j] = g.nodes[j]
             /\ Elements(h.nodes) = Elements(g.nodes) \ out(k)
             /\ Ownership(h) = {p \in Ownership(g) : p[1] \notin out(k) /\ p[2] \notin out(k)}
<1>1. g.nodes \in Seq(AnyNode) /\ last \in Nat /\ gone \subseteq 1 .. last
  BY DEF Sound, Positions
<1>2. PICK f : Removes(f, g, gone, last) /\ remove_nodes(g, gone) = f[last]
  BY <1>1, RemovesIs
<1> DEFINE T == {k \in Nat : k <= last => Left(f[k], k)}
<1>3. 0 \in T
  <2>1. f[0] = g /\ out(0) = {} /\ last - 0 <= last
    BY <1>1, <1>2 DEF Removes
  <2> HIDE DEF out
  <2> QED
    BY <1>1, <2>1
<1>4. ASSUME NEW k \in T
      PROVE  k + 1 \in T
  <2> SUFFICES ASSUME k + 1 <= last
               PROVE  Left(f[k + 1], k + 1)
    OBVIOUS
  <2> DEFINE h == f[k]
             i == last - k
  <2>1. Left(h, k) /\ k + 1 \in 1 .. last /\ (k + 1) - 1 = k /\ k \in Nat
    <3>1. k \in Nat /\ (k <= last => Left(h, k))
      OBVIOUS
    <3> HIDE DEF Left, T, last
    <3> QED
      BY <1>1, <3>1
  <2>2. i \in 1 .. last /\ last + 1 - (k + 1) = i /\ last - (k + 1) = i - 1
    <3> HIDE DEF Left, T, last
    <3> QED
      BY <1>1, <2>1
  <2>3. f[k + 1] = Removal(g, gone, h, k + 1)
    BY <1>2, <2>1 DEF Removes
  <2>4. f[k + 1] = IF i \in gone THEN remove_indexed_node(h, i) ELSE h
    BY <2>2, <2>3 DEF Removal
  <2>5. i \in 1 .. Len(h.nodes) /\ h.nodes[i] = g.nodes[i] /\ \A j \in 1 .. i - 1 : j \in 1 .. last - k
    <3> HIDE DEF out
    <3>1. Sound(h) /\ last - k <= Len(h.nodes) /\ \A j \in 1 .. last - k : h.nodes[j] = g.nodes[j]
      BY <2>1
    <3>2. Len(h.nodes) \in Nat
      BY <3>1 DEF Sound
    <3> HIDE DEF h, T, Left, last
    <3>3. i \in 1 .. last - k /\ i <= Len(h.nodes)
      BY <2>2, <3>1
    <3> QED
      BY <2>2, <3>1, <3>2, <3>3
  <2>6. \A x \in gone : x > i - 1 <=> (x > i \/ x = i)
    BY <1>1, <2>2
  <2>7. CASE i \in gone
    <3> DEFINE r == remove_indexed_node(h, i)
    <3>1. f[k + 1] = r
      BY <2>4, <2>7
    <3>2. out(k + 1) = out(k) \cup {g.nodes[i]}
      BY <2>2, <2>6, <2>7
    <3>3. /\ Sound(r) /\ Len(r.nodes) = Len(h.nodes) - 1
          /\ \A j \in 1 .. i - 1 : r.nodes[j] = h.nodes[j]
          /\ Elements(r.nodes) = Elements(h.nodes) \ {h.nodes[i]}
          /\ Ownership(r) = {p \in Ownership(h) : h.nodes[i] # p[1] /\ h.nodes[i] # p[2]}
      <4> HIDE DEF h, out
      <4>1. Sound(h) /\ i \in Positions(h)
        BY <2>1, <2>5 DEF Positions
      <4> HIDE DEF i, r, T, Left, last
      <4>2. r = remove_indexed_node(h, i)
        BY DEF r
      <4> QED
        BY <4>1, <4>2, NodeRemoved
    <3> HIDE DEF r, out, h
    <3>4. last - (k + 1) <= Len(r.nodes)
      BY <3>3, <2>2, <2>5
    <3>5. \A j \in 1 .. last - (k + 1) : r.nodes[j] = g.nodes[j]
      BY <3>3, <2>1, <2>2, <2>5
    <3>6. Elements(r.nodes) = Elements(g.nodes) \ out(k + 1)
      BY <3>2, <3>3, <2>1, <2>5
    <3>7. Ownership(r) = {p \in Ownership(g) : p[1] \notin out(k + 1) /\ p[2] \notin out(k + 1)}
      <4>1. Ownership(h) = {p \in Ownership(g) : p[1] \notin out(k) /\ p[2] \notin out(k)}
        BY <2>1
      <4>2. Ownership(r) = {p \in Ownership(h) : g.nodes[i] # p[1] /\ g.nodes[i] # p[2]}
        BY <3>3, <2>5
      <4> HIDE DEF i
      <4> QED
        BY <3>2, <4>1, <4>2
    <3> QED
      BY <3>1, <3>3, <3>4, <3>5, <3>6, <3>7
  <2>8. CASE i \notin gone
    <3>1. f[k + 1] = h
      BY <2>4, <2>8
    <3>2. out(k + 1) = out(k)
      BY <2>2, <2>6, <2>8
    <3> HIDE DEF out, h
    <3>3. last - (k + 1) <= Len(h.nodes) /\ \A j \in 1 .. last - (k + 1) : h.nodes[j] = g.nodes[j]
      <4>1. Len(h.nodes) \in Nat
        BY <2>1 DEF Sound
      <4> QED
        BY <2>1, <2>2, <2>5, <4>1
    <3> QED
      BY <2>1, <3>1, <3>2, <3>3
  <2> QED
    BY <2>7, <2>8
<1>5. T = Nat
  <2> HIDE DEF T
  <2>1. T \in SUBSET Nat
    BY DEF T
  <2> QED
    BY <1>3, <1>4, <2>1, Induction
<1>6. Left(f[last], last)
  <2> HIDE DEF Left, last
  <2>1. last \in T
    BY <1>1, <1>5
  <2> QED
    BY <1>1, <2>1
<1>7. out(last) = {g.nodes[j] : j \in gone}
  <2>1. \A x \in gone : x > last - last
    BY <1>1
  <2> QED
    BY <2>1
<1> HIDE DEF out
<1> QED
  BY <1>2, <1>6, <1>7

-----------------------------------------------------------------------------
(* A graph as the files it is made of *)

\* A file's staged graph is that of one of its versions, or none.
Known(name, files) ==
  /\ name \in DOMAIN Projects /\ DOMAIN files = DOMAIN Projects[name]
  /\ \A file \in DOMAIN files :
       files[file] = Gone \/ \E v \in DOMAIN Projects[name][file] : files[file] = Projects[name][file][v]

\* The graph has the nodes of the files and their owners, and nothing else.
Whole(g, name, files) ==
  /\ Sound(g) /\ Known(name, files)
  /\ Elements(g.nodes) = UNION {Elements(files[f].nodes) : f \in DOMAIN files}
  /\ Ownership(g) = UNION {Owned(files[f]) : f \in DOMAIN files}

\* What a file has come to is a staged graph, with identifiers of its own.
LEMMA KnownFiles ==
  ASSUME NEW name, NEW files, Known(name, files), NEW file \in DOMAIN files
  PROVE  /\ IsStaged(files[file], file) /\ Elements(files[file].nodes) \subseteq AnyNode
         /\ \A other \in DOMAIN files : other # file => OwnIdentifiers(files[file], files[other])
<1> DEFINE project_files == Projects[name]
<1>1. /\ name \in DOMAIN Projects /\ DOMAIN files = DOMAIN project_files
      /\ \A f \in DOMAIN files :
           files[f] = Gone \/ \E v \in DOMAIN project_files[f] : files[f] = project_files[f][v]
  BY DEF Known
<1>2. /\ \A f \in DOMAIN project_files : \A v \in DOMAIN project_files[f] :
           /\ IsStaged(project_files[f][v], f)
           /\ \A other \in DOMAIN project_files \ {f} : \A w \in DOMAIN project_files[other] :
                OwnIdentifiers(project_files[f][v], project_files[other][w])
  BY <1>1, StagedGraphs
<1>3. \A f : IsStaged(Gone, f)
  <2> DEFINE none == << >>
  <2>1. Gone.nodes = none /\ Gone.owner = none /\ Len(none) = 0 /\ 1 .. 0 = {}
    BY DEF Gone
  <2>2. none \in Seq(Elements(none)) /\ none \in [{} -> Nat]
    OBVIOUS
  <2> HIDE DEF none
  <2> QED
    BY <2>1, <2>2 DEF IsStaged
<1>4. Elements(Gone.nodes) = {}
  BY DEF Gone, Elements
<1>5. ASSUME NEW v \in DOMAIN project_files[file], files[file] = project_files[file][v]
      PROVE  Elements(files[file].nodes) \subseteq AnyNode
  <2>1. Elements(project_files[file][v].nodes) \in
          {Elements(Projects[name][file][w].nodes) : w \in DOMAIN Projects[name][file]}
    OBVIOUS
  <2>2. Elements(project_files[file][v].nodes) \subseteq
          UNION {Elements(Projects[name][file][w].nodes) : w \in DOMAIN Projects[name][file]}
    BY <2>1, Zenon
  <2>3. UNION {Elements(Projects[name][file][w].nodes) : w \in DOMAIN Projects[name][file]}
          \in {UNION {Elements(Projects[name][f][w].nodes) : w \in DOMAIN Projects[name][f]} :
                 f \in DOMAIN Projects[name]}
    BY <1>1, Zenon
  <2>4. Elements(project_files[file][v].nodes) \subseteq
          UNION {UNION {Elements(Projects[name][f][w].nodes) : w \in DOMAIN Projects[name][f]} :
                 f \in DOMAIN Projects[name]}
    BY <2>2, <2>3, Zenon
  <2> DEFINE some(x) == UNION {UNION {Elements(Projects[x][f][w].nodes) : w \in DOMAIN Projects[x][f]} :
                                 f \in DOMAIN Projects[x]}
  <2>5. some(name) \subseteq AnyNode
    <3>1. AnyNode = UNION {some(x) : x \in DOMAIN Projects}
      BY DEF AnyNode
    <3> HIDE DEF some
    <3> QED
      BY <1>1, <3>1
  <2> QED
    BY <1>5, <2>4, <2>5
<1> HIDE DEF project_files
<1>6. \A other : OwnIdentifiers(Gone, other) /\ OwnIdentifiers(other, Gone)
  BY <1>4 DEF OwnIdentifiers
<1>7. ASSUME NEW other \in DOMAIN files, other # file
      PROVE  OwnIdentifiers(files[file], files[other])
  <2>1. CASE files[file] = Gone \/ files[other] = Gone
    BY <2>1, <1>6
  <2>2. CASE files[file] # Gone /\ files[other] # Gone
    BY <2>2, <1>1, <1>2, <1>7
  <2> QED
    BY <2>1, <2>2
<1>8. CASE files[file] = Gone
  BY <1>3, <1>4, <1>7, <1>8
<1>9. CASE files[file] # Gone
  BY <1>1, <1>2, <1>5, <1>7, <1>9
<1> QED
  BY <1>8, <1>9

\* A staged graph has at most one node of each identifier, all of its file.
LEMMA StagedNodes ==
  ASSUME NEW staged, NEW file, IsStaged(staged, file)
  PROVE  /\ Len(staged.nodes) \in Nat /\ \A node \in Elements(staged.nodes) : node.file = file
         /\ \A k, l \in 1 .. Len(staged.nodes) : staged.nodes[k] = staged.nodes[l] => k = l
         /\ \A k \in 1 .. Len(staged.nodes) :
              /\ staged.nodes[k] \in Elements(staged.nodes)
              /\ (k = 1 <=> staged.nodes[k].type \in {"File", "DataFile"})
              /\ k # 1 => staged.owner[k] \in 1 .. k - 1
         /\ \A p \in Owned(staged) : p[1] \in Elements(staged.nodes) /\ p[2] \in Elements(staged.nodes)
<1> DEFINE n == Len(staged.nodes)
<1>1. n \in Nat
  <2>1. staged.nodes \in Seq(Elements(staged.nodes))
    BY DEF IsStaged
  <2> QED
    BY <2>1
<1>2. \A k \in 1 .. n : /\ staged.nodes[k].file = file
                        /\ (k = 1 <=> staged.nodes[k].type \in {"File", "DataFile"})
                        /\ (k = 1 <=> staged.owner[k] = 0)
                        /\ staged.owner[k] \in Nat /\ staged.owner[k] < k
  BY DEF IsStaged
<1>3. \A k, l \in 1 .. n : staged.nodes[k] = staged.nodes[l] => k = l
  BY DEF IsStaged
<1> HIDE DEF n
<1>4. \A k \in 1 .. n : k # 1 => staged.owner[k] \in 1 .. k - 1
  BY <1>1, <1>2
<1>5. \A k \in 1 .. n : staged.nodes[k] \in Elements(staged.nodes)
  BY DEF Elements, n
<1>6. \A node \in Elements(staged.nodes) : node.file = file
  BY <1>2 DEF Elements, n
<1>7. ASSUME NEW p \in Owned(staged)
      PROVE  p[1] \in Elements(staged.nodes) /\ p[2] \in Elements(staged.nodes)
  <2>1. PICK k \in 1 .. n : staged.owner[k] # 0 /\ p = <<staged.nodes[staged.owner[k]], staged.nodes[k]>>
    BY DEF Owned, n
  <2>2. k # 1 /\ staged.owner[k] \in 1 .. k - 1
    BY <1>2, <1>4, <2>1
  <2>3. staged.owner[k] \in 1 .. n
    BY <1>1, <2>2
  <2> QED
    BY <1>5, <2>1, <2>3
<1> QED
  BY <1>1, <1>2, <1>3, <1>4, <1>5, <1>6, <1>7 DEF n

\* The positions of a file's nodes.
FileOf(g, file) == {i \in Positions(g) : g.nodes[i].file = file}

\* The indexes list them, and the file's own node among them.
LEMMA FileNodesAre ==
  ASSUME NEW g, Sound(g), NEW file
  PROVE  /\ find_nodes_by_file(g, file) = FileOf(g, file)
         /\ find_file_node(g, file) = {i \in FileOf(g, file) : g.nodes[i].type \in {"File", "DataFile"}}
<1>1. g.file_nodes_index = FileIndex(g.nodes)
  BY DEF Sound, Graph
<1>2. Bucket(FileIndex(g.nodes), file) = FileOf(g, file)
  BY DEF Bucket, FileIndex, FileOf, Positions
<1> QED
  BY <1>1, <1>2 DEF find_nodes_by_file, find_file_node

\* Positions and files: every node is that of one place of one file, every place
\* has its node.
LEMMA NodePlaces ==
  ASSUME NEW g, NEW name, NEW files, Whole(g, name, files)
  PROVE  /\ g.nodes \in Seq(AnyNode) /\ Len(g.nodes) \in Nat
         /\ \A i, j \in Positions(g) : g.nodes[i] = g.nodes[j] => i = j
         /\ \A i \in Positions(g) :
              /\ g.nodes[i].file \in DOMAIN files
              /\ \E k \in 1 .. Len(files[g.nodes[i].file].nodes) :
                   g.nodes[i] = files[g.nodes[i].file].nodes[k]
         /\ \A file \in DOMAIN files : \A k \in 1 .. Len(files[file].nodes) :
              \E i \in Positions(g) : g.nodes[i] = files[file].nodes[k]
<1>1. /\ g.nodes \in Seq(AnyNode) /\ Unique(g.nodes)
      /\ Elements(g.nodes) = UNION {Elements(files[f].nodes) : f \in DOMAIN files} /\ Known(name, files)
  BY DEF Whole, Sound
<1>2. Len(g.nodes) \in Nat
  BY <1>1
<1>3. \A i, j \in Positions(g) : g.nodes[i] = g.nodes[j] => i = j
  BY <1>1 DEF Positions, Unique
<1>4. ASSUME NEW i \in Positions(g)
      PROVE  /\ g.nodes[i].file \in DOMAIN files
             /\ \E k \in 1 .. Len(files[g.nodes[i].file].nodes) :
                  g.nodes[i] = files[g.nodes[i].file].nodes[k]
  <2>1. g.nodes[i] \in Elements(g.nodes)
    BY DEF Elements, Positions
  <2>2. PICK f \in DOMAIN files : g.nodes[i] \in Elements(files[f].nodes)
    BY <1>1, <2>1
  <2>3. g.nodes[i].file = f
    BY <1>1, <2>2, KnownFiles, StagedNodes
  <2> QED
    BY <2>2, <2>3 DEF Elements
<1>5. ASSUME NEW file \in DOMAIN files, NEW k \in 1 .. Len(files[file].nodes)
      PROVE  \E i \in Positions(g) : g.nodes[i] = files[file].nodes[k]
  <2>1. files[file].nodes[k] \in Elements(files[file].nodes)
    BY DEF Elements
  <2>2. files[file].nodes[k] \in Elements(g.nodes)
    BY <1>1, <2>1
  <2> QED
    BY <2>2 DEF Elements, Positions
<1> QED
  BY <1>1, <1>2, <1>3, <1>4, <1>5

\* What contains a node is its owner.
LEMMA OwnerPlaces ==
  ASSUME NEW g, NEW name, NEW files, Whole(g, name, files)
  PROVE  \A e \in g.edges :
              /\ e[1] \in Positions(g) /\ e[2] \in Positions(g) /\ e[3] \in EdgeTypes
              /\ e = <<e[1], e[2], e[3]>>
              /\ e[3] = "Contains" =>
                   /\ g.nodes[e[1]].file = g.nodes[e[2]].file
                   /\ \E k \in 2 .. Len(files[g.nodes[e[2]].file].nodes) :
                        /\ g.nodes[e[2]] = files[g.nodes[e[2]].file].nodes[k]
                        /\ g.nodes[e[1]] =
                             files[g.nodes[e[2]].file].nodes[files[g.nodes[e[2]].file].owner[k]]
<1>1. /\ g.edges \subseteq Positions(g) \X Positions(g) \X EdgeTypes
      /\ Ownership(g) = UNION {Owned(files[f]) : f \in DOMAIN files} /\ Known(name, files)
  BY DEF Whole, Sound
<1>2. \A e \in g.edges :
        /\ e[1] \in Positions(g) /\ e[2] \in Positions(g) /\ e[3] \in EdgeTypes
        /\ e = <<e[1], e[2], e[3]>>
  BY <1>1
<1>3. ASSUME NEW e \in g.edges, e[3] = "Contains"
      PROVE  /\ g.nodes[e[1]].file = g.nodes[e[2]].file
             /\ \E k \in 2 .. Len(files[g.nodes[e[2]].file].nodes) :
                  /\ g.nodes[e[2]] = files[g.nodes[e[2]].file].nodes[k]
                  /\ g.nodes[e[1]] =
                       files[g.nodes[e[2]].file].nodes[files[g.nodes[e[2]].file].owner[k]]
  <2>1. <<g.nodes[e[1]], g.nodes[e[2]]>> \in Ownership(g)
    BY <1>3 DEF Ownership
  <2>2. PICK f \in DOMAIN files : <<g.nodes[e[1]], g.nodes[e[2]]>> \in Owned(files[f])
    BY <1>1, <2>1
  <2>3. IsStaged(files[f], f)
    BY <1>1, KnownFiles
  <2>4. PICK k \in 1 .. Len(files[f].nodes) :
          /\ files[f].owner[k] # 0
          /\ <<g.nodes[e[1]], g.nodes[e[2]]>> = <<files[f].nodes[files[f].owner[k]], files[f].nodes[k]>>
    BY <2>2 DEF Owned
  <2>5. g.nodes[e[1]] = files[f].nodes[files[f].owner[k]] /\ g.nodes[e[2]] = files[f].nodes[k]
    BY <2>4
  <2>6. g.nodes[e[1]].file = f /\ g.nodes[e[2]].file = f
    <3>1. \A p \in Owned(files[f]) : p[1] \in Elements(files[f].nodes) /\ p[2] \in Elements(files[f].nodes)
      BY <2>3, StagedNodes
    <3>2. \A node \in Elements(files[f].nodes) : node.file = f
      BY <2>3, StagedNodes
    <3> QED
      BY <2>2, <3>1, <3>2
  <2>7. Len(files[f].nodes) \in Nat /\ k # 1
    BY <2>3, <2>4, StagedNodes DEF IsStaged
  <2>8. k \in 2 .. Len(files[f].nodes)
    BY <2>7
  <2> QED
    BY <2>5, <2>6, <2>8
<1> QED
  BY <1>2, <1>3

\* An owner contains what it owns.
LEMMA OwnersContain ==
  ASSUME NEW g, NEW name, NEW files, Whole(g, name, files), NEW file \in DOMAIN files,
         NEW k \in 2 .. Len(files[file].nodes), NEW i \in Positions(g), NEW j \in Positions(g),
         g.nodes[i] = files[file].nodes[files[file].owner[k]], g.nodes[j] = files[file].nodes[k]
  PROVE  <<i, j, "Contains">> \in g.edges
<1>1. Ownership(g) = UNION {Owned(files[f]) : f \in DOMAIN files} /\ Known(name, files)
  BY DEF Whole
<1>2. IsStaged(files[file], file)
  BY <1>1, KnownFiles
<1>3. Len(files[file].nodes) \in Nat
  BY <1>2, StagedNodes
<1>4. k \in 1 .. Len(files[file].nodes) /\ k # 1
  BY <1>3
<1>5. files[file].owner[k] # 0
  BY <1>2, <1>4 DEF IsStaged
<1>6. <<g.nodes[i], g.nodes[j]>> \in Owned(files[file])
  BY <1>4, <1>5 DEF Owned
<1>7. <<g.nodes[i], g.nodes[j]>> \in Ownership(g)
  BY <1>1, <1>6
<1>8. PICK e \in g.edges : e[3] = "Contains" /\ <<g.nodes[i], g.nodes[j]>> = <<g.nodes[e[1]], g.nodes[e[2]]>>
  BY <1>7 DEF Ownership
<1>9. g.nodes[i] = g.nodes[e[1]] /\ g.nodes[j] = g.nodes[e[2]]
  BY <1>8
<1>10. i = e[1] /\ j = e[2]
  BY OwnerPlaces, <1>9, NodePlaces
<1> QED
  BY OwnerPlaces, <1>8, <1>10

\* A file has no more nodes than the graph.
LEMMA FewerNodes ==
  ASSUME NEW g, NEW name, NEW files, Whole(g, name, files), NEW file \in DOMAIN files
  PROVE  Len(files[file].nodes) \in Nat /\ Len(files[file].nodes) <= Len(g.nodes)
<1> DEFINE n == Len(files[file].nodes)
           m == Len(g.nodes)
           list == files[file].nodes
           at == [k \in 1 .. n |-> CHOOSE i \in 1 .. m : g.nodes[i] = list[k]]
<1>1. IsStaged(files[file], file)
  BY KnownFiles DEF Whole
<1>2. n \in Nat /\ \A k, l \in 1 .. n : list[k] = list[l] => k = l
  BY <1>1, StagedNodes
<1>3. m \in Nat /\ \A k \in 1 .. n : \E i \in 1 .. m : g.nodes[i] = list[k]
  BY NodePlaces DEF Positions
<1> HIDE DEF n, m, list
<1>4. \A k \in 1 .. n : at[k] \in 1 .. m /\ g.nodes[at[k]] = list[k]
  BY <1>3
<1>5. at \in Injection(1 .. n, 1 .. m)
  <2>1. at \in [1 .. n -> 1 .. m]
    BY <1>4
  <2>2. \A k, l \in 1 .. n : at[k] = at[l] => k = l
    BY <1>2, <1>4
  <2> HIDE DEF at
  <2> QED
    BY <2>1, <2>2 DEF Injection, IsInjective
<1>6. /\ IsFiniteSet(1 .. m) /\ Cardinality(1 .. m) = m
      /\ Cardinality(1 .. n) = n
  BY <1>2, <1>3, FS_Interval
<1>7. Cardinality(1 .. n) <= Cardinality(1 .. m)
  BY <1>5, <1>6, FS_Injection
<1> QED
  BY <1>2, <1>6, <1>7 DEF n, m

\* Nodes of a file that are there with their owners are reached from the file's node
\* through such nodes.
LEMMA Rooted ==
  ASSUME NEW g, NEW name, NEW files, Whole(g, name, files), NEW file \in DOMAIN files,
         NEW A, A \subseteq Positions(g),
         \A e \in g.edges : e[3] = "Contains" /\ e[2] \in A /\ g.nodes[e[2]].file = file => e[1] \in A
  PROVE  LET steps == {s \in Steps(g, {"Contains"}) : s[2] \in A}
         IN  A \cap FileOf(g, file) \subseteq Reached(steps, find_file_node(g, file) \cap A)[Len(g.nodes)]
<1> DEFINE steps == {s \in Steps(g, {"Contains"}) : s[2] \in A}
           start == find_file_node(g, file) \cap A
           r == Reached(steps, start)
           staged == files[file]
           n == Len(staged.nodes)
           T == {m \in Nat : \A k \in 1 .. n : \A i \in A :
                               k <= m + 1 /\ g.nodes[i] = staged.nodes[k] => i \in r[m]}
<1>1. IsStaged(staged, file) /\ Sound(g)
  BY KnownFiles DEF Whole
<1>2. /\ n \in Nat /\ \A node \in Elements(staged.nodes) : node.file = file
      /\ \A k \in 1 .. n :
           /\ staged.nodes[k] \in Elements(staged.nodes)
           /\ (k = 1 <=> staged.nodes[k].type \in {"File", "DataFile"})
           /\ k # 1 => staged.owner[k] \in 1 .. k - 1
  BY <1>1, StagedNodes
<1>3. r[0] = start /\ \A m \in Nat : r[m + 1] = Farther(steps, r[m])
  BY ReachedIs
<1> HIDE DEF r, n, staged
<1>4. ASSUME NEW k \in 1 .. n, k # 1, NEW i \in A, g.nodes[i] = staged.nodes[k]
      PROVE  \E j \in A : g.nodes[j] = staged.nodes[staged.owner[k]] /\ <<j, i>> \in steps
  <2>1. staged.owner[k] \in 1 .. n /\ k \in 2 .. n
    BY <1>2, <1>4
  <2>2. PICK j \in Positions(g) : g.nodes[j] = staged.nodes[staged.owner[k]]
    BY <2>1, NodePlaces DEF staged, n
  <2>3. <<j, i, "Contains">> \in g.edges
    <3>1. \A l \in 2 .. n : \A x, y \in Positions(g) :
            g.nodes[x] = staged.nodes[staged.owner[l]] /\ g.nodes[y] = staged.nodes[l]
              => <<x, y, "Contains">> \in g.edges
      BY OwnersContain DEF staged, n
    <3>2. i \in Positions(g)
      OBVIOUS
    <3> QED
      BY <1>4, <2>1, <2>2, <3>1, <3>2, Zenon
  <2>4. g.nodes[i].file = file
    BY <1>2, <1>4
  <2>5. j \in A
    <3> DEFINE e == <<j, i, "Contains">>
    <3>1. e[1] = j /\ e[2] = i /\ e[3] = "Contains"
      OBVIOUS
    <3> HIDE DEF e
    <3> QED
      BY <2>3, <2>4, <3>1 DEF e
  <2>6. <<j, i>> \in Steps(g, {"Contains"})
    BY <2>3 DEF Steps
  <2> QED
    BY <2>2, <2>5, <2>6
<1> HIDE DEF steps, start
<1>5. 0 \in T
  <2> SUFFICES ASSUME NEW k \in 1 .. n, NEW i \in A, k <= 0 + 1, g.nodes[i] = staged.nodes[k]
               PROVE  i \in r[0]
    OBVIOUS
  <2>1. k = 1
    BY <1>2
  <2>2. staged.nodes[k].type \in {"File", "DataFile"} /\ g.nodes[i].file = file
    BY <1>2, <2>1
  <2> QED
    BY <1>1, <1>3, <2>2, FileNodesAre DEF FileOf, start
<1>6. ASSUME NEW m \in T
      PROVE  m + 1 \in T
  <2> SUFFICES ASSUME NEW k \in 1 .. n, NEW i \in A, k <= (m + 1) + 1, g.nodes[i] = staged.nodes[k]
               PROVE  i \in r[m + 1]
    OBVIOUS
  <2>1. m \in Nat /\ \A l \in 1 .. n : \A j \in A :
                       l <= m + 1 /\ g.nodes[j] = staged.nodes[l] => j \in r[m]
    OBVIOUS
  <2> HIDE DEF T
  <2>2. r[m + 1] = Farther(steps, r[m])
    BY <1>3, <2>1
  <2>3. CASE k = 1
    <3>1. i \in r[m]
      BY <2>1, <2>3
    <3> QED
      BY <2>2, <3>1 DEF Farther
  <2>4. CASE k # 1
    <3>1. PICK j \in A : g.nodes[j] = staged.nodes[staged.owner[k]] /\ <<j, i>> \in steps
      BY <1>4, <2>4
    <3>2. staged.owner[k] \in 1 .. k - 1
      BY <1>2, <2>4
    <3>3. staged.owner[k] \in 1 .. n /\ staged.owner[k] <= m + 1
      BY <1>2, <2>1, <3>2
    <3>4. j \in r[m]
      BY <2>1, <3>1, <3>3
    <3> QED
      BY <2>2, <3>1, <3>4 DEF Farther
  <2> QED
    BY <2>3, <2>4
<1>7. n \in T
  <2> HIDE DEF T
  <2>1. T \in SUBSET Nat
    BY DEF T
  <2> QED
    BY <1>2, <1>5, <1>6, <2>1, Induction
<1>8. r[n] \subseteq r[Len(g.nodes)]
  BY FewerNodes, NodePlaces, ReachedGrows DEF r, n, staged
<1>9. ASSUME NEW i \in A \cap FileOf(g, file)
      PROVE  i \in r[n]
  <2>1. PICK k \in 1 .. n : g.nodes[i] = staged.nodes[k]
    BY NodePlaces DEF FileOf, n, staged
  <2>2. k <= n + 1
    BY <1>2
  <2> QED
    BY <1>7, <2>1, <2>2
<1> QED
  BY <1>8, <1>9 DEF r, start, steps

\* What a file's node contains, directly or not, is the file's nodes.
LEMMA FileDescendants ==
  ASSUME NEW g, NEW name, NEW files, Whole(g, name, files), NEW file \in DOMAIN files
  PROVE  Descendants(g, find_file_node(g, file)) = FileOf(g, file)
<1> DEFINE steps == Steps(g, {"Contains"})
           start == find_file_node(g, file)
           V == FileOf(g, file)
           A == Positions(g)
<1>1. V \subseteq A /\ start \subseteq V
  BY FileNodesAre DEF FileOf, Whole
<1>2. \A s \in steps : s[1] \in A /\ s[2] \in A /\ (s[1] \in V => s[2] \in V)
  <2> SUFFICES ASSUME NEW s \in steps
               PROVE  s[1] \in A /\ s[2] \in A /\ (s[1] \in V => s[2] \in V)
    OBVIOUS
  <2>1. PICK e \in g.edges : e[3] = "Contains" /\ s = <<e[1], e[2]>>
    BY DEF Steps
  <2>2. e[1] \in A /\ e[2] \in A /\ g.nodes[e[1]].file = g.nodes[e[2]].file
    BY <2>1, OwnerPlaces
  <2>3. s[1] = e[1] /\ s[2] = e[2]
    BY <2>1
  <2> QED
    BY <2>2, <2>3 DEF FileOf
<1> HIDE DEF steps, start, V
<1>3. Len(g.nodes) \in Nat
  BY NodePlaces
<1>4. Reached(steps, start)[Len(g.nodes)] \subseteq V
  BY <1>1, <1>2, <1>3, ReachedStays
<1>5. V \subseteq Reached(steps, start)[Len(g.nodes)]
  <2>1. {s \in steps : s[2] \in A} = steps /\ start \cap A = start /\ A \cap V = V
    BY <1>1, <1>2
  <2>2. \A e \in g.edges : e[1] \in A
    BY OwnerPlaces
  <2>3. A \cap V \subseteq Reached({s \in steps : s[2] \in A}, start \cap A)[Len(g.nodes)]
    BY <2>2, Rooted DEF steps, start, V
  <2> QED
    BY <2>1, <2>3
<1> QED
  BY <1>4, <1>5 DEF Descendants, steps, start, V

\* The removal of a file leaves the nodes of the others.
LEMMA FileTaken ==
  ASSUME NEW g, NEW name, NEW files, Whole(g, name, files), NEW file \in DOMAIN files
  PROVE  Whole(remove_file_nodes(g, file), name, [files EXCEPT ![file] = Gone])
<1> DEFINE r == remove_file_nodes(g, file)
           rest == [files EXCEPT ![file] = Gone]
           out == {g.nodes[j] : j \in FileOf(g, file)}
<1>1. /\ Sound(g) /\ Known(name, files)
      /\ Elements(g.nodes) = UNION {Elements(files[f].nodes) : f \in DOMAIN files}
      /\ Ownership(g) = UNION {Owned(files[f]) : f \in DOMAIN files}
  BY DEF Whole
<1>2. r = remove_nodes(g, FileOf(g, file))
  BY FileDescendants DEF remove_file_nodes
<1>3. /\ Sound(r) /\ Elements(r.nodes) = Elements(g.nodes) \ out
      /\ Ownership(r) = {p \in Ownership(g) : p[1] \notin out /\ p[2] \notin out}
  <2>1. FileOf(g, file) \subseteq Positions(g)
    BY DEF FileOf
  <2> HIDE DEF r
  <2> QED
    BY <1>1, <1>2, <2>1, NodesRemoved
<1>4. /\ DOMAIN rest = DOMAIN files /\ rest[file] = Gone
      /\ \A f \in DOMAIN files : f # file => rest[f] = files[f]
  OBVIOUS
<1> HIDE DEF r, rest
<1>5. Known(name, rest)
  BY <1>1, <1>4 DEF Known
<1>6. \A f \in DOMAIN files : \A node \in Elements(files[f].nodes) : node.file = f
  BY <1>1, KnownFiles, StagedNodes
<1>7. \A f \in DOMAIN files : \A p \in Owned(files[f]) :
        p[1] \in Elements(files[f].nodes) /\ p[2] \in Elements(files[f].nodes)
  BY <1>1, KnownFiles, StagedNodes
<1>8. \A node \in Elements(g.nodes) : node \in out <=> node.file = file
  BY DEF FileOf, Positions, Elements
<1>9. Elements(Gone.nodes) = {} /\ Owned(Gone) = {}
  BY DEF Gone, Elements, Owned
<1> HIDE DEF out
<1>10. Elements(r.nodes) = UNION {Elements(rest[f].nodes) : f \in DOMAIN rest}
  <2>1. ASSUME NEW node \in Elements(r.nodes)
        PROVE  \E f \in DOMAIN rest : node \in Elements(rest[f].nodes)
    <3>1. node \in Elements(g.nodes) /\ node.file # file
      BY <1>3, <1>8, <2>1
    <3>2. PICK f \in DOMAIN files : node \in Elements(files[f].nodes)
      BY <1>1, <3>1
    <3> QED
      BY <1>4, <1>6, <3>1, <3>2
  <2>2. ASSUME NEW f \in DOMAIN rest, NEW node \in Elements(rest[f].nodes)
        PROVE  node \in Elements(r.nodes)
    <3>1. f # file /\ node \in Elements(files[f].nodes) /\ f \in DOMAIN files
      BY <1>4, <1>9, <2>2
    <3>2. node \in Elements(g.nodes) /\ node.file # file
      BY <1>1, <1>6, <3>1
    <3> QED
      BY <1>3, <1>8, <3>2
  <2> QED
    BY <2>1, <2>2
<1>11. Ownership(r) = UNION {Owned(rest[f]) : f \in DOMAIN rest}
  <2>1. ASSUME NEW p \in Ownership(r)
        PROVE  \E f \in DOMAIN rest : p \in Owned(rest[f])
    <3>1. p \in Ownership(g) /\ p[1] \notin out
      BY <1>3, <2>1
    <3>2. PICK f \in DOMAIN files : p \in Owned(files[f])
      BY <1>1, <3>1
    <3>3. p[1] \in Elements(files[f].nodes)
      BY <1>7, <3>2
    <3>4. p[1].file = f /\ p[1] \in Elements(g.nodes)
      BY <1>1, <1>6, <3>3
    <3>5. f # file
      BY <1>8, <3>1, <3>4
    <3> QED
      BY <1>4, <3>2, <3>5
  <2>2. ASSUME NEW f \in DOMAIN rest, NEW p \in Owned(rest[f])
        PROVE  p \in Ownership(r)
    <3>1. f # file /\ p \in Owned(files[f]) /\ f \in DOMAIN files
      BY <1>4, <1>9, <2>2
    <3>2. p \in Ownership(g)
      BY <1>1, <3>1
    <3>3. p[1] \in Elements(files[f].nodes) /\ p[2] \in Elements(files[f].nodes)
      BY <1>7, <3>1
    <3>4. p[1].file # file /\ p[2].file # file /\ p[1] \in Elements(g.nodes) /\ p[2] \in Elements(g.nodes)
      BY <1>1, <1>6, <3>1, <3>3
    <3>5. p[1] \notin out /\ p[2] \notin out
      BY <1>8, <3>4
    <3> QED
      BY <1>3, <3>2, <3>5
  <2> QED
    BY <2>1, <2>2
<1> QED
  BY <1>3, <1>5, <1>10, <1>11 DEF Whole, r, rest

\* The staged graph of a file that is gone adds its nodes to those of the others.
LEMMA FileGiven ==
  ASSUME NEW g, NEW name, NEW files, Whole(g, name, files), NEW file \in DOMAIN files,
         files[file] = Gone, NEW v \in DOMAIN Projects[name][file]
  PROVE  LET staged == Projects[name][file][v]
         IN  Whole(append_graph(g, staged), name, [files EXCEPT ![file] = staged])
<1> DEFINE staged == Projects[name][file][v]
           a == append_graph(g, staged)
           more == [files EXCEPT ![file] = staged]
<1>1. /\ Sound(g) /\ Known(name, files)
      /\ Elements(g.nodes) = UNION {Elements(files[f].nodes) : f \in DOMAIN files}
      /\ Ownership(g) = UNION {Owned(files[f]) : f \in DOMAIN files}
  BY DEF Whole
<1>2. /\ DOMAIN more = DOMAIN files /\ more[file] = staged
      /\ \A f \in DOMAIN files : f # file => more[f] = files[f]
  OBVIOUS
<1>3. \E w \in DOMAIN Projects[name][file] : staged = Projects[name][file][w]
  OBVIOUS
<1> HIDE DEF a, more, staged
<1>4. Known(name, more)
  BY <1>1, <1>2, <1>3 DEF Known
<1>5. /\ IsStaged(staged, file) /\ Elements(staged.nodes) \subseteq AnyNode
      /\ \A f \in DOMAIN files : f # file => OwnIdentifiers(staged, files[f])
  <2>1. /\ IsStaged(more[file], file) /\ Elements(more[file].nodes) \subseteq AnyNode
        /\ \A f \in DOMAIN more : f # file => OwnIdentifiers(more[file], more[f])
    BY <1>2, <1>4, KnownFiles
  <2> QED
    BY <1>2, <2>1
<1>6. Elements(Gone.nodes) = {} /\ Owned(Gone) = {}
  BY DEF Gone, Elements, Owned
<1>7. Ids(g.nodes) \cap Ids(staged.nodes) = {}
  <2> SUFFICES ASSUME NEW id \in Ids(g.nodes), id \in Ids(staged.nodes)
               PROVE  FALSE
    OBVIOUS
  <2>1. PICK one \in Elements(g.nodes) : one.id = id
    BY DEF Ids, Elements
  <2>2. PICK two \in Elements(staged.nodes) : two.id = id
    BY DEF Ids, Elements
  <2>3. PICK f \in DOMAIN files : one \in Elements(files[f].nodes)
    BY <1>1, <2>1
  <2>4. f # file
    BY <1>6, <2>3
  <2> QED
    BY <1>5, <2>1, <2>2, <2>3, <2>4 DEF OwnIdentifiers
<1>8. /\ Sound(a) /\ Elements(a.nodes) = Elements(g.nodes) \cup Elements(staged.nodes)
      /\ Ownership(a) = Ownership(g) \cup Owned(staged)
  BY <1>1, <1>5, <1>7, FileAppended DEF a
<1>9. Elements(a.nodes) = UNION {Elements(more[f].nodes) : f \in DOMAIN more}
  <2>1. \A f \in DOMAIN files : f # file => Elements(more[f].nodes) = Elements(files[f].nodes)
    BY <1>2
  <2> QED
    BY <1>1, <1>2, <1>6, <1>8, <2>1
<1>10. Ownership(a) = UNION {Owned(more[f]) : f \in DOMAIN more}
  <2>1. \A f \in DOMAIN files : f # file => Owned(more[f]) = Owned(files[f])
    BY <1>2
  <2> QED
    BY <1>1, <1>2, <1>6, <1>8, <2>1
<1> QED
  BY <1>4, <1>8, <1>9, <1>10 DEF Whole, a, more, staged

\* The two together replace a file.
LEMMA FileReplaced ==
  ASSUME NEW g, NEW name, NEW files, Whole(g, name, files), NEW file \in DOMAIN files,
         NEW v \in DOMAIN Projects[name][file]
  PROVE  LET staged == Projects[name][file][v]
         IN  Whole(append_graph(remove_file_nodes(g, file), staged), name, [files EXCEPT ![file] = staged])
<1> DEFINE staged == Projects[name][file][v]
           rest == [files EXCEPT ![file] = Gone]
           r == remove_file_nodes(g, file)
<1>1. Whole(r, name, rest) /\ file \in DOMAIN rest /\ rest[file] = Gone
  BY FileTaken
<1> HIDE DEF r, rest
<1>2. Whole(append_graph(r, staged), name, [rest EXCEPT ![file] = staged])
  BY <1>1, FileGiven
<1>3. [rest EXCEPT ![file] = staged] = [files EXCEPT ![file] = staged]
  BY DEF rest
<1> QED
  BY <1>2, <1>3 DEF r

\* An order of finitely many files has each of them once.
LEMMA OrdersAre ==
  ASSUME NEW files, IsFiniteSet(files), NEW order \in Orders(files)
  PROVE  /\ Len(order) \in Nat /\ \A k \in 1 .. Len(order) : order[k] \in files
         /\ \A file \in files : \E k \in 1 .. Len(order) : order[k] = file
         /\ \A k, l \in 1 .. Len(order) : order[k] = order[l] => k = l
<1> DEFINE n == Cardinality(files)
<1>1. n \in Nat
  BY FS_CardinalityType
<1>2. /\ order \in [1 .. n -> files]
      /\ \A file \in files : \E k \in 1 .. n : order[k] = file
  BY DEF Orders
<1> HIDE DEF n
<1>3. Len(order) = n
  BY <1>1, <1>2
<1>4. order \in Surjection(1 .. n, files)
  BY <1>2 DEF Surjection
<1>5. IsFiniteSet(1 .. n) /\ Cardinality(1 .. n) = n
  BY <1>1, FS_Interval
<1>6. order \in Injection(1 .. n, files)
  BY <1>4, <1>5, FS_SurjSameCardinalityImpliesInj DEF n
<1>7. \A k, l \in 1 .. n : order[k] = order[l] => k = l
  BY <1>6 DEF Injection, IsInjective
<1> QED
  BY <1>1, <1>2, <1>3, <1>7

\* The first k files of an order are replaced, the others are as they were.
Replaced(files, order, staged, k) ==
  [f \in DOMAIN files |-> IF \E l \in 1 .. k : order[l] = f THEN staged[f] ELSE files[f]]

\* One file more is replaced.
LEMMA ReplacedNext ==
  ASSUME NEW files, NEW order, NEW staged, NEW k \in Nat,
         NEW file \in DOMAIN files, order[k + 1] = file
  PROVE  /\ Replaced(files, order, staged, k + 1)
              = [Replaced(files, order, staged, k) EXCEPT ![file] = staged[file]]
         /\ DOMAIN Replaced(files, order, staged, k) = DOMAIN files
<1>1. \A f : (\E l \in 1 .. k + 1 : order[l] = f) <=> ((\E l \in 1 .. k : order[l] = f) \/ file = f)
  <2>1. \A l \in 1 .. k + 1 : l \in 1 .. k \/ l = k + 1
    OBVIOUS
  <2>2. \A l \in 1 .. k : l \in 1 .. k + 1
    OBVIOUS
  <2>3. k + 1 \in 1 .. k + 1
    OBVIOUS
  <2> QED
    BY <2>1, <2>2, <2>3
<1> QED
  BY <1>1 DEF Replaced

\* In the end all files of the order are.
LEMMA ReplacedAll ==
  ASSUME NEW files, NEW changed, IsFiniteSet(changed), NEW order \in Orders(changed), NEW staged
  PROVE  Replaced(files, order, staged, Len(order))
           = [f \in DOMAIN files |-> IF f \in changed THEN staged[f] ELSE files[f]]
<1>1. \A f : (\E l \in 1 .. Len(order) : order[l] = f) <=> f \in changed
  BY OrdersAre
<1> QED
  BY <1>1 DEF Replaced

\* Files replaced one by one are replaced, in any order.
LEMMA SwappedFiles ==
  ASSUME NEW g, NEW name, NEW files, Whole(g, name, files), files = [f \in DOMAIN files |-> files[f]],
         NEW changed, changed \subseteq DOMAIN files, NEW order \in Orders(changed),
         NEW staged, \A f \in changed : \E v \in DOMAIN Projects[name][f] : staged[f] = Projects[name][f][v]
  PROVE  Whole(Swapped(g, order, staged)[Len(order)], name,
               [f \in DOMAIN files |-> IF f \in changed THEN staged[f] ELSE files[f]])
<1> DEFINE n == Len(order)
           now(k) == Replaced(files, order, staged, k)
<1>1. IsFiniteSet(changed)
  <2>1. Known(name, files)
    BY DEF Whole
  <2>2. IsFiniteSet(DOMAIN files)
    BY <2>1, StagedGraphs DEF Known
  <2> QED
    BY <2>2, FS_Subset
<1>2. n \in Nat /\ \A k \in 1 .. n : order[k] \in changed
  BY <1>1, OrdersAre
<1>3. PICK r : Swaps(r, g, order, staged, n) /\ Swapped(g, order, staged) = r
  BY <1>2, SwappedIs
<1> DEFINE T == {k \in Nat : k <= n => Whole(r[k], name, now(k))}
<1>4. 0 \in T
  <2>1. now(0) = files
    BY DEF Replaced
  <2> HIDE DEF now
  <2> QED
    BY <1>3, <2>1 DEF Swaps
<1>5. ASSUME NEW k \in T
      PROVE  k + 1 \in T
  <2> SUFFICES ASSUME k + 1 <= n
               PROVE  Whole(r[k + 1], name, now(k + 1))
    OBVIOUS
  <2> HIDE DEF now, n
  <2>1. k \in Nat /\ (k <= n => Whole(r[k], name, now(k)))
    OBVIOUS
  <2> HIDE DEF T
  <2>2. Whole(r[k], name, now(k)) /\ k + 1 \in 1 .. n /\ (k + 1) - 1 = k
    BY <1>2, <2>1
  <2> DEFINE file == order[k + 1]
  <2>3. r[k + 1] = append_graph(remove_file_nodes(r[k], file), staged[file])
    BY <1>3, <2>2 DEF Swaps
  <2>4. file \in changed
    BY <1>2, <2>2
  <2>5. PICK v \in DOMAIN Projects[name][file] : staged[file] = Projects[name][file][v]
    BY <2>4
  <2>6. /\ DOMAIN now(k) = DOMAIN files
        /\ now(k + 1) = [now(k) EXCEPT ![file] = staged[file]]
    <3>1. k \in Nat /\ order[k + 1] = file
      BY <2>1
    <3> HIDE DEF file
    <3> QED
      BY <2>4, <3>1, ReplacedNext DEF now
  <2>7. file \in DOMAIN now(k)
    BY <2>4, <2>6
  <2> HIDE DEF file
  <2>8. Whole(append_graph(remove_file_nodes(r[k], file), Projects[name][file][v]), name,
              [now(k) EXCEPT ![file] = Projects[name][file][v]])
    BY <2>2, <2>7, FileReplaced
  <2> QED
    BY <2>3, <2>5, <2>6, <2>8
<1>6. T = Nat
  <2> HIDE DEF T
  <2>1. T \in SUBSET Nat
    BY DEF T
  <2> QED
    BY <1>4, <1>5, <2>1, Induction
<1>7. Whole(r[n], name, now(n))
  <2> HIDE DEF now, n
  <2> QED
    BY <1>2, <1>6
<1> QED
  BY <1>1, <1>3, <1>7, ReplacedAll

\* Files put together one by one are all there, in any order.
LEMMA AssembledFiles ==
  ASSUME NEW name \in DOMAIN Projects, NEW order \in Orders(DOMAIN Projects[name]),
         NEW staged, staged = [f \in DOMAIN Projects[name] |-> staged[f]],
         \A f \in DOMAIN staged : \E v \in DOMAIN Projects[name][f] : staged[f] = Projects[name][f][v]
  PROVE  Whole(Assembled(order, staged)[Len(order)], name, staged)
<1> DEFINE n == Len(order)
           D == DOMAIN Projects[name]
           none == [f \in D |-> Gone]
           now(k) == Replaced(none, order, staged, k)
<1>1. IsFiniteSet(D) /\ DOMAIN staged = D
  BY StagedGraphs
<1>2. /\ n \in Nat /\ \A k \in 1 .. n : order[k] \in D
      /\ \A k, l \in 1 .. n : order[k] = order[l] => k = l
  BY <1>1, OrdersAre
<1>3. PICK r : Assembles(r, order, staged, n) /\ Assembled(order, staged) = r
  BY <1>2, AssembledIs
<1> DEFINE T == {k \in Nat : k <= n => Whole(r[k], name, now(k))}
<1>4. 0 \in T
  <2>1. now(0) = none
    BY DEF Replaced
  <2>2. Whole(EmptyGraph, name, none)
    <3>1. EmptyGraph.nodes = << >> /\ EmptyGraph.edges = {}
      BY DEF EmptyGraph
    <3>2. EmptyGraph = Graph(<< >>, {})
      <4>1. 1 .. Len(<< >>) = {}
        OBVIOUS
      <4>2. IdIndex(<< >>) = EmptyIndex /\ NameIndex(<< >>) = EmptyIndex /\ FileIndex(<< >>) = EmptyIndex
        BY <4>1 DEF EmptyIndex, IdIndex, NameIndex, FileIndex
      <4> QED
        BY <4>2 DEF EmptyGraph, Graph
    <3>3. Sound(EmptyGraph)
      BY <3>1, <3>2 DEF Sound, Unique
    <3>4. Elements(EmptyGraph.nodes) = {} /\ Ownership(EmptyGraph) = {}
      BY <3>1 DEF Elements, Ownership
    <3>5. Elements(Gone.nodes) = {} /\ Owned(Gone) = {}
      BY DEF Gone, Elements, Owned
    <3>6. DOMAIN none = D /\ \A f \in D : none[f] = Gone
      OBVIOUS
    <3> HIDE DEF none
    <3>7. Known(name, none)
      BY <3>6 DEF Known
    <3>8. /\ UNION {Elements(none[f].nodes) : f \in DOMAIN none} = {}
          /\ UNION {Owned(none[f]) : f \in DOMAIN none} = {}
      BY <3>5, <3>6
    <3> QED
      BY <3>3, <3>4, <3>7, <3>8 DEF Whole
  <2> HIDE DEF now, none
  <2> QED
    BY <1>3, <2>1, <2>2 DEF Assembles
<1>5. ASSUME NEW k \in T
      PROVE  k + 1 \in T
  <2> SUFFICES ASSUME k + 1 <= n
               PROVE  Whole(r[k + 1], name, now(k + 1))
    OBVIOUS
  <2> HIDE DEF now, n
  <2>1. k \in Nat /\ (k <= n => Whole(r[k], name, now(k)))
    OBVIOUS
  <2> HIDE DEF T
  <2>2. Whole(r[k], name, now(k)) /\ k + 1 \in 1 .. n /\ (k + 1) - 1 = k
    BY <1>2, <2>1
  <2> DEFINE file == order[k + 1]
  <2>3. r[k + 1] = append_graph(r[k], staged[file])
    BY <1>3, <2>2 DEF Assembles
  <2>4. file \in D /\ DOMAIN none = D
    BY <1>2, <2>2
  <2>5. PICK v \in DOMAIN Projects[name][file] : staged[file] = Projects[name][file][v]
    BY <1>1, <2>4
  <2>6. /\ DOMAIN now(k) = D
        /\ now(k + 1) = [now(k) EXCEPT ![file] = staged[file]]
    <3>1. k \in Nat /\ order[k + 1] = file
      BY <2>1
    <3> HIDE DEF file
    <3> QED
      BY <2>4, <3>1, ReplacedNext DEF now
  <2>7. now(k)[file] = Gone
    <3>1. \A l \in 1 .. k : l \in 1 .. n /\ l # k + 1
      BY <1>2, <2>1, <2>2
    <3>2. ~ \E l \in 1 .. k : order[l] = file
      BY <1>2, <2>2, <3>1
    <3>3. none[file] = Gone
      BY <2>4
    <3> QED
      BY <2>4, <3>2, <3>3 DEF now, Replaced
  <2> HIDE DEF file
  <2>8. Whole(append_graph(r[k], Projects[name][file][v]), name,
              [now(k) EXCEPT ![file] = Projects[name][file][v]])
    <3>1. file \in DOMAIN now(k)
      BY <2>4, <2>6
    <3> QED
      BY <2>2, <2>7, <3>1, FileGiven
  <2> QED
    BY <2>3, <2>5, <2>6, <2>8
<1>6. T = Nat
  <2> HIDE DEF T
  <2>1. T \in SUBSET Nat
    BY DEF T
  <2> QED
    BY <1>4, <1>5, <2>1, Induction
<1>7. Whole(r[n], name, now(n))
  <2> HIDE DEF now, n
  <2> QED
    BY <1>2, <1>6
<1>8. now(n) = staged
  <2>1. now(n) = [f \in D |-> IF f \in D THEN staged[f] ELSE none[f]]
    BY <1>1, ReplacedAll
  <2> HIDE DEF now, none
  <2>2. now(n) = [f \in D |-> staged[f]]
    BY <2>1
  <2> QED
    BY <2>2
<1> QED
  BY <1>3, <1>7, <1>8

-----------------------------------------------------------------------------
(* SwapSpec: the graph has the nodes of the files' current contents *)

\* References between its nodes change neither the nodes of a graph nor their owners.
LEMMA Referred ==
  ASSUME NEW bare, NEW name, NEW files, Whole(bare, name, files), NEW g, Refers(g, bare)
  PROVE  Whole(g, name, files)
<1> DEFINE nodes == bare.nodes
           edges == g.edges
<1>1. /\ Sound(bare) /\ nodes \in Seq(AnyNode) /\ Unique(nodes) /\ bare = Graph(nodes, bare.edges)
      /\ bare.edges \subseteq Positions(bare) \X Positions(bare) \X EdgeTypes
  BY DEF Whole, Sound
<1>2. g = Graph(nodes, edges)
  <2>1. g = [bare EXCEPT !.edges = edges]
    BY DEF Refers
  <2> HIDE DEF nodes, edges
  <2> QED
    BY <1>1, <2>1 DEF Graph
<1>3. g.nodes = nodes
  <2> HIDE DEF nodes, edges
  <2> QED
    BY <1>2 DEF Graph
<1>4. Contained(g) = Contained(bare) /\ Positions(g) = Positions(bare)
  BY <1>3 DEF Refers, Positions
<1>5. edges \subseteq Positions(g) \X Positions(g) \X EdgeTypes
  <2> SUFFICES ASSUME NEW e \in edges
               PROVE  e \in Positions(g) \X Positions(g) \X EdgeTypes
    OBVIOUS
  <2>1. CASE e \in Contained(g)
    <3>1. e \in bare.edges
      BY <1>4, <2>1 DEF Contained
    <3> QED
      BY <1>1, <1>4, <3>1
  <2>2. CASE e \notin Contained(g)
    <3>1. e \in Positions(g) \X Positions(g) \X ReferenceEdges
      BY <2>2 DEF Refers
    <3> QED
      BY <3>1 DEF EdgeTypes
  <2> QED
    BY <2>1, <2>2
<1>6. Sound(g)
  BY <1>1, <1>2, <1>3, <1>5 DEF Sound
<1>7. Ownership(g) = Ownership(bare)
  <2>1. Ownership(g) = {<<nodes[e[1]], nodes[e[2]]>> : e \in Contained(g)}
    BY <1>3 DEF Ownership, Contained
  <2>2. Ownership(bare) = {<<nodes[e[1]], nodes[e[2]]>> : e \in Contained(bare)}
    BY DEF Ownership, Contained
  <2> QED
    BY <1>4, <2>1, <2>2
<1> QED
  BY <1>3, <1>6, <1>7 DEF Whole

SwapInv ==
  /\ project \in DOMAIN Projects
  /\ contents \in Versions(DOMAIN Projects[project])
  /\ Whole(code, project, ParsedFiles(contents))

\* A full index puts the files together.
LEMMA SwapInvInit == SwapInit => SwapInv
<1> SUFFICES ASSUME SwapInit PROVE SwapInv
  OBVIOUS
<1> DEFINE D == DOMAIN Projects[project]
           staged == ParsedFiles(contents)
<1>1. project \in DOMAIN Projects /\ contents \in Versions(D)
  BY DEF SwapInit
<1>2. DOMAIN contents = D /\ \A f \in D : contents[f] \in DOMAIN Projects[project][f]
  BY <1>1 DEF Versions
<1>3. PICK order \in Orders(D) : Refers(code, Assembled(order, staged)[Len(order)])
  BY <1>2 DEF SwapInit
<1>4. staged = [f \in D |-> Projects[project][f][contents[f]]]
  BY <1>2 DEF ParsedFiles, Parsed
<1> HIDE DEF staged
<1>5. /\ DOMAIN staged = D /\ staged = [f \in D |-> staged[f]]
      /\ \A f \in D : \E v \in DOMAIN Projects[project][f] : staged[f] = Projects[project][f][v]
  BY <1>2, <1>4
<1>6. Whole(Assembled(order, staged)[Len(order)], project, staged)
  BY <1>1, <1>5, AssembledFiles
<1>7. Whole(code, project, staged)
  BY <1>3, <1>6, Referred
<1> QED
  BY <1>1, <1>7 DEF SwapInv, staged

\* An update replaces the files that changed.
LEMMA SwapInvStep == SwapInv /\ [Swap]_fileVars => SwapInv'
<1> SUFFICES ASSUME SwapInv, [Swap]_fileVars PROVE SwapInv'
  OBVIOUS
<1>1. CASE UNCHANGED fileVars
  BY <1>1 DEF SwapInv, fileVars, Versions, ParsedFiles, Parsed
<1>2. CASE Swap
  <2> DEFINE D == DOMAIN Projects[project]
             old == ParsedFiles(contents)
  <2>1. project \in DOMAIN Projects /\ contents \in Versions(D) /\ Whole(code, project, old)
    BY DEF SwapInv
  <2>2. /\ contents = [f \in D |-> contents[f]]
        /\ \A f \in D : contents[f] \in 1 .. MaxVersions /\ contents[f] \in DOMAIN Projects[project][f]
    BY <2>1 DEF Versions
  <2>3. DOMAIN contents = D /\ project' = project
    BY <1>2, <2>2 DEF Swap
  <2>4. PICK changed \in SUBSET D : \E staged \in Versions(changed) :
          /\ Change(staged)
          /\ \E order \in Orders(changed) :
               Refers(code', Swapped(code, order, ParsedFiles(staged))[Len(order)])
    BY <1>2, <2>3 DEF Swap
  <2>5. PICK staged \in Versions(changed) :
          /\ Change(staged)
          /\ \E order \in Orders(changed) :
               Refers(code', Swapped(code, order, ParsedFiles(staged))[Len(order)])
    BY <2>4
  <2> DEFINE new == ParsedFiles(staged)
  <2>6. PICK order \in Orders(changed) : Refers(code', Swapped(code, order, new)[Len(order)])
    BY <2>5
  <2>7. /\ DOMAIN staged = changed
        /\ \A f \in changed : staged[f] \in 1 .. MaxVersions /\ staged[f] \in DOMAIN Projects[project][f]
    BY DEF Versions
  <2>8. contents' = [f \in D |-> IF f \in changed THEN staged[f] ELSE contents[f]]
    BY <2>3, <2>5, <2>7 DEF Change
  <2>9. contents' \in Versions(D)'
    <3>1. contents' \in [D -> 1 .. MaxVersions]
      BY <2>2, <2>7, <2>8
    <3>2. \A f \in D : contents'[f] \in DOMAIN Projects[project][f]
      BY <2>2, <2>7, <2>8
    <3> QED
      BY <2>3, <3>1, <3>2 DEF Versions
  <2>10. old = [f \in D |-> Projects[project][f][contents[f]]]
    BY <2>3 DEF ParsedFiles, Parsed
  <2>11. new = [f \in changed |-> Projects[project][f][staged[f]]]
    BY <2>7 DEF ParsedFiles, Parsed
  <2>12. ParsedFiles(contents)' = [f \in D |-> Projects[project][f][contents'[f]]]
    <3>1. DOMAIN contents' = D
      BY <2>8
    <3> QED
      BY <2>3, <3>1 DEF ParsedFiles, Parsed
  <2> HIDE DEF old, new
  <2>13. /\ DOMAIN old = D /\ old = [f \in DOMAIN old |-> old[f]]
         /\ \A f \in changed : \E v \in DOMAIN Projects[project][f] : new[f] = Projects[project][f][v]
    BY <2>7, <2>10, <2>11
  <2>14. ParsedFiles(contents)' = [f \in DOMAIN old |-> IF f \in changed THEN new[f] ELSE old[f]]
    BY <2>8, <2>10, <2>11, <2>12, <2>13
  <2>15. Whole(Swapped(code, order, new)[Len(order)], project,
               [f \in DOMAIN old |-> IF f \in changed THEN new[f] ELSE old[f]])
    BY <2>1, <2>13, SwappedFiles
  <2>16. Whole(code', project, ParsedFiles(contents)')
    BY <2>6, <2>14, <2>15, Referred
  <2> QED
    BY <2>1, <2>3, <2>9, <2>16 DEF SwapInv
<1> QED
  BY <1>1, <1>2

\* What the invariant says of the files.
LEMMA SwapInvWhole == SwapInv => FilesAreWhole
<1> SUFFICES ASSUME SwapInv PROVE FilesAreWhole
  OBVIOUS
<1> DEFINE staged == ParsedFiles(contents)
<1>1. /\ Sound(code)
      /\ Elements(code.nodes) = UNION {Elements(staged[f].nodes) : f \in DOMAIN staged}
      /\ Ownership(code) = UNION {Owned(staged[f]) : f \in DOMAIN staged}
  BY DEF SwapInv, Whole
<1>2. DOMAIN staged = DOMAIN contents /\ \A f \in DOMAIN contents : staged[f] = Parsed(f, contents[f])
  BY DEF ParsedFiles
<1> HIDE DEF staged
<1>3. /\ Elements(code.nodes) = UNION {Elements(Parsed(f, contents[f]).nodes) : f \in DOMAIN contents}
      /\ Ownership(code) = UNION {Owned(Parsed(f, contents[f])) : f \in DOMAIN contents}
  BY <1>1, <1>2
<1>4. UniqueIds(code)
  BY <1>1 DEF Sound, Unique, UniqueIds, Positions
<1>5. Indexed(code)
  BY <1>1 DEF Sound, Graph, Indexed, rebuild_index
<1> QED
  BY <1>3, <1>4, <1>5 DEF FilesAreWhole

\* So the invariant holds throughout.
LEMMA SwapInvariant == SwapSpec => []SwapInv
<1> QED
  BY SwapInvInit, SwapInvStep, PTL DEF SwapSpec

\* After any full index and any updates, in whatever order the files come and
\* whatever their sources refer to, the graph has exactly the nodes of the files'
\* current contents, contained by their owners, and the three indexes find them
\* (build_index_generation, swap_file_graphs).
THEOREM FilesStayWhole == SwapSpec => []FilesAreWhole
<1> QED
  BY SwapInvariant, SwapInvWhole, PTL

-----------------------------------------------------------------------------
(* What is at a line *)

\* The lines of a node, and of what it contains.
LEMMA RangesAre ==
  ASSUME NEW g, NEW name, NEW files, Whole(g, name, files)
  PROVE  /\ \A i \in Positions(g) : /\ g.nodes[i].start \in Nat /\ g.nodes[i].end \in Nat
                                    /\ g.nodes[i].start <= g.nodes[i].end
         /\ \A i, j \in Positions(g) :
              g.nodes[i].file = g.nodes[j].file /\ g.nodes[i].type \in {"File", "DataFile"}
                /\ g.nodes[j].type \in {"File", "DataFile"} => i = j
         /\ \A e \in g.edges : e[3] = "Contains" =>
              /\ g.nodes[e[2]].type \notin {"File", "DataFile"}
              /\ g.nodes[e[1]].type \notin {"File", "DataFile"} =>
                   /\ g.nodes[e[1]].start <= g.nodes[e[2]].start
                   /\ g.nodes[e[2]].end <= g.nodes[e[1]].end
<1>1. \A f \in DOMAIN files : IsStaged(files[f], f)
  BY KnownFiles DEF Whole
<1>2. ASSUME NEW i \in Positions(g)
      PROVE  /\ g.nodes[i].start \in Nat /\ g.nodes[i].end \in Nat
             /\ g.nodes[i].start <= g.nodes[i].end
  <2> DEFINE f == g.nodes[i].file
  <2>1. f \in DOMAIN files
    BY NodePlaces
  <2>2. PICK k \in 1 .. Len(files[f].nodes) : g.nodes[i] = files[f].nodes[k]
    BY NodePlaces
  <2>3. IsStaged(files[f], f)
    BY <1>1, <2>1
  <2> HIDE DEF f
  <2> QED
    BY <2>2, <2>3 DEF IsStaged
<1>3. ASSUME NEW i \in Positions(g), NEW j \in Positions(g), g.nodes[i].file = g.nodes[j].file,
             g.nodes[i].type \in {"File", "DataFile"}, g.nodes[j].type \in {"File", "DataFile"}
      PROVE  i = j
  <2> DEFINE f == g.nodes[i].file
  <2>1. IsStaged(files[f], f)
    BY <1>1, NodePlaces
  <2>2. PICK k \in 1 .. Len(files[f].nodes) : g.nodes[i] = files[f].nodes[k]
    BY NodePlaces
  <2>3. PICK l \in 1 .. Len(files[f].nodes) : g.nodes[j] = files[f].nodes[l]
    BY <1>3, NodePlaces
  <2> HIDE DEF f
  <2>4. k = 1 /\ l = 1
    BY <1>3, <2>1, <2>2, <2>3, StagedNodes
  <2> QED
    BY <2>2, <2>3, <2>4, NodePlaces
<1>4. ASSUME NEW e \in g.edges, e[3] = "Contains"
      PROVE  /\ g.nodes[e[2]].type \notin {"File", "DataFile"}
             /\ g.nodes[e[1]].type \notin {"File", "DataFile"} =>
                  /\ g.nodes[e[1]].start <= g.nodes[e[2]].start
                  /\ g.nodes[e[2]].end <= g.nodes[e[1]].end
  <2> DEFINE f == g.nodes[e[2]].file
             staged == files[f]
  <2>1. e[2] \in Positions(g)
    BY OwnerPlaces
  <2>2. IsStaged(staged, f)
    BY <1>1, <2>1, NodePlaces
  <2>3. PICK k \in 2 .. Len(staged.nodes) :
          g.nodes[e[2]] = staged.nodes[k] /\ g.nodes[e[1]] = staged.nodes[staged.owner[k]]
    BY <1>4, OwnerPlaces
  <2> HIDE DEF f, staged
  <2>4. Len(staged.nodes) \in Nat
    BY <2>2, StagedNodes
  <2>5. k \in 1 .. Len(staged.nodes) /\ k # 1
    BY <2>4
  <2>6. staged.nodes[k].type \notin {"File", "DataFile"} /\ staged.owner[k] \in 1 .. k - 1
    BY <2>2, <2>5, StagedNodes
  <2>7. CASE staged.owner[k] = 1
    <3>1. staged.nodes[staged.owner[k]].type \in {"File", "DataFile"}
      <4>1. 1 \in 1 .. Len(staged.nodes)
        BY <2>4, <2>5
      <4> QED
        BY <2>2, <2>7, <4>1, StagedNodes
    <3> QED
      BY <2>3, <2>6, <3>1
  <2>8. CASE staged.owner[k] # 1
    <3>1. staged.owner[k] > 1
      BY <2>4, <2>6, <2>8
    <3> QED
      BY <2>2, <2>3, <2>5, <2>6, <3>1 DEF IsStaged
  <2> QED
    BY <2>7, <2>8
<1>5. \A i, j \in Positions(g) :
        g.nodes[i].file = g.nodes[j].file /\ g.nodes[i].type \in {"File", "DataFile"}
          /\ g.nodes[j].type \in {"File", "DataFile"} => i = j
  BY <1>3
<1>6. \A e \in g.edges : e[3] = "Contains" =>
        /\ g.nodes[e[2]].type \notin {"File", "DataFile"}
        /\ g.nodes[e[1]].type \notin {"File", "DataFile"} =>
             /\ g.nodes[e[1]].start <= g.nodes[e[2]].start
             /\ g.nodes[e[2]].end <= g.nodes[e[1]].end
  BY <1>4, Zenon
<1> QED
  BY <1>2, <1>5, <1>6, Zenon

\* The nodes of a file that cover a line.
Over(g, file, line) == {i \in FileOf(g, file) : Covers(g.nodes[i], line)}

\* Where its file covers a line, a node that covers it is found by walking down.
LEMMA CoveringIs ==
  ASSUME NEW g, NEW name, NEW files, Whole(g, name, files), NEW file \in DOMAIN files,
         NEW line \in Nat, \E i \in find_file_node(g, file) : Covers(g.nodes[i], line)
  PROVE  Covering(g, find_file_node(g, file), line) = Over(g, file, line)
<1> DEFINE A == {i \in Positions(g) : Covers(g.nodes[i], line)}
           steps == {s \in Steps(g, {"Contains"}) : s[2] \in A}
           start == find_file_node(g, file) \cap A
           V == Over(g, file, line)
<1>1. PICK root \in find_file_node(g, file) : Covers(g.nodes[root], line)
  OBVIOUS
<1>2. /\ find_file_node(g, file) \subseteq FileOf(g, file) /\ g.nodes[root].type \in {"File", "DataFile"}
      /\ root \in Positions(g) /\ g.nodes[root].file = file
  BY FileNodesAre DEF Whole, FileOf
<1>3. ASSUME NEW e \in g.edges, e[3] = "Contains", e[2] \in A, g.nodes[e[2]].file = file
      PROVE  e[1] \in A
  <2>1. e[1] \in Positions(g) /\ e[2] \in Positions(g) /\ g.nodes[e[1]].file = file
    BY <1>3, OwnerPlaces
  <2>2. CASE g.nodes[e[1]].type \in {"File", "DataFile"}
    <3>1. e[1] = root
      BY <1>2, <2>1, <2>2, RangesAre
    <3> QED
      BY <1>1, <1>2, <3>1
  <2>3. CASE g.nodes[e[1]].type \notin {"File", "DataFile"}
    <3> DEFINE a == g.nodes[e[1]]
               b == g.nodes[e[2]]
    <3>1. a.start <= b.start /\ b.end <= a.end
      BY <1>3, <2>3, RangesAre
    <3>2. /\ a.start \in Nat /\ a.end \in Nat /\ b.start \in Nat /\ b.end \in Nat
          /\ b.start <= line /\ line <= b.end
      BY <1>3, <2>1, RangesAre DEF Covers
    <3> HIDE DEF a, b
    <3>3. a.start <= line /\ line <= a.end
      BY <3>1, <3>2
    <3> QED
      BY <2>1, <3>3 DEF a, Covers
  <2> QED
    BY <2>2, <2>3
<1>4. A \cap FileOf(g, file) = V /\ start \subseteq V
  BY <1>2 DEF Over, FileOf
<1>5. A \cap FileOf(g, file) \subseteq Reached(steps, start)[Len(g.nodes)]
  <2>1. A \subseteq Positions(g)
    OBVIOUS
  <2> HIDE DEF A
  <2> QED
    BY <1>3, <2>1, Rooted
<1>6. \A s \in steps : s[1] \in V => s[2] \in V
  <2> SUFFICES ASSUME NEW s \in steps, s[1] \in V
               PROVE  s[2] \in V
    OBVIOUS
  <2>1. PICK e \in g.edges : e[3] = "Contains" /\ s = <<e[1], e[2]>>
    BY DEF Steps
  <2>2. s[1] = e[1] /\ s[2] = e[2]
    BY <2>1
  <2>3. g.nodes[e[1]].file = g.nodes[e[2]].file /\ e[2] \in A /\ g.nodes[e[1]].file = file
    BY <2>1, <2>2, OwnerPlaces DEF Over, FileOf
  <2> QED
    BY <1>4, <2>2, <2>3 DEF FileOf
<1>7. Len(g.nodes) \in Nat
  BY NodePlaces
<1> HIDE DEF A, steps, start, V
<1>8. Reached(steps, start)[Len(g.nodes)] \subseteq V
  BY <1>4, <1>6, <1>7, ReachedStays
<1> QED
  BY <1>4, <1>5, <1>8 DEF Covering, A, steps, start, V

\* Some element of a set is least by a measure.
LEMMA LeastOf ==
  ASSUME NEW S, S # {}, NEW measure, \A i \in S : measure[i] \in Nat
  PROVE  \E i \in S : \A j \in S : measure[i] <= measure[j]
<1> DEFINE values == {measure[i] : i \in S}
<1>1. values \subseteq Nat /\ values # {}
  OBVIOUS
<1>2. PICK n \in values : \A m \in values : ~(<<m, n>> \in Below)
  <2> HIDE DEF values
  <2> QED
    BY <1>1, BelowIsWellFounded, WFMin
<1>3. PICK i \in S : measure[i] = n
  BY <1>2
<1>4. \A j \in S : measure[j] \in values
  OBVIOUS
<1>5. \A j \in S : ~ (measure[j] < n)
  <2> SUFFICES ASSUME NEW j \in S, measure[j] < n
               PROVE  FALSE
    OBVIOUS
  <2>1. measure[j] \in values /\ measure[j] \in Nat /\ n \in Nat
    BY <1>1, <1>4
  <2> HIDE DEF values
  <2>2. <<measure[j], n>> \in Below
    BY <2>1 DEF Below
  <2> QED
    BY <1>2, <2>1, <2>2
<1> QED
  BY <1>3, <1>5

\* What contains a node's lines contains them all the way down.
LEMMA DescendantsNest ==
  ASSUME NEW g, NEW name, NEW files, Whole(g, name, files), NEW i \in Positions(g),
         g.nodes[i].type \notin {"File", "DataFile"}, NEW j \in Descendants(g, {i})
  PROVE  j \in Positions(g) /\ g.nodes[i].start <= g.nodes[j].start /\ g.nodes[j].end <= g.nodes[i].end
<1> DEFINE steps == Steps(g, {"Contains"})
           V == {x \in Positions(g) : /\ g.nodes[x].type \notin {"File", "DataFile"}
                                      /\ g.nodes[i].start <= g.nodes[x].start
                                      /\ g.nodes[x].end <= g.nodes[i].end}
<1>1. {i} \subseteq V
  BY RangesAre
<1>2. \A s \in steps : s[1] \in V => s[2] \in V
  <2> SUFFICES ASSUME NEW s \in steps, s[1] \in V
               PROVE  s[2] \in V
    OBVIOUS
  <2>1. PICK e \in g.edges : e[3] = "Contains" /\ s = <<e[1], e[2]>>
    BY DEF Steps
  <2>2. s[1] = e[1] /\ s[2] = e[2]
    BY <2>1
  <2> DEFINE a == g.nodes[e[1]]
             b == g.nodes[e[2]]
  <2>3. e[1] \in Positions(g) /\ e[2] \in Positions(g) /\ a.type \notin {"File", "DataFile"}
    BY <2>1, <2>2, OwnerPlaces
  <2>4. b.type \notin {"File", "DataFile"} /\ a.start <= b.start /\ b.end <= a.end
    BY <2>1, <2>3, RangesAre
  <2>5. g.nodes[i].start <= a.start /\ a.end <= g.nodes[i].end
    BY <2>2
  <2>6. /\ a.start \in Nat /\ a.end \in Nat /\ b.start \in Nat /\ b.end \in Nat
        /\ g.nodes[i].start \in Nat /\ g.nodes[i].end \in Nat
    BY <2>3, RangesAre
  <2> HIDE DEF a, b
  <2>7. g.nodes[i].start <= b.start /\ b.end <= g.nodes[i].end
    BY <2>4, <2>5, <2>6
  <2> QED
    BY <2>2, <2>3, <2>4, <2>7 DEF b
<1>3. Len(g.nodes) \in Nat
  BY NodePlaces
<1> HIDE DEF steps, V
<1>4. Reached(steps, {i})[Len(g.nodes)] \subseteq V
  BY <1>1, <1>2, <1>3, ReachedStays
<1> QED
  BY <1>4 DEF Descendants, steps, V

\* More is reached from more, and the start itself is.
LEMMA DescendantsGrow ==
  ASSUME NEW g, Len(g.nodes) \in Nat, NEW owners, NEW more, owners \subseteq more
  PROVE  owners \subseteq Descendants(g, owners) /\ Descendants(g, owners) \subseteq Descendants(g, more)
<1> DEFINE steps == Steps(g, {"Contains"})
           m == Len(g.nodes)
           all == Reached(steps, more)
           V == all[m]
           T == {k \in Nat : Reached(steps, owners)[k] \subseteq all[k]}
<1>1. 0 \in T
  BY ReachedIs
<1>2. ASSUME NEW k \in T
      PROVE  k + 1 \in T
  <2> DEFINE some == Reached(steps, owners)
  <2>1. k \in Nat /\ some[k] \subseteq all[k]
    OBVIOUS
  <2>2. some[k + 1] = Farther(steps, some[k]) /\ all[k + 1] = Farther(steps, all[k])
    BY <2>1, ReachedIs
  <2> HIDE DEF some, all, steps
  <2>3. some[k + 1] \subseteq all[k + 1]
    BY <2>1, <2>2 DEF Farther
  <2> QED
    BY <2>1, <2>3 DEF some
<1>3. T = Nat
  <2> HIDE DEF T
  <2>1. T \in SUBSET Nat
    BY DEF T
  <2> QED
    BY <1>1, <1>2, <2>1, Induction
<1>4. Reached(steps, owners)[m] \subseteq all[m]
  <2>1. m \in T
    BY <1>3
  <2> QED
    BY <2>1
<1>5. owners \subseteq Reached(steps, owners)[m]
  <2>1. Reached(steps, owners)[0] = owners
    BY ReachedIs
  <2>2. Reached(steps, owners)[0] \subseteq Reached(steps, owners)[m]
    BY ReachedGrows
  <2> QED
    BY <2>1, <2>2
<1> QED
  BY <1>4, <1>5 DEF Descendants

\* The definitions over a line, and all that is there but the file.
Targets(g, file, line) == {i \in Over(g, file, line) : is_reference_target_type(g.nodes[i])}

Within(g, file, line) == {i \in Over(g, file, line) : g.nodes[i].type \notin {"File", "DataFile"}}

\* Each of the lookups takes the narrowest of these.
LEMMA LookupsAre ==
  ASSUME NEW g, NEW name, NEW files, Whole(g, name, files), NEW file \in DOMAIN files,
         NEW line \in Nat, \E i \in find_file_node(g, file) : Covers(g.nodes[i], line)
  PROVE  /\ symbol_at(g, file, line) =
              {i \in Narrowest(g, Targets(g, file, line)) :
                 \A j \in Narrowest(g, Targets(g, file, line)) : g.nodes[i].start <= g.nodes[j].start}
         /\ find_enclosing_scopes(g, file, line) =
              {i \in Targets(g, file, line) : g.nodes[i].type \notin {"Enum", "Trait"}}
         /\ Targets(g, file, line) \subseteq Within(g, file, line)
         /\ Within(g, file, line) \subseteq Positions(g)
         /\ Within(g, file, line) # {} =>
              find_node_in_file(g, file, line) = Narrowest(g, Within(g, file, line))
<1> DEFINE over == Targets(g, file, line)
           nodes == Within(g, file, line)
<1>1. Covering(g, find_file_node(g, file), line) = Over(g, file, line)
  BY CoveringIs
<1>2. find_nodes_by_file(g, file) = FileOf(g, file)
  BY FileNodesAre DEF Whole
<1>3. {i \in find_nodes_by_file(g, file) : is_reference_target_type(g.nodes[i]) /\ Covers(g.nodes[i], line)} = over
  BY <1>2 DEF Over, Targets
<1>4. symbol_at(g, file, line) =
        {i \in Narrowest(g, over) : \A j \in Narrowest(g, over) : g.nodes[i].start <= g.nodes[j].start}
  BY <1>3 DEF symbol_at
<1>5. find_enclosing_scopes(g, file, line) = {i \in over : g.nodes[i].type \notin {"Enum", "Trait"}}
  BY <1>1 DEF Targets, find_enclosing_scopes, is_reference_target_type, TargetTypes, TypeTypes, CallableTypes
<1>6. over \subseteq nodes
  BY DEF Targets, Within, is_reference_target_type, TargetTypes, TypeTypes, CallableTypes
<1>7. nodes \subseteq Positions(g)
  BY DEF Within, Over, FileOf
<1>8. nodes # {} => find_node_in_file(g, file, line) = Narrowest(g, nodes)
  BY <1>1 DEF find_node_in_file, Within
<1> QED
  BY <1>4, <1>5, <1>6, <1>7, <1>8

\* Some of the nodes that are not files are the narrowest.
LEMMA NarrowestOf ==
  ASSUME NEW g, NEW name, NEW files, Whole(g, name, files), NEW nodes, nodes \subseteq Positions(g)
  PROVE  /\ \A i \in nodes : Length(g, i) \in Nat /\ g.nodes[i].start \in Nat
         /\ nodes # {} => Narrowest(g, nodes) # {}
         /\ nodes # {} => \E i \in Narrowest(g, nodes) :
                            \A j \in Narrowest(g, nodes) : g.nodes[i].start <= g.nodes[j].start
<1>1. ASSUME NEW i \in nodes
      PROVE  Length(g, i) \in Nat /\ g.nodes[i].start \in Nat
  <2>1. g.nodes[i].start \in Nat /\ g.nodes[i].end \in Nat /\ g.nodes[i].start <= g.nodes[i].end
    BY RangesAre
  <2> DEFINE a == g.nodes[i].start
             b == g.nodes[i].end
  <2> HIDE DEF a, b
  <2>2. a \in Nat /\ b - a \in Nat
    BY <2>1 DEF a, b
  <2> QED
    BY <2>2 DEF Length, a, b
<1>2. ASSUME nodes # {}
      PROVE  Narrowest(g, nodes) # {}
  <2> DEFINE length == [i \in nodes |-> Length(g, i)]
  <2>1. \A i \in nodes : length[i] = Length(g, i)
    OBVIOUS
  <2> HIDE DEF length
  <2>2. PICK i \in nodes : \A j \in nodes : length[i] <= length[j]
    BY <1>1, <1>2, <2>1, LeastOf
  <2> QED
    BY <2>1, <2>2 DEF Narrowest
<1>3. ASSUME nodes # {}
      PROVE  \E i \in Narrowest(g, nodes) : \A j \in Narrowest(g, nodes) : g.nodes[i].start <= g.nodes[j].start
  <2> DEFINE few == Narrowest(g, nodes)
             first == [i \in few |-> g.nodes[i].start]
  <2>1. few \subseteq nodes /\ few # {}
    BY <1>2, <1>3 DEF Narrowest
  <2>2. \A i \in few : first[i] = g.nodes[i].start
    OBVIOUS
  <2> HIDE DEF few, first
  <2>3. PICK i \in few : \A j \in few : first[i] <= first[j]
    BY <1>1, <2>1, <2>2, LeastOf
  <2> QED
    BY <2>2, <2>3 DEF few
<1> QED
  BY <1>1, <1>2, <1>3

\* LineLookupsAgree of one line.
LookupsAgree(g, file, line) ==
  LET at == resolve_form(g, [kind |-> "location", file |-> file, line |-> line])
      scopes == find_enclosing_scopes(g, file, line)
      context == predict_context(g, file, line)
      nested == \A i, j \in Covering(g, find_file_node(g, file), line) :
                  i \in Descendants(g, {j}) \/ j \in Descendants(g, {i})
  IN  /\ \A i \in at : g.nodes[i].type \in {"Enum", "Trait"} \/ i \in Narrowest(g, scopes)
      /\ \A i \in at, j \in context.active : Length(g, j) <= Length(g, i)
      /\ at = {} => scopes = {}
      /\ nested =>
           \A j \in context.active :
             \/ j \in Descendants(g, context.primary)
             \/ \E i \in context.primary :
                  i \in Descendants(g, {j}) /\ Length(g, i) = Length(g, j)

\* A line of a file's node, looked at in the three ways.
LEMMA LineLookups ==
  ASSUME NEW g, NEW name, NEW files, Whole(g, name, files), NEW file \in DOMAIN files,
         NEW line \in Nat, \E i \in find_file_node(g, file) : Covers(g.nodes[i], line)
  PROVE  LookupsAgree(g, file, line)
<1> DEFINE at == symbol_at(g, file, line)
           scopes == find_enclosing_scopes(g, file, line)
           active == find_node_in_file(g, file, line)
           primary == IF Narrowest(g, scopes) = {} THEN active ELSE Narrowest(g, scopes)
           over == Targets(g, file, line)
           nodes == Within(g, file, line)
           nested == \A i, j \in Covering(g, find_file_node(g, file), line) :
                       i \in Descendants(g, {j}) \/ j \in Descendants(g, {i})
<1>1. resolve_form(g, [kind |-> "location", file |-> file, line |-> line]) = at
  BY DEF resolve_form
<1>2. /\ predict_context(g, file, line).active = active
      /\ predict_context(g, file, line).primary = primary
  <2> HIDE DEF active
  <2> QED
    BY DEF predict_context, active
<1>3. /\ at = {i \in Narrowest(g, over) : \A j \in Narrowest(g, over) : g.nodes[i].start <= g.nodes[j].start}
      /\ scopes = {i \in over : g.nodes[i].type \notin {"Enum", "Trait"}}
      /\ over \subseteq nodes /\ nodes \subseteq Positions(g)
      /\ nodes # {} => active = Narrowest(g, nodes)
  BY LookupsAre
<1>4. /\ Covering(g, find_file_node(g, file), line) = Over(g, file, line) /\ nodes \subseteq Over(g, file, line)
      /\ \A i \in nodes : g.nodes[i].type \notin {"File", "DataFile"}
      /\ Len(g.nodes) \in Nat
  BY CoveringIs, NodePlaces DEF Within
<1> HIDE DEF at, scopes, active, over, nodes
<1>5. \A i \in nodes : Length(g, i) \in Nat
  BY <1>3, NarrowestOf
<1>6. ASSUME NEW i \in at
      PROVE  g.nodes[i].type \in {"Enum", "Trait"} \/ i \in Narrowest(g, scopes)
  BY <1>3 DEF Narrowest
<1>7. ASSUME NEW i \in at, NEW j \in active
      PROVE  Length(g, j) <= Length(g, i)
  BY <1>3 DEF Narrowest
<1>8. ASSUME at = {}
      PROVE  scopes = {}
  <2>1. over # {} => at # {}
    BY <1>3, NarrowestOf
  <2> QED
    BY <1>3, <1>8, <2>1
<1>9. ASSUME nested, NEW j \in active
      PROVE  \/ j \in Descendants(g, primary)
             \/ \E i \in primary : i \in Descendants(g, {j}) /\ Length(g, i) = Length(g, j)
  <2>1. CASE Narrowest(g, scopes) = {}
    <3>1. primary \subseteq Descendants(g, primary)
      BY <1>4, DescendantsGrow
    <3>2. j \in primary
      BY <1>9, <2>1
    <3> QED
      BY <3>1, <3>2
  <2>2. CASE Narrowest(g, scopes) # {}
    <3>1. PICK p \in Narrowest(g, scopes) : TRUE
      BY <2>2
    <3>2. p \in nodes /\ p \in primary
      BY <1>3, <2>2, <3>1 DEF Narrowest
    <3>3. j \in nodes /\ Length(g, j) <= Length(g, p)
      BY <1>3, <1>9, <3>2 DEF Narrowest
    <3> HIDE DEF primary
    <3>4. p \in Descendants(g, {j}) \/ j \in Descendants(g, {p})
      BY <1>4, <1>9, <3>2, <3>3
    <3>5. CASE j \in Descendants(g, {p})
      <4>1. Descendants(g, {p}) \subseteq Descendants(g, primary)
        BY <1>4, <3>2, DescendantsGrow
      <4> QED
        BY <3>5, <4>1
    <3>6. CASE p \in Descendants(g, {j})
      <4>1. g.nodes[j].start <= g.nodes[p].start /\ g.nodes[p].end <= g.nodes[j].end
        BY <1>3, <1>4, <3>3, <3>6, DescendantsNest
      <4>2. /\ g.nodes[j].start \in Nat /\ g.nodes[p].start \in Nat
            /\ g.nodes[j].end \in Nat /\ g.nodes[p].end \in Nat
        BY <1>3, <3>2, <3>3, RangesAre
      <4> DEFINE a == g.nodes[j].start
                 b == g.nodes[p].start
                 c == g.nodes[p].end
                 d == g.nodes[j].end
      <4>3. a <= b /\ c <= d /\ a \in Nat /\ b \in Nat /\ c \in Nat /\ d \in Nat
        BY <4>1, <4>2
      <4>4. Length(g, p) = c - b /\ Length(g, j) = d - a
        BY DEF Length
      <4> HIDE DEF a, b, c, d
      <4>5. Length(g, p) = Length(g, j)
        BY <3>3, <4>3, <4>4
      <4> QED
        BY <3>2, <3>6, <4>5
    <3> QED
      BY <3>4, <3>5, <3>6
  <2> QED
    BY <2>1, <2>2
<1> HIDE DEF primary, nested
<1>10. nested => \A j \in active :
          \/ j \in Descendants(g, primary)
          \/ \E i \in primary : i \in Descendants(g, {j}) /\ Length(g, i) = Length(g, j)
  BY <1>9
<1> QED
  BY <1>1, <1>2, <1>6, <1>7, <1>8, <1>10 DEF LookupsAgree, scopes, nested

\* In a graph made of its files the lookups agree.
LEMMA SwapInvLookups == SwapInv => LineLookupsAgree
<1> SUFFICES ASSUME SwapInv PROVE LineLookupsAgree
  OBVIOUS
<1> DEFINE files == ParsedFiles(contents)
<1>1. Whole(code, project, files)
  BY DEF SwapInv
<1> HIDE DEF files
<1> DEFINE Lines(file) == UNION {code.nodes[i].start .. code.nodes[i].end : i \in find_file_node(code, file)}
<1>0. SUFFICES ASSUME NEW file \in DOMAIN code.file_nodes_index, NEW line \in Lines(file)
               PROVE  LookupsAgree(code, file, line)
  <2>1. LineLookupsAgree =
          \A file \in DOMAIN code.file_nodes_index : \A line \in Lines(file) : LookupsAgree(code, file, line)
    BY Zenon DEF LineLookupsAgree, LookupsAgree
  <2> QED
    BY <2>1
<1> PICK root \in find_file_node(code, file) : line \in code.nodes[root].start .. code.nodes[root].end
  OBVIOUS
<1>2. root \in Positions(code) /\ code.nodes[root].file = file
  BY <1>1, FileNodesAre DEF Whole, FileOf
<1>3. file \in DOMAIN files
  BY <1>1, <1>2, NodePlaces
<1>4. code.nodes[root].start \in Nat /\ code.nodes[root].end \in Nat
  BY <1>1, <1>2, RangesAre
<1>5. line \in Nat /\ code.nodes[root].start <= line /\ line <= code.nodes[root].end
  <2> DEFINE a == code.nodes[root].start
             b == code.nodes[root].end
  <2>1. a \in Nat /\ b \in Nat /\ line \in a .. b
    BY <1>4
  <2> HIDE DEF a, b
  <2>2. line \in Nat /\ a <= line /\ line <= b
    BY <2>1
  <2> QED
    BY <2>2 DEF a, b
<1>6. \E i \in find_file_node(code, file) : Covers(code.nodes[i], line)
  BY <1>5 DEF Covers
<1> QED
  BY <1>1, <1>3, <1>5, <1>6, LineLookups

\* After any updates, for every line of every file, the ways to find what is there
\* agree (symbol_at, find_enclosing_scopes and find_node_in_file in graph/mod.rs,
\* predict_context in engine.rs).
THEOREM LinesAgree == SwapSpec => []LineLookupsAgree
<1> QED
  BY SwapInvariant, SwapInvLookups, PTL

-----------------------------------------------------------------------------
(* Printed names *)

\* A name leads to the nodes that bear it.
LEMMA NamedNodesAre ==
  ASSUME NEW g, Sound(g), NEW i \in Positions(g)
  PROVE  i \in find_nodes_by_name(g, g.nodes[i].name)
<1>1. g.name_index = NameIndex(g.nodes)
  BY DEF Sound, Graph
<1>2. i \in NameIndex(g.nodes)[g.nodes[i].name] /\ g.nodes[i].name \in DOMAIN NameIndex(g.nodes)
  BY DEF NameIndex, Positions
<1> QED
  BY <1>1, <1>2 DEF find_nodes_by_name, Bucket

\* The name a symbol is printed with leads to it.
LEMMA NameResolves ==
  ASSUME NEW g, Sound(g), NEW i \in Positions(g), is_named_symbol(g.nodes[i]),
         qualified_name(g, i).owner = {} \/ g.nodes[i].type \in MemberTypes,
         file_named(g, qualified_name(g, i)) = {}
  PROVE  i \in resolve_form(g, [kind |-> "name", name |-> qualified_name(g, i)])
<1> DEFINE name == qualified_name(g, i)
           over == {q \in parent_of(g, i) : g.nodes[q].type \in OwnerTypes}
<1>1. name.owner = {g.nodes[p].name : p \in over} /\ name.name = g.nodes[i].name
  BY DEF qualified_name
<1> HIDE DEF name, over
<1>2. resolve_form(g, [kind |-> "name", name |-> name]) = symbols_named(g, name)
  BY DEF resolve_form, name
<1>3. i \in symbols_named(g, name)
  <2>1. CASE name.owner = {}
    <3>1. i \in find_nodes_by_name(g, name.name)
      BY <1>1, NamedNodesAre
    <3> QED
      BY <2>1, <3>1 DEF symbols_named
  <2>2. CASE name.owner # {}
    <3>1. PICK q \in over : TRUE
      BY <1>1, <2>2
    <3>2. q \in parent_of(g, i) /\ g.nodes[q].type \in OwnerTypes /\ g.nodes[q].name \in name.owner
      BY <1>1, <3>1 DEF over
    <3>3. PICK e \in g.edges : e[1] = q /\ e[2] = i /\ e[3] = "Contains"
      BY <3>2 DEF parent_of
    <3>4. q \in Positions(g)
      BY <3>3 DEF Sound
    <3>5. q \in find_nodes_by_name(g, g.nodes[q].name)
      BY <3>4, NamedNodesAre
    <3> DEFINE owners == {x \in UNION {find_nodes_by_name(g, owner) : owner \in name.owner} :
                            g.nodes[x].type \in OwnerTypes}
    <3>6. q \in owners
      BY <3>2, <3>5
    <3>7. i \in children(g, q)
      BY <3>3 DEF children
    <3>8. is_member(g.nodes[i])
      BY <2>2 DEF is_member, name
    <3>9. symbols_named(g, name) = {x \in UNION {children(g, owner) : owner \in owners} :
                                      g.nodes[x].name = name.name /\ is_member(g.nodes[x])}
      BY <2>2 DEF symbols_named
    <3> HIDE DEF owners
    <3> QED
      BY <1>1, <3>6, <3>7, <3>8, <3>9
  <2> QED
    BY <2>1, <2>2
<1> QED
  BY <1>2, <1>3 DEF name

\* In a graph made of its files printed names resolve.
LEMMA SwapInvNames == SwapInv => PrintedNamesResolve
<1> SUFFICES ASSUME SwapInv PROVE PrintedNamesResolve
  OBVIOUS
<1> DEFINE files == ParsedFiles(contents)
<1>1. Whole(code, project, files) /\ Sound(code)
  BY DEF SwapInv, Whole
<1> HIDE DEF files
<1> SUFFICES ASSUME NEW file \in DOMAIN project_map(code), NEW i \in project_map(code)[file]
             PROVE  LET name == qualified_name(code, i)
                    IN  /\ i \in diff_context(code, {file})
                        /\ \/ name.owner # {} /\ code.nodes[i].type \notin MemberTypes
                           \/ file_named(code, name) # {}
                           \/ i \in resolve_form(code, [kind |-> "name", name |-> name])
  BY DEF PrintedNamesResolve
<1>2. i \in Shown(code, file)
  BY DEF project_map
<1>3. i \in find_nodes_by_file(code, file) /\ is_named_symbol(code.nodes[i])
  BY <1>2 DEF Shown, NamedSymbols
<1>4. i \in FileOf(code, file)
  BY <1>1, <1>3, FileNodesAre
<1>5. i \in Positions(code) /\ code.nodes[i].file = file
  BY <1>4 DEF FileOf
<1>6. file \in DOMAIN files
  BY <1>1, <1>5, NodePlaces
<1>7. i \in diff_context(code, {file})
  <2>1. i \in Descendants(code, find_file_node(code, file))
    BY <1>1, <1>4, <1>6, FileDescendants
  <2>2. code.nodes[i].type \notin {"File", "DataFile"}
    BY <1>3 DEF is_named_symbol, is_reference_target_type, TargetTypes, TypeTypes, CallableTypes
  <2>3. i \in UNION {Descendants(code, find_file_node(code, f)) : f \in {file}}
    BY <2>1
  <2> QED
    BY <2>2, <2>3 DEF diff_context
<1>8. CASE /\ qualified_name(code, i).owner = {} \/ code.nodes[i].type \in MemberTypes
           /\ file_named(code, qualified_name(code, i)) = {}
  BY <1>1, <1>3, <1>5, <1>7, <1>8, NameResolves
<1>9. CASE \/ ~(qualified_name(code, i).owner = {} \/ code.nodes[i].type \in MemberTypes)
           \/ file_named(code, qualified_name(code, i)) # {}
  BY <1>7, <1>9
<1> QED
  BY <1>8, <1>9

\* After any updates, every symbol the project map prints is found by the name it is
\* printed with, unless that reads like the path of a file (file_line and qualified_name
\* in map.rs, resolve_target in engine.rs), and is part of its file for the context of a diff.
THEOREM NamesResolve == SwapSpec => []PrintedNamesResolve
<1> QED
  BY SwapInvariant, SwapInvNames, PTL

=============================================================================
