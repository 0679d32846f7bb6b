--------------------------- MODULE GraphSearches ---------------------------
(***************************************************************************)
(* The two tools that search the code graph breadth first (engine.rs):     *)
(* trace_call_chain walks the calls from one symbol to another,            *)
(* impact_of_change walks back along the uses of everything in a file.     *)
(* A search holds the read lock of the graph, which does not change.  An   *)
(* action is one turn of a loop; the edges of a node come in any order.    *)
(***************************************************************************)
EXTENDS GraphWalks, FiniteSets

CONSTANTS
  ReadGraphs,    \* the graphs a search may find
  AskedIds,      \* identifiers that callers know, some of them old
  AskedFiles,
  MaxDepths,     \* values of max_depth
  Limits         \* values of limit

ASSUME SearchAssumption ==
  /\ \A g \in ReadGraphs : IsFiniteSet(g.edges)
  /\ MaxDepths \subseteq Nat /\ Limits \subseteq Nat

VARIABLES
  graph,
  stage,      \* which loop runs
  asked,      \* what the search is for
  queue,      \* positions to visit, each with its depth
  current,    \* the entry taken from the queue last
  left,       \* its edges that the inner loop has not seen
  visited,
  parent,     \* parent[i]: the caller that i was found from
  chain,      \* the path found so far, from its end
  own,        \* the nodes of the changed file
  stack,      \* those whose children are not known yet
  results     \* the impacted positions

searchVars == <<graph, stage, asked, queue, current, left, visited, parent, chain, own, stack,
                results>>

Entry(i, depth) == [node |-> i, depth |-> depth]

\* Mutant of Enqueue: depth first.
Push(entries, i, depth) == <<Entry(i, depth)>> \o entries

Enqueue(entries, i, depth) == Append(entries, Entry(i, depth))

SearchStarts ==
  /\ stage = "idle" /\ asked = [kind |-> "nothing"]
  /\ queue = << >> /\ current = Entry(0, 0) /\ left = {} /\ visited = {}
  /\ parent = [i \in {} |-> 0] /\ chain = << >>
  /\ own = {} /\ stack = {} /\ results = << >>

SearchInit == graph \in ReadGraphs /\ SearchStarts

-----------------------------------------------------------------------------
(* trace_call_chain *)

CallEdges == {"Calls", "CallAmbiguous", "CallInferred", "Defines"}

\* Mutant of Deepens: the budget ends the search one step early.
DeepensLess(depth, max_depth) == depth + 1 < max_depth

Deepens(depth, max_depth) == depth < max_depth

trace_call_chain(from_id, to_id, max_depth) ==
  LET from == find_node_fuzzy_by_id(graph, from_id)
      to == find_node_fuzzy_by_id(graph, to_id)
  IN  /\ stage = "idle"
      /\ asked' = [kind |-> "chain", from |-> from, to |-> to, max_depth |-> max_depth]
      /\ IF from = {} \/ to = {} THEN stage' = "traced" /\ UNCHANGED <<queue, visited>>
         ELSE \E i \in from : /\ stage' = "trace"
                              /\ queue' = Enqueue(<< >>, i, 0)
                              /\ visited' = {i}
      /\ UNCHANGED <<graph, current, left, parent, chain, own, stack, results>>

\* The next node to visit: the target, too deep, or one whose calls are followed.
VisitCaller ==
  /\ stage = "trace" /\ left = {} /\ queue # << >>
  /\ current' = Head(queue)
  /\ queue' = Tail(queue)
  /\ \/ /\ current'.node \in asked.to
        /\ stage' = "unwind" /\ chain' = <<current'.node>>
        /\ UNCHANGED left
     \/ /\ current'.node \notin asked.to
        /\ left' = {e \in OutEdges(graph, current'.node) :
                      e[3] \in CallEdges /\ Deepens(current'.depth, asked.max_depth)}
        /\ UNCHANGED <<stage, chain>>
  /\ UNCHANGED <<graph, asked, visited, parent, own, stack, results>>

FollowCall(e) ==
  /\ stage = "trace" /\ e \in left
  /\ left' = left \ {e}
  /\ IF e[2] \in visited THEN UNCHANGED <<visited, parent, queue>>
     ELSE /\ visited' = visited \cup {e[2]}
          /\ parent' = Bind(parent, e[2], current.node)
          /\ queue' = Enqueue(queue, e[2], current.depth + 1)
  /\ UNCHANGED <<graph, stage, asked, current, chain, own, stack, results>>

NoChain ==
  /\ stage = "trace" /\ left = {} /\ queue = << >>
  /\ stage' = "traced"
  /\ UNCHANGED <<graph, asked, queue, current, left, visited, parent, chain, own, stack, results>>

\* The parents, back to the node that has none.
Unwind ==
  /\ stage = "unwind"
  /\ IF Head(chain) \in DOMAIN parent
     THEN chain' = <<parent[Head(chain)]>> \o chain /\ UNCHANGED stage
     ELSE stage' = "traced" /\ UNCHANGED chain
  /\ UNCHANGED <<graph, asked, queue, current, left, visited, parent, own, stack, results>>

-----------------------------------------------------------------------------
(* impact_of_change *)

MAX_IMPACT_DEPTH == 3

\* impact_relation: every type but Contains.
ImpactEdges == {"Calls", "CallInferred", "CallAmbiguous", "References", "Imports",
                "ImportAmbiguous", "Inherits", "Defines", "Reads", "Writes"}

impact_of_change(file, limit) ==
  /\ stage = "idle"
  /\ \/ /\ find_file_node(graph, file) = {}
        /\ asked' = [kind |-> "impact", file |-> {}, limit |-> limit]
        /\ stage' = "reported" /\ UNCHANGED <<own, stack>>
     \/ \E i \in find_file_node(graph, file) :
          /\ asked' = [kind |-> "impact", file |-> {i}, limit |-> limit]
          /\ stage' = "collect" /\ own' = {i} /\ stack' = {i}
  /\ UNCHANGED <<graph, queue, current, left, visited, parent, chain, results>>

Collect(i) ==
  /\ stage = "collect" /\ i \in stack
  /\ own' = own \cup children(graph, i)
  /\ stack' = (stack \ {i}) \cup (children(graph, i) \ own)
  /\ UNCHANGED <<graph, stage, asked, queue, current, left, visited, parent, chain, results>>

\* The nodes of the file in the order of their positions.
Sorted(positions) ==
  {order \in [1 .. Cardinality(positions) -> positions] :
     /\ Elements(order) = positions
     /\ \A k, l \in DOMAIN order : k < l => order[k] < order[l]}

StartWalk ==
  /\ stage = "collect" /\ stack = {}
  /\ stage' = "impact" /\ visited' = own
  /\ \E order \in Sorted(own) : queue' = [k \in DOMAIN order |-> Entry(order[k], 0)]
  /\ UNCHANGED <<graph, asked, current, left, parent, chain, own, stack, results>>

Full(list) == Len(list) >= asked.limit

VisitUsed ==
  /\ stage = "impact" /\ left = {} /\ queue # << >> /\ ~Full(results)
  /\ current' = Head(queue)
  /\ queue' = Tail(queue)
  /\ left' = {e \in InEdges(graph, current'.node) : e[3] \in ImpactEdges}
  /\ UNCHANGED <<graph, stage, asked, visited, parent, chain, own, stack, results>>

\* A dependent is reported once, and followed while the depth allows.
FollowUse(e) ==
  /\ stage = "impact" /\ e \in left
  /\ IF e[1] \in own
     THEN left' = left \ {e} /\ UNCHANGED <<results, visited, queue>>
     ELSE /\ results' = IF e[1] \in Elements(results) THEN results ELSE Append(results, e[1])
          /\ IF current.depth < MAX_IMPACT_DEPTH /\ e[1] \notin visited
             THEN /\ visited' = visited \cup {e[1]}
                  /\ queue' = Enqueue(queue, e[1], current.depth + 1)
             ELSE UNCHANGED <<visited, queue>>
          /\ left' = IF Full(results') THEN {} ELSE left \ {e}
  /\ UNCHANGED <<graph, stage, asked, current, parent, chain, own, stack>>

Report ==
  /\ stage = "impact" /\ left = {} /\ (queue = << >> \/ Full(results))
  /\ stage' = "reported"
  /\ UNCHANGED <<graph, asked, queue, current, left, visited, parent, chain, own, stack, results>>

-----------------------------------------------------------------------------

SearchNext ==
  \/ \E from_id, to_id \in AskedIds, max_depth \in MaxDepths :
       trace_call_chain(from_id, to_id, max_depth)
  \/ VisitCaller
  \/ \E e \in left : FollowCall(e)
  \/ NoChain
  \/ Unwind
  \/ \E file \in AskedFiles, limit \in Limits : impact_of_change(file, limit)
  \/ \E i \in stack : Collect(i)
  \/ StartWalk
  \/ VisitUsed
  \/ \E e \in left : FollowUse(e)
  \/ Report

SearchSpec == SearchInit /\ [][SearchNext]_searchVars

-----------------------------------------------------------------------------

\* A call chain is found exactly when the target is within max_depth calls of
\* the start (engine.rs:1092-1096: the depth bounds steps, not the nodes found);
\* it is a path of calls between the two, and no shorter one exists.
CallChainsAreShortest ==
  stage = "traced" =>
    LET calls == Steps(graph, CallEdges)
        Near(n) == asked.to \cap Reached(calls, asked.from)[n]
    IN  /\ (chain # << >>) = (Near(asked.max_depth) # {})
        /\ chain # << >> =>
             /\ chain[1] \in asked.from /\ chain[Len(chain)] \in asked.to
             /\ \A k \in 1 .. Len(chain) - 1 : <<chain[k], chain[k + 1]>> \in calls
             /\ Len(chain) > 1 => Near(Len(chain) - 2) = {}

\* The impact of a file is about all the file contains and nothing else.  It lists
\* what is within four uses of it once, nearest first, and a limit only cuts the
\* list; unless it does, whatever find_usages says uses the file is listed
\* (engine.rs:1217-1219).
ImpactIsNearestFirst ==
  stage = "reported" =>
    LET Near(n) == Reached(Back(Steps(graph, ImpactEdges)), own)[n] \ own
        all == Near(MAX_IMPACT_DEPTH + 1)
    IN  /\ \A i \in own : children(graph, i) \subseteq own
        /\ \A others \in SUBSET own :
             (\A i \in others : children(graph, i) \subseteq others) =>
               others = own \/ asked.file \cap others = {}
        /\ asked.file \subseteq own
        /\ Elements(results) \subseteq all
        /\ \A k, l \in DOMAIN results : results[k] = results[l] => k = l
        /\ \A k \in DOMAIN results, n \in 1 .. MAX_IMPACT_DEPTH + 1 :
             results[k] \in Near(n) \/ Near(n) \subseteq {results[l] : l \in 1 .. k - 1}
        /\ Full(results) \/ Elements(results) = all
        /\ Len(results) <= asked.limit
        /\ \A i \in own : \A use \in usages_of(graph, i) :
             use.node \in own \/ use.node \in Elements(results) \/ Full(results)

=============================================================================
