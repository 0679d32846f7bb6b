----------------------------- MODULE FileSwaps -----------------------------
(***************************************************************************)
(* What an update of the code graph owes to the files, whatever their      *)
(* sources refer to (build_index_generation in lib.rs, swap_file_graphs in *)
(* engine.rs): the graph is that of the files' current contents, put       *)
(* together file by file in some order, with any reference edges between   *)
(* its nodes.  CodeGraph resolves the references.                          *)
(***************************************************************************)
EXTENDS FileGraphs

CONSTANTS
  Projects,     \* name -> file -> the staged graphs its versions parse to, a sequence
  MaxVersions   \* bound on the versions of a file

\* What the extractor makes of a file: a tree of nodes in the order of the text,
\* the file first; a node lies within its owner, but not always within the last
\* line counted for the file.
IsStaged(staged, file) ==
  LET places == 1 .. Len(staged.nodes)
      node(k) == staged.nodes[k]
  IN  /\ staged.nodes \in Seq(Elements(staged.nodes))
      /\ staged.owner \in [places -> Nat]
      /\ \A k \in places :
           /\ node(k).file = file
           /\ node(k).start \in Nat /\ node(k).end \in Nat /\ node(k).start <= node(k).end
           /\ k = 1 <=> node(k).type \in {"File", "DataFile"}
           /\ k = 1 <=> staged.owner[k] = 0
           /\ staged.owner[k] < k
           /\ staged.owner[k] > 1 => /\ node(staged.owner[k]).start <= node(k).start
                                     /\ node(k).end <= node(staged.owner[k]).end
      /\ \A k, l \in places : node(k).id = node(l).id => k = l

\* Identifiers carry the path of their file.
OwnIdentifiers(staged, other) ==
  {node.id : node \in Elements(staged.nodes)} \cap {node.id : node \in Elements(other.nodes)} = {}

ASSUME StagedGraphs ==
  \A name \in DOMAIN Projects :
    LET files == Projects[name]
    IN  /\ IsFiniteSet(DOMAIN files)
        /\ \A file \in DOMAIN files : \A v \in DOMAIN files[file] :
             /\ IsStaged(files[file][v], file)
             /\ \A other \in DOMAIN files \ {file} : \A w \in DOMAIN files[other] :
                  OwnIdentifiers(files[file][v], files[other][w])

VARIABLES
  project,    \* the name of the project that is indexed
  contents,   \* the version of each of its files
  code        \* the graph

fileVars == <<project, contents, code>>

-----------------------------------------------------------------------------

Parsed(file, version) == Projects[project][file][version]

ParsedFiles(versions) == [file \in DOMAIN versions |-> Parsed(file, versions[file])]

Versions(files) ==
  {v \in [files -> 1 .. MaxVersions] : \A f \in files : v[f] \in DOMAIN Projects[project][f]}

Contained(g) == {e \in g.edges : e[3] = "Contains"}

\* A graph but for its references, which lie between its nodes.
Refers(g, bare) ==
  /\ g = [bare EXCEPT !.edges = g.edges]
  /\ Contained(g) = Contained(bare)
  /\ \A e \in g.edges \ Contained(g) : e \in Positions(g) \X Positions(g) \X ReferenceEdges

SwapInit ==
  /\ project \in DOMAIN Projects
  /\ contents \in Versions(DOMAIN Projects[project])
  /\ \E order \in Orders(DOMAIN contents) :
       Refers(code, Assembled(order, ParsedFiles(contents))[Len(order)])

\* Some files change to any of their versions.
Change(staged) ==
  contents' = [f \in DOMAIN contents |-> IF f \in DOMAIN staged THEN staged[f] ELSE contents[f]]

Swap ==
  /\ \E changed \in SUBSET DOMAIN contents : \E staged \in Versions(changed) :
       /\ Change(staged)
       /\ \E order \in Orders(changed) :
            Refers(code', Swapped(code, order, ParsedFiles(staged))[Len(order)])
  /\ UNCHANGED project

SwapSpec == SwapInit /\ [][Swap]_fileVars

-----------------------------------------------------------------------------

\* The owners of the nodes of a staged graph, and of a graph.
Owned(staged) == {<<staged.nodes[staged.owner[k]], staged.nodes[k]>> :
                    k \in {j \in 1 .. Len(staged.nodes) : staged.owner[j] # 0}}

Ownership(g) == {<<g.nodes[e[1]], g.nodes[e[2]]>> : e \in {x \in g.edges : x[3] = "Contains"}}

\* The nodes of the graph, and what contains what, are those of the files'
\* current contents, each node once and found by every index, whatever order the
\* files came in and however nodes moved (engine.rs:570-572).
FilesAreWhole ==
  /\ UniqueIds(code) /\ Indexed(code)
  /\ Elements(code.nodes) = UNION {Elements(Parsed(f, contents[f]).nodes) : f \in DOMAIN contents}
  /\ Ownership(code) = UNION {Owned(Parsed(f, contents[f])) : f \in DOMAIN contents}

=============================================================================
