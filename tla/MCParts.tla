------------------------------ MODULE MCParts ------------------------------
(***************************************************************************)
(* The components that share nothing at run time, checked side by side: a  *)
(* behaviour runs one of them and leaves the others where they start.      *)
(***************************************************************************)
EXTENDS StatCache, MCCode, GraphReaders, MCGraphSearches, NodeTable, VectorTable, ModelFiles,
        BinaryCache, HostConfigs, MCLearning

VARIABLE part   \* the component that runs

partVars == <<vars, graphVars, table, modelVars, binaryVars, hostVars, learningVars,
              vectorVars, searchVars, part>>

MCTableNodes == [id : 1 .. 3, name : {"a", "b"}, file : {"f", "g"}]

\* Two files that grow and shrink, and texts that move between them.
MCTurns == {1 :> <<"a">> @@ 2 :> <<"b", "c">>, 1 :> << >> @@ 2 :> <<"a">>}

Symmetry == Permutations(Servers)

-----------------------------------------------------------------------------

CacheRests == Init /\ content = [f \in Files |-> Absent]

\* Redirected, so that no state of another part is compared with a full index.
GraphRests == code = EmptyGraph /\ project = "none" /\ contents = << >> /\ updates = 0 /\ redirected = TRUE

SearchRests == graph = EmptyGraph /\ SearchStarts

VectorsRest == rows = {} /\ recorded = NoModel /\ VectorInit

BinaryRests == bin = "none" /\ bypass = {} /\ BinaryInit

HostRests == format = "json" /\ config = NoConfig /\ HostInit

PartsInit ==
  /\ part \in {"cache", "code", "search", "table", "vectors", "model", "binary", "host", "learn"}
  /\ IF part = "cache" THEN Init ELSE CacheRests
  /\ IF part = "code" THEN GraphInit ELSE GraphRests
  /\ IF part = "search" THEN SearchInit ELSE SearchRests
  /\ IF part = "vectors" THEN VectorInit ELSE VectorsRest
  /\ IF part = "binary" THEN BinaryInit ELSE BinaryRests
  /\ IF part = "host" THEN HostInit ELSE HostRests
  /\ TableInit /\ ModelInit /\ LearningInit

PartsNext ==
  \/ /\ part = "cache" /\ Next
     /\ UNCHANGED <<graphVars, table, modelVars, binaryVars, hostVars, learningVars, vectorVars,
                  searchVars>>
  \/ /\ part = "code" /\ GraphNext
     /\ UNCHANGED <<vars, table, modelVars, binaryVars, hostVars, learningVars, vectorVars,
                  searchVars>>
  \/ /\ part = "table" /\ TableNext
     /\ UNCHANGED <<vars, graphVars, modelVars, binaryVars, hostVars, learningVars, vectorVars,
                  searchVars>>
  \/ /\ part = "model" /\ ModelNext
     /\ UNCHANGED <<vars, graphVars, table, binaryVars, hostVars, learningVars, vectorVars,
                  searchVars>>
  \/ /\ part = "binary" /\ BinaryNext
     /\ UNCHANGED <<vars, graphVars, table, modelVars, hostVars, learningVars, vectorVars,
                  searchVars>>
  \/ /\ part = "host" /\ HostNext
     /\ UNCHANGED <<vars, graphVars, table, modelVars, binaryVars, learningVars, vectorVars,
                  searchVars>>
  \/ /\ part = "learn" /\ LearningNext
     /\ UNCHANGED <<vars, graphVars, table, modelVars, binaryVars, hostVars, vectorVars,
                  searchVars>>
  \/ /\ part = "vectors" /\ VectorNext
     /\ UNCHANGED <<vars, graphVars, table, modelVars, binaryVars, hostVars, learningVars,
                  searchVars>>
  \/ /\ part = "search" /\ SearchNext
     /\ UNCHANGED <<vars, graphVars, table, modelVars, binaryVars, hostVars, learningVars,
                  vectorVars>>

\* The graph of an index and of every update is put together from its files as
\* FileSwaps says, whichever references the resolvers find: no file keeps a node of
\* its old contents or loses one to another file's change (engine.rs:570-603).
SwapsFiles == (part = "code" => SwapInit) /\ [][part = "code" /\ Swap]_fileVars

PartsSpec == PartsInit /\ [][PartsNext /\ UNCHANGED part]_partVars

=============================================================================
