------------------------- MODULE MCGenerationStore -------------------------
EXTENDS GenerationStore, TLC

\* Runs and generation ids are interchangeable.
Symmetry == Permutations(Indexers) \cup Permutations(Gens)

=============================================================================
