---------------------------- MODULE MCFreshness ----------------------------
EXTENDS Freshness, TLC

\* Files, reads and upgrades are interchangeable.
Symmetry == Permutations(Files) \cup Permutations(Readers) \cup Permutations(Upgrades)

=============================================================================
