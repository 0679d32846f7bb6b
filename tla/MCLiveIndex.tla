---------------------------- MODULE MCLiveIndex ----------------------------
EXTENDS LiveIndex, TLC

\* Files and servers are interchangeable.
Symmetry == Permutations(Files) \cup Permutations(Servers)

=============================================================================
