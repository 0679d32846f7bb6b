----------------------------- MODULE MCServer -----------------------------
EXTENDS Server, TLC

\* Requests and ids are interchangeable.
Symmetry == Permutations(Requests) \cup Permutations(Keys)

=============================================================================
