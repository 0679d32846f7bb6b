---------------------------- MODULE AtomicIndex ----------------------------
(***************************************************************************)
(* What the generation store promises a reader: at any time either no      *)
(* index or one complete index is served. An activation replaces it in one *)
(* step by an index of sources no older than those the served one was      *)
(* installed with; a live server may refresh the installed one in between, *)
(* and the next activation may undo that much. Only a semantic upgrade,    *)
(* which derives its index from one read earlier, may go further back.     *)
(***************************************************************************)
EXTENDS Naturals

CONSTANTS
  MaxSource,   \* bound: number of source states
  NoIndex      \* nothing is served

VARIABLES
  source,      \* current state of the project's files
  served,      \* source state the served index reflects, or NoIndex
  installed,   \* source state it was installed with, or NoIndex
  upgrading    \* whether it is a semantic upgrade's turn to activate

Init == source = 0 /\ served = NoIndex /\ installed = NoIndex /\ upgrading = FALSE

EditSources ==
  /\ source < MaxSource
  /\ source' = source + 1
  /\ UNCHANGED <<served, installed, upgrading>>

\* Runs take turns.
Turn == upgrading' \in BOOLEAN /\ UNCHANGED <<source, served, installed>>

\* A live index of the installed one, at any state of the sources since, is saved.
Refresh ==
  /\ installed \in 0..source
  /\ served' \in installed..source
  /\ UNCHANGED <<source, installed, upgrading>>

\* A first index of any earlier source state, or a replacement of no older one than
\* was installed before.
Activate ==
  /\ served' \in {s \in 0..source : installed # NoIndex /\ ~upgrading => s >= installed}
  /\ installed' = served'
  /\ UNCHANGED <<source, upgrading>>

Next == EditSources \/ Turn \/ Refresh \/ Activate

Spec == Init /\ [][Next]_<<source, served, installed, upgrading>>

=============================================================================
