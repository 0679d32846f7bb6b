--------------------------- MODULE RequestPort ---------------------------
(***************************************************************************)
(* What a session promises its client: a request it has read is open until *)
(* it is answered, once, or withdrawn without an answer, which takes a     *)
(* cancellation that came while it was open.                               *)
(***************************************************************************)
EXTENDS Naturals

CONSTANT Requests

VARIABLES
  open,        \* requests read and not ended
  cancelled,   \* requests the client has cancelled while they were open
  answered,    \* answered[r]: responses to r
  withdrawn    \* requests ended without an answer

Init ==
  /\ open = {} /\ cancelled = {} /\ withdrawn = {}
  /\ answered = [r \in Requests |-> 0]

Ask(r) ==
  /\ r \notin open \cup withdrawn /\ answered[r] = 0
  /\ open' = open \cup {r}
  /\ UNCHANGED <<cancelled, answered, withdrawn>>

Cancel(r) ==
  /\ r \in open
  /\ cancelled' = cancelled \cup {r}
  /\ UNCHANGED <<open, answered, withdrawn>>

Respond(r) ==
  /\ r \in open
  /\ open' = open \ {r}
  /\ answered' = [answered EXCEPT ![r] = 1]
  /\ UNCHANGED <<cancelled, withdrawn>>

Withdraw(r) ==
  /\ r \in open \cap cancelled
  /\ open' = open \ {r}
  /\ withdrawn' = withdrawn \cup {r}
  /\ UNCHANGED <<cancelled, answered>>

Next == \E r \in Requests : Ask(r) \/ Cancel(r) \/ Respond(r) \/ Withdraw(r)

Spec == Init /\ [][Next]_<<open, cancelled, answered, withdrawn>>

=============================================================================
