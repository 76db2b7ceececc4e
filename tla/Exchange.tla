------------------------------ MODULE Exchange ------------------------------
(***************************************************************************)
(* What a client and a server of requests promise each other: a request is *)
(* handled at most once, and only after it was asked; the caller gets its  *)
(* own answer after the handling, or is told that the request failed --    *)
(* which says nothing of whether it has been or will be handled.           *)
(***************************************************************************)
EXTENDS Naturals

CONSTANT Request

VARIABLES
  status,     \* each request: "new", "asked", "answered" or "failed"
  handled     \* how often the server has handled each

vars == <<status, handled>>

Init == status = [r \in Request |-> "new"] /\ handled = [r \in Request |-> 0]

Move(r, from, to) == status[r] = from /\ status' = [status EXCEPT ![r] = to]

Ask(r) == Move(r, "new", "asked") /\ UNCHANGED handled
Fail(r) == Move(r, "asked", "failed") /\ UNCHANGED handled
Answer(r) == handled[r] > 0 /\ Move(r, "asked", "answered") /\ UNCHANGED handled
Handle(r) ==
  /\ status[r] # "new" /\ handled[r] = 0
  /\ handled' = [handled EXCEPT ![r] = 1] /\ UNCHANGED status

Next == \E r \in Request : Ask(r) \/ Fail(r) \/ Answer(r) \/ Handle(r)

Spec == Init /\ [][Next]_vars
=============================================================================
