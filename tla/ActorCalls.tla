----------------------------- MODULE ActorCalls -----------------------------
(***************************************************************************)
(* What SendOutMessageSync promises its callers, without queues, events or *)
(* recycled messages: a call is answered or expires, never both; an answer *)
(* once made is taken by its caller, however late the caller looks.        *)
(* ActorProtocol.tla is shown to implement it.                             *)
(***************************************************************************)
CONSTANT Clients

VARIABLE call    \* where each client's call is

Init == call = [c \in Clients |-> "none"]

Move(c, from, to) == call[c] = from /\ call' = [call EXCEPT ![c] = to]

Open(c) == Move(c, "none", "open")
Answer(c) == Move(c, "open", "answered")
Take(c) == Move(c, "answered", "taken")
Expire(c) == Move(c, "open", "expired")
Return(c) == Move(c, "taken", "none") \/ Move(c, "expired", "none")

Next == \E c \in Clients : Open(c) \/ Answer(c) \/ Take(c) \/ Expire(c) \/ Return(c)

vars == <<call>>

Spec == Init /\ [][Next]_vars
=============================================================================
