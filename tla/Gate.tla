-------------------------------- MODULE Gate --------------------------------
(***************************************************************************)
(* What the lifecycle gate of a session handle promises to the rest of the  *)
(* library: calls are let in while the handle is open, and the session is   *)
(* destroyed only when it was closed and every call has left. How this is   *)
(* done, with two atomics and no lock, is HandleGuard.                      *)
(***************************************************************************)
CONSTANT Clients

VARIABLES
    inside,     \* clients between MT_HANDLE_GUARD and MT_HANDLE_RELEASE
    life        \* "open", "closing" from the destroy claim on, "gone"

vars == <<inside, life>>

Init == inside = {} /\ life = "open"

Enter(c) ==
    /\ life = "open" /\ c \notin inside
    /\ inside' = inside \cup {c}
    /\ UNCHANGED life

Leave(c) ==
    /\ c \in inside
    /\ inside' = inside \ {c}
    /\ UNCHANGED life

Close ==
    /\ life = "open"
    /\ life' = "closing"
    /\ UNCHANGED inside

Destroy ==
    /\ life = "closing" /\ inside = {}
    /\ life' = "gone"
    /\ UNCHANGED inside

Next ==
    \/ \E c \in Clients : Enter(c) \/ Leave(c)
    \/ Close \/ Destroy

Spec == Init /\ [][Next]_vars
=============================================================================
