----------------------------- MODULE MCRxVideo -----------------------------
(***************************************************************************)
(* Instances of RxVideo for TLC.                                            *)
(***************************************************************************)
EXTENDS RxVideo

Base == [ports |-> {"P"}, slots |-> 1, incomplete |-> FALSE, ext |-> FALSE,
         refuse |-> FALSE, loss |-> TRUE, extras |-> 0, bare |-> FALSE, down |-> {},
         detach |-> FALSE, sends |-> 4, window |-> 2, skew |-> 100]
Both == [Base EXCEPT !.ports = {"P", "R"}, !.slots = 2, !.window = 1, !.skew = 3]

MCSessions ==
    {[Base EXCEPT !.refuse = TRUE],
     [Base EXCEPT !.incomplete = TRUE, !.extras = 1, !.bare = TRUE],
     [Base EXCEPT !.ext = TRUE, !.slots = 2],
     [Both EXCEPT !.sends = 3],
     [Both EXCEPT !.sends = 2, !.extras = 1, !.bare = TRUE, !.detach = TRUE],
     [Both EXCEPT !.down = {"R"}, !.extras = 1, !.bare = TRUE],
     [Both EXCEPT !.loss = FALSE, !.skew = 7],
     [Both EXCEPT !.loss = FALSE, !.window = 2]}

MCRefused == {[Base EXCEPT !.incomplete = TRUE, !.refuse = TRUE]}
MCInOrder == {[Base EXCEPT !.window = 1, !.loss = FALSE]}
MCTwin == {Both}
=============================================================================
