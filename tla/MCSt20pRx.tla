----------------------------- MODULE MCSt20pRx -----------------------------
(***************************************************************************)
(* Instances of St20pRx for TLC.                                            *)
(***************************************************************************)
EXTENDS St20pRx

CONSTANTS u1, u2, c1, c2

MCUsers == {u1, u2}
MCConverters == {c1, c2}

Base == [mode |-> "derive", ext |-> FALSE, incomplete |-> FALSE, block |-> FALSE,
         slots |-> 1, users |-> {u1}, convs |-> {}, frees |-> FALSE, wakes |-> FALSE]

External == [Base EXCEPT !.ext = TRUE, !.incomplete = TRUE, !.slots = 2]
Packet == [Base EXCEPT !.mode = "packet"]
Plugin == [Base EXCEPT !.mode = "plugin"]
Internal == [Base EXCEPT !.mode = "internal", !.users = {u1, u2}]

MCSessions ==
    {External,
     Packet, [Packet EXCEPT !.incomplete = TRUE],
     [Internal EXCEPT !.block = TRUE, !.wakes = TRUE],
     [Internal EXCEPT !.ext = TRUE, !.frees = TRUE],
     [Plugin EXCEPT !.convs = {c1, c2}],
     [Plugin EXCEPT !.convs = {c1}, !.block = TRUE, !.frees = TRUE]}
MCOpaque == {External}
MCPacket == {Packet}
=============================================================================
