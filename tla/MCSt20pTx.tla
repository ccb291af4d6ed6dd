----------------------------- MODULE MCSt20pTx -----------------------------
(***************************************************************************)
(* Instances of St20pTx for TLC. A session chosen in Init stands for a kind *)
(* of application and how it behaves.                                      *)
(***************************************************************************)
EXTENDS St20pTx

CONSTANTS u1, u2, c1, c2

MCUsers == {u1, u2}
MCConverters == {c1, c2}

\* A session that goes on for ever, so that its numbers wrap.
Plain ==
    [mode |-> "derive", ext |-> FALSE, manual |-> FALSE, late |-> FALSE,
     block |-> FALSE, notifyDone |-> TRUE, users |-> {u1}, helpers |-> {}, convs |-> {},
     aborts |-> FALSE, bigMeta |-> FALSE, frees |-> FALSE, maxGets |-> SeqSpan, maxWakes |-> 0]

\* The others stop after five frames, which fill the ring of two slots twice and
\* leave one; where two threads get frames, after four or three, as both may pass
\* the bound at once.
Five == [Plain EXCEPT !.maxGets = 5]
\* External buffers released by hand, frames aborted; two threads do it all.
Manual == [Five EXCEPT !.ext = TRUE, !.manual = TRUE, !.aborts = TRUE, !.users = MCUsers,
                       !.maxGets = 4]
\* The same in the supported way: one thread for the frames, blocking, and
\* releases from the callback.
Release == [Manual EXCEPT !.block = TRUE, !.users = {u1}, !.helpers = {u2}, !.maxGets = 5]
\* Late frames are dropped, with manual release.
ManualLate == [Release EXCEPT !.block = FALSE, !.late = TRUE]
\* A blocking get that an abort, a refused put, a wake_block and a free may meet.
Block == [Five EXCEPT !.block = TRUE, !.notifyDone = FALSE, !.aborts = TRUE,
                      !.bigMeta = TRUE, !.frees = TRUE, !.helpers = {u2}, !.maxWakes = 1]
\* Two threads in blocking gets.
Block2 == [Block EXCEPT !.users = MCUsers, !.aborts = FALSE, !.bigMeta = FALSE, !.maxGets = 3]
\* Two converter threads; or one, beside a blocking get.
Plugin == [Five EXCEPT !.mode = "plugin", !.notifyDone = FALSE, !.convs = MCConverters,
                       !.maxGets = 4]
PluginBlock == [Plugin EXCEPT !.convs = {c1}, !.block = TRUE, !.notifyDone = TRUE]
\* put_ext_frame converts; and late frames are dropped beside a blocking get.
Internal == [Five EXCEPT !.mode = "internal", !.ext = TRUE]
LateDrop == [Internal EXCEPT !.late = TRUE, !.block = TRUE, !.notifyDone = FALSE]

MCSessions ==
    {Plain, Manual, Release, ManualLate, Block, Block2, Plugin, PluginBlock,
     Internal, LateDrop}

MCLive ==
    {[Plain EXCEPT !.late = TRUE, !.notifyDone = FALSE],
     [Plugin EXCEPT !.convs = {c1}, !.maxGets = SeqSpan]}

\* The sessions of the runs that show a disagreement.
MCDoneRace == {Plain}
MCLateRelease == {ManualLate}
=============================================================================
