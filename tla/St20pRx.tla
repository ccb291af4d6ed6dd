------------------------------ MODULE St20pRx ------------------------------
(***************************************************************************)
(* The ST 2110-20 receive pipeline session (st20_pipeline_rx.c): a ring of  *)
(* slots that carries the transport's framebuffers to a converter and to    *)
(* the application, and the framebuffers back to the transport.             *)
(*                                                                          *)
(*   the tasklet  the transport's lcore: query_ext_frame, packet_convert    *)
(*                and frame_ready, one handler at a time;                   *)
(*   Converters   plugin threads: convert_get_frame, convert_put_frame;     *)
(*   Users        application threads: get_frame, put_frame(_abort),        *)
(*                wake_block;                                               *)
(*   the freer    one st20p_rx_free that won mt_handle_begin_destroy.       *)
(*                                                                          *)
(* One load, store or CAS of shared state is one step; a scan of the ring   *)
(* reads one stat per step. lock; signal; unlock is one step that needs the *)
(* mutex. Of the transport (RxVideo) only the pool of framebuffers and the  *)
(* frames being put together are kept.                                      *)
(***************************************************************************)
EXTENDS Integers, FiniteSets

CONSTANTS
    N,              \* framebuff_cnt, of the ring and of the transport's pool
    Users, Converters, Tasklet, None,
    Sessions        \* the ops a session may be created with, and its application

Slots == 0 .. N - 1
Threads == Users \cup Converters \cup {Tasklet}

\* RTP timestamps, which are only compared for equality: one more than slots
\* and framebuffers can have at a time.
Stamps == 0 .. 2 * N

\* What st20p_rx_create is given, and how application and stream behave.
SessionSet ==
    [mode : {"derive", "internal", "plugin", "packet"},  \* who converts the frame
     ext : BOOLEAN,         \* query_ext_frame is registered
     incomplete : BOOLEAN,  \* ST20P_RX_FLAG_RECEIVE_INCOMPLETE_FRAME
     block : BOOLEAN,       \* ST20P_RX_FLAG_BLOCK_GET
     slots : 1 .. 2,        \* slot_max of the transport
     users : SUBSET Users, convs : SUBSET Converters,
     frees : BOOLEAN,       \* the application frees the session
     wakes : BOOLEAN]       \* and uses st20p_rx_wake_block

ASSUME SizeAssumption == N \in Nat \ {0}
ASSUME ThreadsAssumption ==
    /\ Users \cap Converters = {} /\ Tasklet \notin Users \cup Converters
    /\ None \notin Threads \cup Slots
ASSUME SessionsAssumption ==
    \A o \in Sessions : o \in SessionSet /\ (o.mode = "derive" /\ o.ext => o.incomplete)

VARIABLES
    ops,        \* the session's flags, from create on
    stat,       \* framebuffs[i].stat
    src,        \* the transport framebuffer in framebuffs[i].src.addr[0]
    opaque,     \* framebuffs[i].src.opaque: the framebuffer it was given for
    stamp,      \* framebuffs[i].dst.timestamp
    prod, conv, cons,       \* framebuff_producer_idx, _convert_idx, _consumer_idx
    mutex, asleep, pending, \* block_wake_mutex, its cond's queue, block_wake_pending
    pc, at, from,           \* per thread: place, steps of its scan, idx_start
    best,       \* per thread: the slot it claimed or handles
    waited,     \* users whose get_frame has been through the wait loop
    phase,      \* progress of st20p_rx_free
    refs,       \* transport framebuffers that are not free
    filling,    \* transport framebuffers being filled
    begun,      \* those of them whose first packet has arrived
    rtp,        \* per framebuffer: the timestamp of the frame that fills it
    cur, whole, \* the framebuffer the tasklet is handling; the frame is complete
    held,       \* slots the application holds
    lost,       \* history: framebuffers neither side will ever give back
    ahead,      \* history: the slots that were ready for get_frame before this one
    passed      \* history: how many newer frames overtook the one in a slot

ring == <<stat, src, opaque, stamp>>
index == <<prod, conv, cons>>
sync == <<mutex, asleep, pending, waited>>
transport == <<refs, filling, begun, rtp, cur, whole>>
local == <<pc, at, from, best>>
history == <<ahead, passed, lost>>
vars == <<ops, ring, index, sync, transport, local, phase, held, history>>

Stats == {"FREE", "READY", "IN_CONVERTING", "CONVERTED", "IN_USER"}
UserPC == {"out", "scan", "cas", "lock", "loop", "wait", "relock", "timedout",
           "unlock", "check", "got", "putting"}
ConvPC == {"out", "scan", "cas", "index", "convert", "notify", "putting"}
TaskPC == {"out", "query", "first", "ready", "fill", "notify", "wrong"}

TypeOK ==
    /\ ops \in Sessions
    /\ stat \in [Slots -> Stats]
    /\ src \in [Slots -> Slots \cup {None}]
    /\ opaque \in [Slots -> Slots \cup {None}]
    /\ stamp \in [Slots -> Stamps \cup {None}]
    /\ {prod, conv, cons} \subseteq Slots
    /\ mutex \in Users \cup {None}
    /\ asleep \subseteq Users /\ waited \subseteq Users
    /\ pending \in BOOLEAN
    /\ \A u \in Users : pc[u] \in UserPC
    /\ \A c \in Converters : pc[c] \in ConvPC
    /\ pc[Tasklet] \in TaskPC
    /\ at \in [Threads -> 0 .. N]
    /\ from \in [Threads -> Slots]
    /\ best \in [Threads -> Slots \cup {None}]
    /\ phase \in {"run", "wake", "drain", "close", "closed"}
    /\ refs \subseteq Slots
    /\ begun \subseteq Slots /\ rtp \in [Slots -> Stamps \cup {None}]
    /\ cur \in Slots \cup {None} /\ whole \in BOOLEAN
    /\ filling \subseteq Slots /\ Cardinality(filling) <= ops.slots
    /\ held \subseteq Slots /\ lost \subseteq Slots
    /\ ahead \in [Slots -> SUBSET Slots]
    /\ passed \in [Slots -> 0 .. N]

Init ==
    /\ ops \in Sessions
    /\ stat = [s \in Slots |-> "FREE"]
    /\ src = [s \in Slots |-> None]
    /\ opaque = [s \in Slots |-> None]
    /\ stamp = [s \in Slots |-> None]
    /\ prod = 0 /\ conv = 0 /\ cons = 0
    /\ mutex = None /\ asleep = {} /\ pending = FALSE /\ waited = {}
    /\ pc = [t \in Threads |-> "out"]
    /\ at = [t \in Threads |-> 0]
    /\ from = [t \in Threads |-> 0]
    /\ best = [t \in Threads |-> None]
    /\ phase = "run"
    /\ refs = {} /\ filling = {} /\ begun = {} /\ cur = None /\ whole = FALSE
    /\ rtp = [f \in Slots |-> None]
    /\ held = {} /\ lost = {}
    /\ ahead = [s \in Slots |-> {}]
    /\ passed = [s \in Slots |-> 0]
-----------------------------------------------------------------------------
Destroying == phase # "run"

\* A guarded call of the application begins.
Call(u) == pc[u] = "out" /\ u \in ops.users /\ ~Destroying

\* Mutant of NextIdx: the index is not wrapped.
Bug_NoWrap(i) == i + 1

\* rx_st20p_next_idx
NextIdx(i) == IF i + 1 >= N THEN 0 ELSE i + 1

Goto(t, l) == pc' = [pc EXCEPT ![t] = l]
Store(s, x) == stat' = [stat EXCEPT ![s] = x]

\* The handler of t is over and its locals are gone.
Return(t) ==
    /\ pc' = [pc EXCEPT ![t] = "out"]
    /\ at' = [at EXCEPT ![t] = 0]
    /\ from' = [from EXCEPT ![t] = 0]
    /\ best' = [best EXCEPT ![t] = None]

\* rx_st20p_next_available begins at idx.
StartScan(t, l, idx) ==
    /\ Goto(t, l)
    /\ at' = [at EXCEPT ![t] = 0]
    /\ from' = [from EXCEPT ![t] = idx]

\* Mutant of Scanned: the scan starts at slot 0, not at the index.
Bug_FromZero(t) == at[t] % N

\* The slot that the scan of t reads next.
Scanned(t) == (from[t] + at[t]) % N

\* One turn of the scan that did not find what it wants.
ScanOn(t) == at' = [at EXCEPT ![t] = @ + 1] /\ UNCHANGED <<pc, from, best>>

\* pthread_cond_signal: one of the queued threads, if there is one.
Signal ==
    IF asleep = {} THEN UNCHANGED asleep
                   ELSE \E u \in asleep : asleep' = asleep \ {u}

\* Mutant of NotifyFrameAvailable: the signal is sent without the mutex.
Bug_SignalUnlocked == IF ops.block THEN Signal ELSE UNCHANGED asleep

\* rx_st20p_notify_frame_available
NotifyFrameAvailable ==
    IF ops.block THEN mutex = None /\ Signal ELSE UNCHANGED asleep

\* What get_frame claims.
Wanted == IF ops.mode = "internal" THEN "READY" ELSE "CONVERTED"

\* History: slot s is offered to get_frame, and claimed by it.
Offered(s) ==
    /\ ahead' = [ahead EXCEPT ![s] = {r \in Slots : stat[r] = Wanted}]
    /\ UNCHANGED <<passed, lost>>
Delivered(s) ==
    /\ ahead' = [r \in Slots |-> IF r = s THEN {} ELSE ahead[r] \ {s}]
    /\ passed' = [r \in Slots |-> IF r = s THEN 0
                                  ELSE IF r \in ahead[s] /\ passed[r] < N THEN passed[r] + 1
                                  ELSE passed[r]]
    /\ UNCHANGED lost
-----------------------------------------------------------------------------
\* The transport's tasklet

TaskletReturn == Return(Tasklet) /\ cur' = None /\ whole' = FALSE

\* A timestamp no slot and no framebuffer has. Only packet mode looks at them.
Fresh ==
    LET used == {stamp[s] : s \in Slots} \cup {rtp[f] : f \in Slots}
    IN  IF ops.mode # "packet" THEN 0
        ELSE CHOOSE x \in Stamps \ used : \A y \in Stamps \ used : x <= y

\* rv_slot_by_tmstamp opens a frame in a free framebuffer. With derive and
\* external frames it asks rx_st20p_query_ext_frame.
OpenFrame ==
    /\ pc[Tasklet] = "out" /\ phase # "closed"
    /\ Cardinality(filling) < ops.slots
    /\ \E f \in Slots \ refs :
        /\ \A g \in Slots \ refs : f <= g
        /\ refs' = refs \cup {f}
        /\ filling' = filling \cup {f}
        /\ rtp' = [rtp EXCEPT ![f] = Fresh]
        /\ IF ops.mode = "derive" /\ ops.ext
           THEN StartScan(Tasklet, "query", prod) /\ cur' = f
           ELSE UNCHANGED <<pc, at, from, cur>>
    /\ UNCHANGED <<ring, index, sync, begun, whole, best, phase, held, history>>

\* The frame of f is no longer the transport's.
Leaves(f) ==
    /\ filling' = filling \ {f}
    /\ begun' = begun \ {f}
    /\ rtp' = [rtp EXCEPT ![f] = None]

\* rx_st20p_query_ext_frame. Without a FREE slot, or when the application has
\* no buffer, the transport drops the frame.
QueryExtFrame ==
    /\ pc[Tasklet] = "query"
    /\ \/ /\ at[Tasklet] < N /\ stat[Scanned(Tasklet)] # "FREE"
          /\ ScanOn(Tasklet)
          /\ UNCHANGED <<opaque, transport>>
       \/ /\ at[Tasklet] < N /\ stat[Scanned(Tasklet)] = "FREE"
          /\ opaque' = [opaque EXCEPT ![Scanned(Tasklet)] = cur]
          /\ TaskletReturn
          /\ UNCHANGED <<refs, filling, begun, rtp>>
       \/ /\ at[Tasklet] = N \/ stat[Scanned(Tasklet)] = "FREE"
          /\ TaskletReturn
          /\ refs' = refs \ {cur}
          /\ Leaves(cur)
          /\ UNCHANGED opaque
    /\ UNCHANGED <<stat, src, stamp, index, sync, phase, held, history>>

\* The first packet of a frame, early or late or never, in packet mode.
FirstPacket(f) ==
    /\ pc[Tasklet] = "out" /\ phase # "closed"
    /\ ops.mode = "packet" /\ f \in filling \ begun
    /\ begun' = begun \cup {f}
    /\ cur' = f
    /\ StartScan(Tasklet, "first", prod)
    /\ UNCHANGED <<ring, index, sync, refs, filling, rtp, whole, best, phase, held, history>>

\* rx_st20p_packet_convert for the first packet of a frame. The others find the
\* slot again by its timestamp, or are refused, and change nothing here.
PacketConvert ==
    /\ pc[Tasklet] = "first"
    /\ \/ /\ at[Tasklet] < N /\ stat[Scanned(Tasklet)] # "FREE"
          /\ ScanOn(Tasklet) /\ UNCHANGED <<cur, whole>>
          /\ UNCHANGED <<stat, stamp>>
       \/ /\ at[Tasklet] < N /\ stat[Scanned(Tasklet)] = "FREE"
          /\ Store(Scanned(Tasklet), "IN_CONVERTING")
          /\ stamp' = [stamp EXCEPT ![Scanned(Tasklet)] = rtp[cur]]
          /\ TaskletReturn
       \/ /\ at[Tasklet] = N
          /\ TaskletReturn
          /\ UNCHANGED <<stat, stamp>>
    /\ UNCHANGED <<src, opaque, index, sync, refs, filling, begun, rtp, phase, held, history>>

\* The transport gives up an incomplete frame, when the session does not want it.
DiscardFrame(f) ==
    /\ pc[Tasklet] = "out" /\ phase # "closed"
    /\ ~ops.incomplete /\ f \in filling
    /\ Leaves(f)
    /\ refs' = refs \ {f}
    /\ UNCHANGED <<ring, index, sync, cur, whole, local, phase, held, history>>

\* rv_frame_notify calls rx_st20p_frame_ready, for a frame that is complete or
\* that the session wants although it is not.
FrameReady(f) ==
    /\ pc[Tasklet] = "out" /\ phase # "closed"
    /\ f \in filling
    /\ whole' \in BOOLEAN
    /\ IF whole' THEN ops.mode = "packet" => f \in begun ELSE ops.incomplete
    /\ filling' = filling \ {f}
    /\ begun' = begun \ {f}
    /\ cur' = f
    /\ StartScan(Tasklet, "ready", prod)
    /\ UNCHANGED <<ring, index, sync, refs, rtp, best, phase, held, history>>

\* frame_ready returns an error. The transport takes a complete frame's
\* framebuffer back; for an incomplete frame it does not look at the answer.
Refused ==
    /\ refs' = IF whole THEN refs \ {cur} ELSE refs
    /\ lost' = IF whole THEN lost ELSE lost \cup {cur}
    /\ rtp' = [rtp EXCEPT ![cur] = None]
    /\ TaskletReturn

\* Its search for a slot. In packet mode a slot of another frame makes it look
\* for the next one, from the same slot. No slot: -EBUSY.
FrameReadyScan ==
    LET desired == IF ops.mode = "packet" THEN "IN_CONVERTING" ELSE "FREE"
        s == Scanned(Tasklet)
    IN  /\ pc[Tasklet] = "ready"
        /\ \/ /\ at[Tasklet] < N /\ stat[s] # desired
              /\ ScanOn(Tasklet)
              /\ UNCHANGED <<refs, lost, rtp, cur, whole>>
           \/ /\ at[Tasklet] < N /\ stat[s] = desired
              /\ best' = [best EXCEPT ![Tasklet] = s]
              /\ Goto(Tasklet, IF ops.mode = "packet" /\ stamp[s] # rtp[cur]
                               THEN "wrong" ELSE "fill")
              /\ UNCHANGED <<at, from, refs, lost, rtp, cur, whole>>
           \/ at[Tasklet] = N /\ Refused
        /\ UNCHANGED <<ring, index, sync, filling, begun, phase, held, ahead, passed>>

\* "should never happen": the error is suppressed by returning success.
FrameReadyWrong ==
    /\ pc[Tasklet] = "wrong"
    /\ TaskletReturn
    /\ lost' = lost \cup {cur}
    /\ rtp' = [rtp EXCEPT ![cur] = None]
    /\ UNCHANGED <<ring, index, sync, refs, filling, begun, phase, held, ahead, passed>>

\* query_ext_frame of the convert modes fails, which is returned.
FrameReadyNoExt ==
    /\ pc[Tasklet] = "fill" /\ ops.ext /\ ops.mode # "derive"
    /\ Refused
    /\ UNCHANGED <<ring, index, sync, filling, begun, phase, held, ahead, passed>>

\* The slot is filled in and published.
FrameReadyStore ==
    LET s == best[Tasklet]
        new == IF ops.mode \in {"derive", "packet"} THEN "CONVERTED" ELSE "READY"
    IN  /\ pc[Tasklet] = "fill"
        /\ src' = [src EXCEPT ![s] = cur]
        /\ stamp' = [stamp EXCEPT ![s] = rtp[cur]]
        /\ rtp' = [rtp EXCEPT ![cur] = None]
        /\ Store(s, new)
        /\ IF new = Wanted THEN Offered(s) ELSE UNCHANGED history
        /\ prod' = NextIdx(s)
        /\ Goto(Tasklet, "notify")
        /\ UNCHANGED <<opaque, conv, cons, sync, refs, filling, begun, cur, whole,
                       at, from, best, phase, held>>

\* The converter plugin is told without a lock; the application as above.
FrameReadyNotify ==
    /\ pc[Tasklet] = "notify"
    /\ IF ops.mode = "plugin" THEN UNCHANGED asleep ELSE NotifyFrameAvailable
    /\ TaskletReturn
    /\ UNCHANGED <<ring, index, mutex, pending, waited, refs, filling, begun, rtp,
                   phase, held, history>>
-----------------------------------------------------------------------------
\* st20p_rx_get_frame

GetFrame(u) ==
    /\ Call(u)
    /\ StartScan(u, "scan", cons)
    /\ UNCHANGED <<ring, index, sync, transport, best, phase, held, history>>

\* One turn of rx_st20p_next_available, and what get_frame does with NULL: wait
\* if it owns the mutex, lock if it may block and has not, or give up.
GetScan(u) ==
    /\ pc[u] = "scan"
    /\ \/ /\ at[u] < N
          /\ IF stat[Scanned(u)] = Wanted
             THEN Goto(u, "cas") /\ UNCHANGED <<at, from, best>>
             ELSE ScanOn(u)
          /\ UNCHANGED sync
       \/ /\ at[u] = N /\ mutex = u
          /\ Goto(u, "wait")
          /\ mutex' = None
          /\ asleep' = asleep \cup {u}
          /\ UNCHANGED <<pending, waited, at, from, best>>
       \/ /\ at[u] = N /\ mutex # u /\ ops.block /\ u \notin waited
          /\ Goto(u, "lock")
          /\ UNCHANGED <<sync, at, from, best>>
       \/ /\ at[u] = N /\ mutex # u /\ (ops.block => u \in waited)
          /\ Return(u)
          /\ waited' = waited \ {u}
          /\ UNCHANGED <<mutex, asleep, pending>>
    /\ UNCHANGED <<ring, index, transport, phase, held, history>>

\* Mutant of GetClaim: a store instead of the CAS.
Bug_GetStore(u) ==
    /\ pc[u] = "cas"
    /\ Store(Scanned(u), "IN_USER")
    /\ Delivered(Scanned(u))
    /\ best' = [best EXCEPT ![u] = Scanned(u)]
    /\ Goto(u, IF mutex = u THEN "unlock" ELSE "got")
    /\ UNCHANGED <<src, opaque, stamp, index, sync, transport, at, from, phase, held>>

\* The CAS of rx_st20p_claim_available; a lost race scans again.
GetClaim(u) ==
    /\ pc[u] = "cas"
    /\ IF stat[Scanned(u)] = Wanted
       THEN /\ Store(Scanned(u), "IN_USER")
            /\ Delivered(Scanned(u))
            /\ best' = [best EXCEPT ![u] = Scanned(u)]
            /\ Goto(u, IF mutex = u THEN "unlock" ELSE "got")
            /\ UNCHANGED <<at, from>>
       ELSE /\ StartScan(u, "scan", from[u])
            /\ UNCHANGED <<stat, best, history>>
    /\ UNCHANGED <<src, opaque, stamp, index, sync, transport, phase, held>>

GetLock(u) ==
    /\ pc[u] = "lock" /\ mutex = None
    /\ mutex' = u
    /\ Goto(u, "loop")
    /\ UNCHANGED <<ring, index, asleep, pending, waited, transport, at, from, best,
                   phase, held, history>>

\* The condition of the wait loop.
GetLoop(u) ==
    /\ pc[u] = "loop"
    /\ IF pending \/ Destroying
       THEN Goto(u, "unlock") /\ UNCHANGED <<at, from>>
       ELSE StartScan(u, "scan", cons)
    /\ UNCHANGED <<ring, index, sync, transport, best, phase, held, history>>

\* pthread_cond_timedwait returns: signalled, or past the deadline.
GetWake(u) ==
    /\ pc[u] = "wait" /\ u \notin asleep
    /\ Goto(u, "relock")
    /\ UNCHANGED <<ring, index, sync, transport, at, from, best, phase, held, history>>

GetTimeout(u) ==
    /\ pc[u] = "wait" /\ u \in asleep
    /\ asleep' = asleep \ {u}
    /\ Goto(u, "timedout")
    /\ UNCHANGED <<ring, index, mutex, pending, waited, transport, at, from, best,
                   phase, held, history>>

GetRelock(u) ==
    /\ pc[u] \in {"relock", "timedout"} /\ mutex = None
    /\ mutex' = u
    /\ Goto(u, IF pc[u] = "relock" THEN "loop" ELSE "unlock")
    /\ UNCHANGED <<ring, index, asleep, pending, waited, transport, at, from, best,
                   phase, held, history>>

\* Whoever leaves the wait loop clears block_wake_pending, for all waiters.
GetUnlock(u) ==
    /\ pc[u] = "unlock"
    /\ pending' = FALSE
    /\ mutex' = None
    /\ waited' = waited \cup {u}
    /\ Goto(u, "check")
    /\ UNCHANGED <<ring, index, asleep, transport, at, from, best, phase, held, history>>

\* A frame claimed in the loop is returned even when the session is dying;
\* otherwise the ring is scanned again.
GetCheck(u) ==
    /\ pc[u] = "check"
    /\ IF best[u] # None
       THEN Goto(u, "got") /\ UNCHANGED <<at, from, best, waited>>
       ELSE IF Destroying
            THEN Return(u) /\ waited' = waited \ {u}
            ELSE StartScan(u, "scan", cons) /\ UNCHANGED <<best, waited>>
    /\ UNCHANGED <<ring, index, mutex, asleep, pending, transport, phase, held, history>>

\* The claimed frame goes to the application.
GetReturn(u) ==
    /\ pc[u] = "got"
    /\ cons' = NextIdx(best[u])
    /\ held' = held \cup {best[u]}
    /\ Return(u)
    /\ waited' = waited \ {u}
    /\ UNCHANGED <<ring, prod, conv, mutex, asleep, pending, transport, phase, history>>
-----------------------------------------------------------------------------

\* Mutant of PutFrame: the slot is freed, the framebuffer is kept.
Bug_SlotOnly(u, s) ==
    /\ Call(u) /\ s \in held
    /\ held' = held \ {s}
    /\ Goto(u, "putting")
    /\ best' = [best EXCEPT ![u] = s]
    /\ UNCHANGED <<ring, index, sync, transport, at, from, phase, history>>

\* st20p_rx_put_frame and st20p_rx_put_frame_abort: the framebuffer goes back to
\* the transport, then the slot is freed.
PutFrame(u, s) ==
    /\ Call(u) /\ s \in held
    /\ held' = held \ {s}
    /\ IF stat[s] # "IN_USER" THEN UNCHANGED <<refs, pc, best>>
       ELSE /\ refs' = refs \ {src[s]}
            /\ Goto(u, "putting")
            /\ best' = [best EXCEPT ![u] = s]
    /\ UNCHANGED <<ring, index, sync, filling, begun, rtp, cur, whole, at, from, phase, history>>

\* The second half of a put, of the application or of a converter that failed.
PutStore(t) ==
    /\ pc[t] = "putting"
    /\ Store(best[t], "FREE")
    /\ Return(t)
    /\ UNCHANGED <<src, opaque, stamp, index, sync, transport, phase, held, history>>

\* st20p_rx_wake_block: rx_st20p_block_wake is a broadcast.
WakeBlock(u) ==
    /\ Call(u) /\ ops.block /\ ops.wakes /\ mutex = None
    /\ pending' = TRUE
    /\ asleep' = {}
    /\ UNCHANGED <<ring, index, mutex, waited, transport, local, phase, held, history>>
-----------------------------------------------------------------------------
\* The converter plugin: rx_st20p_convert_get_frame, convert_put_frame

ConvertGet(c) ==
    /\ pc[c] = "out" /\ c \in ops.convs /\ ~Destroying
    /\ ops.mode = "plugin"
    /\ StartScan(c, "scan", conv)
    /\ UNCHANGED <<ring, index, sync, transport, best, phase, held, history>>

ConvertScan(c) ==
    /\ pc[c] = "scan"
    /\ IF at[c] = N THEN Return(c)
       ELSE IF stat[Scanned(c)] # "READY" THEN ScanOn(c)
       ELSE Goto(c, "cas") /\ UNCHANGED <<at, from, best>>
    /\ UNCHANGED <<ring, index, sync, transport, phase, held, history>>

ConvertClaim(c) ==
    /\ pc[c] = "cas"
    /\ IF stat[Scanned(c)] = "READY"
       THEN /\ Store(Scanned(c), "IN_CONVERTING")
            /\ best' = [best EXCEPT ![c] = Scanned(c)]
            /\ Goto(c, "index")
            /\ at' = [at EXCEPT ![c] = 0] /\ from' = [from EXCEPT ![c] = 0]
       ELSE /\ StartScan(c, "scan", from[c])
            /\ UNCHANGED <<stat, best>>
    /\ UNCHANGED <<src, opaque, stamp, index, sync, transport, phase, held, history>>

ConvertIndex(c) ==
    /\ pc[c] = "index"
    /\ conv' = NextIdx(best[c])
    /\ Goto(c, "convert")
    /\ UNCHANGED <<ring, prod, cons, sync, transport, at, from, best, phase, held, history>>

\* A put that the handle refuses or that finds another stat is dropped.
ConvertPut(c) ==
    /\ pc[c] = "convert"
    /\ \/ /\ Destroying \/ stat[best[c]] # "IN_CONVERTING"
          /\ Return(c)
          /\ UNCHANGED <<stat, refs, history>>
       \/ /\ ~Destroying /\ stat[best[c]] = "IN_CONVERTING"
          /\ Store(best[c], "CONVERTED")
          /\ Offered(best[c])
          /\ Goto(c, "notify")
          /\ UNCHANGED <<refs, at, from, best>>
       \/ /\ ~Destroying /\ stat[best[c]] = "IN_CONVERTING"
          /\ refs' = refs \ {src[best[c]]}
          /\ Goto(c, "putting")
          /\ UNCHANGED <<stat, history, at, from, best>>
    /\ UNCHANGED <<src, opaque, stamp, index, sync, filling, begun, rtp, cur, whole, phase, held>>

ConvertNotify(c) ==
    /\ pc[c] = "notify"
    /\ NotifyFrameAvailable
    /\ Return(c)
    /\ UNCHANGED <<ring, index, mutex, pending, waited, transport, phase, held, history>>
-----------------------------------------------------------------------------
\* st20p_rx_free, from the caller that won mt_handle_begin_destroy

FreeBegin ==
    /\ ops.frees /\ phase = "run"
    /\ phase' = "wake"
    /\ UNCHANGED <<ring, index, sync, transport, local, held, history>>

\* wake_on_destroy is rx_st20p_block_wake.
FreeWake ==
    /\ phase = "wake" /\ mutex = None
    /\ pending' = TRUE
    /\ asleep' = {}
    /\ phase' = "drain"
    /\ UNCHANGED <<ring, index, mutex, waited, transport, local, held, history>>

\* mt_handle_drain: no guarded call is inside. A converter between get and put
\* is outside.
FreeDrain ==
    /\ phase = "drain"
    /\ \A u \in Users : pc[u] = "out"
    /\ \A c \in Converters : pc[c] \in {"out", "convert"}
    /\ phase' = "close"
    /\ UNCHANGED <<ring, index, sync, transport, local, held, history>>

\* st20_rx_free takes the session from its tasklet, then all is released.
FreeClose ==
    /\ phase = "close" /\ pc[Tasklet] = "out"
    /\ phase' = "closed"
    /\ UNCHANGED <<ring, index, sync, transport, local, held, history>>
-----------------------------------------------------------------------------
UserStep(u) ==
    \/ GetFrame(u) \/ GetScan(u) \/ GetClaim(u) \/ GetLock(u) \/ GetLoop(u)
    \/ GetWake(u) \/ GetTimeout(u) \/ GetRelock(u) \/ GetUnlock(u)
    \/ GetCheck(u) \/ GetReturn(u)
    \/ \E s \in Slots : PutFrame(u, s)
    \/ PutStore(u) \/ WakeBlock(u)

ConverterStep(c) ==
    \/ ConvertGet(c) \/ ConvertScan(c) \/ ConvertClaim(c) \/ ConvertIndex(c) \/ ConvertPut(c)
    \/ PutStore(c) \/ ConvertNotify(c)

TaskletStep ==
    \/ OpenFrame \/ QueryExtFrame \/ PacketConvert
    \/ \E f \in Slots : FirstPacket(f) \/ DiscardFrame(f) \/ FrameReady(f)
    \/ FrameReadyScan \/ FrameReadyWrong \/ FrameReadyNoExt
    \/ FrameReadyStore \/ FrameReadyNotify

FreerStep == FreeBegin \/ FreeWake \/ FreeDrain \/ FreeClose

Next ==
    /\ \/ \E u \in Users : UserStep(u)
       \/ \E c \in Converters : ConverterStep(c)
       \/ TaskletStep
       \/ FreerStep
    /\ UNCHANGED ops

Spec == Init /\ [][Next]_vars
-----------------------------------------------------------------------------
\* The slot that thread t claimed or is putting.
Owns(t) == {best[t]} \ {None}

\* Each slot that is with the application, that get_frame has claimed, that a
\* converter works on or that is being put has one owner, and the stat that
\* keeps all other threads away from it.
Exclusive ==
    /\ \A s \in held : stat[s] = "IN_USER"
    /\ \A u \in Users : \A s \in Owns(u) : stat[s] = "IN_USER" /\ s \notin held
    /\ \A c \in Converters : pc[c] \in {"index", "convert", "putting"} =>
          stat[best[c]] = "IN_CONVERTING"
    /\ \A t, v \in Users \cup {c \in Converters : pc[c] # "notify"} :
          t # v => Owns(t) \cap Owns(v) = {}

\* The slots whose frame is in a transport framebuffer that was not put yet.
Carriers ==
    {s \in Slots :
        /\ stat[s] # "FREE"
        /\ ops.mode = "packet" => stat[s] # "IN_CONVERTING"
        /\ \A t \in Threads : pc[t] = "putting" => best[t] # s}

\* The framebuffers the transport is filling or has in hand.
InTransport ==
    filling \cup (IF pc[Tasklet] \in {"ready", "wrong", "fill"} THEN {cur} ELSE {})

\* Every transport framebuffer is free, with the transport, in exactly one slot,
\* or lost: what frame_ready accepted is given back by exactly one put, and what
\* it refused was never kept. One is lost only where frame_ready refuses an
\* incomplete frame, whose framebuffer the transport then forgets, or where it
\* meets the slot of another frame in packet mode and returns success.
BufferBalance ==
    LET carried == {src[s] : s \in Carriers}
    IN  /\ refs = InTransport \cup carried \cup lost
        /\ InTransport \cap carried = {} /\ lost \cap (InTransport \cup carried) = {}
        /\ \A s, r \in Carriers : src[s] = src[r] => s = r
        /\ ops.mode # "packet" /\ ~ops.incomplete => lost = {}

\* A waiter that has been woken and will scan the ring again before it sleeps.
Rescanning(u) ==
    \/ pc[u] = "wait" /\ u \notin asleep
    \/ pc[u] \in {"relock", "loop"}
    \/ pc[u] \in {"scan", "cas"} /\ mutex = u

\* Somebody who made a frame available is about to signal.
SignalDue ==
    \/ pc[Tasklet] = "notify" /\ ops.mode # "plugin"
    \/ \E c \in Converters : pc[c] = "notify"

\* No lost wakeup: a caller of a blocking get_frame does not stay queued while a
\* frame is there, unless a signal is due or a woken waiter is going to look.
NoLostWakeup ==
    phase = "run" /\ asleep # {} /\ (\E s \in Slots : stat[s] = Wanted) =>
        SignalDue \/ \E u \in Users : Rescanning(u)

\* With one application thread, a frame may be overtaken when the tasklet
\* publishes frames behind and ahead of a running scan, but never by as many
\* frames as the ring has slots: framebuff_consumer_idx comes around.
OvertakenBounded ==
    Cardinality(ops.users) = 1 => \A s \in Slots : passed[s] < N

\* The private pointer that query_ext_frame gave with a buffer comes back with
\* the frame in that buffer.
OpaqueMatches ==
    ops.mode = "derive" /\ ops.ext =>
        \A s \in Slots : stat[s] \in {"CONVERTED", "IN_USER"} => opaque[s] = src[s]

\* frame_ready never meets a slot that a different frame is converting into.
NeverWrongFrame == pc[Tasklet] # "wrong"
=============================================================================
