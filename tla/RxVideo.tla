------------------------------ MODULE RxVideo ------------------------------
(***************************************************************************)
(* The frame level of the ST 2110-20 receive transport                      *)
(* (st_rx_video_session.c): packets of one or two redundant ports are put   *)
(* together in a slot per RTP timestamp, in a framebuffer from a reference  *)
(* counted pool that the application returns from its own thread.           *)
(*                                                                          *)
(* The receive tasklet runs rv_handle_frame_pkt to its end for one packet   *)
(* before the next, so each way through the handler is one action. The only *)
(* other thread is the application's st20_rx_put_framebuff, one atomic      *)
(* decrement. All packets carry the same number of payload bytes: sizes are *)
(* counted in packets. The network loses, reorders and repeats packets (a   *)
(* duplicate on the wire, or a retransmission that RTCP asked for). Packets *)
(* the checks before rv_slot_by_tmstamp refuse change nothing and are left  *)
(* out; those refused after it, and user metadata, are packets without data.*)
(***************************************************************************)
EXTENDS Integers, FiniteSets

CONSTANTS
    NFrames,    \* st20_frames_cnt
    Pkts,       \* packets of a frame
    Ports,      \* MTL_SESSION_PORT_P, MTL_SESSION_PORT_R
    MaxFrames,  \* bound: frames a sender sends
    TsMod,      \* stands for 2^32 in RTP timestamps
    SeqMod,     \* stands for 2^32 in extended sequence numbers
    Threshold,  \* ST_SESSION_REDUNDANT_ERROR_THRESHOLD
    MaxExtras,  \* bound: packets the network repeats, and packets without data
    None,
    Sessions    \* the ops a session may be created with, and its network

\* What st20_rx_create is given, and how application and network behave.
SessionSet ==
    [ports : (SUBSET Ports) \ {{}},
     slots : 1 .. 2,        \* slot_max
     incomplete : BOOLEAN,  \* ST20_RX_FLAG_RECEIVE_INCOMPLETE_FRAME
     ext : BOOLEAN,         \* query_ext_frame is registered, and may fail
     refuse : BOOLEAN,      \* notify_frame_ready may return an error
     loss : BOOLEAN,        \* packets get lost
     extras : 0 .. MaxExtras,\* packets that are repeated or bring no data
     bare : BOOLEAN,        \* packets without data arrive
     down : SUBSET Ports,   \* ports whose link is down
     detach : BOOLEAN,      \* the session is detached in the middle of the stream
     sends : 0 .. MaxFrames,\* frames the sender sends
     window : Nat \ {0},    \* how far a packet may overtake others of its port
     skew : Nat]            \* how far one port may be ahead of another

Frames == 0 .. NFrames - 1
Idx == 0 .. Pkts - 1
Total == MaxFrames * Pkts
Numbers == 0 .. MaxFrames - 1

ASSUME SizeAssumption ==
    /\ NFrames \in Nat \ {0} /\ MaxFrames \in Nat /\ Threshold \in Nat \ {0}
    /\ MaxExtras \in Nat
    /\ Pkts \in Nat /\ Pkts > 1
    /\ Ports # {} /\ IsFiniteSet(Ports)
    /\ None \notin Int
\* rv_init_slot: one slot without redundancy and RTCP, two with either.
ASSUME SessionsAssumption ==
    \A o \in Sessions : o \in SessionSet /\ (Cardinality(o.ports) > 1 => o.slots = 2)
\* The frames of a run span less than half of the timestamps, and a frame
\* less than all of the sequence numbers.
ASSUME WrapAssumption ==
    /\ TsMod \in Nat /\ TsMod > 2 * MaxFrames
    /\ SeqMod \in Nat /\ SeqMod > Pkts

VARIABLES
    ops,        \* the session, from create on
    slots,      \* s->slots
    slotIdx,    \* s->slot_idx
    refcnt,     \* st20_frames[f].refcnt
    redErr,     \* redundant_error_cnt, saturating at Threshold
    framePkts,  \* st20_frame_pkts
    memory,     \* per framebuffer and place: the frame whose data it holds
    attached,   \* s->attached
    held,       \* framebuffers the application owns
    done,       \* history: frames that were reported complete
    pos, ahead, \* network: next packet of a port, and those that overtook it
    extras,     \* network: packets repeated, or without data, so far
    event       \* history: what the last packet made the session do

session == <<slots, slotIdx, refcnt, redErr, framePkts, memory, attached>>
network == <<pos, ahead, extras>>
vars == <<ops, session, network, held, done, event>>

\* A slot; the last three are history: the frame the slot is for, per port the
\* packets of it that arrived while the slot was, and the ports that counted
\* more than these, for a packet that came twice or brought no data.
SlotSet ==
    [ts : -1 .. TsMod - 1, frame : Frames \cup {None}, got : BOOLEAN,
     base : 0 .. SeqMod - 1, bitmap : SUBSET Idx, pkts : 0 .. Pkts,
     perPort : [Ports -> 0 .. Pkts + MaxExtras], size : 0 .. Pkts,
     last : [Ports -> -1 .. Pkts - 1], pending : BOOLEAN,
     n : Numbers \cup {None}, rcv : [Ports -> SUBSET Idx], over : SUBSET Ports]

\* What happened: a frame was reported, loss was charged to the ports, a
\* packet was counted as reordered, a slot was opened.
NoReport == [n |-> None, frame |-> None, status |-> "none"]
Quiet == [report |-> NoReport, losses |-> {},
          reordered |-> FALSE, truly |-> FALSE, opened |-> None]

TypeOK ==
    /\ ops \in Sessions
    /\ slots \in [0 .. ops.slots - 1 -> SlotSet]
    /\ slotIdx \in -1 .. ops.slots - 1
    /\ refcnt \in [Frames -> 0 .. 1]
    /\ redErr \in [Ports -> 0 .. Threshold]
    /\ framePkts \in {0, Pkts}
    /\ memory \in [Frames -> [Idx -> Numbers \cup {None}]]
    /\ attached \in BOOLEAN
    /\ held \subseteq Frames
    /\ done \subseteq Numbers
    /\ pos \in [Ports -> 0 .. Total]
    /\ ahead \in [Ports -> SUBSET (0 .. Total)]
    /\ extras \in 0 .. ops.extras

FreshSlot ==
    [ts |-> -1, frame |-> None, got |-> FALSE, base |-> 0, bitmap |-> {},
     pkts |-> 0, perPort |-> [p \in Ports |-> 0], size |-> 0,
     last |-> [p \in Ports |-> -1], pending |-> FALSE,
     n |-> None, rcv |-> [p \in Ports |-> {}], over |-> {}]

Init ==
    /\ ops \in Sessions
    /\ slots = [i \in 0 .. ops.slots - 1 |-> FreshSlot]
    /\ slotIdx = -1
    /\ refcnt = [f \in Frames |-> 0]
    /\ redErr = [p \in Ports |-> 0]
    /\ framePkts = 0
    /\ memory = [f \in Frames |-> [i \in Idx |-> None]]
    /\ attached = TRUE
    /\ held = {}
    /\ done = {}
    /\ pos = [p \in Ports |-> 0]
    /\ ahead = [p \in Ports |-> {}]
    /\ extras = 0
    /\ event = Quiet
-----------------------------------------------------------------------------
\* The stream: packet q of the sender is packet q % Pkts of frame q \div Pkts.
\* Timestamps and sequence numbers start close to their wrap.

Number(q) == q \div Pkts
Index(q) == q % Pkts
Ts(q) == (TsMod - 2 + Number(q)) % TsMod
Seq(q) == (SeqMod - Pkts - 1 + q) % SeqMod

\* The ports whose link is up.
Wires == ops.ports \ ops.down

\* The packets port p may deliver next, and what is left of the port after q.
Pending(p) ==
    IF p \notin Wires THEN {}
    ELSE {q \in pos[p] .. pos[p] + ops.window - 1 :
             /\ q < ops.sends * Pkts /\ q \notin ahead[p]
             /\ \A o \in Wires : q < pos[o] + ops.skew}

Passed(p, q) ==
    LET seen == ahead[p] \cup {q}
    IN  \E new \in pos[p] .. Total :
            /\ new \notin seen /\ \A y \in pos[p] .. new - 1 : y \in seen
            /\ pos' = [pos EXCEPT ![p] = new]
            /\ ahead' = [ahead EXCEPT ![p] = {x \in seen : x > new}]
            /\ UNCHANGED extras

\* The packets port p has delivered or lost, while one of these may come again.
Former(p) ==
    IF p \in Wires /\ extras < ops.extras THEN (0 .. pos[p] - 1) \cup ahead[p] ELSE {}

Extra(p) ==
    /\ extras < ops.extras /\ extras' = extras + 1
    /\ UNCHANGED <<pos, ahead>>

\* mt_seq32_greater
TsGreater(a, b) ==
    LET diff == (a - b) % TsMod IN diff # 0 /\ diff < TsMod \div 2

\* The slot that has the timestamp of packet q, if there is one.
Hits(q) == {i \in DOMAIN slots : slots[i].ts = Ts(q)}

\* timestamp_is_in_the_past
IsInThePast(q) ==
    \A i \in DOMAIN slots : slots[i].ts # -1 /\ ~TsGreater(Ts(q), slots[i].ts)

\* redundant_error_cnt of all ports reached the threshold.
Overridden == \A p \in ops.ports : redErr[p] >= Threshold

\* pkt_idx of a packet in a slot whose base is known.
PktIdx(seq, base) ==
    IF seq >= base THEN seq - base ELSE seq + (SeqMod - 1 - base) + 1
-----------------------------------------------------------------------------
\* rv_slot_account_per_port_loss: a port whose link is down is not charged.
Deficit(s, expected) ==
    [p \in ops.ports |->
        IF p \in Wires /\ expected > s.perPort[p] THEN expected - s.perPort[p] ELSE 0]

\* History: what is really missing of the slot's frame on each port.
Missed(s) == [p \in ops.ports |-> IF p \in Wires THEN Pkts - Cardinality(s.rcv[p]) ELSE 0]

\* Mutant of FrameStatus: one port short is enough.
Bug_EitherShort(s) ==
    IF Cardinality(ops.ports) > 1 /\ \E p \in ops.ports : s.perPort[p] < s.pkts
    THEN "RECONSTRUCTED" ELSE "COMPLETE"

\* The status of a frame all of whose bytes are there.
FrameStatus(s) ==
    IF Cardinality(ops.ports) > 1 /\ \A p \in ops.ports : s.perPort[p] < s.pkts
    THEN "RECONSTRUCTED" ELSE "COMPLETE"

\* What notify_frame_ready may do with a frame: keep it, return it before the
\* tasklet goes on, or fail.
Answers == {"taken", "returned"} \cup (IF ops.refuse THEN {"refused"} ELSE {})

\* The framebuffer pool: reference counts, and what the application owns.
Pool == [ref |-> refcnt, held |-> held]
\* rv_put_frame, and a framebuffer in the application's hands.
PutFrame(pool, f) == [pool EXCEPT !.ref[f] = @ - 1]
Hand(pool, f) == [pool EXCEPT !.held = @ \cup {f}]

\* Mutant of NotifyComplete: the framebuffer of a refused frame is not put back.
Bug_RefusedKept(pool, f, a) ==
    IF a = "taken" THEN Hand(pool, f) ELSE IF a = "returned" THEN PutFrame(pool, f) ELSE pool

\* rv_frame_notify of a complete frame, when the callback answers a.
NotifyComplete(pool, f, a) == IF a = "taken" THEN Hand(pool, f) ELSE PutFrame(pool, f)

\* rv_frame_notify of an incomplete frame: the answer is not looked at.
NotifyIncomplete(pool, f, a) ==
    IF ~ops.incomplete \/ a = "returned" THEN PutFrame(pool, f)
    ELSE IF a = "taken" THEN Hand(pool, f) ELSE pool

\* What miss_pkts of an incomplete frame may be: counted against the last
\* complete frame or, before there is one, estimated from the payload received.
\* The estimate is a quotient of floats, truncated, and may be one too low.
MissPkts(s) ==
    IF framePkts > s.pkts THEN {framePkts - s.pkts}
    ELSE IF s.size = 0 THEN {0}
    ELSE {Pkts - s.size - 1, Pkts - s.size}
-----------------------------------------------------------------------------
\* The ways through rv_handle_frame_pkt, for a packet with data and for one
\* without, which is for the frame of q but not one of its packets.

Arrives(p, q, data) ==
    /\ attached
    /\ \/ data /\ q \in Pending(p) /\ Passed(p, q)
       \/ data /\ q \in Former(p) /\ Extra(p)
       \/ ~data /\ ops.bare /\ q \in Pending(p) \cup Former(p) /\ Extra(p)
    /\ UNCHANGED <<ops, attached>>

\* Mutant of CountOnly: only packets with new data count.
Bug_NotCounted(s, p, q, data) == [s EXCEPT !.rcv[p] = IF data THEN @ \cup {Index(q)} ELSE @]

\* A packet that the frame has no use for still counts for its port.
CountOnly(s, p, q, data) ==
    [s EXCEPT !.perPort[p] = @ + 1,
              !.rcv[p] = IF data THEN @ \cup {Index(q)} ELSE @,
              !.over = IF data /\ Index(q) \notin s.rcv[p] THEN @ ELSE @ \cup {p}]

\* The frame of the packet was delivered, or never got a framebuffer.
FrameGone(p, q, data) ==
    /\ Arrives(p, q, data)
    /\ \E i \in Hits(q) :
        /\ slots[i].frame = None
        /\ slots' = [slots EXCEPT ![i] = CountOnly(@, p, q, data)]
    /\ redErr' = [redErr EXCEPT ![p] = IF @ < Threshold THEN @ + 1 ELSE @]
    /\ event' = Quiet
    /\ UNCHANGED <<slotIdx, refcnt, framePkts, memory, held, done>>

\* rv_slot_by_tmstamp has no slot for a packet of the past.
LatePacket(p, q, data) ==
    /\ Arrives(p, q, data)
    /\ Hits(q) = {} /\ IsInThePast(q) /\ ~Overridden
    /\ redErr' = [redErr EXCEPT ![p] = 0]
    /\ event' = Quiet
    /\ UNCHANGED <<slots, slotIdx, refcnt, framePkts, memory, held, done>>

\* rv_slot_by_tmstamp recycles the next slot. A frame that is still in it is
\* reported incomplete; the loss of a complete one is charged only now.
NextSlot == (slotIdx + 1) % ops.slots

Evict(s, a) == IF s.frame = None THEN Pool ELSE NotifyIncomplete(Pool, s.frame, a)

\* The loss charged to each port: an incomplete frame's by rv_frame_notify with
\* miss_pkts = m, that of a complete frame by the deferred
\* rv_slot_account_per_port_loss.
Charge(s, m) ==
    [p \in ops.ports |->
        (IF s.frame # None THEN Deficit(s, s.pkts + m)[p] ELSE 0)
        + (IF s.pending THEN Deficit(s, s.pkts)[p] ELSE 0)]

\* History: the charge beside what was missed, and the ports whose counters
\* leave no room for an estimate. A frame without framebuffer is not counted.
Loss(s, m) ==
    [charged |-> Charge(s, m),
     missed |-> IF s.frame = None /\ ~s.got THEN [p \in ops.ports |-> 0] ELSE Missed(s),
     sure |-> IF s.frame = None \/ framePkts > s.pkts THEN ops.ports \ s.over ELSE {}]

Recycled(s, m, q) ==
    [Quiet EXCEPT
        !.report = IF s.frame = None THEN NoReport
                   ELSE [n |-> s.n, frame |-> s.frame, status |-> "CORRUPTED"],
        !.losses = {Loss(s, m)},
        !.opened = Number(q)]

\* The slot for the frame of packet q, before a framebuffer is found.
Reopen(s, q) ==
    [s EXCEPT !.ts = Ts(q), !.got = FALSE, !.pkts = 0, !.size = 0, !.pending = FALSE,
              !.perPort = [p \in Ports |-> 0], !.frame = None,
              !.n = Number(q), !.rcv = [p \in Ports |-> {}], !.over = {}]

OpensSlot(p, q, data) ==
    /\ Arrives(p, q, data)
    /\ Hits(q) = {} /\ (IsInThePast(q) => Overridden)
    /\ slotIdx' = NextSlot
    /\ redErr' = [redErr EXCEPT ![p] = 0]

\* No framebuffer is free, or query_ext_frame fails: the packet is dropped
\* but the slot has taken its timestamp.
NoFramebuffer(p, q, data) ==
    /\ OpensSlot(p, q, data)
    /\ LET s == slots[NextSlot]
       IN  \E a \in Answers, m \in MissPkts(s) :
            /\ ops.ext \/ \A f \in Frames : Evict(s, a).ref[f] # 0
            /\ refcnt' = Evict(s, a).ref /\ held' = Evict(s, a).held
            /\ slots' = [slots EXCEPT ![NextSlot] = Reopen(s, q)]
            /\ event' = Recycled(s, m, q)
    /\ UNCHANGED <<framePkts, memory, done>>

\* A packet is accepted in slot s as packet x of its frame.
Accept(s, p, q, x) ==
    [s EXCEPT !.bitmap = @ \cup {x}, !.pkts = @ + 1, !.size = @ + 1,
              !.perPort[p] = @ + 1, !.last[p] = IF x > @ THEN x ELSE @,
              !.rcv[p] = @ \cup {Index(q)}]

\* Mutant of FreeFrames: the reference count is not looked at.
Bug_AnyFrame(pool) == Frames

\* rv_get_frame takes the first of these.
FreeFrames(pool) == {f \in Frames : pool.ref[f] = 0}

\* The place of packet q in the frame of slot s. The first packet with data
\* takes it from the place of its payload and sets the base sequence number.
PlaceOf(s, q) == IF s.got THEN PktIdx(Seq(q), s.base) ELSE Index(q)
Based(s, q) ==
    IF s.got THEN s ELSE [s EXCEPT !.got = TRUE, !.base = (Seq(q) - Index(q)) % SeqMod]

\* The first packet of a frame gets a framebuffer for the slot. A packet
\* without data leaves it there and returns.
FirstPacket(p, q, data) ==
    /\ OpensSlot(p, q, data)
    /\ LET s == slots[NextSlot]
       IN  \E a \in Answers, m \in MissPkts(s), f \in Frames :
            LET pool == Evict(s, a)
                new == [Reopen(s, q) EXCEPT !.frame = f, !.bitmap = {}]
            IN  /\ f \in FreeFrames(pool) /\ \A g \in FreeFrames(pool) : f <= g
                /\ refcnt' = [pool.ref EXCEPT ![f] = @ + 1] /\ held' = pool.held
                /\ slots' = [slots EXCEPT ![NextSlot] =
                       IF data THEN Accept(Based(new, q), p, q, Index(q)) ELSE new]
                /\ memory' = IF data THEN [memory EXCEPT ![f][Index(q)] = Number(q)] ELSE memory
                /\ event' = Recycled(s, m, q)
    /\ UNCHANGED <<framePkts, done>>

\* Mutant of Duplicate: the bitmap is kept but not tested.
Bug_NoDuplicates(s, x) == FALSE

\* mt_bitmap_test_and_set finds the bit set.
Duplicate(s, x) == x \in s.bitmap

InFrame(p, q, data, i) == Arrives(p, q, data) /\ i \in Hits(q) /\ slots[i].frame # None

\* A packet without data for a frame that has its framebuffer.
NoData(p, q) ==
    /\ \E i \in DOMAIN slots : InFrame(p, q, FALSE, i)
    /\ redErr' = [redErr EXCEPT ![p] = 0]
    /\ event' = Quiet
    /\ UNCHANGED <<slots, slotIdx, refcnt, framePkts, memory, held, done>>

DuplicatePacket(p, q) ==
    /\ \E i \in DOMAIN slots :
        /\ InFrame(p, q, TRUE, i) /\ slots[i].got
        /\ Duplicate(slots[i], PlaceOf(slots[i], q))
        /\ slots' = [slots EXCEPT ![i] = CountOnly(@, p, q, TRUE)]
    /\ redErr' = [redErr EXCEPT ![p] = 0]
    /\ event' = Quiet
    /\ UNCHANGED <<slotIdx, refcnt, framePkts, memory, held, done>>

\* rv_handle_frame_pkt for a new packet of a known frame. The last one makes
\* rv_slot_full_frame report the frame and let the slot forget its framebuffer.
NewPacket(p, q) ==
    /\ \E i \in DOMAIN slots, a \in Answers :
        LET s == slots[i]
            x == PlaceOf(s, q)
            new == Accept(Based(s, q), p, q, x)
            full == new.size = Pkts
            pool == IF full THEN NotifyComplete(Pool, s.frame, a) ELSE Pool
        IN  /\ InFrame(p, q, TRUE, i) /\ (s.got => ~Duplicate(s, x))
            /\ memory' = [memory EXCEPT ![s.frame][Index(q)] = Number(q)]
            /\ slots' = [slots EXCEPT ![i] =
                   IF full THEN [new EXCEPT !.size = 0, !.frame = None, !.pending = TRUE]
                   ELSE new]
            /\ refcnt' = pool.ref /\ held' = pool.held
            /\ framePkts' = IF full THEN new.pkts ELSE framePkts
            /\ done' = IF full THEN done \cup {s.n} ELSE done
            /\ event' = [Quiet EXCEPT
                   !.report = IF ~full THEN NoReport
                              ELSE [n |-> s.n, frame |-> s.frame, status |-> FrameStatus(new)],
                   !.reordered = s.got /\ x < s.last[p],
                   !.truly = \E y \in s.rcv[p] : y > Index(q)]
    /\ redErr' = [redErr EXCEPT ![p] = 0]
    /\ UNCHANGED slotIdx

\* The network loses a packet of one port.
Lose(p) ==
    /\ ops.loss /\ attached
    /\ \E q \in Pending(p) : Passed(p, q)
    /\ event' = Quiet
    /\ UNCHANGED <<ops, session, held, done>>

\* st20_rx_put_framebuff, by the application.
PutFramebuff(f) ==
    /\ attached /\ f \in held
    /\ held' = held \ {f}
    /\ refcnt' = [refcnt EXCEPT ![f] = @ - 1]
    /\ event' = Quiet
    /\ UNCHANGED <<ops, slots, slotIdx, redErr, framePkts, memory, attached, network, done>>

\* rv_detach, up to rv_uinit: rv_flush_pending_loss charges the loss that no
\* recycled slot has charged yet.
Detach ==
    /\ attached /\ ops.detach
    /\ attached' = FALSE
    /\ slots' = [i \in DOMAIN slots |-> [slots[i] EXCEPT !.pending = FALSE]]
    /\ event' = [Quiet EXCEPT !.losses =
           {[Loss(slots[i], 0) EXCEPT !.charged = Deficit(slots[i], slots[i].pkts)] :
                i \in {j \in DOMAIN slots : slots[j].pending}}]
    /\ UNCHANGED <<ops, slotIdx, refcnt, redErr, framePkts, memory, network, held, done>>

Receive(p, q) ==
    \/ \E data \in BOOLEAN : \/ FrameGone(p, q, data) \/ LatePacket(p, q, data)
                             \/ NoFramebuffer(p, q, data) \/ FirstPacket(p, q, data)
    \/ NoData(p, q) \/ DuplicatePacket(p, q) \/ NewPacket(p, q)

Next ==
    \/ \E p \in Ports : Lose(p) \/ \E q \in Pending(p) \cup Former(p) : Receive(p, q)
    \/ \E f \in Frames : PutFramebuff(f)
    \/ Detach

Spec == Init /\ [][Next]_vars
-----------------------------------------------------------------------------
\* Each framebuffer is in one place: in a slot, with the application, or free,
\* and its reference count says so. A leak would starve rv_get_frame for good,
\* a count too low would hand one framebuffer to two owners.
FrameBalance ==
    \A f \in Frames :
        refcnt[f] = Cardinality({i \in DOMAIN slots : slots[i].frame = f})
                    + (IF f \in held THEN 1 ELSE 0)

\* A frame reported COMPLETE or RECONSTRUCTED consists of the payload of all its
\* packets and of nothing left over from the framebuffer's former frame, through
\* duplicates of both ports, reordering, and the wrap of the sequence number.
CompleteIsWhole ==
    event.report.status \in {"COMPLETE", "RECONSTRUCTED"} =>
        \A x \in Idx : memory[event.report.frame][x] = event.report.n

\* The receive tasklet never writes to a framebuffer the application owns, before
\* the application has called st20_rx_put_framebuff.
NeverTouchHeld ==
    [][\A f \in held \cap held' : memory'[f] = memory[f]]_vars

\* RECONSTRUCTED is reported only when neither port alone has brought all packets
\* of the frame; and always then, unless a port counted a packet twice, which
\* hides a hole of that port from the status.
StatusHonest ==
    event.report.status \in {"COMPLETE", "RECONSTRUCTED"} =>
        \A i \in DOMAIN slots : slots[i].n = event.report.n =>
            LET short == \A p \in ops.ports : slots[i].rcv[p] # Idx
            IN  /\ event.report.status = "RECONSTRUCTED" => short
                /\ short /\ slots[i].over = {} /\ Cardinality(ops.ports) > 1 =>
                       event.report.status = "RECONSTRUCTED"

\* When a slot is recycled, or the session detached, no port is charged more
\* packets than it really failed to bring of the slot's frame, each is charged
\* once, and a port whose link is down none. The charge is exact for each port
\* that counted no packet twice, in complete and incomplete frames alike, once
\* one complete frame has given the number of packets.
LossCharged ==
    \A l \in event.losses : \A p \in ops.ports :
        /\ l.charged[p] <= l.missed[p]
        /\ p \in l.sure => l.charged[p] = l.missed[p]

\* A packet counted as reordered came after a packet of its own frame and port
\* with a higher index.
ReorderedIsBackward == event.reordered => event.truly

\* A frame that was reported complete is not opened, and so not reported, again:
\* late packets of the redundant port are redundant, not a new frame.
NoRepeat == event.opened \notin done
=============================================================================
