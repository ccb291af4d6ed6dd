# TLA+ models of the Media Transport Library

The Media Transport Library (MTL) sends and receives SMPTE ST 2110 media over
DPDK, AF_XDP or kernel sockets. This directory models its concurrent parts in
TLA+: TLC checks small instances of every module, TLAPS proves the theorems
about the handle gate for every number of threads. Paths below are relative to
the repository; `pipeline/` stands for `lib/src/st2110/pipeline/`.

    tlc -workers 2 -config St20pTx.cfg MCSt20pTx     # a run
    tlapm HandleGuardProofs.tla                      # the proofs

## The system

### Parts, and how they interact

| Part | Sources | State | Driven by |
|---|---|---|---|
| handle gate | `lib/src/mt_handle_guard.h` | `lc_destroying`, `lc_refcnt` of a public handle | every API call, `*_free()` |
| pipelines | `pipeline/st{20,22,30,40}_pipeline_{tx,rx}.c` | ring of framebuffers with a `stat` word each, blocking get | application threads, plugin threads, transport callbacks |
| plugins | `pipeline/st_plugin.c` | registered encoders, decoders, converters | application, pipelines |
| video transport | `st_tx_video_session.c`, `st_video_transmitter.c`, `st_rx_video_session.c` | frames with reference counts, slots, pacing, inflight bursts | tasklets on an lcore |
| audio, ancillary transport | `st_{tx,rx}_{audio,ancillary}_session.c`, transmitters | same for small frames | tasklets |
| scheduler | `mt_sch.c` | tasklets of an lcore, sleep and wake, quota, lcore table | one thread per lcore, session create and free |
| RTCP | `mt_rtcp.c` | transmit ring, receive window, NACK | tasklets, CNI |
| queues | `datapath/mt_queue.c`, `mt_shared_queue.c`, `mt_shared_rss.c`, `mt_dp_socket.c` | flows sharing a hardware queue | tasklets, session create and free |
| control protocols | `mt_arp.c`, `mt_dhcp.c`, `mt_mcast.c`, `mt_ptp.c`, `mt_cni.c` | tables, leases, timers | CNI thread, alarms, callers that wait |
| DMA | `mt_dma.c` | devices lent to receive sessions, borrow queue | tasklets, session create and free |
| instance | `mt_main.c`, `mt_admin.c`, `mt_stat.c`, `mt_instance.c` | start and stop, session migration, statistics | application, admin thread |
| manager | `manager/*.{cpp,hpp}` | lcores and flows granted to processes | Unix socket |
| formats | `st_convert.c`, `st_fmt.c`, `st_avx*.c` | none | pipelines |

A frame to be sent goes application -> pipeline ring -> converter plugin (or a
conversion inside put) -> video transport -> network, and its slot comes back
through `frame_done`. A received frame goes network -> transport slot -> transport
framebuffer -> pipeline ring -> converter -> application, and the framebuffer
comes back through `put`. No lock protects the rings: a `stat` word per slot is
moved by compare-and-swap or by plain stores. `*_free()` may race all of it.

`doc/design.md`, section 6.3.1, states what the code relies on: "One application
thread per session and per direction" and "Synchronous lower-layer callbacks",
which run to completion in the tasklet's thread. The models keep the second; of
the first, some sessions use two application threads, an environment stronger
than promised. `NoLostWakeup` of the transmit pipeline needs the promise: an abort,
or a put whose metadata is too large, frees a slot without a signal, and only a
single thread cannot be asleep then. So the sessions with two threads in blocking
gets neither abort nor pass such metadata, and the one that does has a single
thread. The runs that show a transmit disagreement use one thread.

### What is hard here

A slot that is freed while its previous user still has work to do with it; scans
of the ring overtaken by other threads; one wakeup for several sleepers; a free
racing sleepers and callers halfway through the gate; packets lost, reordered
and delivered twice by two ports; counters that wrap; framebuffers that have to
be given back on each of many error paths. `PROJECT.json` lists the hazards one
by one, at their lines, with the properties that would notice.

## The modules

One atomic operation on shared state (load, store, compare-and-swap) is one step,
so every interleaving of the threads is explored; scans of a ring read one
slot per step. The atomics are acquire/release or sequentially consistent and
each word is its own synchronisation, so steps interleave sequentially.
`lock; signal; unlock` is one step that needs the mutex. `pthread_cond_timedwait`
releases the mutex and queues the thread in one step, may be woken, may time out,
and takes the mutex again in another step.

### HandleGuard: `mt_handle_guard.h`

| Model | Code |
|---|---|
| `destroying`, `refcnt` | `lc_destroying`, `lc_refcnt` |
| `AcquireType` ... `AcquireUndo` | the steps of `mt_handle_acquire` |
| `Release` | `mt_handle_release` |
| `LockWake`, `TestLoop`, `Sleep`, `WakeSignalled`, `WakeTimeout`, `Relock`, `UnlockWake` | the wait loop of a blocking get |
| `Free`, `BeginDestroy`, `WakeLock`, `WakeOnDestroy`, `Drain`, `FreeWrapper` | `*_free()` as in `st20p_tx_free` |

`wrapper` says whether the memory of the handle still exists; a load from a freed
wrapper may return anything. `holders` is history: who was admitted and has not
released. The bodies of guarded calls are abstract: they return, or sleep until
signalled, timed out or destroyed. That each of their early returns reaches
`MT_HANDLE_RELEASE` is therefore not checked here.

`Gate` is what the gate promises: clients enter while it is open, it closes once,
and it is destroyed closed and empty. `GateImplemented` says that `HandleGuard`
implements it, with `holders` for the clients inside.

### St20pTx: `pipeline/st20_pipeline_tx.c`

`stat`, `seq`, `done` are the fields of `framebuffs[i]`; `nextSeq` the counter;
`mutex`, `asleep`, `wakeCnt` the blocking get. `held`, `toRelease` are what the
application has, or has to release; `owed` (frames put minus frames reported),
`pend` (slots waiting when a scan began) and `gap` (numbers handed out since a
slot's own) are history.

| Actions | Code |
|---|---|
| `GetFrame` ... `GetReturn` | `st20p_tx_get_frame` with its scan, claim, wait loop, reset of `frame_done_cb_called` and numbering |
| `PutFrame`, `PutExtFrame`, `PutExtFlag`, `PutExtDone`, `PutFrameAbort` | the puts, internal conversion included |
| `NotifyExtFrameFree`, `ExtFrameFreed`, `WakeBlock` | manual release, `wake_block` |
| `ConvertGet` ... `ConvertDone` | the plugin's get and put, failed conversions included |
| `NextFrame` ... `NextAnnounce`, `DropLate*` | `tx_st20p_next_frame` and the late drop |
| `FrameDone*` | `tx_st20p_frame_done` |
| `Free*` | `st20p_tx_free` after it won the gate |

### RxVideo: the frame level of `st_rx_video_session.c`

`slots` are `s->slots` with timestamp, framebuffer, bitmap, counters and
`last_pkt_idx` per port; `refcnt` the framebuffer pool. One packet is handled to
its end before the next, so each way through `rv_handle_frame_pkt` is one action:
`FrameGone` (the slot has no framebuffer any more), `LatePacket` (a timestamp in
the past), `NoFramebuffer` (pool empty or no external frame), `FirstPacket`
(recycles a slot: reports or drops the old frame, charges its loss, opens the
new one), `NoData` (user metadata, or a packet refused after its slot was found),
`DuplicatePacket`, `NewPacket` (reports a full frame). `Lose` is the network, which
may also repeat packets on the same port; `PutFramebuff` the application's thread;
`Detach` ends the session and charges what is still pending. The estimate of
missing packets before the first complete frame is a quotient of floats in the
code; here it is nondeterministic within the error of the truncation. A sender's packets are numbered;
timestamps and sequence numbers start so that they wrap during the run.

### St20pRx: `pipeline/st20_pipeline_rx.c`

The receive ring with the transport's callbacks `QueryExtFrame`, `PacketConvert`,
`FrameReady*`, the converter's `Convert*`, and `Get*`, `PutFrame`, `PutStore`,
`WakeBlock`, `Free*`. Of the transport it keeps `refs` (framebuffers not free)
and `filling` (frames being put together), opened by `OpenFrame` and given up by
`DiscardFrame`. `lost` are framebuffers that neither side will give back: `FrameReady`
is refused for an incomplete frame, or meets the slot of another frame.
`ahead` and `passed` are history.

## The runs

A session (its flags, and what its application does) is chosen in `Init` from a
small set defined in the MC module, so one run covers several kinds of sessions.

| Run | States | Shows |
|---|---|---|
| `handle_guard` | 174 000 | `RefcntExact`, `TeardownAlone`, `FreedAfterRelease`, `OneDestroyer`, `GateImplemented` (refinement), `FreeCompletes` (liveness) |
| `st20p_tx` | 3.25 million | `Exclusive`, `ReportedOnce`, `ParkedUntilReleased`, `NoLostWakeup`, `TransmitInOrder` in ten kinds of sessions |
| `st20p_tx_live` | 0.78 million | `FrameIsTaken`: what was put is converted, and sent or dropped as late |
| `rx_video` | 0.57 million | `FrameBalance`, `CompleteIsWhole`, `NeverTouchHeld`, `StatusHonest`, `LossCharged` in eight kinds of sessions |
| `st20p_rx` | 3.05 million | `Exclusive`, `BufferBalance`, `NoLostWakeup`, `OvertakenBounded` in seven kinds of sessions |

The remaining seven runs end in a counterexample: the code does something else
than a comment, a test or the API documentation says. `PROJECT.json` quotes the
sentence for each under "findings".

| Run | What happens |
|---|---|
| `st20p_tx_done_race` | `frame_done` frees the slot, the application gets and puts it again, then `frame_done` sets the flag of the new frame: that frame is never reported |
| `st20p_tx_late_release` | a late frame is reported before it is parked; a release from the callback fails and the slot stays `IN_USER` |
| `rx_video_refused` | an incomplete frame refused by `notify_frame_ready` is not put back |
| `rx_video_reorder` | in-order packets are counted as reordered after a slot was recycled |
| `rx_video_twin` | a delivered frame is opened again by a late packet of the other port |
| `st20p_rx_opaque` | with two frames open, an external buffer's private pointer comes back with the other frame |
| `st20p_rx_packet` | a discarded frame leaves its slot `IN_CONVERTING`; the "should never happen" branch is taken and a framebuffer is lost |

What holds beside them:

* `ReportedOnce`: in every session without converter no frame is reported twice, and
  with manual release, where a slot stays `IN_USER` until the application
  gives it back, each frame exactly once. Without manual release a report may
  be lost, as `st20p_tx_done_race` shows.
* `ParkedUntilReleased`: `NotifiedIsParked` where frames are reported by `frame_done`
  alone: sessions without converter (a converter reports early) that drop no
  late frames. In the other sessions with manual release nothing is claimed.
* `FrameBalance` where refused frames are complete ones. `BufferBalance` has no such
  exception: it says which framebuffers are lost (`lost`) and where that may happen.
* `StatusHonest`, `LossCharged`: a packet that a port delivers twice counts twice for
  the port, so it hides one that is missing. The status is never RECONSTRUCTED
  without cause and no port is charged too much; the converse holds for ports
  that counted no packet twice. `tests/unit/session/st20/stats_test.cpp`
  (550-575) records this as a known limit of the counters.
* `TransmitInOrder`: in the order of `get_frame`, as far as 32 bit numbers can tell:
  not between frames more than half the number space apart.
* `OvertakenBounded` is checked for two slots and one reader, the least case.

### Bounds

* Two framebuffers: enough for a slot to be reused while another is in use, for
  scans to be overtaken and for order to matter. The least the code accepts is 2.
* At most two application threads, two converters, one tasklet, one freer in the
  pipelines; three callers and two freers at the gate (a sleeper, a caller
  halfway in and one undoing its increment can be there together).
* `SeqSpan = 6` stands for 2^32 in the numbers of frames: the sessions that run for
  ever (one of `st20p_tx`, both of `st20p_tx_live`) wrap all the time.
  `MaxBatch = 2` drops (`ST_TX_DROP_MAX_BATCH`), reached.
* `RxVideo`: frames of 2 packets (3 where an order inside a frame matters), up to
  4 frames over 1 or 2 slots and 2 framebuffers, so slots and framebuffers are
  both recycled; `TsMod = SeqMod = 16`; `Threshold = 2` so that
  the bypass is reached (20 where it must not be); `window` and `skew` bound how
  far packets overtake each other.
* `maxGets` ends the other transmit sessions after three to five frames, which
  reuse each slot; `maxWakes` caps `wake_block` calls, `MaxOwed` the history
  counter, `MaxExtras` the packets that are repeated or bring no data.

Deadlock is not checked where a session ends: all packets sent, or the handle freed.
In `st20p_tx_live` it is.

### Fairness

* Gate: weak fairness for each thread inside the library. Nobody has to call,
  time out or make a frame available, so the free must wake the sleepers itself.
* Transmit: weak fairness for the tasklet, all its handlers together (the scheduler
  calls it in a loop), and for each converter thread. The transport need not
  finish any frame and the application need not do anything; so nothing is said
  about a slot coming back. A frame is overtaken for ever only if the numbers
  wrap by half while it waits, which `FrameIsTaken` excepts.

## Proved

`HandleGuardProofs` proves, for every finite set of callers and every set of
freers, all that `handle_guard` checks but liveness: `TypeOK`, `RefcntExact`,
`TeardownAlone`, `FreedAfterRelease`, `OneDestroyer`, and that the guard implements
`Gate`. Assumptions:
callers are finitely many (so that counting them means something), callers and
freers differ, and `NoThread` is no thread.

None is inductive alone. The invariant `GuardInv` adds to `TypeOK` and
`RefcntExact`: a thread past the claim implies `destroying = 1` (`ClaimMarks`);
admitted callers are inside a body (`HoldersInBody`); at teardown nobody is
(`TeardownAlone`); one destroyer (`OneDestroyer`); freed after release
(`FreedAfterRelease`). The argument: the increment comes before the second
check of the flag and the claim before the reading of the counter, so a caller
that passed the check is counted when the destroyer reads zero. Each action is a
step of the proof, and under it each conjunct it can disturb; the counting steps
rest on lemmas about adding an element to, or taking it from, a finite set. For
the refinement, every action is a step of `Gate` or leaves `holders` and `Life`
alone: a caller whose second check reads 0 enters, the claim closes, and
`FreedAfterRelease` of the next state is the guard of `Destroy`.

## Only model-checked

Liveness (`FreeCompletes`, `FrameIsTaken`) is outside what the prover does. The
pipelines and the receive transport are checked on the instances above; their
proofs are planned.

## Not modelled

* In `st_rx_video_session.c`: slice and RTP level sessions, ST 22 reassembly,
  header split, DMA copies, the packet lcore, format detection, migration,
  the timing parser. In the receive pipeline: `notify_detected`, pcap.
* The other parts of the table above; `PROJECT.json` gives the reason for each.
  Pixel conversion, timing measurement, device configuration and the
  applications stay out: they hold no protocol of their own.
* Statistics other than the loss and reorder counters, logging, USDT.
* Calls on a handle after its free returned: that is for the application to avoid.

## Plan

Most important behaviour first.

1. `St22p`, `St30p`, `St40p` pipelines and `st_plugin.c`: the same rings with
   differences that matter (encoder wait, wake flag, drop path, reference counts
   of plugins). Runs as for ST 20, two framebuffers.
2. `TxVideo`: frame reference counts, inflight bursts, the transmitter, and its
   composition with `St20pTx`, to say when a slot comes back.
3. `Sch`: tasklet registration at run time, sleep and wake, quota, lcore table
   with a process that dies. Liveness of unregister.
4. `Rtcp`, `SharedQueue`, `Arp`, `Dhcp`, `Mcast`, `Ptp` exchange, `Dma`, `Manager`:
   small modules, one hazard list each.
5. `TxAudio`, `RxAudio`, `TxAncillary`, `RxAncillary`.
6. `MtMain`, `Admin`, `Stat`: start, stop, migration.
7. `FramePool`, an abstract specification (a framebuffer is free, being filled or
   lent) that `RxVideo` and `St20pRx` implement by refinement.
8. Proofs for all values of the constants: `Exclusive` of `St20pTx` and `St20pRx`,
   `FrameBalance` of `RxVideo`, `BufferBalance` of `St20pRx`, then the refinements.
