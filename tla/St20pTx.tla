------------------------------ MODULE St20pTx ------------------------------
(***************************************************************************)
(* The ST 2110-20 transmit pipeline session (st20_pipeline_tx.c): a ring of *)
(* framebuffers whose stat word is moved by compare-and-swap and by plain   *)
(* stores from three kinds of threads.                                      *)
(*                                                                          *)
(*   Users       application threads: get_frame, put_frame(_abort),         *)
(*               put_ext_frame, notify_ext_frame_free, wake_block;          *)
(*   Converters  plugin threads: convert_get_frame, convert_put_frame;      *)
(*   the tasklet the transport's lcore: next_frame and frame_done, one      *)
(*               handler at a time;                                         *)
(*   the freer   one *_free() that won mt_handle_begin_destroy (the race    *)
(*               for that, and the reference count, are in HandleGuard).    *)
(*                                                                          *)
(* One load, store or CAS of shared state is one step; a scan of the ring   *)
(* reads one stat per step. Three sequences are one step each: a check of a *)
(* slot's stat and the store after it by the thread that owns the slot;     *)
(* taking a number and storing it in a slot that nobody else may read yet;  *)
(* and lock; signal; unlock, which needs the mutex. The variables owed, pend *)
(* and gap are history: no handler reads them.                              *)
(***************************************************************************)
EXTENDS Integers, FiniteSets

CONSTANTS
    N,              \* framebuff_cnt
    Users, Converters, Tasklet, Freer, None,
    Sessions,       \* the ops a session may be created with, and its application
    SeqSpan,        \* stands for 2^32 in the sequence numbers
    MaxBatch        \* ST_TX_DROP_MAX_BATCH

Slots == 0 .. N - 1
Threads == Users \cup Converters \cup {Tasklet, Freer}

\* What st20p_tx_create is given, and how the application behaves.
SessionSet ==
    [mode : {"derive", "internal", "plugin"},  \* who converts the frame
     ext : BOOLEAN,         \* ST20P_TX_FLAG_EXT_FRAME
     manual : BOOLEAN,      \* ST20P_TX_FLAG_EXT_FRAME_MANUAL_RELEASE
     late : BOOLEAN,        \* DROP_WHEN_LATE and USER_PACING, TAI timestamps
     block : BOOLEAN,       \* ST20P_TX_FLAG_BLOCK_GET
     notifyDone : BOOLEAN,  \* ops.notify_frame_done is registered
     users : SUBSET Users,  \* threads that get and put frames
     helpers : SUBSET Users,\* threads that only release frames (the callback's
                            \* thread may) or call st20p_tx_wake_block
     convs : SUBSET Converters,
     aborts : BOOLEAN,      \* the application uses st20p_tx_put_frame_abort
     bigMeta : BOOLEAN,     \* and may pass a user_meta that is too large
     frees : BOOLEAN,       \* and frees the session
     maxGets : Nat,         \* bound on its get_frame calls; SeqSpan for none
     maxWakes : Nat]        \* bound on its st20p_tx_wake_block calls

\* How far the history variable owed counts.
MaxOwed == 2

ASSUME SizeAssumption == N \in Nat \ {0}
ASSUME ThreadsAssumption ==
    /\ Users \cap Converters = {}
    /\ Tasklet # Freer
    /\ {Tasklet, Freer} \cap (Users \cup Converters) = {}
    /\ None \notin Threads \cup Slots
ASSUME SessionsAssumption ==
    \A o \in Sessions : o \in SessionSet /\ (o.manual => o.ext /\ o.notifyDone)
ASSUME BoundsAssumption ==
    /\ SeqSpan \in Nat /\ SeqSpan > 2 /\ SeqSpan % 2 = 0
    /\ MaxBatch \in Nat \ {0}

VARIABLES
    ops,        \* the session's flags, from create on
    stat,       \* framebuffs[i].stat
    seq,        \* framebuffs[i].seq_number
    done,       \* framebuffs[i].frame_done_cb_called
    nextSeq,    \* framebuff_sequence_number
    mutex, asleep, wakeCnt, \* block_wake_mutex, its cond's queue, wake_block_cnt
    pc, at,     \* per thread: place, and slot being scanned or handled
    best,       \* per thread: candidate of newest_available
    park,       \* the tasklet's local need_in_user
    drops,      \* the tasklet's local drop_cnt
    cnt0,       \* per user: wake_block_cnt at the start of its wait
    phase,      \* progress of st20p_tx_free
    held,       \* frames the application got and has not put back
    toRelease,  \* frames reported done that the application must release
    owed,       \* per slot: frames put minus notify_frame_done calls (derive mode)
    pend,       \* slots already CONVERTED when next_frame's scan began
    gap         \* per slot: numbers handed out after its own, up to half of SeqSpan

ring == <<stat, seq, done, nextSeq, gap>>
sync == <<mutex, asleep, wakeCnt, cnt0>>
task == <<park, drops, pend>>
app == <<held, toRelease, owed>>
vars == <<ops, ring, sync, task, app, pc, at, best, phase>>

Stats == {"FREE", "READY", "IN_CONVERTING", "CONVERTED", "DROPPED",
          "IN_USER", "IN_TRANSMITTING"}
UserPC == {"out", "scan", "cas", "lock", "loop", "wait", "relock", "timedout",
           "unlock", "check", "got", "number", "flag", "called", "notify"}
ConvPC == {"out", "scan", "cas", "convert", "failed", "flag", "called"}
TaskPC == {"out", "scan", "late", "lateflag", "latecall", "latefree", "latenotify",
           "none", "announce", "store", "flag", "called", "sent"}

TypeOK ==
    /\ ops \in Sessions
    /\ stat \in [Slots -> Stats]
    /\ seq \in [Slots -> 0 .. SeqSpan - 1]
    /\ done \in [Slots -> BOOLEAN]
    /\ nextSeq \in 0 .. SeqSpan - 1
    /\ mutex \in Users \cup {None}
    /\ asleep \subseteq Users
    /\ wakeCnt \in 0 .. ops.maxWakes
    /\ cnt0 \in [Users -> 0 .. ops.maxWakes]
    /\ \A u \in Users : pc[u] \in UserPC
    /\ \A c \in Converters : pc[c] \in ConvPC
    /\ pc[Tasklet] \in TaskPC
    /\ at \in [Threads -> 0 .. N]
    /\ best \in [Threads -> Slots \cup {None}]
    /\ park \in BOOLEAN
    /\ drops \in 0 .. MaxBatch
    /\ phase \in {"run", "wake", "drain", "flush", "close", "closed"}
    /\ held \subseteq Slots
    /\ toRelease \subseteq Slots
    /\ owed \in [Slots -> -MaxOwed .. MaxOwed]
    /\ pend \subseteq Slots
    /\ gap \in [Slots -> 0 .. SeqSpan \div 2]

Init ==
    /\ ops \in Sessions
    /\ stat = [s \in Slots |-> "FREE"]
    /\ seq = [s \in Slots |-> 0]
    /\ done = [s \in Slots |-> FALSE]
    /\ nextSeq = 0
    /\ mutex = None /\ asleep = {} /\ wakeCnt = 0
    /\ cnt0 = [u \in Users |-> 0]
    /\ pc = [t \in Threads |-> "out"]
    /\ at = [t \in Threads |-> 0]
    /\ best = [t \in Threads |-> None]
    /\ park = FALSE /\ drops = 0
    /\ phase = "run"
    /\ held = {} /\ toRelease = {}
    /\ owed = [s \in Slots |-> 0]
    /\ pend = {}
    /\ gap = [s \in Slots |-> SeqSpan \div 2]
-----------------------------------------------------------------------------
\* Mutant of SeqGreater: a plain comparison that forgets the wrap.
Bug_PlainGreater(a, b) == a > b

\* mt_seq32_greater: a is ahead of b by less than half the number space.
SeqGreater(a, b) ==
    LET diff == (a - b) % SeqSpan IN diff # 0 /\ diff < SeqSpan \div 2

Destroying == phase # "run"

\* A guarded call of the application begins: one about a frame, or one that
\* any of its threads may make.
AnyCall(u) == pc[u] = "out" /\ u \in ops.users \cup ops.helpers /\ ~Destroying
Call(u) == AnyCall(u) /\ u \in ops.users

Goto(t, l) == pc' = [pc EXCEPT ![t] = l]
\* The handler of t is over and its locals are gone.
Return(t) ==
    /\ Goto(t, "out")
    /\ at' = [at EXCEPT ![t] = 0]
    /\ best' = [best EXCEPT ![t] = None]
Store(s, x) == stat' = [stat EXCEPT ![s] = x]

\* pthread_cond_signal: one of the queued threads, if there is one.
Signal ==
    IF asleep = {} THEN UNCHANGED asleep
                   ELSE \E u \in asleep : asleep' = asleep \ {u}

\* Mutant of NotifyFrameAvailable: the signal is sent without the mutex.
Bug_SignalUnlocked ==
    IF ops.block THEN Signal ELSE UNCHANGED asleep

\* tx_st20p_notify_frame_available
NotifyFrameAvailable ==
    IF ops.block THEN mutex = None /\ Signal ELSE UNCHANGED asleep

\* "notify_frame_done && !frame_done_cb_called": one load of the flag.
Unreported(s) == ops.notifyDone /\ ~done[s]

\* The sessions whose reports the history variable owed counts.
Counted == ops.mode = "derive" /\ ops.notifyDone

\* The flag is set, then the application learns that frame s is done.
\* With manual release it now has to call st20p_tx_notify_ext_frame_free,
\* which an application with an internal converter may omit.
NotifyFrameDone(s) ==
    /\ done' = [done EXCEPT ![s] = TRUE]
    /\ owed' = [owed EXCEPT ![s] = IF Counted /\ @ > -MaxOwed THEN @ - 1 ELSE @]
    /\ toRelease' = IF ops.manual /\ ops.mode # "internal"
                    THEN toRelease \cup {s} ELSE toRelease
    /\ UNCHANGED <<stat, seq, nextSeq, gap, held>>

\* One step of tx_st20p_newest_available: the scanned slot replaces the
\* candidate unless the candidate's frame is older.
Candidate(t, desired) ==
    LET i == at[t] IN
    IF stat[i] = desired /\ (best[t] = None \/ ~SeqGreater(seq[i], seq[best[t]]))
    THEN i ELSE best[t]

-----------------------------------------------------------------------------
\* st20p_tx_get_frame

GetFrame(u) ==
    /\ Call(u) /\ nextSeq < ops.maxGets
    /\ Goto(u, "scan")
    /\ at' = [at EXCEPT ![u] = 0]
    /\ best' = [best EXCEPT ![u] = None]
    /\ UNCHANGED <<ring, sync, task, app, phase>>

\* One turn of tx_st20p_next_available, and what get_frame does with NULL.
\* The caller is in its wait loop exactly when it owns the mutex.
GetScan(u) ==
    /\ pc[u] = "scan"
    /\ \/ /\ at[u] < N
          /\ IF stat[at[u]] = "FREE"
             THEN Goto(u, "cas") /\ UNCHANGED at
             ELSE at' = [at EXCEPT ![u] = @ + 1] /\ UNCHANGED pc
          /\ UNCHANGED sync
       \/ /\ at[u] = N /\ mutex # u
          /\ Goto(u, IF ops.block THEN "lock" ELSE "out")
          /\ at' = [at EXCEPT ![u] = 0]
          /\ UNCHANGED sync
       \/ /\ at[u] = N /\ mutex = u /\ wakeCnt # cnt0[u]
          /\ Goto(u, "unlock")
          /\ UNCHANGED <<at, sync>>
       \/ /\ at[u] = N /\ mutex = u /\ wakeCnt = cnt0[u]
          /\ Goto(u, "wait")
          /\ at' = [at EXCEPT ![u] = 0]
          /\ mutex' = None
          /\ asleep' = asleep \cup {u}
          /\ UNCHANGED <<wakeCnt, cnt0>>
    /\ UNCHANGED <<ring, task, app, best, phase>>

\* Mutant of GetClaim: a store instead of the CAS.
Bug_GetStore(u) ==
    /\ pc[u] = "cas"
    /\ Store(at[u], "IN_USER")
    /\ best' = [best EXCEPT ![u] = at[u]]
    /\ Goto(u, IF mutex = u THEN "unlock" ELSE "got")
    /\ UNCHANGED <<seq, done, nextSeq, gap, at, sync, task, app, phase>>

\* The CAS of tx_st20p_claim_available; a lost race scans again.
GetClaim(u) ==
    /\ pc[u] = "cas"
    /\ IF stat[at[u]] = "FREE"
       THEN /\ Store(at[u], "IN_USER")
            /\ best' = [best EXCEPT ![u] = at[u]]
            /\ Goto(u, IF mutex = u THEN "unlock" ELSE "got")
            /\ UNCHANGED at
       ELSE /\ at' = [at EXCEPT ![u] = 0]
            /\ Goto(u, "scan")
            /\ UNCHANGED <<stat, best>>
    /\ UNCHANGED <<seq, done, nextSeq, gap, sync, task, app, phase>>

\* Take block_wake_mutex and remember wake_block_cnt.
GetLock(u) ==
    /\ pc[u] = "lock" /\ mutex = None
    /\ mutex' = u
    /\ cnt0' = [cnt0 EXCEPT ![u] = wakeCnt]
    /\ Goto(u, "loop")
    /\ UNCHANGED <<ring, asleep, wakeCnt, task, app, at, best, phase>>

\* The condition of the wait loop.
GetLoop(u) ==
    /\ pc[u] = "loop"
    /\ Goto(u, IF Destroying THEN "unlock" ELSE "scan")
    /\ at' = [at EXCEPT ![u] = 0]
    /\ UNCHANGED <<ring, sync, task, app, best, phase>>

\* pthread_cond_timedwait returns: signalled, or past the deadline.
GetWake(u) ==
    /\ pc[u] = "wait" /\ u \notin asleep
    /\ Goto(u, "relock")
    /\ UNCHANGED <<ring, sync, task, app, at, best, phase>>

GetTimeout(u) ==
    /\ pc[u] = "wait" /\ u \in asleep
    /\ asleep' = asleep \ {u}
    /\ Goto(u, "timedout")
    /\ UNCHANGED <<ring, mutex, wakeCnt, cnt0, task, app, at, best, phase>>

GetRelock(u) ==
    /\ pc[u] \in {"relock", "timedout"} /\ mutex = None
    /\ mutex' = u
    /\ Goto(u, IF pc[u] = "relock" THEN "loop" ELSE "unlock")
    /\ UNCHANGED <<ring, asleep, wakeCnt, cnt0, task, app, at, best, phase>>

GetUnlock(u) ==
    /\ pc[u] = "unlock"
    /\ mutex' = None
    /\ cnt0' = [cnt0 EXCEPT ![u] = 0]
    /\ Goto(u, "check")
    /\ UNCHANGED <<ring, asleep, wakeCnt, task, app, at, best, phase>>

\* A claim made in the wait loop is given back when the session is dying.
GetCheck(u) ==
    /\ pc[u] = "check"
    /\ IF Destroying
       THEN /\ IF best[u] # None THEN Store(best[u], "FREE") ELSE UNCHANGED stat
            /\ Return(u)
       ELSE /\ IF best[u] = None THEN Return(u) ELSE Goto(u, "got") /\ UNCHANGED <<at, best>>
            /\ UNCHANGED stat
    /\ UNCHANGED <<seq, done, nextSeq, gap, sync, task, app, phase>>

\* Mutant of GetReset: frame_done_cb_called keeps its value.
Bug_KeepFlag(u) ==
    /\ pc[u] = "got"
    /\ Goto(u, "number")
    /\ UNCHANGED <<ring, sync, task, app, at, best, phase>>

\* The claimed slot is made ready for a new frame ...
GetReset(u) ==
    /\ pc[u] = "got"
    /\ done' = [done EXCEPT ![best[u]] = FALSE]
    /\ Goto(u, "number")
    /\ UNCHANGED <<stat, seq, nextSeq, gap, sync, task, app, at, best, phase>>

\* Mutant of GetReturn: the counter is wider than the slot's number.
Bug_WideSeq(u) ==
    /\ pc[u] = "number"
    /\ seq' = [seq EXCEPT ![best[u]] = nextSeq]
    /\ nextSeq' = nextSeq + 1
    /\ held' = held \cup {best[u]}
    /\ Return(u)
    /\ UNCHANGED <<stat, done, gap, sync, task, toRelease, owed, phase>>

\* ... numbered and handed out.
GetReturn(u) ==
    /\ pc[u] = "number"
    /\ seq' = [seq EXCEPT ![best[u]] = nextSeq]
    /\ nextSeq' = (nextSeq + 1) % SeqSpan
    /\ gap' = [s \in Slots |-> IF s = best[u] THEN 0
                               ELSE IF gap[s] < SeqSpan \div 2 THEN gap[s] + 1 ELSE gap[s]]
    /\ held' = held \cup {best[u]}
    /\ Return(u)
    /\ UNCHANGED <<stat, done, sync, task, toRelease, owed, phase>>
-----------------------------------------------------------------------------
\* The other calls of the application. All of them need the handle.

\* History: one more notify_frame_done is due for slot s.
Owe(s) == owed' = [owed EXCEPT ![s] = IF Counted /\ @ < MaxOwed THEN @ + 1 ELSE @]

Queued == IF ops.mode = "plugin" THEN "READY" ELSE "CONVERTED"

\* st20p_tx_put_frame. User metadata that does not fit frees the slot and
\* tells nobody.
PutFrame(u, s) ==
    /\ Call(u) /\ s \in held /\ ~ops.ext
    /\ held' = held \ {s}
    /\ IF stat[s] # "IN_USER" THEN UNCHANGED <<stat, owed>>
       ELSE \/ /\ ops.bigMeta
               /\ Store(s, "FREE")
               /\ UNCHANGED owed
            \/ /\ Store(s, Queued)
               /\ Owe(s)
    /\ UNCHANGED <<seq, done, nextSeq, gap, sync, task, toRelease, pc, at, best, phase>>

\* st20p_tx_put_ext_frame. Its failures leave the frame with the caller. An
\* internal converter is done with the buffer before put_ext_frame returns.
PutExtFrame(u, s) ==
    /\ Call(u) /\ s \in held /\ ops.ext
    /\ held' = held \ {s}
    /\ IF stat[s] # "IN_USER" THEN UNCHANGED <<stat, owed, pc, at>>
       ELSE /\ Store(s, Queued)
            /\ Owe(s)
            /\ IF ops.mode = "internal"
               THEN Goto(u, "flag") /\ at' = [at EXCEPT ![u] = s]
               ELSE UNCHANGED <<pc, at>>
    /\ UNCHANGED <<seq, done, nextSeq, gap, sync, task, toRelease, best, phase>>

PutExtFlag(u) ==
    /\ pc[u] = "flag"
    /\ IF Unreported(at[u]) THEN Goto(u, "called") /\ UNCHANGED <<at, best>> ELSE Return(u)
    /\ UNCHANGED <<ring, sync, task, app, phase>>

PutExtDone(u) ==
    /\ pc[u] = "called"
    /\ NotifyFrameDone(at[u])
    /\ Return(u)
    /\ UNCHANGED <<sync, task, phase>>

\* st20p_tx_put_frame_abort: the slot is FREE again and no waiter is told.
PutFrameAbort(u, s) ==
    /\ Call(u) /\ s \in held /\ ops.aborts
    /\ held' = held \ {s}
    /\ IF stat[s] = "IN_USER" THEN Store(s, "FREE") ELSE UNCHANGED stat
    /\ UNCHANGED <<seq, done, nextSeq, gap, sync, task, toRelease, owed, pc, at, best, phase>>

\* st20p_tx_notify_ext_frame_free, called once for a frame reported done; a
\* slot that is not IN_USER makes it fail with -EIO.
NotifyExtFrameFree(u, s) ==
    /\ AnyCall(u) /\ s \in toRelease
    /\ toRelease' = toRelease \ {s}
    /\ IF stat[s] = "IN_USER" THEN Store(s, "FREE") /\ Goto(u, "notify")
                              ELSE UNCHANGED <<stat, pc>>
    /\ UNCHANGED <<seq, done, nextSeq, gap, sync, task, held, owed, at, best, phase>>

ExtFrameFreed(u) ==
    /\ pc[u] = "notify"
    /\ NotifyFrameAvailable
    /\ Goto(u, "out")
    /\ UNCHANGED <<ring, mutex, wakeCnt, cnt0, task, app, at, best, phase>>

\* st20p_tx_wake_block
WakeBlock(u) ==
    /\ AnyCall(u) /\ ops.block /\ wakeCnt < ops.maxWakes /\ mutex = None
    /\ wakeCnt' = wakeCnt + 1
    /\ Signal
    /\ UNCHANGED <<ring, mutex, cnt0, task, app, pc, at, best, phase>>

-----------------------------------------------------------------------------
\* tx_st20p_next_frame, on the transport's tasklet

ScanConverted ==
    /\ Goto(Tasklet, "scan")
    /\ at' = [at EXCEPT ![Tasklet] = 0]
    /\ best' = [best EXCEPT ![Tasklet] = None]
    /\ pend' = {s \in Slots : stat[s] = "CONVERTED"}

NextFrame ==
    /\ pc[Tasklet] = "out" /\ phase # "closed"
    /\ ScanConverted
    /\ UNCHANGED <<ring, sync, park, drops, app, phase>>

\* next_frame returns to the transport.
NextReturn == Return(Tasklet) /\ pend' = {} /\ drops' = 0

\* The scan is over: a candidate, nothing to send, or drop-when-late's last duty.
ScanEnd ==
    IF best[Tasklet] = None /\ ~ops.late THEN NextReturn
    ELSE /\ Goto(Tasklet, IF best[Tasklet] = None THEN "none" ELSE "late")
         /\ UNCHANGED <<at, best, drops, pend>>

\* Mutant of NextScan: the scan stops one slot early.
Bug_ShortScan ==
    /\ pc[Tasklet] = "scan"
    /\ IF at[Tasklet] < N - 1
       THEN /\ best' = [best EXCEPT ![Tasklet] = Candidate(Tasklet, "CONVERTED")]
            /\ at' = [at EXCEPT ![Tasklet] = @ + 1]
            /\ UNCHANGED <<pc, drops, pend>>
       ELSE ScanEnd
    /\ UNCHANGED <<ring, sync, park, app, phase>>

NextScan ==
    /\ pc[Tasklet] = "scan"
    /\ IF at[Tasklet] < N
       THEN /\ best' = [best EXCEPT ![Tasklet] = Candidate(Tasklet, "CONVERTED")]
            /\ at' = [at EXCEPT ![Tasklet] = @ + 1]
            /\ UNCHANGED <<pc, drops, pend>>
       ELSE ScanEnd
    /\ UNCHANGED <<ring, sync, park, app, phase>>

\* The frame is in time: claim it, or scan again.
NextClaim ==
    /\ pc[Tasklet] = "late"
    /\ IF stat[best[Tasklet]] = "CONVERTED"
       THEN /\ Store(best[Tasklet], "IN_TRANSMITTING")
            /\ NextReturn
       ELSE ScanConverted /\ UNCHANGED <<stat, drops>>
    /\ UNCHANGED <<seq, done, nextSeq, gap, sync, park, app, phase>>

\* Mutant of NeedInUser: manual release is forgotten.
Bug_NoPark(s) == FALSE

\* need_in_user: the application is going to release the slot.
NeedInUser(s) == ops.manual /\ ~done[s]

\* tx_st20p_if_frame_late finds the frame late and takes it out of the ring.
DropLate ==
    /\ pc[Tasklet] = "late" /\ ops.late
    /\ park' = NeedInUser(best[Tasklet])
    /\ Store(best[Tasklet], "DROPPED")
    /\ Goto(Tasklet, "lateflag")
    /\ UNCHANGED <<seq, done, nextSeq, gap, sync, drops, pend, app, at, best, phase>>

DropLateFlag ==
    /\ pc[Tasklet] = "lateflag"
    /\ Goto(Tasklet, IF Unreported(best[Tasklet]) THEN "latecall" ELSE "latefree")
    /\ UNCHANGED <<ring, sync, task, app, at, best, phase>>

DropLateDone ==
    /\ pc[Tasklet] = "latecall"
    /\ NotifyFrameDone(best[Tasklet])
    /\ Goto(Tasklet, "latefree")
    /\ UNCHANGED <<sync, task, at, best, phase>>

DropLateStore ==
    /\ pc[Tasklet] = "latefree"
    /\ Store(best[Tasklet], IF park THEN "IN_USER" ELSE "FREE")
    /\ Goto(Tasklet, "latenotify")
    /\ UNCHANGED <<seq, done, nextSeq, gap, sync, task, app, at, best, phase>>
\* A dropped slot that went to FREE is announced; then the next frame, up to
\* the batch limit.
DropLateNext ==
    /\ pc[Tasklet] = "latenotify"
    /\ IF park THEN UNCHANGED asleep ELSE NotifyFrameAvailable
    /\ park' = FALSE
    /\ drops' = drops + 1
    /\ IF drops + 1 >= MaxBatch
       THEN Goto(Tasklet, "none") /\ UNCHANGED <<at, best, pend>>
       ELSE ScanConverted
    /\ UNCHANGED <<ring, mutex, wakeCnt, cnt0, app, phase>>

\* No frame to send: with drop-when-late a FREE slot is announced again. The scan
\* for one is a single step, because it only decides on an additional signal.
NextNone ==
    /\ pc[Tasklet] = "none"
    /\ IF \E s \in Slots : stat[s] = "FREE"
       THEN Goto(Tasklet, "announce") /\ UNCHANGED <<at, best, drops, pend>>
       ELSE NextReturn
    /\ UNCHANGED <<ring, sync, park, app, phase>>

NextAnnounce ==
    /\ pc[Tasklet] = "announce"
    /\ NotifyFrameAvailable
    /\ NextReturn
    /\ UNCHANGED <<ring, mutex, wakeCnt, cnt0, park, app, phase>>

-----------------------------------------------------------------------------
\* tx_st20p_frame_done, when the last packet of frame s has left

FrameDone(s) ==
    /\ pc[Tasklet] = "out" /\ phase # "closed"
    /\ stat[s] = "IN_TRANSMITTING"
    /\ park' = NeedInUser(s)
    /\ at' = [at EXCEPT ![Tasklet] = s]
    /\ Goto(Tasklet, "store")
    /\ UNCHANGED <<ring, sync, drops, pend, app, best, phase>>

FrameDoneStore ==
    /\ pc[Tasklet] = "store"
    /\ IF stat[at[Tasklet]] = "IN_TRANSMITTING"
       THEN Store(at[Tasklet], IF park THEN "IN_USER" ELSE "FREE")
       ELSE UNCHANGED stat
    /\ Goto(Tasklet, IF ops.notifyDone THEN "flag" ELSE "sent")
    /\ UNCHANGED <<seq, done, nextSeq, gap, sync, task, app, at, best, phase>>

FrameDoneFlag ==
    /\ pc[Tasklet] = "flag"
    /\ Goto(Tasklet, IF Unreported(at[Tasklet]) THEN "called" ELSE "sent")
    /\ UNCHANGED <<ring, sync, task, app, at, best, phase>>

FrameDoneCall ==
    /\ pc[Tasklet] = "called"
    /\ NotifyFrameDone(at[Tasklet])
    /\ Goto(Tasklet, "sent")
    /\ UNCHANGED <<sync, task, at, best, phase>>

FrameDoneNotify ==
    /\ pc[Tasklet] = "sent"
    /\ IF park THEN UNCHANGED asleep ELSE NotifyFrameAvailable
    /\ park' = FALSE
    /\ Return(Tasklet)
    /\ UNCHANGED <<ring, mutex, wakeCnt, cnt0, drops, pend, app, phase>>

-----------------------------------------------------------------------------
\* The converter plugin: tx_st20p_convert_get_frame, convert_put_frame

ConvertGet(c) ==
    /\ pc[c] = "out" /\ c \in ops.convs /\ ~Destroying
    /\ ops.mode = "plugin"
    /\ Goto(c, "scan")
    /\ at' = [at EXCEPT ![c] = 0]
    /\ best' = [best EXCEPT ![c] = None]
    /\ UNCHANGED <<ring, sync, task, app, phase>>

ConvertScan(c) ==
    /\ pc[c] = "scan"
    /\ IF at[c] < N
       THEN /\ best' = [best EXCEPT ![c] = Candidate(c, "READY")]
            /\ at' = [at EXCEPT ![c] = @ + 1]
            /\ UNCHANGED pc
       ELSE IF best[c] = None THEN Return(c) ELSE Goto(c, "cas") /\ UNCHANGED <<at, best>>
    /\ UNCHANGED <<ring, sync, task, app, phase>>

ConvertClaim(c) ==
    /\ pc[c] = "cas"
    /\ at' = [at EXCEPT ![c] = 0]
    /\ IF stat[best[c]] = "READY"
       THEN /\ Store(best[c], "IN_CONVERTING")
            /\ Goto(c, "convert")
            /\ UNCHANGED best
       ELSE /\ Goto(c, "scan")
            /\ best' = [best EXCEPT ![c] = None]
            /\ UNCHANGED stat
    /\ UNCHANGED <<seq, done, nextSeq, gap, sync, task, app, phase>>

\* The flag is only read if notify_frame_done is registered.
ConvertReport(c) ==
    IF ops.notifyDone THEN Goto(c, "flag") /\ UNCHANGED <<at, best>> ELSE Return(c)

\* A put that the handle refuses or that finds another stat is dropped.
ConvertPut(c) ==
    /\ pc[c] = "convert"
    /\ IF Destroying \/ stat[best[c]] # "IN_CONVERTING"
       THEN Return(c) /\ UNCHANGED stat
       ELSE \/ Store(best[c], "CONVERTED") /\ ConvertReport(c)
            \/ /\ Store(best[c], "FREE")
               /\ IF ops.block THEN Goto(c, "failed") /\ UNCHANGED <<at, best>>
                               ELSE ConvertReport(c)
    /\ UNCHANGED <<seq, done, nextSeq, gap, sync, task, app, phase>>

ConvertFailed(c) ==
    /\ pc[c] = "failed"
    /\ NotifyFrameAvailable
    /\ ConvertReport(c)
    /\ UNCHANGED <<ring, mutex, wakeCnt, cnt0, task, app, phase>>

ConvertFlag(c) ==
    /\ pc[c] = "flag"
    /\ IF Unreported(best[c]) THEN Goto(c, "called") /\ UNCHANGED <<at, best>> ELSE Return(c)
    /\ UNCHANGED <<ring, sync, task, app, phase>>

ConvertDone(c) ==
    /\ pc[c] = "called"
    /\ NotifyFrameDone(best[c])
    /\ Return(c)
    /\ UNCHANGED <<sync, task, phase>>

-----------------------------------------------------------------------------
\* st20p_tx_free, from the caller that won mt_handle_begin_destroy

FreeBegin ==
    /\ ops.frees /\ phase = "run"
    /\ phase' = "wake"
    /\ UNCHANGED <<ring, sync, task, app, pc, at, best>>

\* wake_on_destroy is tx_st20p_block_wake: a broadcast.
FreeWake ==
    /\ phase = "wake" /\ (ops.block => mutex = None)
    /\ asleep' = {}
    /\ phase' = "drain"
    /\ UNCHANGED <<ring, mutex, wakeCnt, cnt0, task, app, pc, at, best>>

\* mt_handle_drain: no guarded call is inside. A converter between get and
\* put is outside.
FreeDrain ==
    /\ phase = "drain"
    /\ \A u \in Users : pc[u] = "out"
    /\ \A c \in Converters : pc[c] \in {"out", "convert"}
    /\ phase' = "flush"
    /\ at' = [at EXCEPT ![Freer] = 0]
    /\ UNCHANGED <<ring, sync, task, app, pc, best>>

\* tx_st20p_framebuffs_flush waits for slot i or gives up after 100 retries.
FreeFlush ==
    /\ phase = "flush"
    /\ IF at[Freer] < N
       THEN at' = [at EXCEPT ![Freer] = @ + 1] /\ UNCHANGED phase
       ELSE phase' = "close" /\ UNCHANGED at
    /\ UNCHANGED <<ring, sync, task, app, pc, best>>

\* st20_tx_free takes the session from its tasklet, then all is released.
FreeClose ==
    /\ phase = "close" /\ pc[Tasklet] = "out"
    /\ phase' = "closed"
    /\ UNCHANGED <<ring, sync, task, app, pc, at, best>>

-----------------------------------------------------------------------------
UserStep(u) ==
    \/ GetFrame(u) \/ GetScan(u) \/ GetClaim(u) \/ GetLock(u) \/ GetLoop(u)
    \/ GetWake(u) \/ GetTimeout(u) \/ GetRelock(u) \/ GetUnlock(u)
    \/ GetCheck(u) \/ GetReset(u) \/ GetReturn(u)
    \/ \E s \in Slots : \/ PutFrame(u, s) \/ PutExtFrame(u, s)
                        \/ PutFrameAbort(u, s) \/ NotifyExtFrameFree(u, s)
    \/ PutExtFlag(u) \/ PutExtDone(u) \/ ExtFrameFreed(u) \/ WakeBlock(u)

TaskletStep ==
    \/ NextFrame \/ NextScan \/ NextClaim \/ NextNone \/ NextAnnounce
    \/ DropLate \/ DropLateFlag \/ DropLateDone \/ DropLateStore \/ DropLateNext
    \/ \E s \in Slots : FrameDone(s)
    \/ FrameDoneStore \/ FrameDoneFlag \/ FrameDoneCall \/ FrameDoneNotify

ConverterStep(c) ==
    \/ ConvertGet(c) \/ ConvertScan(c) \/ ConvertClaim(c) \/ ConvertPut(c)
    \/ ConvertFailed(c) \/ ConvertFlag(c) \/ ConvertDone(c)

FreerStep == FreeBegin \/ FreeWake \/ FreeDrain \/ FreeFlush \/ FreeClose

Next ==
    /\ \/ \E u \in Users : UserStep(u)
       \/ TaskletStep
       \/ \E c \in Converters : ConverterStep(c)
       \/ FreerStep
    /\ UNCHANGED ops

Spec == Init /\ [][Next]_vars

\* The scheduler keeps calling the transport's tasklet, which asks for the next
\* frame again and again, and the converter threads keep running. The transport
\* need not finish a frame and the application need not do anything.
FairSpec ==
    /\ Spec
    /\ WF_vars(TaskletStep /\ UNCHANGED ops)
    /\ \A c \in Converters : WF_vars(ConverterStep(c) /\ UNCHANGED ops)

-----------------------------------------------------------------------------
Claimed(u) == pc[u] \in {"unlock", "check", "got", "number"} /\ best[u] # None

\* frame_done or a late drop has parked slot s for the application's release,
\* or is about to report it.
Parked(s) ==
    \/ s \in toRelease
    \/ pc[Tasklet] \in {"flag", "called"} /\ at[Tasklet] = s

\* Releasing a parked slot works in every session with manual release but two:
\* a late drop reports the frame before it parks the slot, and with a converter
\* the frame is reported when it is converted.
ReleaseWorks == ops.manual => ops.mode = "derive" /\ ~ops.late

\* Nobody else has a frame that the application holds, that get_frame has
\* claimed or that a converter is converting: each such frame has one owner
\* and the stat that keeps the other threads away from it. And a slot that is
\* IN_USER has an owner who will give it back: no path of get_frame, of
\* frame_done or of a refused put leaves it out of the pool for good.
Exclusive ==
    /\ \A s \in held : stat[s] = "IN_USER"
    /\ \A u \in Users : Claimed(u) =>
          /\ stat[best[u]] = "IN_USER"
          /\ best[u] \notin held \cup toRelease
          /\ \A v \in Users \ {u} : Claimed(v) => best[v] # best[u]
    /\ \A c \in Converters : pc[c] = "convert" =>
          /\ stat[best[c]] = "IN_CONVERTING"
          /\ \A d \in Converters \ {c} : pc[d] = "convert" => best[d] # best[c]
    /\ ReleaseWorks => \A s \in Slots : stat[s] = "IN_USER" =>
          s \in held \/ Parked(s) \/ \E u \in Users : Claimed(u) /\ best[u] = s

\* Some handler is still busy with the frame that was in slot s.
Handling(s) ==
    \/ pc[Tasklet] \in {"store", "flag", "called"} /\ at[Tasklet] = s
    \/ pc[Tasklet] \in {"lateflag", "latecall"} /\ best[Tasklet] = s
    \/ \E c \in Converters : pc[c] \in {"failed", "flag", "called"} /\ best[c] = s
    \/ \E u \in Users : pc[u] \in {"flag", "called"} /\ at[u] = s

\* Every frame that was put is reported by exactly one notify_frame_done: none
\* is reported twice, and once its slot is FREE and its handlers are through
\* none is missing.
DoneOnce ==
    \A s \in Slots :
        /\ owed[s] >= 0
        /\ stat[s] = "FREE" /\ ~Handling(s) => owed[s] = 0

\* What holds of the reports of a derive session, where only frame_done and the
\* late drop report: there are never more of them than frames were put; and with
\* manual release, where a slot stays IN_USER until its frame was reported and
\* released, every frame is reported exactly once, sent or dropped late.
ReportedOnce ==
    ops.mode = "derive" =>
        /\ \A s \in Slots : owed[s] >= 0
        /\ ops.manual => DoneOnce

\* With manual release, a frame that was reported done stays IN_USER until the
\* application releases it with st20p_tx_notify_ext_frame_free.
NotifiedIsParked == \A s \in toRelease : stat[s] = "IN_USER"

\* The same where the reports come from frame_done alone, that is, in derive
\* sessions that drop no late frames.
ParkedUntilReleased == ReleaseWorks => NotifiedIsParked

\* next_frame hands out frames in the order get_frame numbered them: a frame
\* goes to the transport only if no frame numbered earlier was already waiting
\* when the scan began, also across the wrap of the number. This is so as long as
\* neither frame was out of the pool while half the number space went by.
TransmitInOrder ==
    [][\A s \in Slots :
         stat[s] = "CONVERTED" /\ stat'[s] = "IN_TRANSMITTING" =>
           \A r \in pend :
             stat[r] = "CONVERTED" /\ gap[r] < SeqSpan \div 2 => gap[r] <= gap[s]]_vars

\* A waiter that has been woken and will scan the ring again.
Rescanning(u) ==
    \/ pc[u] = "wait" /\ u \notin asleep
    \/ pc[u] \in {"relock", "loop"}
    \/ pc[u] \in {"scan", "cas"} /\ mutex = u

\* Somebody is about to signal the condition variable.
SignalDue ==
    \/ pc[Tasklet] \in {"latenotify", "flag", "called", "sent"} /\ ~park
    \/ pc[Tasklet] = "announce"
    \/ \E c \in Converters : pc[c] = "failed"
    \/ \E u \in Users : pc[u] = "notify"

\* Slots given back by an abort or by a put with too much metadata are announced
\* to nobody. One application thread cannot be asleep then; a second one, which
\* the documentation does not allow, may sleep on until it times out.
FreesAnnounced ==
    ops.aborts \/ ops.bigMeta => \A u, v \in ops.users : u = v

\* No lost wakeup: a caller of a blocking get_frame does not stay queued while
\* a slot is FREE, unless a signal is due or a woken waiter is going to look.
\* Claimed for one application thread, and for more if they never abort a frame.
NoLostWakeup ==
    FreesAnnounced /\ phase = "run" /\ asleep # {} /\ (\E s \in Slots : stat[s] = "FREE") =>
        SignalDue \/ \E u \in Users : Rescanning(u)

\* A frame that was put does not wait for ever: it is taken by a converter, taken
\* by the transport or dropped late, whatever the application does with the
\* other slots and even if no frame is ever finished, unless half the number
\* space goes by meanwhile and later frames pass for earlier ones.
FrameIsTaken ==
    \A s \in Slots : stat[s] \in {"READY", "CONVERTED"} ~>
        \/ stat[s] \notin {"READY", "CONVERTED"}
        \/ gap[s] = SeqSpan \div 2
        \/ Destroying

=============================================================================
