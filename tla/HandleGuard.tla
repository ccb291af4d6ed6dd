---------------------------- MODULE HandleGuard ----------------------------
(***************************************************************************)
(* The lifecycle gate of a public session handle: lib/src/mt_handle_guard.h *)
(* with the two kinds of clients it has in a pipeline session.              *)
(*                                                                          *)
(*   Callers  application (or plugin) threads inside a public API call.     *)
(*            They enter through MT_HANDLE_GUARD, may sleep on              *)
(*            block_wake_cond with their reference held, and leave through  *)
(*            MT_HANDLE_RELEASE.                                            *)
(*   Freers   threads inside *_free(): begin_destroy, wake_on_destroy,      *)
(*            drain, teardown, mt_rte_free of the wrapper.                  *)
(*                                                                          *)
(* All four operations of the guard on lc_destroying and lc_refcnt are      *)
(* SEQ_CST, so one atomic operation is one step here and steps interleave.  *)
(* What a body does between its entry and its waiting is one step.          *)
(* A load from a wrapper that was already freed may return anything.        *)
(***************************************************************************)
EXTENDS Integers, FiniteSets

CONSTANTS
    Callers,    \* threads that call guarded entry points
    Freers,     \* threads that call *_free() on the same handle
    NoThread    \* block_wake_mutex has no owner

ASSUME CallersAssumption == IsFiniteSet(Callers)
ASSUME ThreadsAssumption == /\ Callers \cap Freers = {}
                            /\ NoThread \notin Callers \cup Freers

VARIABLES
    destroying, \* lc_destroying
    refcnt,     \* lc_refcnt
    wrapper,    \* "live" until mt_rte_free(ctx), then "freed"
    pc,         \* where each thread is
    mutex,      \* owner of block_wake_mutex
    asleep,     \* threads queued on block_wake_cond
    holders     \* history: callers admitted by the guard while it was live

vars == <<destroying, refcnt, wrapper, pc, mutex, asleep, holders>>

Threads == Callers \cup Freers

CallerPC == {"idle", "type", "fast", "inc", "recheck", "undo", "body",
             "lock", "test", "sleep", "wait", "relock", "timedout", "unlock", "release"}
FreerPC == {"idle", "cas", "wakelock", "wake", "drain", "teardown", "done"}

\* Places where a caller is between the guard's success and its release.
BodyPC == {"body", "lock", "test", "sleep", "wait", "relock", "timedout", "unlock", "release"}
\* Places where the caller's increment of lc_refcnt is outstanding.
CountedPC == BodyPC \cup {"recheck", "undo"}

TypeOK ==
    /\ destroying \in 0..1
    /\ refcnt \in Nat
    /\ wrapper \in {"live", "freed"}
    /\ pc \in [Threads -> CallerPC \cup FreerPC]
    /\ \A c \in Callers : pc[c] \in CallerPC
    /\ \A f \in Freers : pc[f] \in FreerPC
    /\ mutex \in Threads \cup {NoThread}
    /\ asleep \subseteq Callers
    /\ holders \subseteq Callers

Init ==
    /\ destroying = 0
    /\ refcnt = 0
    /\ wrapper = "live"
    /\ pc = [t \in Threads |-> "idle"]
    /\ mutex = NoThread
    /\ asleep = {}
    /\ holders = {}

Goto(t, l) == pc' = [pc EXCEPT ![t] = l]

\* What a load of lc_destroying may return.
DestroyingLoads == IF wrapper = "live" THEN {destroying} ELSE 0..1

\* An add to lc_refcnt; the counter of a freed wrapper is nobody's.
AddRef(n) == refcnt' = IF wrapper = "live" THEN refcnt + n ELSE refcnt

-----------------------------------------------------------------------------
\* mt_handle_acquire

\* The application calls a guarded entry point. It knows the handle is gone
\* once some *_free() on it has returned.
Call(c) ==
    /\ pc[c] = "idle"
    /\ wrapper = "live"
    /\ Goto(c, "type")
    /\ UNCHANGED <<destroying, refcnt, wrapper, mutex, asleep, holders>>

\* "*type != want": a handle of another type is turned away with -EIO.
AcquireType(c) ==
    /\ pc[c] = "type"
    /\ \/ Goto(c, "idle")
       \/ Goto(c, "fast")
    /\ UNCHANGED <<destroying, refcnt, wrapper, mutex, asleep, holders>>

\* Mutant of AcquireFast: the reject drops a reference it never took.
Bug_FastRejectDropsRef(c) ==
    /\ pc[c] = "fast"
    /\ \E d \in DestroyingLoads : Goto(c, IF d = 1 THEN "undo" ELSE "inc")
    /\ UNCHANGED <<destroying, refcnt, wrapper, mutex, asleep, holders>>

\* The fast reject: an acquire load of lc_destroying.
AcquireFast(c) ==
    /\ pc[c] = "fast"
    /\ \E d \in DestroyingLoads : Goto(c, IF d = 1 THEN "idle" ELSE "inc")
    /\ UNCHANGED <<destroying, refcnt, wrapper, mutex, asleep, holders>>

\* atomic_fetch_add(refcnt, 1)
AcquireInc(c) ==
    /\ pc[c] = "inc"
    /\ AddRef(1)
    /\ Goto(c, "recheck")
    /\ UNCHANGED <<destroying, wrapper, mutex, asleep, holders>>

\* Mutant of AcquireRecheck: one check of lc_destroying is taken to be enough.
Bug_NoRecheck(c) ==
    /\ pc[c] = "recheck"
    /\ Goto(c, "body")
    /\ holders' = IF wrapper = "live" THEN holders \cup {c} ELSE holders
    /\ UNCHANGED <<destroying, refcnt, wrapper, mutex, asleep>>

\* The second load of lc_destroying decides.
AcquireRecheck(c) ==
    /\ pc[c] = "recheck"
    /\ \E d \in DestroyingLoads :
          /\ Goto(c, IF d = 1 THEN "undo" ELSE "body")
          /\ holders' = IF d = 0 /\ wrapper = "live" THEN holders \cup {c} ELSE holders
    /\ UNCHANGED <<destroying, refcnt, wrapper, mutex, asleep>>

\* Mutant of AcquireUndo: the failing path forgets its reference.
Bug_UndoLeaks(c) ==
    /\ pc[c] = "undo"
    /\ Goto(c, "idle")
    /\ UNCHANGED <<destroying, refcnt, wrapper, mutex, asleep, holders>>

\* The reference is given back and the call fails with -EIO.
AcquireUndo(c) ==
    /\ pc[c] = "undo"
    /\ AddRef(-1)
    /\ Goto(c, "idle")
    /\ UNCHANGED <<destroying, wrapper, mutex, asleep, holders>>

-----------------------------------------------------------------------------
\* The body of a guarded call: it returns, or it blocks as
\* st20p_tx_get_frame() does when no frame is available.

\* The body ends without blocking.
BodyReturn(c) ==
    /\ pc[c] = "body"
    /\ Goto(c, "release")
    /\ UNCHANGED <<destroying, refcnt, wrapper, mutex, asleep, holders>>

\* No frame and block_get: the body goes for block_wake_mutex.
BodyBlock(c) ==
    /\ pc[c] = "body"
    /\ Goto(c, "lock")
    /\ UNCHANGED <<destroying, refcnt, wrapper, mutex, asleep, holders>>

LockWake(c) ==
    /\ pc[c] = "lock"
    /\ mutex = NoThread
    /\ mutex' = c
    /\ Goto(c, "test")
    /\ UNCHANGED <<destroying, refcnt, wrapper, asleep, holders>>

\* The condition of the wait loop: it ends when the handle dies, a frame was
\* claimed or somebody called *_wake_block().
TestLoop(c) ==
    /\ pc[c] = "test"
    /\ \/ Goto(c, "unlock")
       \/ 0 \in DestroyingLoads /\ Goto(c, "sleep")
    /\ UNCHANGED <<destroying, refcnt, wrapper, mutex, asleep, holders>>

\* pthread_cond_timedwait gives up the mutex and queues the thread, in one step.
Sleep(c) ==
    /\ pc[c] = "sleep"
    /\ mutex' = NoThread
    /\ asleep' = asleep \cup {c}
    /\ Goto(c, "wait")
    /\ UNCHANGED <<destroying, refcnt, wrapper, holders>>

\* pthread_cond_timedwait: a signalled thread goes for the mutex again.
WakeSignalled(c) ==
    /\ pc[c] = "wait"
    /\ c \notin asleep
    /\ Goto(c, "relock")
    /\ UNCHANGED <<destroying, refcnt, wrapper, mutex, asleep, holders>>

\* pthread_cond_timedwait: the deadline passes first.
WakeTimeout(c) ==
    /\ pc[c] = "wait"
    /\ c \in asleep
    /\ asleep' = asleep \ {c}
    /\ Goto(c, "timedout")
    /\ UNCHANGED <<destroying, refcnt, wrapper, mutex, holders>>

\* The mutex is taken again before timedwait returns; a timeout leaves the loop.
Relock(c) ==
    /\ pc[c] \in {"relock", "timedout"}
    /\ mutex = NoThread
    /\ mutex' = c
    /\ Goto(c, IF pc[c] = "relock" THEN "test" ELSE "unlock")
    /\ UNCHANGED <<destroying, refcnt, wrapper, asleep, holders>>

UnlockWake(c) ==
    /\ pc[c] = "unlock"
    /\ mutex' = NoThread
    /\ Goto(c, "release")
    /\ UNCHANGED <<destroying, refcnt, wrapper, asleep, holders>>

\* MT_HANDLE_RELEASE
Release(c) ==
    /\ pc[c] = "release"
    /\ AddRef(-1)
    /\ Goto(c, "idle")
    /\ holders' = holders \ {c}
    /\ UNCHANGED <<destroying, wrapper, mutex, asleep>>

\* tx_st20p_notify_frame_available, from the transport tasklet: one sleeper
\* is signalled under block_wake_mutex.
SignalOne ==
    /\ mutex = NoThread
    /\ \E c \in asleep : asleep' = asleep \ {c}
    /\ UNCHANGED <<destroying, refcnt, wrapper, pc, mutex, holders>>

-----------------------------------------------------------------------------
\* *_free()

\* The application frees the handle. Several threads may race here, but none
\* starts once a *_free() has returned.
Free(f) ==
    /\ pc[f] = "idle"
    /\ wrapper = "live"
    /\ Goto(f, "cas")
    /\ UNCHANGED <<destroying, refcnt, wrapper, mutex, asleep, holders>>

\* Mutant of BeginDestroy: a load and a store instead of the CAS's verdict.
Bug_DestroyStore(f) ==
    /\ pc[f] = "cas"
    /\ destroying' = 1
    /\ Goto(f, "wakelock")
    /\ UNCHANGED <<refcnt, wrapper, mutex, asleep, holders>>

\* mt_handle_begin_destroy: CAS(lc_destroying, 0 -> 1); a loser gets -EBUSY.
\* On a wrapper that was freed meanwhile the CAS may do either. A handle of
\* another type is turned away first, with -EIO.
BeginDestroy(f) ==
    /\ pc[f] = "cas"
    /\ \/ /\ 0 \in DestroyingLoads
          /\ destroying' = 1
          /\ Goto(f, "wakelock")
       \/ /\ 1 \in DestroyingLoads
          /\ UNCHANGED destroying
          /\ Goto(f, "idle")
       \/ /\ UNCHANGED destroying
          /\ Goto(f, "idle")
    /\ UNCHANGED <<refcnt, wrapper, mutex, asleep, holders>>

\* tx_st20p_block_wake takes block_wake_mutex ...
WakeLock(f) ==
    /\ pc[f] = "wakelock"
    /\ mutex = NoThread
    /\ mutex' = f
    /\ Goto(f, "wake")
    /\ UNCHANGED <<destroying, refcnt, wrapper, asleep, holders>>

\* Mutant of WakeOnDestroy: cond_signal instead of cond_broadcast.
Bug_WakeOne(f) ==
    /\ pc[f] = "wake"
    /\ IF asleep = {} THEN UNCHANGED asleep
                      ELSE \E c \in asleep : asleep' = asleep \ {c}
    /\ mutex' = NoThread
    /\ Goto(f, "drain")
    /\ UNCHANGED <<destroying, refcnt, wrapper, holders>>

\* ... wakes every sleeper and unlocks.
WakeOnDestroy(f) ==
    /\ pc[f] = "wake"
    /\ asleep' = {}
    /\ mutex' = NoThread
    /\ Goto(f, "drain")
    /\ UNCHANGED <<destroying, refcnt, wrapper, holders>>

\* Mutant of Drain: the wait for the callers is left out.
Bug_NoDrain(f) ==
    /\ pc[f] = "drain"
    /\ Goto(f, "teardown")
    /\ UNCHANGED <<destroying, refcnt, wrapper, mutex, asleep, holders>>

\* mt_handle_drain spins until it reads zero.
Drain(f) ==
    /\ pc[f] = "drain"
    /\ refcnt = 0
    /\ Goto(f, "teardown")
    /\ UNCHANGED <<destroying, refcnt, wrapper, mutex, asleep, holders>>

\* The inner session is torn down and the wrapper is given back.
FreeWrapper(f) ==
    /\ pc[f] = "teardown"
    /\ wrapper' = "freed"
    /\ Goto(f, "done")
    /\ UNCHANGED <<destroying, refcnt, mutex, asleep, holders>>

-----------------------------------------------------------------------------
CallerStep(c) ==
    \/ AcquireType(c) \/ AcquireFast(c) \/ AcquireInc(c) \/ AcquireRecheck(c)
    \/ AcquireUndo(c) \/ BodyReturn(c) \/ LockWake(c) \/ TestLoop(c)
    \/ Sleep(c) \/ WakeSignalled(c) \/ Relock(c) \/ UnlockWake(c) \/ Release(c)

FreerStep(f) ==
    \/ BeginDestroy(f) \/ WakeLock(f) \/ WakeOnDestroy(f) \/ Drain(f)
    \/ FreeWrapper(f)

Next ==
    \/ \E c \in Callers : Call(c) \/ CallerStep(c) \/ BodyBlock(c) \/ WakeTimeout(c)
    \/ \E f \in Freers : Free(f) \/ FreerStep(f)
    \/ SignalOne

Spec == Init /\ [][Next]_vars

\* Threads inside the library keep running; nobody has to call, to block, to
\* time out or to make a frame available.
Fairness ==
    /\ \A c \in Callers : WF_vars(CallerStep(c))
    /\ \A f \in Freers : WF_vars(FreerStep(f))

FairSpec == Spec /\ Fairness

-----------------------------------------------------------------------------
\* Freers that won the destroy claim and are not yet through.
DestroyerPC == {"wakelock", "wake", "drain", "teardown"}

\* While the wrapper exists, lc_refcnt is the number of callers between their
\* fetch_add and their fetch_sub: no exit path of mt_handle_acquire or of the
\* blocking wait leaks or double-drops a reference.
RefcntExact ==
    wrapper = "live" =>
        refcnt = Cardinality({c \in Callers : pc[c] \in CountedPC})

\* Once a *_free() has drained, the inner session is torn down with no caller
\* inside a guarded body: not one that raced the destroy claim, and not one
\* that slept on block_wake_cond.
TeardownAlone ==
    wrapper = "live" /\ (\E f \in Freers : pc[f] = "teardown") =>
        \A c \in Callers : pc[c] \notin BodyPC

\* mt_rte_free() of the wrapper happens only after every caller the guard
\* admitted has released.
FreedAfterRelease == wrapper = "freed" => holders = {}

\* Of several threads racing *_free() one wins the CAS while the wrapper exists.
OneDestroyer ==
    wrapper = "live" =>
        \A f, g \in Freers :
            pc[f] \in DestroyerPC /\ pc[g] \in DestroyerPC => f = g

\* A *_free() that won the claim completes even while callers sleep without
\* a deadline: wake_on_destroy reaches all of them and drain returns.
FreeCompletes ==
    \A f \in Freers : pc[f] = "wakelock" /\ wrapper = "live" ~> pc[f] = "done"

\* What the gate looks like to the callers it admits and to *_free().
Life == IF wrapper = "freed" THEN "gone" ELSE IF destroying = 1 THEN "closing" ELSE "open"

G == INSTANCE Gate WITH Clients <- Callers, inside <- holders, life <- Life

\* lc_destroying and lc_refcnt together are a gate: whoever passes both loads of
\* mt_handle_acquire entered an open handle, and mt_rte_free is the destruction
\* of a closed and empty one.
GateImplemented == G!Spec
=============================================================================
