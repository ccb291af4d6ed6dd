------------------------- MODULE HandleGuardProofs -------------------------
(***************************************************************************)
(* The safety of the handle gate for every number of callers and of racing  *)
(* *_free() calls.                                                          *)
(*                                                                          *)
(* TeardownAlone is not inductive: that drain's zero means "nobody inside"  *)
(* needs RefcntExact, and that nobody enters between drain and mt_rte_free  *)
(* needs lc_destroying to be set from the claim on. GuardInv collects these. *)
(***************************************************************************)
EXTENDS HandleGuard, FiniteSetTheorems, TLAPS

Counted == {c \in Callers : pc[c] \in CountedPC}

\* A live wrapper with a destroyer is marked.
ClaimMarks ==
    wrapper = "live" /\ (\E f \in Freers : pc[f] \in DestroyerPC) => destroying = 1

\* holders is exactly the set of callers in a body, while the wrapper lives.
HoldersInBody ==
    wrapper = "live" => holders = {c \in Callers : pc[c] \in BodyPC}

GuardInv ==
    /\ TypeOK
    /\ RefcntExact
    /\ ClaimMarks
    /\ HoldersInBody
    /\ TeardownAlone
    /\ OneDestroyer
    /\ FreedAfterRelease

\* A caller that starts to count adds one to the number of counted callers.
LEMMA CountUp ==
    ASSUME NEW S, S \subseteq Callers, NEW c \in Callers, c \notin S
    PROVE  Cardinality(S \cup {c}) = Cardinality(S) + 1
BY CallersAssumption, FS_Subset, FS_AddElement

\* A caller that stops counting takes one away.
LEMMA CountDown ==
    ASSUME NEW S, S \subseteq Callers, NEW c \in S
    PROVE  /\ Cardinality(S \ {c}) = Cardinality(S) - 1
           /\ Cardinality(S \ {c}) \in Nat
BY CallersAssumption, FS_Subset, FS_RemoveElement, FS_CardinalityType

\* No caller is counted when the number of counted callers is zero.
LEMMA CountZero ==
    ASSUME NEW S, S \subseteq Callers, Cardinality(S) = 0
    PROVE  S = {}
BY CallersAssumption, FS_Subset, FS_EmptySet

\* The number of counted callers is a natural number.
LEMMA CountNat ==
    ASSUME NEW S, S \subseteq Callers
    PROVE  Cardinality(S) \in Nat
BY CallersAssumption, FS_Subset, FS_CardinalityType

\* GuardInv holds initially: nobody is inside and nothing is counted.
LEMMA InitGuardInv == Init => GuardInv
<1> SUFFICES ASSUME Init PROVE GuardInv
  OBVIOUS
<1>1. TypeOK
  BY ThreadsAssumption DEF Init, TypeOK, Threads, CallerPC, FreerPC
<1>2. {c \in Callers : pc[c] \in CountedPC} = {}
  BY DEF Init, Threads, CountedPC, BodyPC
<1>3. RefcntExact
  BY <1>2, FS_EmptySet DEF RefcntExact, Init
<1>4. HoldersInBody
  BY DEF Init, HoldersInBody, Threads, BodyPC
<1>5. ClaimMarks /\ TeardownAlone /\ OneDestroyer /\ FreedAfterRelease
  BY DEF Init, ClaimMarks, TeardownAlone, OneDestroyer, FreedAfterRelease,
         Threads, DestroyerPC
<1> QED BY <1>1, <1>3, <1>4, <1>5 DEF GuardInv

\* A step of caller c that changes nothing but its own place, and neither
\* enters nor leaves a counted place or a body, keeps GuardInv.
LEMMA QuietCallerStep ==
    ASSUME GuardInv, NEW c \in Callers, NEW l \in CallerPC, Goto(c, l),
           (pc[c] \in CountedPC) <=> (l \in CountedPC),
           (pc[c] \in BodyPC) <=> (l \in BodyPC),
           UNCHANGED <<destroying, refcnt, wrapper, holders>>,
           mutex' \in Threads \cup {NoThread}, asleep' \subseteq Callers
    PROVE  GuardInv'
<1>1. /\ pc' \in [Threads -> CallerPC \cup FreerPC]
      /\ pc'[c] = l
      /\ \A t \in Threads : t # c => pc'[t] = pc[t]
  BY DEF GuardInv, TypeOK, Goto, Threads
<1>2. TypeOK'
  BY <1>1, ThreadsAssumption DEF GuardInv, TypeOK, Threads
<1>3. {d \in Callers : pc'[d] \in CountedPC} = {d \in Callers : pc[d] \in CountedPC}
  BY <1>1 DEF Threads
<1>4. {d \in Callers : pc'[d] \in BodyPC} = {d \in Callers : pc[d] \in BodyPC}
  BY <1>1 DEF Threads
<1>5. \A f \in Freers : pc'[f] = pc[f]
  BY <1>1, ThreadsAssumption DEF Threads
<1>6. RefcntExact'
  BY <1>3 DEF GuardInv, RefcntExact
<1>7. HoldersInBody'
  BY <1>4 DEF GuardInv, HoldersInBody
<1>8. ClaimMarks' /\ OneDestroyer' /\ FreedAfterRelease'
  BY <1>5 DEF GuardInv, ClaimMarks, OneDestroyer, FreedAfterRelease
<1>9. TeardownAlone'
  BY <1>1, <1>5 DEF GuardInv, TeardownAlone, Threads
<1> QED BY <1>2, <1>6, <1>7, <1>8, <1>9 DEF GuardInv

\* A step of freer f that moves it and leaves the callers alone keeps what
\* GuardInv says of them.
LEMMA FreerStepKeeps ==
    ASSUME GuardInv, NEW f \in Freers, NEW l \in FreerPC, Goto(f, l),
           destroying' \in 0..1, wrapper' \in {"live", "freed"},
           UNCHANGED <<refcnt, holders>>, wrapper' = "live" => wrapper = "live",
           mutex' \in Threads \cup {NoThread}, asleep' \subseteq Callers
    PROVE  /\ TypeOK' /\ RefcntExact' /\ HoldersInBody'
           /\ pc'[f] = l
           /\ \A g \in Freers : g # f => pc'[g] = pc[g]
           /\ \A c \in Callers : pc'[c] = pc[c]
<1>1. /\ pc' \in [Threads -> CallerPC \cup FreerPC]
      /\ pc'[f] = l
      /\ \A t \in Threads : t # f => pc'[t] = pc[t]
  BY DEF GuardInv, TypeOK, Goto, Threads
<1>2. \A c \in Callers : pc'[c] = pc[c]
  BY <1>1, ThreadsAssumption DEF Threads
<1>3. TypeOK'
  BY <1>1, <1>2, ThreadsAssumption DEF GuardInv, TypeOK, Threads
<1>4. {d \in Callers : pc'[d] \in CountedPC} = {d \in Callers : pc[d] \in CountedPC}
  BY <1>2
<1>5. RefcntExact'
  BY <1>4 DEF GuardInv, RefcntExact
<1>6. HoldersInBody'
  BY <1>2 DEF GuardInv, HoldersInBody
<1> QED BY <1>1, <1>2, <1>3, <1>5, <1>6 DEF Threads

\* fetch_add: one more counted caller.
LEMMA AcquireIncKeeps ==
    ASSUME GuardInv, NEW c \in Callers, AcquireInc(c)
    PROVE  GuardInv'
<1>1. /\ pc' \in [Threads -> CallerPC \cup FreerPC]
      /\ pc'[c] = "recheck" /\ pc[c] = "inc"
      /\ \A t \in Threads : t # c => pc'[t] = pc[t]
  BY DEF GuardInv, TypeOK, Goto, Threads, AcquireInc, CallerPC
<1>2. \A f \in Freers : pc'[f] = pc[f]
  BY <1>1, ThreadsAssumption DEF Threads
<1>3. TypeOK'
  BY <1>1, <1>2, ThreadsAssumption
     DEF GuardInv, TypeOK, Threads, AcquireInc, AddRef, CallerPC
<1>4. /\ {d \in Callers : pc'[d] \in CountedPC} = {d \in Callers : pc[d] \in CountedPC} \cup {c}
      /\ c \notin {d \in Callers : pc[d] \in CountedPC}
  BY <1>1 DEF Threads, CountedPC, BodyPC
<1>5. RefcntExact'
  BY <1>4, CountUp DEF GuardInv, RefcntExact, AcquireInc, AddRef
<1>6. HoldersInBody' /\ TeardownAlone'
  BY <1>1, <1>2 DEF GuardInv, HoldersInBody, TeardownAlone, AcquireInc, BodyPC, Threads
<1>7. ClaimMarks' /\ OneDestroyer' /\ FreedAfterRelease'
  BY <1>2 DEF GuardInv, ClaimMarks, OneDestroyer, FreedAfterRelease, AcquireInc
<1> QED BY <1>3, <1>5, <1>6, <1>7 DEF GuardInv

\* The deciding load: a caller is admitted only if the claim is not yet made,
\* so no teardown is running on the live wrapper.
LEMMA AcquireRecheckKeeps ==
    ASSUME GuardInv, NEW c \in Callers, AcquireRecheck(c)
    PROVE  GuardInv'
<1>1. PICK d \in DestroyingLoads :
        /\ Goto(c, IF d = 1 THEN "undo" ELSE "body")
        /\ holders' = IF d = 0 /\ wrapper = "live" THEN holders \cup {c} ELSE holders
  BY DEF AcquireRecheck
<1>2. d \in 0..1 /\ (wrapper = "live" => d = destroying)
  BY <1>1 DEF DestroyingLoads, GuardInv, TypeOK
<1>3. /\ pc' \in [Threads -> CallerPC \cup FreerPC]
      /\ pc'[c] = (IF d = 1 THEN "undo" ELSE "body") /\ pc[c] = "recheck"
      /\ \A t \in Threads : t # c => pc'[t] = pc[t]
  BY <1>1 DEF GuardInv, TypeOK, Goto, Threads, AcquireRecheck, CallerPC
<1>4. \A f \in Freers : pc'[f] = pc[f]
  BY <1>3, ThreadsAssumption DEF Threads
<1>5. TypeOK'
  BY <1>1, <1>3, <1>4, ThreadsAssumption
     DEF GuardInv, TypeOK, Threads, AcquireRecheck, CallerPC
<1>6. {e \in Callers : pc'[e] \in CountedPC} = {e \in Callers : pc[e] \in CountedPC}
  BY <1>3 DEF Threads, CountedPC, BodyPC
<1>7. RefcntExact'
  BY <1>6 DEF GuardInv, RefcntExact, AcquireRecheck
<1>8. HoldersInBody'
  BY <1>1, <1>2, <1>3 DEF GuardInv, HoldersInBody, AcquireRecheck, BodyPC, Threads
<1>9. TeardownAlone'
  BY <1>2, <1>3, <1>4
     DEF GuardInv, TeardownAlone, ClaimMarks, AcquireRecheck, BodyPC, DestroyerPC, Threads
<1>10. ClaimMarks' /\ OneDestroyer' /\ FreedAfterRelease'
  BY <1>1, <1>4 DEF GuardInv, ClaimMarks, OneDestroyer, FreedAfterRelease, AcquireRecheck
<1> QED BY <1>5, <1>7, <1>8, <1>9, <1>10 DEF GuardInv

\* fetch_sub, on the failing path or at MT_HANDLE_RELEASE: one caller fewer.
LEMMA DropRefKeeps ==
    ASSUME GuardInv, NEW c \in Callers, AcquireUndo(c) \/ Release(c)
    PROVE  GuardInv'
<1>1. /\ pc' \in [Threads -> CallerPC \cup FreerPC]
      /\ pc'[c] = "idle" /\ pc[c] \in {"undo", "release"}
      /\ \A t \in Threads : t # c => pc'[t] = pc[t]
  BY DEF GuardInv, TypeOK, Goto, Threads, AcquireUndo, Release, CallerPC
<1>2. \A f \in Freers : pc'[f] = pc[f]
  BY <1>1, ThreadsAssumption DEF Threads
<1>3. /\ UNCHANGED <<destroying, wrapper, mutex, asleep>>
      /\ AddRef(-1)
      /\ IF pc[c] = "release" THEN holders' = holders \ {c} ELSE holders' = holders
  BY DEF AcquireUndo, Release
<1>4. /\ {d \in Callers : pc'[d] \in CountedPC} = {d \in Callers : pc[d] \in CountedPC} \ {c}
      /\ c \in {d \in Callers : pc[d] \in CountedPC}
  BY <1>1 DEF Threads, CountedPC, BodyPC
<1>5. RefcntExact' /\ refcnt' \in Nat
  BY <1>3, <1>4, CountDown DEF GuardInv, TypeOK, RefcntExact, AddRef
<1>6. TypeOK'
  BY <1>1, <1>2, <1>3, <1>5, ThreadsAssumption DEF GuardInv, TypeOK, Threads, CallerPC
<1>7. HoldersInBody' /\ TeardownAlone'
  BY <1>1, <1>2, <1>3 DEF GuardInv, HoldersInBody, TeardownAlone, BodyPC, Threads
<1>8. ClaimMarks' /\ OneDestroyer' /\ FreedAfterRelease'
  BY <1>2, <1>3 DEF GuardInv, ClaimMarks, OneDestroyer, FreedAfterRelease
<1> QED BY <1>5, <1>6, <1>7, <1>8 DEF GuardInv

\* begin_destroy: the winner marks the handle; on a live wrapper there was no
\* destroyer before, because the mark was still clear.
LEMMA BeginDestroyKeeps ==
    ASSUME GuardInv, NEW f \in Freers, BeginDestroy(f)
    PROVE  GuardInv'
<1>1. PICK l \in {"wakelock", "idle"} :
        /\ Goto(f, l)
        /\ IF l = "wakelock" THEN 0 \in DestroyingLoads /\ destroying' = 1
                             ELSE UNCHANGED destroying
  BY DEF BeginDestroy
<1>2. wrapper = "live" /\ l = "wakelock" => destroying = 0
  BY <1>1 DEF DestroyingLoads
<1>3. /\ UNCHANGED <<refcnt, wrapper, mutex, asleep, holders>>
      /\ destroying' \in 0..1 /\ pc[f] = "cas"
  BY <1>1 DEF BeginDestroy, GuardInv, TypeOK
<1>4. /\ TypeOK' /\ RefcntExact' /\ HoldersInBody'
      /\ pc'[f] = l
      /\ \A g \in Freers : g # f => pc'[g] = pc[g]
      /\ \A c \in Callers : pc'[c] = pc[c]
  BY <1>1, <1>3, FreerStepKeeps DEF GuardInv, TypeOK, FreerPC
<1>5. ClaimMarks' /\ OneDestroyer'
  BY <1>1, <1>2, <1>3, <1>4 DEF GuardInv, ClaimMarks, OneDestroyer, DestroyerPC
<1>6. TeardownAlone' /\ FreedAfterRelease'
  BY <1>3, <1>4 DEF GuardInv, TeardownAlone, FreedAfterRelease
<1> QED BY <1>4, <1>5, <1>6 DEF GuardInv

\* drain: zero references on a live wrapper means no counted caller, hence
\* nobody in a body.
LEMMA DrainKeeps ==
    ASSUME GuardInv, NEW f \in Freers, Drain(f)
    PROVE  GuardInv'
<1>1. /\ TypeOK' /\ RefcntExact' /\ HoldersInBody'
      /\ pc'[f] = "teardown"
      /\ \A g \in Freers : g # f => pc'[g] = pc[g]
      /\ \A c \in Callers : pc'[c] = pc[c]
  BY FreerStepKeeps DEF Drain, GuardInv, TypeOK, FreerPC
<1>2. /\ UNCHANGED <<destroying, refcnt, wrapper, holders>>
      /\ refcnt = 0 /\ pc[f] = "drain"
  BY DEF Drain
<1>3. ASSUME wrapper = "live"
      PROVE  \A c \in Callers : pc[c] \notin BodyPC
  <2>1. Cardinality({c \in Callers : pc[c] \in CountedPC}) = 0
    BY <1>2, <1>3 DEF GuardInv, RefcntExact
  <2>2. {c \in Callers : pc[c] \in CountedPC} = {}
    BY <2>1, CountZero
  <2> QED BY <2>2 DEF CountedPC
<1>4. TeardownAlone'
  BY <1>1, <1>2, <1>3 DEF TeardownAlone
<1>5. ClaimMarks' /\ OneDestroyer' /\ FreedAfterRelease'
  BY <1>1, <1>2 DEF GuardInv, ClaimMarks, OneDestroyer, FreedAfterRelease, DestroyerPC
<1> QED BY <1>1, <1>4, <1>5 DEF GuardInv

\* mt_rte_free: the teardown was alone, so no admitted caller is left.
LEMMA FreeWrapperKeeps ==
    ASSUME GuardInv, NEW f \in Freers, FreeWrapper(f)
    PROVE  GuardInv'
<1>1. /\ TypeOK' /\ RefcntExact' /\ HoldersInBody'
  BY FreerStepKeeps DEF FreeWrapper, GuardInv, TypeOK, FreerPC
<1>2. wrapper' = "freed" /\ holders' = holders /\ pc[f] = "teardown"
  BY DEF FreeWrapper
<1>3. holders = {}
  BY <1>2 DEF GuardInv, TypeOK, TeardownAlone, HoldersInBody, FreedAfterRelease
<1> QED BY <1>1, <1>2, <1>3
        DEF GuardInv, ClaimMarks, TeardownAlone, OneDestroyer, FreedAfterRelease

\* The remaining steps of *_free() move only the freer among places before
\* the teardown, without touching the mark.
LEMMA QuietFreerStep ==
    ASSUME GuardInv, NEW f \in Freers, Free(f) \/ WakeLock(f) \/ WakeOnDestroy(f)
    PROVE  GuardInv'
<1>1. PICK l \in {"cas", "wake", "drain"} :
        /\ Goto(f, l)
        /\ pc[f] \in DestroyerPC <=> l # "cas"
        /\ mutex' \in Threads \cup {NoThread} /\ asleep' \subseteq Callers
        /\ UNCHANGED <<destroying, refcnt, wrapper, holders>>
  BY DEF Free, WakeLock, WakeOnDestroy, GuardInv, TypeOK, DestroyerPC, Threads
<1>2. /\ TypeOK' /\ RefcntExact' /\ HoldersInBody'
      /\ pc'[f] = l
      /\ \A g \in Freers : g # f => pc'[g] = pc[g]
      /\ \A c \in Callers : pc'[c] = pc[c]
  BY <1>1, FreerStepKeeps DEF GuardInv, TypeOK, FreerPC
<1>3. ClaimMarks' /\ OneDestroyer'
  BY <1>1, <1>2 DEF GuardInv, ClaimMarks, OneDestroyer, DestroyerPC
<1>4. TeardownAlone' /\ FreedAfterRelease'
  BY <1>1, <1>2 DEF GuardInv, TeardownAlone, FreedAfterRelease
<1> QED BY <1>2, <1>3, <1>4 DEF GuardInv

\* Every step of the gate, by a caller, a freer or the tasklet, keeps GuardInv.
LEMMA NextGuardInv == GuardInv /\ [Next]_vars => GuardInv'
<1> SUFFICES ASSUME GuardInv, [Next]_vars PROVE GuardInv'
  OBVIOUS
<1>1. ASSUME NEW c \in Callers,
             \/ Call(c) \/ AcquireType(c) \/ AcquireFast(c)
             \/ BodyReturn(c) \/ BodyBlock(c) \/ LockWake(c) \/ TestLoop(c) \/ Sleep(c)
             \/ WakeSignalled(c) \/ WakeTimeout(c) \/ Relock(c) \/ UnlockWake(c)
      PROVE  GuardInv'
  <2>1. PICK l \in CallerPC :
          /\ Goto(c, l)
          /\ (pc[c] \in CountedPC) <=> (l \in CountedPC)
          /\ (pc[c] \in BodyPC) <=> (l \in BodyPC)
    BY <1>1 DEF Call, AcquireType, AcquireFast, BodyReturn, BodyBlock, LockWake,
                TestLoop, Sleep, WakeSignalled, WakeTimeout, Relock, UnlockWake,
                CallerPC, CountedPC, BodyPC
  <2>2. /\ UNCHANGED <<destroying, refcnt, wrapper, holders>>
        /\ mutex' \in Threads \cup {NoThread} /\ asleep' \subseteq Callers
    BY <1>1 DEF Call, AcquireType, AcquireFast, BodyReturn, BodyBlock, LockWake,
                TestLoop, Sleep, WakeSignalled, WakeTimeout, Relock, UnlockWake,
                GuardInv, TypeOK, Threads
  <2> QED BY <2>1, <2>2, QuietCallerStep
<1>2. ASSUME NEW c \in Callers, AcquireInc(c) PROVE GuardInv'
  BY <1>2, AcquireIncKeeps
<1>3. ASSUME NEW c \in Callers, AcquireRecheck(c) PROVE GuardInv'
  BY <1>3, AcquireRecheckKeeps
<1>4. ASSUME NEW c \in Callers, AcquireUndo(c) \/ Release(c) PROVE GuardInv'
  BY <1>4, DropRefKeeps
<1>5. ASSUME NEW f \in Freers, Free(f) \/ WakeLock(f) \/ WakeOnDestroy(f)
      PROVE  GuardInv'
  BY <1>5, QuietFreerStep
<1>6. ASSUME NEW f \in Freers, BeginDestroy(f) PROVE GuardInv'
  BY <1>6, BeginDestroyKeeps
<1>7. ASSUME NEW f \in Freers, Drain(f) PROVE GuardInv'
  BY <1>7, DrainKeeps
<1>8. ASSUME NEW f \in Freers, FreeWrapper(f) PROVE GuardInv'
  BY <1>8, FreeWrapperKeeps
<1>9. CASE SignalOne
  <2>1. UNCHANGED <<destroying, refcnt, wrapper, pc, mutex, holders>> /\ asleep' \subseteq Callers
    BY <1>9 DEF SignalOne, GuardInv, TypeOK
  <2>2. TypeOK' /\ RefcntExact'
    BY <2>1 DEF GuardInv, TypeOK, RefcntExact
  <2> QED BY <2>1, <2>2 DEF GuardInv, ClaimMarks, HoldersInBody,
                            TeardownAlone, OneDestroyer, FreedAfterRelease
<1>10. CASE UNCHANGED vars
  <2>1. UNCHANGED <<destroying, refcnt, wrapper, pc, mutex, asleep, holders>>
    BY <1>10 DEF vars
  <2>2. TypeOK' /\ RefcntExact'
    BY <2>1 DEF GuardInv, TypeOK, RefcntExact
  <2> QED BY <2>1, <2>2 DEF GuardInv, ClaimMarks, HoldersInBody,
                            TeardownAlone, OneDestroyer, FreedAfterRelease
<1> QED BY <1>1, <1>2, <1>3, <1>4, <1>5, <1>6, <1>7, <1>8, <1>9, <1>10
        DEF Next, CallerStep, FreerStep

\* The gate always satisfies its inductive invariant, for any finite set of
\* callers and any set of racing *_free() calls.
THEOREM GuardInvariant == Spec => []GuardInv
BY InitGuardInv, NextGuardInv, PTL DEF Spec

\* lc_refcnt never goes below zero and every thread is at a place of its code.
THEOREM TypeCorrect == Spec => []TypeOK
<1>1. GuardInv => TypeOK
  BY DEF GuardInv
<1> QED BY <1>1, GuardInvariant, PTL

\* The session is torn down with no guarded caller inside it.
THEOREM TeardownSafe == Spec => []TeardownAlone
<1>1. GuardInv => TeardownAlone
  BY DEF GuardInv
<1> QED BY <1>1, GuardInvariant, PTL

\* The wrapper is freed only after every admitted caller has released.
THEOREM FreeSafe == Spec => []FreedAfterRelease
<1>1. GuardInv => FreedAfterRelease
  BY DEF GuardInv
<1> QED BY <1>1, GuardInvariant, PTL

\* Two threads never both tear the same live handle down.
THEOREM DestroyOnce == Spec => []OneDestroyer
<1>1. GuardInv => OneDestroyer
  BY DEF GuardInv
<1> QED BY <1>1, GuardInvariant, PTL

\* lc_refcnt counts exactly the callers between their add and their sub.
THEOREM RefcntCorrect == Spec => []RefcntExact
<1>1. GuardInv => RefcntExact
  BY DEF GuardInv
<1> QED BY <1>1, GuardInvariant, PTL

-----------------------------------------------------------------------------
\* The atomic operations of mt_handle_guard.h implement the abstract gate: a step
\* of a caller or of a *_free() is Enter, Leave, Close or Destroy there, or
\* changes nothing a client of the gate can see.
THEOREM GuardImplementsGate == Spec => GateImplemented
<1>1. Init => G!Init
  BY DEF Init, G!Init, Life
<1>2. ASSUME GuardInv, [Next]_vars PROVE [G!Next]_(G!vars)
  <2>0. holders \subseteq Callers
    BY <1>2 DEF GuardInv, TypeOK
  <2>1. ASSUME UNCHANGED <<destroying, wrapper, holders>> PROVE UNCHANGED G!vars
    BY <2>1 DEF G!vars, Life
  <2>2. ASSUME NEW c \in Callers, AcquireRecheck(c) PROVE [G!Next]_(G!vars)
    <3>1. UNCHANGED <<destroying, wrapper>>
      BY <2>2 DEF AcquireRecheck
    <3>2. CASE UNCHANGED holders
      BY <2>1, <3>1, <3>2
    <3>3. CASE ~UNCHANGED holders
      <4>1. wrapper = "live" /\ holders' = holders \cup {c} /\ c \notin holders /\ destroying = 0
        BY <2>2, <3>3 DEF AcquireRecheck, DestroyingLoads
      <4>2. Life = "open" /\ Life' = Life
        BY <3>1, <4>1 DEF Life
      <4> QED BY <4>1, <4>2 DEF G!Next, G!Enter
    <3> QED BY <3>2, <3>3
  <2>3. ASSUME NEW c \in Callers, Release(c) PROVE [G!Next]_(G!vars)
    <3>1. UNCHANGED <<destroying, wrapper>> /\ holders' = holders \ {c}
      BY <2>3 DEF Release
    <3>2. CASE c \in holders
      <4>1. Life' = Life
        BY <3>1 DEF Life
      <4> QED BY <3>1, <3>2, <4>1 DEF G!Next, G!Leave
    <3>3. CASE c \notin holders
      BY <2>1, <3>1, <3>3
    <3> QED BY <3>2, <3>3
  <2>4. ASSUME NEW f \in Freers, BeginDestroy(f) PROVE [G!Next]_(G!vars)
    <3>1. UNCHANGED <<wrapper, holders>>
      BY <2>4 DEF BeginDestroy
    <3>2. CASE wrapper = "freed"
      BY <3>1, <3>2 DEF G!vars, Life
    <3>3. CASE wrapper = "live"
      <4>1. \/ destroying = 0 /\ destroying' = 1
            \/ UNCHANGED destroying
        BY <2>4, <3>3 DEF BeginDestroy, DestroyingLoads
      <4>2. CASE destroying = 0 /\ destroying' = 1
        BY <3>1, <3>3, <4>2 DEF Life, G!Next, G!Close
      <4>3. CASE UNCHANGED destroying
        BY <2>1, <3>1, <4>3
      <4> QED BY <4>1, <4>2, <4>3
    <3> QED BY <1>2, <3>2, <3>3 DEF GuardInv, TypeOK
  <2>5. ASSUME NEW f \in Freers, FreeWrapper(f) PROVE [G!Next]_(G!vars)
    <3>1. pc[f] = "teardown" /\ wrapper' = "freed" /\ UNCHANGED <<destroying, holders>>
      BY <2>5 DEF FreeWrapper
    <3>2. CASE wrapper = "freed"
      BY <2>1, <3>1, <3>2
    <3>3. CASE wrapper = "live"
      <4>1. destroying = 1
        BY <1>2, <3>1, <3>3 DEF GuardInv, ClaimMarks, DestroyerPC
      <4>2. holders = {}
        BY <1>2, <3>1, <3>3 DEF GuardInv, HoldersInBody, TeardownAlone
      <4>3. Life = "closing" /\ Life' = "gone"
        BY <3>1, <3>3, <4>1 DEF Life
      <4> QED BY <3>1, <4>2, <4>3 DEF G!Next, G!Destroy
    <3> QED BY <1>2, <3>2, <3>3 DEF GuardInv, TypeOK
  <2>6. ASSUME NEW c \in Callers,
               \/ Call(c) \/ AcquireType(c) \/ AcquireFast(c) \/ AcquireInc(c) \/ AcquireUndo(c)
               \/ BodyReturn(c) \/ BodyBlock(c) \/ LockWake(c) \/ TestLoop(c) \/ Sleep(c) \/ WakeSignalled(c)
               \/ WakeTimeout(c) \/ Relock(c) \/ UnlockWake(c)
        PROVE  UNCHANGED <<destroying, wrapper, holders>>
    BY <2>6 DEF Call, AcquireType, AcquireFast, AcquireInc, AcquireUndo, BodyReturn, BodyBlock,
          LockWake, TestLoop, Sleep, WakeSignalled, WakeTimeout, Relock, UnlockWake
  <2>7. ASSUME NEW f \in Freers, Free(f) \/ WakeLock(f) \/ WakeOnDestroy(f) \/ Drain(f)
        PROVE  UNCHANGED <<destroying, wrapper, holders>>
    BY <2>7 DEF Free, WakeLock, WakeOnDestroy, Drain
  <2>8. SignalOne \/ UNCHANGED vars => UNCHANGED <<destroying, wrapper, holders>>
    BY DEF SignalOne, vars
  <2> QED BY <1>2, <2>1, <2>2, <2>3, <2>4, <2>5, <2>6, <2>7, <2>8 DEF Next, CallerStep, FreerStep
<1> QED BY <1>1, <1>2, GuardInvariant, PTL DEF Spec, GateImplemented, G!Spec

=============================================================================
