--------------------------- MODULE ActuatorProofs ---------------------------
(***************************************************************************)
(* The actuator keeps its promises for every set of TIDs, CPUs and masks   *)
(* and every number of faults and target steps: IInv of Actuator is        *)
(* inductive, the safety properties follow from it, and every step of the  *)
(* actuator is a step of AffinityLedger or leaves the ledger alone.        *)
(*                                                                         *)
(* There is one lemma per action.  In each the first step states the parts *)
(* of IInv that the action preserves without help from any other part, and *)
(* the others name the parts they need.                                    *)
(***************************************************************************)
EXTENDS Actuator, TLAPS

USE DEF target, bounds, ledger, backend, batch, frame, history

\* The initial states: no table entry, no pending call, no frame.
LEMMA InitEstablishes == Init => IInv
  <1> SUFFICES ASSUME Init PROVE IInv
    OBVIOUS
  <1> USE DEF Init, NoMasks, EmptyMasks
  <1>1. TypeOK
    BY SMTT(20), MaskAssumption, BoundAssumption
    DEF TypeOK, Mask, Calls, Errnos, Loops, Results, Origins, FirstTid, IsFirst
  <1>2. CallInLoop /\ CallOutcome /\ LoopTodo /\ FrameInv /\ BatchInv /\ RollbackInv
        /\ RestoreAllInv /\ ActedHasRestoreMask
    BY DEF CallInLoop, CallOutcome, LoopTodo, FrameInv, BatchInv, RollbackInv,
           RestoreAllInv, ActedHasRestoreMask, Busy
  <1>3. DeadThreads /\ RollbackIsComplete /\ CommitIsExact /\ PolicyPinIsRecorded
    BY DEF DeadThreads, RollbackIsComplete, CommitIsExact, PolicyPinIsRecorded
  <1>4. QED
    BY <1>1, <1>2, <1>3 DEF IInv

\* Any step of the target: it writes one TID, marks it as touched and counts as
\* no policy write.
LEMMA TargetStepPreserves ==
  ASSUME IInv, NEW t \in Tid, NEW m \in Mask, NEW o \in Origins \ {"policy"},
         TargetStep(t, m, o)
  PROVE  ActedHasRestoreMask' /\ CallInLoop' /\ CallOutcome' /\ LoopTodo' /\
         FrameInv' /\ BatchInv' /\ RollbackInv' /\ RestoreAllInv' /\
         RollbackIsComplete' /\ CommitIsExact' /\ PolicyPinIsRecorded'
  BY SMTT(20), MaskAssumption, NoMaskAssumption, BoundAssumption
  DEF IInv, ActedHasRestoreMask, CallInLoop, CallOutcome, LoopTodo, FrameInv,
      BatchInv, RollbackInv, RestoreAllInv, RollbackIsComplete, CommitIsExact,
      PolicyPinIsRecorded, Batch, Busy, Noted, Unpinned, TargetStep

\* A target thread may exit between any two system calls of the actuator.
LEMMA ThreadExitPreserves ==
  ASSUME IInv, NEW t \in Tid, ThreadExit(t) PROVE IInv'
  <1>1. TypeOK'
    BY SMTT(20), MaskAssumption, NoMaskAssumption, BoundAssumption
    DEF IInv, TypeOK, Calls, Errnos, Loops, Mask, Origins, Results, ThreadExit,
        TargetStep
  <1>2. DeadThreads'
    BY SMTT(20), MaskAssumption, NoMaskAssumption, BoundAssumption
    DEF IInv, DeadThreads, TypeOK, Calls, Errnos, Loops, Mask, Origins, Results,
        ThreadExit, TargetStep
  <1> DEFINE o == "own"
  <1>3. {} \in Mask /\ o \in Origins \ {"policy"}
    BY MaskAssumption DEF IInv, TypeOK, Mask, Origins
  <1>4. TargetStep(t, {}, o)
    BY DEF ThreadExit
  <1> HIDE DEF o
  <1>5. QED
    BY TargetStepPreserves, <1>1, <1>2, <1>3, <1>4 DEF IInv

\* A new thread may take over a free TID, under its creator's mask.
LEMMA ThreadStartPreserves ==
  ASSUME IInv, NEW t \in Tid, NEW p \in Tid, ThreadStart(t, p) PROVE IInv'
  <1>1. TypeOK' /\ DeadThreads'
    BY SMTT(20), MaskAssumption, NoMaskAssumption, BoundAssumption
    DEF IInv, TypeOK, DeadThreads, Calls, Errnos, Loops, Mask, Origins, Results,
        ThreadStart, TargetStep
  <1> DEFINE o == IF pin[p] \in {"own", "newborn"} THEN "newborn" ELSE "inherited"
  <1>2. mask[p] \in Mask /\ o \in Origins \ {"policy"}
    BY MaskAssumption DEF IInv, TypeOK, Mask, Origins
  <1>3. TargetStep(t, mask[p], o)
    BY DEF ThreadStart
  <1> HIDE DEF o
  <1>4. QED
    BY TargetStepPreserves, <1>1, <1>2, <1>3 DEF IInv

\* The application may set a mask of its own at any moment.
LEMMA AppSetAffinityPreserves ==
  ASSUME IInv, NEW t \in Tid, NEW m \in AppMasks, AppSetAffinity(t, m) PROVE IInv'
  <1>1. TypeOK' /\ DeadThreads'
    BY SMTT(20), MaskAssumption, NoMaskAssumption, BoundAssumption
    DEF IInv, TypeOK, DeadThreads, Calls, Errnos, Loops, Mask, Origins, Results,
        AppSetAffinity, TargetStep
  <1> DEFINE o == "own"
  <1>2. m \in Mask /\ o \in Origins \ {"policy"}
    BY MaskAssumption DEF IInv, TypeOK, Mask, Origins
  <1>3. TargetStep(t, m, o)
    BY DEF AppSetAffinity
  <1> HIDE DEF o
  <1>4. QED
    BY TargetStepPreserves, <1>1, <1>2, <1>3 DEF IInv

\* sched_setaffinity fails.
LEMMA SetFailsPreserves ==
  ASSUME IInv, SetFails PROVE IInv'
  <1>1. TypeOK' /\ ActedHasRestoreMask' /\ CallInLoop' /\ DeadThreads' /\ LoopTodo'
         /\ FrameInv' /\ BatchInv' /\ RollbackInv' /\ RestoreAllInv' /\
         RollbackIsComplete' /\ CommitIsExact' /\ PolicyPinIsRecorded'
    BY SMTT(20), MaskAssumption, NoMaskAssumption, BoundAssumption
    DEF IInv, TypeOK, ActedHasRestoreMask, CallInLoop, DeadThreads, LoopTodo,
        FrameInv, BatchInv, RollbackInv, RestoreAllInv, RollbackIsComplete,
        CommitIsExact, PolicyPinIsRecorded, Batch, Busy, Calls, Errnos, Loops, Mask,
        Noted, Origins, Results, SetFails
  <1>2. CallOutcome'
    BY SMTT(20), MaskAssumption, NoMaskAssumption, BoundAssumption
    DEF IInv, CallOutcome, TypeOK, DeadThreads, Calls, Errnos, Loops, Mask, Origins,
        Results, Unpinned, SetFails
  <1>3. QED
    BY <1>1, <1>2 DEF IInv

\* sched_setaffinity takes effect.
LEMMA SetWritesPreserves ==
  ASSUME IInv, SetWrites PROVE IInv'
  <1>1. TypeOK' /\ ActedHasRestoreMask' /\ CallInLoop' /\ DeadThreads' /\ LoopTodo'
         /\ FrameInv' /\ RollbackInv' /\ RestoreAllInv' /\ PolicyPinIsRecorded'
    BY SMTT(20), MaskAssumption, NoMaskAssumption, BoundAssumption
    DEF IInv, TypeOK, ActedHasRestoreMask, CallInLoop, DeadThreads, LoopTodo,
        FrameInv, RollbackInv, RestoreAllInv, PolicyPinIsRecorded, Busy, Calls,
        Errnos, Loops, Mask, Noted, Origins, Results, SetWrites
  <1>2. CallOutcome'
    BY SMTT(20), MaskAssumption, NoMaskAssumption, BoundAssumption
    DEF IInv, CallOutcome, TypeOK, Calls, Errnos, Loops, Mask, Origins, Results,
        Unpinned, SetWrites
  <1>3. BatchInv'
    BY SMTT(20), MaskAssumption, NoMaskAssumption, BoundAssumption
    DEF IInv, BatchInv, CallInLoop, Batch, Busy, Noted, SetWrites
  <1>4. RollbackIsComplete' /\ CommitIsExact'
    BY SMTT(20), MaskAssumption, NoMaskAssumption, BoundAssumption
    DEF IInv, RollbackIsComplete, CommitIsExact, CallInLoop, FrameInv, Batch, Busy,
        Noted, SetWrites
  <1>5. QED
    BY <1>1, <1>2, <1>3, <1>4 DEF IInv

\* The read-back of LinuxAffinityBackend::set.
LEMMA ReadBackPreserves ==
  ASSUME IInv, ReadBack PROVE IInv'
  <1>1. TypeOK' /\ ActedHasRestoreMask' /\ CallInLoop' /\ CallOutcome' /\
         DeadThreads' /\ LoopTodo' /\ FrameInv' /\ BatchInv' /\ RollbackInv' /\
         RestoreAllInv' /\ RollbackIsComplete' /\ CommitIsExact' /\
         PolicyPinIsRecorded'
    BY SMTT(20), MaskAssumption, NoMaskAssumption, BoundAssumption
    DEF IInv, TypeOK, ActedHasRestoreMask, CallInLoop, CallOutcome, DeadThreads,
        LoopTodo, FrameInv, BatchInv, RollbackInv, RestoreAllInv,
        RollbackIsComplete, CommitIsExact, PolicyPinIsRecorded, Batch, Busy, Calls,
        Errnos, Loops, Mask, Noted, Origins, Results, Unpinned, ReadBack,
        ReadBackErrno
  <1>2. QED
    BY <1>1 DEF IInv

\* note_application_mask.
LEMMA NoteApplicationMaskPreserves ==
  ASSUME IInv, NEW t \in Tid, NEW m \in AppMasks, note_application_mask(t, m) PROVE
         IInv'
  <1>1. TypeOK' /\ ActedHasRestoreMask' /\ CallInLoop' /\ CallOutcome' /\
         DeadThreads' /\ LoopTodo' /\ FrameInv' /\ BatchInv' /\ RollbackInv' /\
         RestoreAllInv' /\ RollbackIsComplete' /\ CommitIsExact' /\
         PolicyPinIsRecorded'
    BY SMTT(20), MaskAssumption, NoMaskAssumption, BoundAssumption
    DEF IInv, TypeOK, ActedHasRestoreMask, CallInLoop, CallOutcome, DeadThreads,
        LoopTodo, FrameInv, BatchInv, RollbackInv, RestoreAllInv,
        RollbackIsComplete, CommitIsExact, PolicyPinIsRecorded, Batch, Busy, Calls,
        Errnos, Loops, Mask, Noted, Origins, Results, Unpinned,
        note_application_mask
  <1>2. QED
    BY <1>1 DEF IInv

\* note_inherited_mask.
LEMMA NoteInheritedMaskPreserves ==
  ASSUME IInv, NEW t \in live, NEW p \in Tid, note_inherited_mask(t, p, mask[t])
         PROVE IInv'
  <1>1. TypeOK' /\ ActedHasRestoreMask' /\ CallInLoop' /\ CallOutcome' /\
         DeadThreads' /\ LoopTodo' /\ FrameInv' /\ BatchInv' /\ RollbackInv' /\
         RestoreAllInv' /\ RollbackIsComplete' /\ CommitIsExact' /\
         PolicyPinIsRecorded'
    BY SMTT(20), MaskAssumption, NoMaskAssumption, BoundAssumption
    DEF IInv, TypeOK, ActedHasRestoreMask, CallInLoop, CallOutcome, DeadThreads,
        LoopTodo, FrameInv, BatchInv, RollbackInv, RestoreAllInv,
        RollbackIsComplete, CommitIsExact, PolicyPinIsRecorded, Batch, Busy, Calls,
        Errnos, Loops, Mask, Noted, Origins, Results, Unpinned, note_inherited_mask
  <1>2. QED
    BY <1>1 DEF IInv

\* The start of a batch.
LEMMA ApplyPreserves ==
  ASSUME IInv, NEW d \in [Tid -> PolicyMasks \cup {NoMask}], NEW L \in SUBSET Tid,
         apply(d, L) PROVE IInv'
  <1>1. ActedHasRestoreMask' /\ CallInLoop' /\ CallOutcome' /\ DeadThreads' /\
         LoopTodo' /\ FrameInv' /\ RollbackInv' /\ RestoreAllInv' /\
         RollbackIsComplete' /\ PolicyPinIsRecorded'
    BY SMTT(20), MaskAssumption, NoMaskAssumption, BoundAssumption
    DEF IInv, ActedHasRestoreMask, CallInLoop, CallOutcome, DeadThreads, LoopTodo,
        FrameInv, RollbackInv, RestoreAllInv, RollbackIsComplete,
        PolicyPinIsRecorded, Busy, Noted, Unpinned, apply
  <1>2. CommitIsExact'
    BY SMTT(20), MaskAssumption, NoMaskAssumption, BoundAssumption
    DEF IInv, CommitIsExact, FrameInv, Batch, apply
  <1>3. TypeOK'
    BY SMTT(20), MaskAssumption, NoMaskAssumption, BoundAssumption
    DEF IInv, TypeOK, BatchInv, Batch, Busy, Calls, Errnos, Loops, Mask, Origins,
        Results, apply
  <1>4. BatchInv'
    BY SMTT(20), MaskAssumption, NoMaskAssumption, BoundAssumption
    DEF IInv, BatchInv, CallInLoop, FrameInv, Batch, Busy, Noted, apply
  <1>5. QED
    BY <1>1, <1>2, <1>3, <1>4 DEF IInv

\* A batch reaches a TID; an empty mask is refused without a system call.
LEMMA ApplyVisitPreserves ==
  ASSUME IInv, NEW t \in Tid, ApplyVisit(t) PROVE IInv'
  <1>1. CASE assignments[t] # {}
    <2>1. ActedHasRestoreMask' /\ CallOutcome' /\ DeadThreads' /\ LoopTodo' /\
           FrameInv' /\ BatchInv' /\ RollbackInv' /\ RestoreAllInv' /\
           RollbackIsComplete' /\ CommitIsExact' /\ PolicyPinIsRecorded'
      BY <1>1, SMTT(20), MaskAssumption, NoMaskAssumption, BoundAssumption
      DEF IInv, ActedHasRestoreMask, CallOutcome, DeadThreads, LoopTodo, FrameInv,
          BatchInv, RollbackInv, RestoreAllInv, RollbackIsComplete, CommitIsExact,
          PolicyPinIsRecorded, Batch, Busy, Noted, Unpinned, ApplyVisit, Call, Rest,
          SavedMasks, IsFirst
    <2>2. TypeOK'
      BY <1>1, SMTT(20), MaskAssumption, NoMaskAssumption, BoundAssumption
      DEF IInv, TypeOK, BatchInv, Batch, Busy, Calls, Errnos, Loops, Mask, Origins,
          Results, ApplyVisit, Call, Rest, SavedMasks, IsFirst
    <2>3. CallInLoop'
      BY <1>1, SMTT(20), MaskAssumption, NoMaskAssumption, BoundAssumption
      DEF IInv, CallInLoop, TypeOK, BatchInv, Batch, Busy, Calls, Errnos, Loops,
          Mask, Noted, Origins, Results, ApplyVisit, Call, Rest, SavedMasks, IsFirst
    <2>4. QED
      BY <2>1, <2>2, <2>3 DEF IInv
  <1>2. CASE assignments[t] = {}
    <2>1. TypeOK' /\ ActedHasRestoreMask' /\ CallOutcome' /\ DeadThreads' /\
           LoopTodo' /\ FrameInv' /\ BatchInv' /\ RollbackInv' /\ RestoreAllInv' /\
           RollbackIsComplete' /\ CommitIsExact' /\ PolicyPinIsRecorded'
      BY <1>2, SMTT(20), MaskAssumption, NoMaskAssumption, BoundAssumption
      DEF IInv, TypeOK, ActedHasRestoreMask, CallOutcome, DeadThreads, LoopTodo,
          FrameInv, BatchInv, RollbackInv, RestoreAllInv, RollbackIsComplete,
          CommitIsExact, PolicyPinIsRecorded, Batch, Busy, Calls, Errnos, Loops,
          Mask, Noted, Origins, Results, Unpinned, ApplyVisit, Call, Rest,
          SavedMasks, IsFirst
    <2>2. CallInLoop'
      <3>1. pc' = "apply" /\ call' = "done" /\ cur' = t /\ todo' = todo \ {t} /\ call = "none"
        BY <1>2 DEF ApplyVisit, Call, Rest
      <3>2. t \in todo /\ t \notin completed /\ t \notin vanished /\ t \notin previously_acted
        BY <1>2, SMT DEF IInv, BatchInv, Busy, ApplyVisit, IsFirst
      <3>3. want' = assignments'[t] /\ assignments'[t] # NoMask
        BY <1>2, NoMaskAssumption DEF ApplyVisit, Call, Mask
      <3>4. restore_masks'[t] # NoMask
        BY NoMaskAssumption DEF IInv, TypeOK, ApplyVisit, SavedMasks, Noted
      <3>5. t \in previously_acted' <=> t \in acted_tids'
        BY <3>2 DEF ApplyVisit
      <3>6. completed' = completed /\ vanished' = vanished
        BY DEF ApplyVisit
      <3>7. QED
        BY <3>1, <3>2, <3>3, <3>4, <3>5, <3>6 DEF CallInLoop, Noted, Busy
    <2>3. QED
      BY <2>1, <2>2 DEF IInv
  <1>3. QED
    BY <1>1, <1>2

\* A batch learns what became of a write: done, thread gone, or failed.
LEMMA ApplyReturnPreserves ==
  ASSUME IInv, ApplyReturn PROVE IInv'
  <1>1. CASE errno = "ok"
    <2>1. TypeOK' /\ CallInLoop' /\ CallOutcome' /\ LoopTodo' /\ FrameInv' /\
           RollbackInv' /\ RestoreAllInv' /\ PolicyPinIsRecorded'
      BY <1>1, SMTT(20), MaskAssumption, NoMaskAssumption, BoundAssumption
      DEF IInv, TypeOK, CallInLoop, CallOutcome, LoopTodo, FrameInv, RollbackInv,
          RestoreAllInv, PolicyPinIsRecorded, Busy, Calls, Errnos, Loops, Mask,
          Noted, Origins, Results, Unpinned, ApplyReturn, Return, FirstTid
    <2>2. ActedHasRestoreMask'
      BY <1>1, SMTT(20), MaskAssumption, NoMaskAssumption, BoundAssumption
      DEF IInv, ActedHasRestoreMask, CallInLoop, Busy, Noted, ApplyReturn, Return,
          FirstTid
    <2>3. RollbackIsComplete'
      BY <1>1, SMTT(20), MaskAssumption, NoMaskAssumption, BoundAssumption
      DEF IInv, RollbackIsComplete, FrameInv, ApplyReturn, Return, FirstTid
    <2>4. CommitIsExact'
      BY <1>1, SMTT(20), MaskAssumption, NoMaskAssumption, BoundAssumption
      DEF IInv, CommitIsExact, TypeOK, CallInLoop, Batch, Busy, Calls, Errnos,
          Loops, Mask, Noted, Origins, Results, ApplyReturn, Return, FirstTid
    <2>5. DeadThreads'
      BY <1>1, SMTT(20), MaskAssumption, NoMaskAssumption, BoundAssumption
      DEF IInv, DeadThreads, TypeOK, CallOutcome, Calls, Errnos, Loops, Mask,
          Origins, Results, Unpinned, ApplyReturn, Return, FirstTid
    <2>6. BatchInv'
      BY <1>1, SMTT(20), MaskAssumption, NoMaskAssumption, BoundAssumption
      DEF IInv, BatchInv, CallInLoop, CallOutcome, Batch, Busy, Noted, Unpinned,
          ApplyReturn, Return, FirstTid
    <2>7. QED
      BY <2>1, <2>2, <2>3, <2>4, <2>5, <2>6 DEF IInv
  <1>2. CASE errno = "ESRCH"
    <2>1. TypeOK' /\ ActedHasRestoreMask' /\ CallInLoop' /\ CallOutcome' /\
           DeadThreads' /\ LoopTodo' /\ FrameInv' /\ RollbackInv' /\ RestoreAllInv'
           /\ RollbackIsComplete'
      BY <1>2, SMTT(20), MaskAssumption, NoMaskAssumption, BoundAssumption
      DEF IInv, TypeOK, ActedHasRestoreMask, CallInLoop, CallOutcome, DeadThreads,
          LoopTodo, FrameInv, RollbackInv, RestoreAllInv, RollbackIsComplete, Busy,
          Calls, Errnos, Loops, Mask, Noted, Origins, Results, Unpinned,
          ApplyReturn, Return, FirstTid
    <2>2. BatchInv'
      BY <1>2, SMTT(20), MaskAssumption, NoMaskAssumption, BoundAssumption
      DEF IInv, BatchInv, CallInLoop, Batch, Busy, Noted, ApplyReturn, Return,
          FirstTid
    <2>3. PolicyPinIsRecorded'
      BY <1>2, SMTT(20), MaskAssumption, NoMaskAssumption, BoundAssumption
      DEF IInv, PolicyPinIsRecorded, CallOutcome, Unpinned, ApplyReturn, Return,
          FirstTid
    <2>4. CommitIsExact'
      BY <1>2, SMTT(20), MaskAssumption, NoMaskAssumption, BoundAssumption
      DEF IInv, CommitIsExact, TypeOK, CallInLoop, Batch, Busy, Calls, Errnos,
          Loops, Mask, Noted, Origins, Results, ApplyReturn, Return, FirstTid
    <2>5. QED
      BY <2>1, <2>2, <2>3, <2>4 DEF IInv
  <1>3. CASE errno \notin {"ok", "ESRCH"}
    <2>1. TypeOK' /\ ActedHasRestoreMask' /\ CallInLoop' /\ CallOutcome' /\
           LoopTodo' /\ FrameInv' /\ BatchInv' /\ RestoreAllInv' /\
           RollbackIsComplete' /\ CommitIsExact'
      BY <1>3, SMTT(20), MaskAssumption, NoMaskAssumption, BoundAssumption
      DEF IInv, TypeOK, ActedHasRestoreMask, CallInLoop, CallOutcome, LoopTodo,
          FrameInv, BatchInv, RestoreAllInv, RollbackIsComplete, CommitIsExact,
          Batch, Busy, Calls, Errnos, Loops, Mask, Noted, Origins, Results,
          Unpinned, ApplyReturn, Return, FirstTid
    <2>2. DeadThreads' /\ PolicyPinIsRecorded'
      BY <1>3, SMTT(20), MaskAssumption, NoMaskAssumption, BoundAssumption
      DEF IInv, DeadThreads, PolicyPinIsRecorded, TypeOK, Calls, Errnos, Loops,
          Mask, Origins, Results, ApplyReturn, Return, FirstTid
    <2>3. RollbackInv'
      BY <1>3, SMTT(20), MaskAssumption, NoMaskAssumption, BoundAssumption
      DEF IInv, RollbackInv, BatchInv, Batch, Busy, ApplyReturn, Return, FirstTid
    <2>4. QED
      BY <2>1, <2>2, <2>3 DEF IInv
  <1>4. QED
    BY <1>1, <1>2, <1>3

\* A batch succeeds.
LEMMA ApplyDonePreserves ==
  ASSUME IInv, ApplyDone PROVE IInv'
  <1>1. TypeOK' /\ ActedHasRestoreMask' /\ CallInLoop' /\ CallOutcome' /\
         DeadThreads' /\ LoopTodo' /\ FrameInv' /\ BatchInv' /\ RollbackInv' /\
         RestoreAllInv' /\ RollbackIsComplete' /\ PolicyPinIsRecorded'
    BY SMTT(20), MaskAssumption, NoMaskAssumption, BoundAssumption
    DEF IInv, TypeOK, ActedHasRestoreMask, CallInLoop, CallOutcome, DeadThreads,
        LoopTodo, FrameInv, BatchInv, RollbackInv, RestoreAllInv,
        RollbackIsComplete, PolicyPinIsRecorded, Batch, Busy, Calls, Errnos, Loops,
        Mask, Noted, Origins, Results, Unpinned, ApplyDone
  <1>2. CommitIsExact'
    BY SMTT(20), MaskAssumption, NoMaskAssumption, BoundAssumption
    DEF IInv, CommitIsExact, BatchInv, Batch, Busy, ApplyDone
  <1>3. QED
    BY <1>1, <1>2 DEF IInv

\* A rollback reaches a TID.
LEMMA RollbackVisitPreserves ==
  ASSUME IInv, NEW t \in Tid, RollbackVisit(t) PROVE IInv'
  <1>1. TypeOK' /\ ActedHasRestoreMask' /\ CallOutcome' /\ DeadThreads' /\ LoopTodo'
         /\ FrameInv' /\ BatchInv' /\ RollbackInv' /\ RestoreAllInv' /\
         RollbackIsComplete' /\ CommitIsExact' /\ PolicyPinIsRecorded'
    BY SMTT(20), MaskAssumption, NoMaskAssumption, BoundAssumption
    DEF IInv, TypeOK, ActedHasRestoreMask, CallOutcome, DeadThreads, LoopTodo,
        FrameInv, BatchInv, RollbackInv, RestoreAllInv, RollbackIsComplete,
        CommitIsExact, PolicyPinIsRecorded, Batch, Busy, Calls, Errnos, Loops, Mask,
        Noted, Origins, Results, Unpinned, RollbackVisit, Call, Rest, RollbackMask,
        IsLast
  <1>2. CallInLoop'
    BY SMTT(20), MaskAssumption, NoMaskAssumption, BoundAssumption
    DEF IInv, CallInLoop, LoopTodo, Busy, Noted, RollbackVisit, Call, Rest,
        RollbackMask, IsLast
  <1>3. QED
    BY <1>1, <1>2 DEF IInv

\* A rollback learns what became of a write.
LEMMA RollbackReturnPreserves ==
  ASSUME IInv, RollbackReturn PROVE IInv'
  <1>1. CASE errno \in {"ok", "ESRCH"}
    <2>1. TypeOK' /\ ActedHasRestoreMask' /\ CallInLoop' /\ CallOutcome' /\
           DeadThreads' /\ LoopTodo' /\ FrameInv' /\ BatchInv' /\ RestoreAllInv' /\
           RollbackIsComplete'
      BY <1>1, SMTT(20), MaskAssumption, NoMaskAssumption, BoundAssumption
      DEF IInv, TypeOK, ActedHasRestoreMask, CallInLoop, CallOutcome, DeadThreads,
          LoopTodo, FrameInv, BatchInv, RestoreAllInv, RollbackIsComplete, Batch,
          Busy, Calls, Errnos, Loops, Mask, Noted, Origins, Results, Unpinned,
          RollbackReturn, Return, FirstTid, ActedAfterRollback
    <2>2. CommitIsExact'
      BY <1>1, SMTT(20), MaskAssumption, NoMaskAssumption, BoundAssumption
      DEF IInv, CommitIsExact, FrameInv, Batch, RollbackReturn, Return, FirstTid,
          ActedAfterRollback
    <2>3. RollbackInv'
      BY <1>1, SMTT(20), MaskAssumption, NoMaskAssumption, BoundAssumption
      DEF IInv, RollbackInv, CallInLoop, CallOutcome, Busy, Noted, Unpinned,
          RollbackReturn, Return, FirstTid, ActedAfterRollback
    <2>4. PolicyPinIsRecorded'
      BY <1>1, SMTT(20), MaskAssumption, NoMaskAssumption, BoundAssumption
      DEF IInv, PolicyPinIsRecorded, CallInLoop, CallOutcome, RollbackInv, Busy,
          Noted, Unpinned, RollbackReturn, Return, FirstTid, ActedAfterRollback
    <2>5. QED
      BY <2>1, <2>2, <2>3, <2>4 DEF IInv
  <1>2. CASE errno \notin {"ok", "ESRCH"}
    <2>1. TypeOK' /\ ActedHasRestoreMask' /\ CallInLoop' /\ CallOutcome' /\
           DeadThreads' /\ LoopTodo' /\ FrameInv' /\ BatchInv' /\ RollbackInv' /\
           RestoreAllInv' /\ RollbackIsComplete' /\ CommitIsExact'
      BY <1>2, SMTT(20), MaskAssumption, NoMaskAssumption, BoundAssumption
      DEF IInv, TypeOK, ActedHasRestoreMask, CallInLoop, CallOutcome, DeadThreads,
          LoopTodo, FrameInv, BatchInv, RollbackInv, RestoreAllInv,
          RollbackIsComplete, CommitIsExact, Batch, Busy, Calls, Errnos, Loops,
          Mask, Noted, Origins, Results, Unpinned, RollbackReturn, Return, FirstTid
    <2>2. PolicyPinIsRecorded'
      BY <1>2, SMTT(20), MaskAssumption, NoMaskAssumption, BoundAssumption
      DEF IInv, PolicyPinIsRecorded, CallInLoop, RollbackInv, Busy, Noted,
          RollbackReturn, Return, FirstTid
    <2>3. QED
      BY <2>1, <2>2 DEF IInv
  <1>3. QED
    BY <1>1, <1>2

\* A rollback ends.
LEMMA RollbackDonePreserves ==
  ASSUME IInv, RollbackDone PROVE IInv'
  <1>1. TypeOK' /\ ActedHasRestoreMask' /\ CallInLoop' /\ CallOutcome' /\
         DeadThreads' /\ LoopTodo' /\ FrameInv' /\ BatchInv' /\ RollbackInv' /\
         RestoreAllInv' /\ CommitIsExact' /\ PolicyPinIsRecorded'
    BY SMTT(20), MaskAssumption, NoMaskAssumption, BoundAssumption
    DEF IInv, TypeOK, ActedHasRestoreMask, CallInLoop, CallOutcome, DeadThreads,
        LoopTodo, FrameInv, BatchInv, RollbackInv, RestoreAllInv, CommitIsExact,
        PolicyPinIsRecorded, Batch, Busy, Calls, Errnos, Loops, Mask, Noted,
        Origins, Results, Unpinned, RollbackDone
  <1>2. RollbackIsComplete'
    BY SMTT(20), MaskAssumption, NoMaskAssumption, BoundAssumption
    DEF IInv, RollbackIsComplete, RollbackInv, Busy, RollbackDone
  <1>3. QED
    BY <1>1, <1>2 DEF IInv

\* The start of restore(tids).
LEMMA RestorePreserves ==
  ASSUME IInv, NEW tids \in SUBSET Tid, restore(tids) PROVE IInv'
  <1>1. TypeOK' /\ ActedHasRestoreMask' /\ CallInLoop' /\ CallOutcome' /\
         DeadThreads' /\ LoopTodo' /\ FrameInv' /\ BatchInv' /\ RollbackInv' /\
         RestoreAllInv' /\ RollbackIsComplete' /\ CommitIsExact' /\
         PolicyPinIsRecorded'
    BY SMTT(20), MaskAssumption, NoMaskAssumption, BoundAssumption
    DEF IInv, TypeOK, ActedHasRestoreMask, CallInLoop, CallOutcome, DeadThreads,
        LoopTodo, FrameInv, BatchInv, RollbackInv, RestoreAllInv,
        RollbackIsComplete, CommitIsExact, PolicyPinIsRecorded, Batch, Busy, Calls,
        Errnos, Loops, Mask, Noted, Origins, Results, Unpinned, restore, ActedAmong
  <1>2. QED
    BY <1>1 DEF IInv

\* The start of restore_all().
LEMMA RestoreAllPreserves ==
  ASSUME IInv, restore_all PROVE IInv'
  <1>1. TypeOK' /\ ActedHasRestoreMask' /\ CallInLoop' /\ CallOutcome' /\
         DeadThreads' /\ LoopTodo' /\ FrameInv' /\ BatchInv' /\ RollbackInv' /\
         RestoreAllInv' /\ RollbackIsComplete' /\ CommitIsExact' /\
         PolicyPinIsRecorded'
    BY SMTT(20), MaskAssumption, NoMaskAssumption, BoundAssumption
    DEF IInv, TypeOK, ActedHasRestoreMask, CallInLoop, CallOutcome, DeadThreads,
        LoopTodo, FrameInv, BatchInv, RollbackInv, RestoreAllInv,
        RollbackIsComplete, CommitIsExact, PolicyPinIsRecorded, Batch, Busy, Calls,
        Errnos, Loops, Mask, Noted, Origins, Results, Unpinned, restore_all
  <1>2. QED
    BY <1>1 DEF IInv

\* A restore reaches a TID.
LEMMA RestoreVisitPreserves ==
  ASSUME IInv, NEW t \in Tid, RestoreVisit(t) PROVE IInv'
  <1>1. ActedHasRestoreMask' /\ CallOutcome' /\ DeadThreads' /\ LoopTodo' /\
         FrameInv' /\ BatchInv' /\ RollbackInv' /\ RestoreAllInv' /\
         RollbackIsComplete' /\ CommitIsExact' /\ PolicyPinIsRecorded'
    BY SMTT(20), MaskAssumption, NoMaskAssumption, BoundAssumption
    DEF IInv, ActedHasRestoreMask, CallOutcome, DeadThreads, LoopTodo, FrameInv,
        BatchInv, RollbackInv, RestoreAllInv, RollbackIsComplete, CommitIsExact,
        PolicyPinIsRecorded, Batch, Busy, Noted, Unpinned, RestoreVisit, Call, Rest,
        IsFirst
  <1>2. CallInLoop'
    BY SMTT(20), MaskAssumption, NoMaskAssumption, BoundAssumption
    DEF IInv, CallInLoop, LoopTodo, Busy, Noted, RestoreVisit, Call, Rest, IsFirst
  <1>3. TypeOK'
    BY SMTT(20), MaskAssumption, NoMaskAssumption, BoundAssumption
    DEF IInv, TypeOK, ActedHasRestoreMask, LoopTodo, Calls, Errnos, Loops, Mask,
        Noted, Origins, Results, RestoreVisit, Call, Rest, IsFirst
  <1>4. QED
    BY <1>1, <1>2, <1>3 DEF IInv

\* A restore learns what became of a write.
LEMMA RestoreReturnPreserves ==
  ASSUME IInv, RestoreReturn PROVE IInv'
  <1>1. CASE pc = "restore"
    <2>1. TypeOK' /\ CallInLoop' /\ CallOutcome' /\ DeadThreads' /\ FrameInv' /\
           BatchInv' /\ RollbackInv' /\ RestoreAllInv'
      BY <1>1, SMTT(20), MaskAssumption, NoMaskAssumption, BoundAssumption
      DEF IInv, TypeOK, CallInLoop, CallOutcome, DeadThreads, FrameInv, BatchInv,
          RollbackInv, RestoreAllInv, Batch, Busy, Calls, Errnos, Loops, Mask,
          Noted, Origins, Results, Unpinned, RestoreReturn, Return, FirstTid,
          FailedRestores
    <2>2. RollbackIsComplete' /\ CommitIsExact'
      BY <1>1, SMTT(20), MaskAssumption, NoMaskAssumption, BoundAssumption
      DEF IInv, RollbackIsComplete, CommitIsExact, FrameInv, Batch, RestoreReturn,
          Return, FirstTid, FailedRestores
    <2>3. ActedHasRestoreMask'
      BY <1>1, SMTT(20), MaskAssumption, NoMaskAssumption, BoundAssumption
      DEF IInv, ActedHasRestoreMask, TypeOK, Calls, Errnos, Loops, Mask, Noted,
          Origins, Results, RestoreReturn, Return, FirstTid, FailedRestores
    <2>4. LoopTodo'
      BY <1>1, SMTT(20), MaskAssumption, NoMaskAssumption, BoundAssumption
      DEF IInv, LoopTodo, CallInLoop, Busy, Noted, RestoreReturn, Return, FirstTid,
          FailedRestores
    <2>5. PolicyPinIsRecorded'
      BY <1>1, SMTT(20), MaskAssumption, NoMaskAssumption, BoundAssumption
      DEF IInv, PolicyPinIsRecorded, CallInLoop, CallOutcome, Busy, Noted, Unpinned,
          RestoreReturn, Return, FirstTid, FailedRestores
    <2>6. QED
      BY <2>1, <2>2, <2>3, <2>4, <2>5 DEF IInv
  <1>2. CASE pc = "restore_all"
    <2>1. TypeOK' /\ ActedHasRestoreMask' /\ CallInLoop' /\ CallOutcome' /\
           DeadThreads' /\ LoopTodo' /\ FrameInv' /\ BatchInv' /\ RollbackInv' /\
           RollbackIsComplete' /\ CommitIsExact'
      BY <1>2, SMTT(20), MaskAssumption, NoMaskAssumption, BoundAssumption
      DEF IInv, TypeOK, ActedHasRestoreMask, CallInLoop, CallOutcome, DeadThreads,
          LoopTodo, FrameInv, BatchInv, RollbackInv, RollbackIsComplete,
          CommitIsExact, Batch, Busy, Calls, Errnos, Loops, Mask, Noted, Origins,
          Results, Unpinned, RestoreReturn, Return, FirstTid, FailedRestores
    <2>2. PolicyPinIsRecorded'
      BY <1>2, SMTT(20), MaskAssumption, NoMaskAssumption, BoundAssumption
      DEF IInv, PolicyPinIsRecorded, CallInLoop, Busy, Noted, RestoreReturn, Return,
          FirstTid, FailedRestores
    <2>3. RestoreAllInv'
      BY <1>2, SMTT(20), MaskAssumption, NoMaskAssumption, BoundAssumption
      DEF IInv, RestoreAllInv, CallInLoop, CallOutcome, Busy, Noted, Unpinned,
          RestoreReturn, Return, FirstTid, FailedRestores
    <2>4. QED
      BY <2>1, <2>2, <2>3 DEF IInv
  <1>3. QED
    BY <1>1, <1>2 DEF RestoreReturn

\* restore(tids) ends.
LEMMA RestoreDonePreserves ==
  ASSUME IInv, RestoreDone PROVE IInv'
  <1>1. TypeOK' /\ ActedHasRestoreMask' /\ CallInLoop' /\ CallOutcome' /\
         DeadThreads' /\ LoopTodo' /\ FrameInv' /\ BatchInv' /\ RollbackInv' /\
         RestoreAllInv' /\ RollbackIsComplete' /\ CommitIsExact' /\
         PolicyPinIsRecorded'
    BY SMTT(20), MaskAssumption, NoMaskAssumption, BoundAssumption
    DEF IInv, TypeOK, ActedHasRestoreMask, CallInLoop, CallOutcome, DeadThreads,
        LoopTodo, FrameInv, BatchInv, RollbackInv, RestoreAllInv,
        RollbackIsComplete, CommitIsExact, PolicyPinIsRecorded, Batch, Busy, Calls,
        Errnos, Loops, Mask, Noted, Origins, Results, Unpinned, RestoreDone
  <1>2. QED
    BY <1>1 DEF IInv

\* restore_all() ends and forgets everything.
LEMMA RestoreAllDonePreserves ==
  ASSUME IInv, RestoreAllDone PROVE IInv'
  <1>1. TypeOK' /\ ActedHasRestoreMask' /\ CallInLoop' /\ CallOutcome' /\
         DeadThreads' /\ LoopTodo' /\ FrameInv' /\ BatchInv' /\ RollbackInv' /\
         RestoreAllInv' /\ RollbackIsComplete' /\ CommitIsExact' /\
         PolicyPinIsRecorded'
    BY SMTT(20), MaskAssumption, NoMaskAssumption, BoundAssumption
    DEF IInv, TypeOK, ActedHasRestoreMask, CallInLoop, CallOutcome, DeadThreads,
        LoopTodo, FrameInv, BatchInv, RollbackInv, RestoreAllInv,
        RollbackIsComplete, CommitIsExact, PolicyPinIsRecorded, Batch, Busy, Calls,
        Errnos, Loops, Mask, Noted, Origins, Results, Unpinned, RestoreAllDone,
        NoMasks
  <1>2. QED
    BY <1>1 DEF IInv

\* The operation's frame is gone.
LEMMA CallerReadsPreserves ==
  ASSUME IInv, CallerReads PROVE IInv'
  <1>1. TypeOK' /\ ActedHasRestoreMask' /\ CallInLoop' /\ CallOutcome' /\
         DeadThreads' /\ LoopTodo' /\ FrameInv' /\ BatchInv' /\ RollbackInv' /\
         RestoreAllInv' /\ RollbackIsComplete' /\ CommitIsExact' /\
         PolicyPinIsRecorded'
    BY SMTT(20), MaskAssumption, NoMaskAssumption, BoundAssumption
    DEF IInv, TypeOK, ActedHasRestoreMask, CallInLoop, CallOutcome, DeadThreads,
        LoopTodo, FrameInv, BatchInv, RollbackInv, RestoreAllInv,
        RollbackIsComplete, CommitIsExact, PolicyPinIsRecorded, Batch, Busy, Calls,
        Errnos, Loops, Mask, Noted, Origins, Results, Unpinned, CallerReads,
        NoMasks, EmptyMasks
  <1>2. QED
    BY <1>1 DEF IInv
-----------------------------------------------------------------------------
\* Every step preserves the inductive invariant.
LEMMA NextPreserves == IInv /\ [Next]_vars => IInv'
  <1> SUFFICES ASSUME IInv, [Next]_vars PROVE IInv'
    OBVIOUS
  <1>1. CASE Target
    BY <1>1, ThreadExitPreserves, ThreadStartPreserves, AppSetAffinityPreserves DEF Target
  <1>2. CASE Requests
    <2>1. ASSUME NEW t \in live, NEW p \in Tid, note_inherited_mask(t, p, mask[t]) PROVE IInv'
      BY <2>1, NoteInheritedMaskPreserves
    <2>2. QED
      BY <1>2, <2>1, NoteApplicationMaskPreserves, ApplyPreserves, RestorePreserves,
         RestoreAllPreserves DEF Requests
  <1>3. CASE Work
    BY <1>3, SetFailsPreserves, SetWritesPreserves, ReadBackPreserves,
       ApplyVisitPreserves, ApplyReturnPreserves, ApplyDonePreserves,
       RollbackVisitPreserves, RollbackReturnPreserves, RollbackDonePreserves,
       RestoreVisitPreserves, RestoreReturnPreserves, RestoreDonePreserves,
       RestoreAllDonePreserves, CallerReadsPreserves DEF Work
  <1>4. CASE UNCHANGED vars
    <2> USE <1>4 DEF vars
    <2>1. TypeOK' /\ ActedHasRestoreMask' /\ CallInLoop' /\ CallOutcome' /\ DeadThreads'
      BY DEF IInv, TypeOK, ActedHasRestoreMask, CallInLoop, CallOutcome, DeadThreads,
             Noted, Busy, Unpinned
    <2>2. LoopTodo' /\ FrameInv' /\ BatchInv' /\ RollbackInv' /\ RestoreAllInv'
      BY DEF IInv, LoopTodo, FrameInv, BatchInv, RollbackInv, RestoreAllInv, Batch, Busy
    <2>3. RollbackIsComplete' /\ CommitIsExact' /\ PolicyPinIsRecorded'
      BY DEF IInv, RollbackIsComplete, CommitIsExact, PolicyPinIsRecorded, Batch
    <2>4. QED
      BY <2>1, <2>2, <2>3 DEF IInv
  <1>5. QED
    BY <1>1, <1>2, <1>3, <1>4 DEF Next

\* The inductive invariant of the actuator holds in every reachable state.
THEOREM Inductive == Spec => []IInv
  BY InitEstablishes, NextPreserves, PTL DEF Spec

\* The actuator's tables, its frame and the pending system call keep their
\* types, and a dead TID reads as the empty mask.
THEOREM TypeCorrect == Spec => []TypeOK
  <1>1. IInv => TypeOK
    BY DEF IInv
  <1>2. QED
    BY Inductive, <1>1, PTL

\* restore_masks_.at(tid) never throws: every TID the policy has acted on has a
\* saved mask, at every step of every batch, rollback and restore.
THEOREM ActedIsRestorable == Spec => []ActedHasRestoreMask
  <1>1. IInv => ActedHasRestoreMask
    BY DEF IInv
  <1>2. QED
    BY Inductive, <1>1, PTL

\* A batch that reports a complete rollback has put back every mask it wrote,
\* and acted_tids_ as it was.
THEOREM RollbackComplete == Spec => []RollbackIsComplete
  <1>1. IInv => RollbackIsComplete
    BY DEF IInv
  <1>2. QED
    BY Inductive, <1>1, PTL

\* A batch that reports success has committed or found vanished each of its
\* TIDs, and each committed TID has the mask it was assigned.
THEOREM CommitExact == Spec => []CommitIsExact
  <1>1. IInv => CommitIsExact
    BY DEF IInv
  <1>2. QED
    BY Inductive, <1>1, PTL

\* restore_all() forgets a TID only if it is restored, counted as failed, or
\* has been changed by the target.
THEOREM RestoreAllExact == Spec => []RestoreAllIsExact
  <1>1. IInv => RestoreAllIsExact
    BY DEF IInv, RestoreAllInv, RestoreAllIsExact, Busy
  <1>2. QED
    BY Inductive, <1>1, PTL

\* A thread under a mask the policy wrote and verified is in acted_tids_.
THEOREM PinRecorded == Spec => []PolicyPinIsRecorded
  <1>1. IInv => PolicyPinIsRecorded
    BY DEF IInv
  <1>2. QED
    BY Inductive, <1>1, PTL

\* No loop of the actuator can be kept going: every step of a batch, a rollback or
\* a restore brings it nearer to its end, whatever the target does in between.
THEOREM OperationsTerminate == Spec => OperationsEnd
  <1>1. ASSUME Work PROVE Nearer
    <2>1. CASE SetFails \/ SetWrites \/ ReadBack
      BY <2>1 DEF SetFails, SetWrites, ReadBack, Nearer, LoopRank, CallRank
    <2>2. ASSUME NEW t \in Tid, ApplyVisit(t) \/ RollbackVisit(t) \/ RestoreVisit(t)
          PROVE  Nearer
      BY <2>2 DEF ApplyVisit, RollbackVisit, RestoreVisit, Rest, IsFirst, IsLast, Nearer, LoopRank
    <2>3. CASE ApplyReturn
      BY <2>3 DEF ApplyReturn, Return, Nearer, LoopRank, CallRank
    <2>4. CASE RollbackReturn \/ RestoreReturn
      BY <2>4 DEF RollbackReturn, RestoreReturn, Return, Nearer, LoopRank, CallRank
    <2>5. CASE ApplyDone \/ RollbackDone \/ RestoreDone \/ RestoreAllDone \/ CallerReads
      BY <2>5 DEF ApplyDone, RollbackDone, RestoreDone, RestoreAllDone, CallerReads, Nearer, LoopRank
    <2>6. QED
      BY <1>1, <2>1, <2>2, <2>3, <2>4, <2>5 DEF Work
  <1>2. ASSUME Target PROVE UNCHANGED <<LoopRank, todo, CallRank>>
    BY <1>2 DEF Target, ThreadExit, ThreadStart, AppSetAffinity, TargetStep, LoopRank, CallRank
  <1>3. [Next]_vars => [(Work => Nearer) /\ (Target => UNCHANGED <<LoopRank, todo, CallRank>>)]_vars
    BY <1>1, <1>2
  <1>4. QED
    BY <1>3, PTL DEF Spec, OperationsEnd
-----------------------------------------------------------------------------
(***************************************************************************)
(* The refinement of AffinityLedger.                                       *)
(***************************************************************************)
\* Steps of the target and of backend.set do not touch the ledger.
LEMMA OutsideTheLedger ==
  ASSUME Target \/ SetFails \/ SetWrites \/ ReadBack
  PROVE  UNCHANGED <<restore_masks, acted_tids, pc>>
  BY DEF Target, ThreadExit, ThreadStart, AppSetAffinity, TargetStep, SetFails,
         SetWrites, ReadBack

\* What a request does to the ledger: declare, observe or begin.
LEMMA RequestIsLedgerStep == ASSUME IInv, Requests PROVE [Ledger!Next]_(Ledger!ledgerVars)
  <1> USE DEF Ledger!Next, Ledger!ledgerVars
  <1>1. ASSUME NEW t \in Tid, NEW m \in AppMasks, note_application_mask(t, m)
        PROVE  Ledger!Declare(t, m) /\ m \in Mask
    BY <1>1, MaskAssumption DEF note_application_mask, Ledger!Declare
  <1>2. ASSUME NEW t \in live, NEW p \in Tid, note_inherited_mask(t, p, mask[t])
        PROVE  \E m \in Mask : Ledger!Observe(t, m)
    <2>1. CASE Noted(p)
      BY <1>2, <2>1 DEF note_inherited_mask, Noted, Ledger!Observe, IInv, TypeOK
    <2>2. CASE ~Noted(p)
      BY <1>2, <2>2 DEF note_inherited_mask, Noted, Ledger!Observe, IInv, TypeOK
    <2>3. QED
      BY <2>1, <2>2
  <1>3. ASSUME NEW d, NEW L, apply(d, L) PROVE Ledger!Begin
    BY <1>3 DEF apply, Ledger!Begin
  <1>4. ASSUME NEW tids, restore(tids) PROVE Ledger!Begin
    BY <1>4 DEF restore, Ledger!Begin
  <1>5. ASSUME restore_all PROVE Ledger!Begin
    BY <1>5 DEF restore_all, Ledger!Begin
  <1>6. live \subseteq Tid
    BY DEF IInv, TypeOK
  <1>7. QED
    BY <1>1, <1>2, <1>3, <1>4, <1>5, <1>6 DEF Requests

\* What the worker's steps do to the ledger: a batch observes and owns, a
\* rollback disowns, a restore releases, and the last step ends.
LEMMA WorkIsLedgerStep == ASSUME IInv, Work PROVE [Ledger!Next]_(Ledger!ledgerVars)
  <1> USE DEF Ledger!Next, Ledger!ledgerVars
  <1>1. CASE SetFails \/ SetWrites \/ ReadBack
    BY <1>1, OutsideTheLedger
  <1>2. ASSUME NEW t \in Tid, ApplyVisit(t) PROVE [Ledger!Next]_(Ledger!ledgerVars)
    <2>1. CASE Noted(t)
      BY <1>2, <2>1 DEF ApplyVisit, SavedMasks
    <2>2. CASE ~Noted(t)
      <3>1. Ledger!Observe(t, mask[t]) /\ mask[t] \in Mask
        BY <1>2, <2>2 DEF ApplyVisit, SavedMasks, Noted, Ledger!Observe, IInv, TypeOK
      <3>2. QED
        BY <3>1
    <2>3. QED
      BY <2>1, <2>2
  <1>3. ASSUME NEW t \in Tid, RollbackVisit(t) \/ RestoreVisit(t)
        PROVE  UNCHANGED Ledger!ledgerVars
    BY <1>3 DEF RollbackVisit, RestoreVisit
  <1>4. CASE ApplyReturn
    <2>1. cur \in Tid /\ Noted(cur)
      BY <1>4 DEF IInv, TypeOK, CallInLoop, Busy, ApplyReturn, Return
    <2>2. CASE errno = "ok"
      <3>1. Ledger!Own(cur)
        BY <1>4, <2>1, <2>2 DEF ApplyReturn, Noted, Ledger!Own
      <3>2. QED
        BY <2>1, <3>1
    <2>3. CASE errno # "ok"
      BY <1>4, <2>3 DEF ApplyReturn
    <2>4. QED
      BY <2>2, <2>3
  <1>5. CASE RollbackReturn
    <2>1. CASE cur \notin previously_acted /\ cur \in acted_tids /\ errno \in {"ok", "ESRCH"}
      <3>1. Ledger!Disown(cur) /\ cur \in Tid
        BY <1>5, <2>1 DEF RollbackReturn, ActedAfterRollback, Ledger!Disown, IInv, TypeOK
      <3>2. QED
        BY <3>1
    <2>2. CASE ~(cur \notin previously_acted /\ cur \in acted_tids /\ errno \in {"ok", "ESRCH"})
      BY <1>5, <2>2 DEF RollbackReturn, ActedAfterRollback
    <2>3. QED
      BY <2>1, <2>2
  <1>6. CASE RestoreReturn
    <2>1. CASE pc = "restore" /\ errno \in {"ok", "ESRCH"}
      <3>1. Ledger!Release(cur) /\ cur \in Tid
        BY <1>6, <2>1 DEF RestoreReturn, Return, Ledger!Release, IInv, TypeOK, CallInLoop, Busy
      <3>2. QED
        BY <3>1
    <2>2. CASE ~(pc = "restore" /\ errno \in {"ok", "ESRCH"})
      BY <1>6, <2>2 DEF RestoreReturn
    <2>3. QED
      BY <2>1, <2>2
  <1>7. CASE ApplyDone \/ RollbackDone \/ RestoreDone
    BY <1>7 DEF ApplyDone, RollbackDone, RestoreDone
  <1>8. CASE RestoreAllDone
    <2>1. Ledger!ReleaseAll
      BY <1>8 DEF RestoreAllDone, NoMasks, Ledger!ReleaseAll
    <2>2. QED
      BY <2>1
  <1>9. CASE CallerReads
    <2>1. Ledger!End
      BY <1>9 DEF CallerReads, Ledger!End
    <2>2. QED
      BY <2>1
  <1>10. QED
    BY <1>1, <1>2, <1>3, <1>4, <1>5, <1>6, <1>7, <1>8, <1>9 DEF Work

\* The actuator implements the ledger: a batch or a restore never replaces a
\* saved mask, the policy owns only TIDs that have one, and the mask of an owned
\* TID is dropped only together with the ownership.
THEOREM ActuatorImplementsLedger == Spec => ImplementsLedger
  <1>1. Init => Ledger!Init
    BY DEF Init, NoMasks, Ledger!Init
  <1>2. IInv /\ [Next]_vars => [Ledger!Next]_(Ledger!ledgerVars)
    <2> SUFFICES ASSUME IInv, [Next]_vars PROVE [Ledger!Next]_(Ledger!ledgerVars)
      OBVIOUS
    <2>1. CASE Target
      BY <2>1, OutsideTheLedger DEF Ledger!ledgerVars
    <2>2. CASE Requests
      BY <2>2, RequestIsLedgerStep
    <2>3. CASE Work
      BY <2>3, WorkIsLedgerStep
    <2>4. CASE UNCHANGED vars
      BY <2>4 DEF vars, Ledger!ledgerVars
    <2>5. QED
      BY <2>1, <2>2, <2>3, <2>4 DEF Next
  <1>3. QED
    BY Inductive, <1>1, <1>2, PTL DEF Spec, ImplementsLedger, Ledger!Spec
=============================================================================
