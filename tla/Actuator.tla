------------------------------ MODULE Actuator ------------------------------
(***************************************************************************)
(* The affinity actuator (src/actuator.cpp) against a running target.      *)
(*                                                                         *)
(* One runtime thread calls note_application_mask, note_inherited_mask,    *)
(* apply, restore and restore_all.  Inside a call every                    *)
(* sched_getaffinity / sched_setaffinity is a step of its own, and between *)
(* any two of them a target thread may exit, a new thread may take over    *)
(* its TID, and the application may set masks itself.                      *)
(*                                                                         *)
(* backend.set is two system calls: the write and the read-back that       *)
(* verifies it.  Masks are sets of CPUs; backend.get returns the empty     *)
(* mask for a TID that names no thread.                                    *)
(***************************************************************************)
EXTENDS Naturals

CONSTANTS Tid,          \* thread ids; std::map visits them in increasing order
          Cpu,          \* CPUs
          AppMasks,     \* masks the application sets and declares
          PolicyMasks,  \* masks the selectors put into a batch
          Cpusets,      \* CPU sets the administrator may confine the target to
          NoMask,       \* "no entry" in restore_masks_ or in a batch
          MaxFaults,    \* bound: refusals and narrowed writes by the kernel
          MaxEnv        \* bound: thread exits, thread starts, application writes

Mask == SUBSET Cpu

ASSUME TidAssumption == Tid \subseteq Nat
ASSUME MaskAssumption == /\ AppMasks \subseteq Mask \ {{}}
                         /\ PolicyMasks \subseteq Mask
                         /\ Cpusets \subseteq Mask
ASSUME NoMaskAssumption == \A m \in Mask : m # NoMask
ASSUME BoundAssumption == MaxFaults \in Nat /\ MaxEnv \in Nat

VARIABLES
  \* the kernel and the target (external)
  live,             \* TIDs that name a thread
  mask,             \* [Tid -> Mask]: the kernel's mask; {} where there is no thread
  faults,           \* refused or narrowed writes so far
  env,              \* target steps so far
  \* Actuator members
  restore_masks,    \* [Tid -> {NoMask} \cup Mask]
  acted_tids,
  \* the pending backend.set
  call,             \* where it is: see Calls
  cur,              \* its TID
  want,             \* its mask
  errno,            \* its outcome
  \* the frame of the running operation
  pc,               \* its loop: see Loops
  todo,             \* TIDs the loop has not visited
  assignments,      \* [Tid -> {NoMask} \cup Mask]: the batch
  completed,        \* written and verified
  previous_masks,   \* [Tid -> Mask]
  previously_acted, \* visited TIDs that were in acted_tids_ when visited
  vanished,         \* ApplyResult.vanished_tids
  failed,           \* TIDs whose rollback or restore failed
  result,           \* what the last operation returned: see Results
  \* history, for the properties only
  touched,          \* TIDs whose mask the actuator was not the last to write
  pin               \* [Tid -> Origins]: who wrote the mask the thread runs under

target == <<live, mask>>
bounds == <<faults, env>>
ledger == <<restore_masks, acted_tids>>
backend == <<call, cur, want, errno>>
batch == <<assignments, completed, previous_masks, previously_acted, vanished>>
frame == <<pc, todo, failed, result>>
history == <<touched, pin>>
vars == <<target, bounds, ledger, backend, batch, frame, history>>

Calls == {"none", "write", "readback", "done"}
Errnos == {"ok", "ESRCH", "EINVAL", "EIO"}     \* EINVAL: any error but ESRCH
Loops == {"idle", "apply", "rollback", "restore", "restore_all", "returned"}
Results == {"none", "success", "rolled_back", "rollback_failed", "restored", "restored_all"}
Origins == {"own", "policy", "abandoned", "newborn", "inherited"}

NoMasks == [t \in Tid |-> NoMask]
EmptyMasks == [t \in Tid |-> {}]
Noted(t) == restore_masks[t] # NoMask
IsFirst(t, S) == t \in S /\ \A u \in S : t <= u
IsLast(t, S) == t \in S /\ \A u \in S : u <= t

FirstTid == {t \in Tid : IsFirst(t, Tid)}

Init ==
    /\ live \in (SUBSET Tid) \ {{}}
    /\ \E m \in AppMasks : mask = [t \in Tid |-> IF t \in live THEN m ELSE {}]
    /\ faults = 0 /\ env = 0
    /\ restore_masks = NoMasks /\ acted_tids = {}
    /\ call = "none" /\ cur \in FirstTid /\ want = {} /\ errno = "ok"
    /\ pc = "idle" /\ todo = {} /\ failed = {} /\ result = "none"
    /\ assignments = NoMasks /\ completed = {} /\ previous_masks = EmptyMasks
    /\ previously_acted = {} /\ vanished = {}
    /\ touched = Tid /\ pin = [t \in Tid |-> "own"]
-----------------------------------------------------------------------------
(***************************************************************************)
(* The target (external): its threads come, go, and set their own masks.   *)
(***************************************************************************)
TargetStep(t, m, origin) ==
    /\ env < MaxEnv /\ env' = env + 1
    /\ mask' = [mask EXCEPT ![t] = m]
    /\ touched' = touched \cup {t}
    /\ pin' = [pin EXCEPT ![t] = origin]
    /\ UNCHANGED <<faults, ledger, backend, batch, frame>>

ThreadExit(t) ==
    /\ t \in live /\ live' = live \ {t}
    /\ TargetStep(t, {}, "own")

\* clone(): the child runs under its creator's mask, whoever wrote that.
ThreadStart(t, p) ==
    /\ t \notin live /\ p \in live /\ live' = live \cup {t}
    /\ TargetStep(t, mask[p], IF pin[p] \in {"own", "newborn"} THEN "newborn" ELSE "inherited")

AppSetAffinity(t, m) ==
    /\ t \in live /\ UNCHANGED live
    /\ TargetStep(t, m, "own")
-----------------------------------------------------------------------------
(***************************************************************************)
(* LinuxAffinityBackend::set, called from the four loops below.            *)
(***************************************************************************)
Call(t, m) == call = "none" /\ call' = "write" /\ cur' = t /\ want' = m /\ UNCHANGED errno
Return ==
    /\ call = "done" /\ call' = "none"
    /\ cur' \in FirstTid /\ want' = {} /\ errno' = "ok"

\* sched_setaffinity fails.  (external: when, and with which error.)
SetFails ==
    /\ call = "write" /\ call' = "done"
    /\ \/ cur \notin live /\ errno' = "ESRCH" /\ UNCHANGED faults
       \/ cur \in live /\ want = {} /\ errno' = "EINVAL" /\ UNCHANGED faults
       \/ cur \in live /\ faults < MaxFaults /\ faults' = faults + 1 /\ errno' = "EINVAL"
    /\ UNCHANGED <<cur, want, target, env, ledger, batch, frame, history>>

\* sched_setaffinity succeeds; a cpuset may leave less than was asked for.
SetWrites ==
    /\ call = "write" /\ call' = "readback" /\ cur \in live
    /\ \E got \in ({want} \cup {want \cap c : c \in Cpusets}) \ {{}} :
         /\ \/ got = want /\ UNCHANGED faults
            \/ got # want /\ faults < MaxFaults /\ faults' = faults + 1
         /\ mask' = [mask EXCEPT ![cur] = got]
    /\ touched' = touched \ {cur}
    /\ pin' = [pin EXCEPT ![cur] =
                 IF pc = "apply" \/ (pc = "rollback" /\ cur \in previously_acted)
                 THEN "policy" ELSE "own"]
    /\ UNCHANGED <<cur, want, errno, live, env, ledger, batch, frame>>

\* Mutant: the read-back is not compared.
UnverifiedErrno == "ok"
ReadBackErrno == IF mask[cur] = want THEN "ok" ELSE "EIO"

ReadBack ==
    /\ call = "readback" /\ call' = "done"
    /\ errno' = ReadBackErrno
    /\ UNCHANGED <<cur, want, target, bounds, ledger, batch, frame, history>>
-----------------------------------------------------------------------------
note_application_mask(t, m) ==
    /\ pc = "idle"
    /\ restore_masks' = [restore_masks EXCEPT ![t] = m]
    /\ UNCHANGED <<acted_tids, target, bounds, backend, batch, frame, history>>

note_inherited_mask(t, parent, observed) ==
    /\ pc = "idle" /\ ~Noted(t)
    /\ restore_masks' = [restore_masks EXCEPT ![t] =
                           IF Noted(parent) THEN restore_masks[parent] ELSE observed]
    /\ UNCHANGED <<acted_tids, target, bounds, backend, batch, frame, history>>
-----------------------------------------------------------------------------
(***************************************************************************)
(* apply_delta                                                             *)
(***************************************************************************)
Rest(t) == todo \ {t}

\* Mutant: the mask before the first action is not saved.
UnsavedMasks(t) == restore_masks
\* Mutant: every batch saves the mask it finds.
ResavedMasks(t) == [restore_masks EXCEPT ![t] = mask[t]]
SavedMasks(t) == IF Noted(t) THEN restore_masks ELSE [restore_masks EXCEPT ![t] = mask[t]]

Batch(delta) == {t \in Tid : delta[t] # NoMask}

apply(delta, live_tids) ==
    /\ pc = "idle" /\ pc' = "apply"
    /\ assignments' = delta
    /\ todo' = Batch(delta) \cap live_tids
    /\ vanished' = Batch(delta) \ live_tids
    /\ UNCHANGED <<failed, result, completed, previous_masks, previously_acted,
                   target, bounds, ledger, backend, history>>

\* backend.get, the bookkeeping, and the call of backend.set.
ApplyVisit(t) ==
    /\ pc = "apply" /\ IsFirst(t, todo) /\ todo' = Rest(t)
    /\ previous_masks' = [previous_masks EXCEPT ![t] = mask[t]]
    /\ previously_acted' = previously_acted \cup ({t} \cap acted_tids)
    /\ restore_masks' = SavedMasks(t)
    /\ \/ assignments[t] # {} /\ Call(t, assignments[t])
       \/ /\ assignments[t] = {} /\ call = "none" /\ call' = "done"
          /\ cur' = t /\ want' = {} /\ errno' = "EINVAL"
    /\ UNCHANGED <<pc, failed, result, acted_tids, assignments, completed, vanished,
                   target, bounds, history>>

ApplyReturn ==
    /\ pc = "apply" /\ Return
    /\ \/ /\ errno = "ok"
          /\ completed' = completed \cup {cur}
          /\ acted_tids' = acted_tids \cup {cur}
          /\ UNCHANGED <<pc, todo, vanished, pin>>
       \/ /\ errno = "ESRCH"
          /\ vanished' = vanished \cup {cur}
          /\ UNCHANGED <<pc, todo, completed, acted_tids, pin>>
       \/ /\ errno \notin {"ok", "ESRCH"}
          /\ pc' = "rollback" /\ todo' = completed
          /\ pin' = IF pin[cur] = "policy" /\ cur \notin acted_tids
                    THEN [pin EXCEPT ![cur] = "abandoned"] ELSE pin
          /\ UNCHANGED <<completed, vanished, acted_tids>>
    /\ UNCHANGED <<failed, result, assignments, previous_masks, previously_acted,
                   restore_masks, target, bounds, touched>>

ApplyDone ==
    /\ pc = "apply" /\ call = "none" /\ todo = {}
    /\ pc' = "returned" /\ result' = "success"
    /\ UNCHANGED <<todo, failed, batch, target, bounds, ledger, backend, history>>

\* Mutant: the rollback goes back to the restore mask.
RollbackToBaseline(t) == restore_masks[t]
RollbackMask(t) == previous_masks[t]

\* Mutant: a rolled-back TID is forgotten even if it was pinned before.
ActedForgotten(t) == acted_tids \ {t}
ActedAfterRollback(t) == IF t \in previously_acted THEN acted_tids ELSE acted_tids \ {t}

\* The rollback loop: the completed TIDs, last one first.
RollbackVisit(t) ==
    /\ pc = "rollback" /\ IsLast(t, todo) /\ todo' = Rest(t)
    /\ Call(t, RollbackMask(t))
    /\ UNCHANGED <<pc, failed, result, batch, target, bounds, ledger, history>>

RollbackReturn ==
    /\ pc = "rollback" /\ Return
    /\ \/ /\ errno \in {"ok", "ESRCH"}
          /\ acted_tids' = ActedAfterRollback(cur)
          /\ UNCHANGED failed
       \/ /\ errno \notin {"ok", "ESRCH"}
          /\ failed' = failed \cup {cur}
          /\ UNCHANGED acted_tids
    /\ UNCHANGED <<pc, todo, result, restore_masks, batch, target, bounds, history>>

RollbackDone ==
    /\ pc = "rollback" /\ call = "none" /\ todo = {} /\ pc' = "returned"
    /\ result' = IF failed = {} THEN "rolled_back" ELSE "rollback_failed"
    /\ UNCHANGED <<todo, failed, batch, target, bounds, ledger, backend, history>>
-----------------------------------------------------------------------------
(***************************************************************************)
(* restore(tids) when domains dissolve or threads cool down, and           *)
(* restore_all() for pause, hard failure and shutdown.                     *)
(***************************************************************************)
\* Mutant: restore also visits TIDs the policy has not acted on.
AllOf(tids) == tids
ActedAmong(tids) == tids \cap acted_tids

\* Mutant: a failed restore is not counted.
FailuresIgnored == failed
FailedRestores == IF errno \in {"ok", "ESRCH"} THEN failed ELSE failed \cup {cur}

restore(tids) ==
    /\ pc = "idle" /\ pc' = "restore" /\ todo' = ActedAmong(tids)
    /\ UNCHANGED <<failed, result, batch, target, bounds, ledger, backend, history>>

restore_all ==
    /\ pc = "idle" /\ pc' = "restore_all" /\ todo' = acted_tids
    /\ UNCHANGED <<failed, result, batch, target, bounds, ledger, backend, history>>

RestoreVisit(t) ==
    /\ pc \in {"restore", "restore_all"} /\ IsFirst(t, todo) /\ todo' = Rest(t)
    /\ Call(t, restore_masks[t])
    /\ UNCHANGED <<pc, failed, result, batch, target, bounds, ledger, history>>

\* restore() forgets a TID as soon as it is restored or gone.
RestoreReturn ==
    /\ pc \in {"restore", "restore_all"} /\ Return
    /\ failed' = FailedRestores
    /\ IF pc = "restore" /\ errno \in {"ok", "ESRCH"}
       THEN /\ acted_tids' = acted_tids \ {cur}
            /\ restore_masks' = [restore_masks EXCEPT ![cur] = NoMask]
       ELSE UNCHANGED ledger
    /\ UNCHANGED <<pc, todo, result, batch, target, bounds, history>>

RestoreDone ==
    /\ pc = "restore" /\ call = "none" /\ todo = {}
    /\ pc' = "returned" /\ result' = "restored"
    /\ UNCHANGED <<todo, failed, batch, target, bounds, ledger, backend, history>>

\* restore_all() forgets every TID at the end, the failed ones included.
RestoreAllDone ==
    /\ pc = "restore_all" /\ call = "none" /\ todo = {}
    /\ pc' = "returned" /\ result' = "restored_all"
    /\ acted_tids' = {} /\ restore_masks' = NoMasks
    /\ pin' = [t \in Tid |-> IF pin[t] = "policy" THEN "abandoned" ELSE pin[t]]
    /\ UNCHANGED <<todo, failed, batch, target, bounds, backend, touched>>

\* The caller has read the result; the frame is gone.
CallerReads ==
    /\ pc = "returned" /\ pc' = "idle"
    /\ failed' = {} /\ result' = "none" /\ todo' = {}
    /\ assignments' = NoMasks /\ completed' = {} /\ previous_masks' = EmptyMasks
    /\ previously_acted' = {} /\ vanished' = {}
    /\ UNCHANGED <<target, bounds, ledger, backend, history>>
-----------------------------------------------------------------------------
Target ==
    \/ \E t \in Tid : ThreadExit(t)
    \/ \E t, p \in Tid : ThreadStart(t, p)
    \/ \E t \in Tid, m \in AppMasks : AppSetAffinity(t, m)

\* What the runtime asks for.  A batch is a selector's plan for TIDs of its
\* demand window; restore gets the TIDs a plan released.
Requests ==
    \/ \E t \in Tid, m \in AppMasks : note_application_mask(t, m)
    \/ \E t \in live, parent \in Tid : note_inherited_mask(t, parent, mask[t])
    \/ \E delta \in [Tid -> PolicyMasks \cup {NoMask}], live_tids \in SUBSET Tid :
          apply(delta, live_tids)
    \/ \E tids \in SUBSET Tid : restore(tids)
    \/ restore_all

\* What the worker does to finish the operation it is in.
Work ==
    \/ SetFails \/ SetWrites \/ ReadBack
    \/ \E t \in Tid : ApplyVisit(t) \/ RollbackVisit(t) \/ RestoreVisit(t)
    \/ ApplyReturn \/ ApplyDone \/ RollbackReturn \/ RollbackDone
    \/ RestoreReturn \/ RestoreDone \/ RestoreAllDone
    \/ CallerReads

Next == Target \/ Requests \/ Work

Spec == Init /\ [][Next]_vars
-----------------------------------------------------------------------------
(***************************************************************************)
(* Properties                                                              *)
(***************************************************************************)
\* Every variable has its type; a dead TID has the empty mask, which is what
\* backend.get reports for it.
TypeOK ==
    /\ live \subseteq Tid /\ mask \in [Tid -> Mask]
    /\ \A t \in Tid : t \in live <=> mask[t] # {}
    /\ faults \in 0..MaxFaults /\ env \in 0..MaxEnv
    /\ restore_masks \in [Tid -> {NoMask} \cup Mask] /\ acted_tids \subseteq Tid
    /\ call \in Calls /\ cur \in Tid /\ want \in Mask /\ errno \in Errnos
    /\ pc \in Loops /\ todo \subseteq Tid /\ failed \subseteq Tid /\ result \in Results
    /\ assignments \in [Tid -> {NoMask} \cup Mask] /\ completed \subseteq Tid
    /\ previous_masks \in [Tid -> Mask] /\ previously_acted \subseteq Tid
    /\ vanished \subseteq Tid
    /\ touched \subseteq Tid /\ pin \in [Tid -> Origins]

\* restore_masks_.at(tid) never throws: every TID the policy has acted on has
\* a saved mask, also in the middle of a batch, a rollback or a restore, and
\* also after the TID's thread has died and another one has taken the TID.
ActedHasRestoreMask == \A t \in acted_tids : Noted(t)

\* A batch that reports a complete rollback has left no trace: every TID it
\* had written runs under the mask it had when the batch reached it, unless
\* the target has changed it since, and is in acted_tids_ exactly if it was
\* before.
RollbackIsComplete ==
    result = "rolled_back" =>
      \A t \in completed : /\ t \in touched \/ mask[t] = previous_masks[t]
                           /\ t \in acted_tids <=> t \in previously_acted

\* A batch that reports success accounts for each of its TIDs exactly once,
\* as committed or as vanished; a committed TID is recorded in acted_tids_ and
\* runs under the mask it was assigned, unless the target has changed it since
\* the actuator wrote it.
CommitIsExact ==
    result = "success" =>
      /\ completed \cup vanished = Batch(assignments)
      /\ completed \cap vanished = {}
      /\ \A t \in completed : /\ t \in acted_tids
                              /\ t \in touched \/ mask[t] = assignments[t]

\* When restore_all() is about to forget everything, each TID the policy acted
\* on is counted as failed, or runs under its saved mask, or has been changed
\* (or ended) by the target since the actuator last wrote it.
RestoreAllIsExact ==
    pc = "restore_all" /\ call = "none" =>
      \A t \in acted_tids \ todo : t \in failed \/ t \in touched \/ mask[t] = restore_masks[t]

\* A thread that runs under a mask the policy wrote and verified is in
\* acted_tids_, so that the next restore reaches it; the exception is the TID
\* whose write is still being verified.  (Masks a restore_all failed to take
\* back, and failed writes that took effect all the same, are "abandoned".)
PolicyPinIsRecorded ==
    \A t \in Tid : pin[t] = "policy" => t \in acted_tids \/ (call # "none" /\ cur = t)

\* What the actuator promises about its tables, whatever the target does in
\* the middle of a batch: see AffinityLedger.
Ledger == INSTANCE AffinityLedger
            WITH baseline <- restore_masks, owned <- acted_tids, busy <- pc # "idle"
ImplementsLedger == Ledger!Spec

\* How far an operation is from its end: a batch may still become a rollback; a
\* loop has TIDs to visit; and a call has system calls to make.
LoopRank == CASE pc = "idle" -> 0 [] pc = "returned" -> 1 [] pc = "apply" -> 3 [] OTHER -> 2
CallRank == CASE call = "none" -> 0 [] call = "done" -> 1 [] call = "readback" -> 2 [] OTHER -> 3
Nearer ==
    \/ LoopRank' < LoopRank
    \/ LoopRank' = LoopRank /\ todo' \subseteq todo /\ todo' # todo
    \/ LoopRank' = LoopRank /\ todo' = todo /\ CallRank' < CallRank

\* Every batch, rollback and restore ends: each step of it brings it nearer to its
\* end, and threads that exit, start or change their own masks do not take it back.
OperationsEnd == [][(Work => Nearer) /\ (Target => UNCHANGED <<LoopRank, todo, CallRank>>)]_vars

(***************************************************************************)
(* What the documentation and the comments say, and the code does not do.  *)
(***************************************************************************)
\* Restoration is complete: when restore_all() reports no failure, no thread
\* still runs under a mask that comes from the policy.
RestorationIsComplete ==
    result = "restored_all" /\ failed = {} =>
      \A t \in live : pin[t] \notin {"policy", "abandoned", "inherited"}
-----------------------------------------------------------------------------
(***************************************************************************)
(* The inductive invariant.                                                *)
(***************************************************************************)
Busy == call # "none"
Unpinned == pin[cur] # "policy"

\* Where a backend.set can be pending, and with which arguments.
CallInLoop ==
    /\ pc \in {"idle", "returned"} => ~Busy
    /\ Busy => cur \notin todo
    /\ Busy /\ pc = "apply" => /\ want = assignments[cur] /\ assignments[cur] # NoMask
                               /\ Noted(cur)
                               /\ cur \notin completed \cup vanished
                               /\ cur \in previously_acted <=> cur \in acted_tids
    /\ Busy /\ pc = "rollback" => want = previous_masks[cur] /\ cur \in completed
    /\ Busy /\ pc \in {"restore", "restore_all"} => /\ want = restore_masks[cur]
                                                    /\ cur \in acted_tids

\* What a finished backend.set says about the thread.
CallOutcome ==
    /\ call = "readback" => want # {}
    /\ call = "done" /\ errno = "ok" => want # {} /\ (cur \in touched \/ mask[cur] = want)
    /\ call = "done" /\ errno = "ESRCH" => (cur \in acted_tids => cur \in touched) /\ Unpinned
    /\ call = "readback" \/ (call = "done" /\ errno \in {"ok", "EIO"}) =>
         \/ pc = "apply"
         \/ pc = "rollback" /\ cur \in previously_acted
         \/ Unpinned

\* A dead TID has no policy mask, and the actuator was not the last to set it
\* if it had acted on it.
DeadThreads ==
    /\ \A t \in Tid \ live : pin[t] = "own"
    /\ \A t \in acted_tids \ live : t \in touched

\* What the loops have left to visit.
LoopTodo ==
    /\ pc = "rollback" => todo \subseteq completed
    /\ pc \in {"restore", "restore_all"} => todo \subseteq acted_tids

\* failed and result are empty until there is something to report; so is the
\* frame of a batch outside of it.
FrameInv ==
    /\ pc \in {"idle", "apply"} => failed = {}
    /\ pc # "returned" => result = "none"
    /\ pc \in {"idle", "restore", "restore_all"} => completed = {} /\ previously_acted = {}
    /\ pc = "idle" => vanished = {} /\ todo = {}

\* A batch before any failure: every TID is waiting, pending, written or gone.
BatchInv ==
    pc = "apply" =>
      /\ Batch(assignments) = todo \cup completed \cup vanished \cup (IF Busy THEN {cur} ELSE {})
      /\ todo \cap completed = {} /\ todo \cap vanished = {} /\ completed \cap vanished = {}
      /\ \A t \in completed : t \in acted_tids /\ (t \in touched \/ mask[t] = assignments[t])
      /\ previously_acted \cap todo = {}

\* A rollback: a completed TID is waiting, pending, failed or back.
RollbackInv ==
    pc = "rollback" =>
      \A t \in completed :
        IF t \in todo \/ (Busy /\ t = cur)
        THEN t \in acted_tids
        ELSE \/ t \in failed
             \/ /\ t \in touched \/ mask[t] = previous_masks[t]
                /\ t \in acted_tids <=> t \in previously_acted

RestoreAllInv ==
    pc = "restore_all" =>
      \A t \in acted_tids \ todo :
        \/ Busy /\ t = cur
        \/ t \in failed \/ t \in touched \/ mask[t] = restore_masks[t]

\* The facts about a running operation that make the properties above inductive.
IInv ==
    /\ TypeOK /\ ActedHasRestoreMask
    /\ CallInLoop /\ CallOutcome /\ DeadThreads /\ LoopTodo /\ FrameInv
    /\ BatchInv /\ RollbackInv /\ RestoreAllInv
    /\ RollbackIsComplete /\ CommitIsExact /\ PolicyPinIsRecorded
=============================================================================
