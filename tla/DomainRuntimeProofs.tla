------------------------ MODULE DomainRuntimeProofs ------------------------
(***************************************************************************)
(* The worker keeps solver, status and actuator together, for any threads, *)
(* nodes, domains and modes, any number of refused writes, and any reuse   *)
(* of TIDs.                                                                *)
(*                                                                         *)
(* A solve is the only place where the three may differ: it holds mutex_,  *)
(* and a pause cannot come in between.  So the plan is empty whenever the  *)
(* runtime is paused, a proposal is outstanding only inside a solve, and   *)
(* whoever loses a place in the plan there has been restored before.       *)
(***************************************************************************)
EXTENDS DomainRuntime, FiniteSetTheorems, TLAPS

-----------------------------------------------------------------------------
(***************************************************************************)
(* Induction over the natural numbers, stated about sets                   *)
(***************************************************************************)
\* Every non-empty set of numbers has a least element.
LEMMA LeastElement ==
  ASSUME NEW T \in SUBSET Nat, T # {}
  PROVE  \E x \in T : \A y \in T : x <= y
  <1> DEFINE R == OpToRel(<, Nat)
  <1>1. IsWellFoundedOn(R, Nat)
    BY NatLessThanWellFounded
  <1>2. \A x, y \in Nat : <<y, x>> \in R <=> y < x
    BY DEF OpToRel
  <1> HIDE DEF R
  <1>3. PICK x \in T : \A y \in T : ~(<<y, x>> \in R)
    BY Zenon, <1>1, WFMin
  <1>4. ASSUME NEW y \in T PROVE x <= y
    <2>1. x \in Nat /\ y \in Nat
      OBVIOUS
    <2>2. ~(y < x)
      BY Zenon, <1>2, <1>3, <2>1
    <2>3. QED
      BY <2>1, <2>2
  <1>5. QED
    BY <1>4

\* Induction up to N: a set with 0 and every successor of its members is all of 0..N.
LEMMA UpToInduction ==
  ASSUME NEW N \in Nat, NEW T, 0 \in T, \A n \in 1..N : n - 1 \in T => n \in T
  PROVE  0..N \subseteq T
  <1> SUFFICES ASSUME (0..N) \ T # {} PROVE FALSE
    OBVIOUS
  <1> DEFINE U == (0..N) \ T
  <1>0. U \in SUBSET Nat /\ U # {}
    OBVIOUS
  <1>1. PICK x \in U : \A y \in U : x <= y
    BY Zenon, <1>0, LeastElement
  <1>2. x \in 1..N /\ x - 1 \in 0..N /\ ~(x <= x - 1)
    BY <1>1
  <1>3. x - 1 \in T
    BY <1>1, <1>2
  <1>4. QED
    BY <1>1, <1>2, <1>3

\* A finite set of numbers has a bound.
LEMMA FiniteIsBounded ==
  ASSUME NEW S \in SUBSET Nat, IsFiniteSet(S)
  PROVE  \E b \in Nat : \A y \in S : y <= b
  <1> DEFINE Bounded(U) == \E b \in Nat : \A y \in U : y <= b
             T == {n \in Nat : \A U \in SUBSET Nat : IsFiniteSet(U) /\ Cardinality(U) = n => Bounded(U)}
  <1>1. 0 \in T
    <2>1. ASSUME NEW U \in SUBSET Nat, IsFiniteSet(U), Cardinality(U) = 0 PROVE Bounded(U)
      <3>1. U = {}
        BY <2>1, FS_EmptySet
      <3>2. QED
        BY <3>1
    <2>2. QED
      BY <2>1
  <1>2. ASSUME NEW n \in 1..Cardinality(S), n - 1 \in T PROVE n \in T
    <2>1. ASSUME NEW U \in SUBSET Nat, IsFiniteSet(U), Cardinality(U) = n PROVE Bounded(U)
      <3>1. PICK x : x \in U
        BY <2>1, FS_EmptySet
      <3>2. IsFiniteSet(U \ {x}) /\ Cardinality(U \ {x}) = n - 1
        BY <2>1, <3>1, FS_RemoveElement
      <3>3. PICK b \in Nat : \A y \in U \ {x} : y <= b
        BY <1>2, <3>2
      <3>4. x + b \in Nat /\ \A y \in U : y <= x + b
        BY <3>1, <3>3
      <3>5. QED
        BY <3>4
    <2>2. n \in Nat
      BY <1>2
    <2>3. QED
      BY <2>1, <2>2
  <1>3. Cardinality(S) \in Nat
    BY FS_CardinalityType
  <1> HIDE DEF T
  <1>4. Cardinality(S) \in T
    BY <1>1, <1>2, <1>3, UpToInduction
  <1>5. QED
    BY <1>4 DEF T

\* A function that is copied, step by step, from smaller numbers.
Copied(h, T, up, from, base) == \A t \in T : h[t] = IF t \in up THEN h[from[t]] ELSE base[t]

\* There is such a function.
LEMMA CopyExists ==
  ASSUME NEW b \in Nat, NEW T \in SUBSET (0..b), NEW S, NEW base \in [T -> S], NEW up \in SUBSET T,
         NEW from, \A t \in up : from[t] \in T /\ from[t] < t
  PROVE  \E h \in [T -> S] : Copied(h, T, up, from, base)
  <1> DEFINE Right(h, t) == h[t] = IF t \in up THEN h[from[t]] ELSE base[t]
             Upto(h, n) == \A t \in T : t < n => Right(h, t)
             U == {n \in 0..(b + 1) : \E h \in [T -> S] : Upto(h, n)}
  <1>1. 0 \in U
    OBVIOUS
  <1>2. ASSUME NEW n \in 1..(b + 1), n - 1 \in U
        PROVE  n \in U
    <2>1. PICK h \in [T -> S] : Upto(h, n - 1)
      BY <1>2
    <2> DEFINE m == n - 1
    <2>2. m \in 0..b /\ \A t \in T : t < n => t < m \/ t = m
      BY <1>2
    <2>3. CASE m \notin T
      BY <2>1, <2>2, <2>3
    <2>4. CASE m \in T
      <3> DEFINE x == IF m \in up THEN h[from[m]] ELSE base[m]
                 k == [t \in T |-> IF t = m THEN x ELSE h[t]]
      <3>1. x \in S
        BY <2>4
      <3>2. k \in [T -> S] /\ k[m] = x /\ \A t \in T : t # m => k[t] = h[t]
        BY <2>4, <3>1
      <3> HIDE DEF k
      <3>3. ASSUME NEW t \in T, t < n
            PROVE  Right(k, t)
        <4>1. t \in up => from[t] \in T /\ from[t] # m
          BY <2>2, <3>3
        <4>2. t # m => Right(h, t)
          BY <2>1, <2>2, <3>3
        <4>3. CASE t = m
          BY <3>2, <4>1, <4>3
        <4>4. CASE t # m
          BY <3>2, <4>1, <4>2, <4>4
        <4> QED
          BY <4>3, <4>4
      <3>4. Upto(k, n)
        BY <3>3
      <3>5. n \in 0..(b + 1)
        BY <1>2
      <3> QED
        BY <3>2, <3>4, <3>5, Zenon
    <2> QED
      BY <2>3, <2>4
  <1> HIDE DEF U
  <1>3. b + 1 \in U
    BY <1>1, <1>2, UpToInduction
  <1>4. PICK h \in [T -> S] : \A t \in T : t < b + 1 => Right(h, t)
    BY <1>3 DEF U
  <1> QED
    BY <1>4 DEF Copied

\* Every such function takes its values where the base does.
LEMMA CopyTyped ==
  ASSUME NEW b \in Nat, NEW T \in SUBSET (0..b), NEW S, NEW base, NEW up \in SUBSET T,
         \A t \in T : base[t] \in S,
         NEW from, \A t \in up : from[t] \in T /\ from[t] < t,
         NEW h, Copied(h, T, up, from, base)
  PROVE  \A t \in T : h[t] \in S
  <1> DEFINE U == {n \in 0..(b + 1) : \A t \in T : t < n => h[t] \in S}
  <1>1. 0 \in U
    OBVIOUS
  <1>2. ASSUME NEW n \in 1..(b + 1), n - 1 \in U
        PROVE  n \in U
    <2>0. n \in 0..(b + 1)
      BY <1>2
    <2> SUFFICES ASSUME NEW t \in T, t < n
                 PROVE  h[t] \in S
      BY <2>0, Zenon
    <2>1. \A u \in T : u < n - 1 => h[u] \in S
      BY <1>2
    <2>2. ASSUME t \in up
          PROVE  h[from[t]] \in S
      <3>1. from[t] \in T /\ from[t] < t
        BY <2>2
      <3>2. from[t] < n - 1
        <4>1. \A x, y, z \in Int : x < y /\ y < z => x < z - 1
          OBVIOUS
        <4>2. n \in Int /\ \A x \in 0..b : x \in Int
          OBVIOUS
        <4>3. from[t] \in Int /\ t \in Int
          BY <3>1, <4>2, Zenon
        <4> QED
          BY <3>1, <4>1, <4>2, <4>3, Zenon
      <3> QED
        BY <2>1, <3>1, <3>2, Zenon
    <2>3. h[t] = IF t \in up THEN h[from[t]] ELSE base[t]
      BY DEF Copied
    <2> QED
      BY <2>2, <2>3
  <1> HIDE DEF U
  <1>3. b + 1 \in U
    BY <1>1, <1>2, UpToInduction
  <1> QED
    BY <1>3 DEF U
-----------------------------------------------------------------------------

USE DEF target, others, graph, actuator, solver, status, control, given

\* Where the worker is, and what holds there.
WorkerInv ==
    /\ pc = "trigger_fatal" => next \in {"health", "sample", "final_health", "final_restore", "control"}
    /\ pc \in {"settle", "apply"} => mutex /\ ~paused
    /\ pc \notin {"settle", "apply"} => ~outstanding.open
    /\ pc = "apply" => mode = "active" /\ acted_tids \cap Released(outstanding) = {}
    /\ pc = "settle" /\ ~outstanding.valid => outstanding.planned = NoMasks

\* The status has what the solver has; a pause leaves nothing.
StatusInv ==
    /\ placement = [t \in Tid |-> placement[t]] /\ current_masks = placement
    /\ paused => placement = NoMasks /\ acted_tids = {} /\ ~selector_ready

\* A TID's first thread has no EXIT event while it lives; the actuator has acted
\* only on TIDs that have had a thread, and only in active mode.
ThreadInv ==
    /\ live \subseteq Tid /\ exits \subseteq Tid /\ acted_tids \subseteq Tid
    /\ gen \in [Tid -> Nat] /\ faults \in Nat
    /\ \A t \in live \cup exits \cup acted_tids : gen[t] > 0
    /\ \A t \in live \cap exits : gen[t] > 1
    /\ mode # "active" => acted_tids = {}

\* A pinned thread is planned, whether a solve is under way or not.
PlanInv ==
    faults = 0 => \A t \in acted_tids \cap live : gen[t] = 1 => placement[t] # {}

IInv == WorkerInv /\ StatusInv /\ ThreadInv /\ PlanInv
-----------------------------------------------------------------------------
(***************************************************************************)
(* What the actuator calls do to the tables                                *)
(***************************************************************************)
\* Refused writes are counted, and only threads that were to be restored refuse.
LEMMA PutBackCounts ==
  ASSUME ThreadInv, NEW S \in SUBSET Tid, NEW F \in SUBSET Tid, PutBack(S, F)
  PROVE  F \subseteq S /\ faults' \in Nat /\ (faults' = 0 => faults = 0)
  <1> DEFINE empty == {t \in S \cap live : restore_masks[t] = {}}
  <1>1. IsFiniteSet(F \ empty)
    BY TidAssumption, FS_Subset
  <1>2. Cardinality(F \ empty) \in Nat
    BY <1>1, FS_CardinalityType
  <1>3. F \subseteq S /\ faults' = faults + Cardinality(F \ empty)
    BY DEF PutBack
  <1> HIDE DEF empty
  <1>4. QED
    BY <1>2, <1>3 DEF ThreadInv

\* pause drops every plan and every ownership, also of threads it could not restore.
LEMMA PauseCleans ==
  ASSUME IInv, pause, UNCHANGED <<others, exits, mode>>
  PROVE  StatusInv' /\ ThreadInv' /\ PlanInv' /\ outstanding' = NoProposal
  <1>1. faults' \in Nat
    BY PutBackCounts DEF IInv, pause, restore_all, ThreadInv
  <1>2. QED
    BY <1>1 DEF IInv, pause, restore_all, ResetSolver, StatusInv, ThreadInv, PlanInv, NoMasks

\* restore takes the TIDs off the record, but for those that refuse.
LEMMA RestoreShrinks ==
  ASSUME ThreadInv, NEW S \in SUBSET Tid, NEW F \in SUBSET Tid, restore(S, F)
  PROVE  /\ acted_tids' \subseteq acted_tids /\ (F = {} => acted_tids' = acted_tids \ S)
         /\ faults' \in Nat /\ (faults' = 0 => faults = 0)
  <1>1. PutBack(S \cap acted_tids, F) /\ acted_tids' = acted_tids \ ((S \cap acted_tids) \ F)
    BY DEF restore
  <1>2. QED
    BY <1>1, PutBackCounts

\* Threads that are gone leave solver and status together; a living thread goes only
\* if its TID was used before.
LEMMA RemoveKeeps ==
  ASSUME IInv, NEW S \in SUBSET Tid, RemoveThreads(S), \A t \in S \cap live : gen[t] > 1,
         UNCHANGED <<gen, live, acted_tids, faults, selector_ready, paused>>
  PROVE  StatusInv' /\ PlanInv'
  BY DEF IInv, RemoveThreads, Erase, StatusInv, PlanInv, ThreadInv, NoMasks
-----------------------------------------------------------------------------
(***************************************************************************)
(* The actions                                                             *)
(***************************************************************************)
\* Threads start and exit, and shutdown begins, at any moment of a solve.
LEMMA TargetPreserves ==
  ASSUME IInv, Target PROVE IInv'
  <1>1. ASSUME NEW t \in Tid, ThreadExit(t) PROVE IInv'
    <2>1. WorkerInv' /\ StatusInv'
      BY <1>1 DEF IInv, ThreadExit, WorkerInv, StatusInv, Released, Keys
    <2>2. ThreadInv' /\ PlanInv'
      BY <1>1 DEF IInv, ThreadExit, ThreadInv, PlanInv
    <2>3. QED
      BY <2>1, <2>2 DEF IInv
  <1>2. ASSUME NEW t \in Tid, NEW p \in Tid, ThreadStart(t, p) PROVE IInv'
    <2>1. WorkerInv' /\ StatusInv'
      BY <1>2 DEF IInv, ThreadStart, WorkerInv, StatusInv, Released, Keys
    <2>2. ThreadInv' /\ PlanInv'
      BY <1>2 DEF IInv, ThreadStart, ThreadInv, PlanInv
    <2>3. QED
      BY <2>1, <2>2 DEF IInv
  <1>3. CASE Stop
    BY <1>3 DEF IInv, Stop, WorkerInv, StatusInv, ThreadInv, PlanInv, Released, Keys
  <1>4. QED
    BY <1>1, <1>2, <1>3 DEF Target

\* A command comes only between two passes.
LEMMA ControlPreserves ==
  ASSUME IInv, service_control_socket PROVE IInv'
  <1> USE DEF service_control_socket
  <1>1. WorkerInv' /\ StatusInv' /\ ThreadInv' /\ PlanInv'
    <2>1. CASE pause
      <3>1. StatusInv' /\ ThreadInv' /\ PlanInv' /\ outstanding' = NoProposal
        BY <2>1, PauseCleans
      <3>2. ~outstanding'.open
        BY <3>1 DEF NoProposal
      <3>3. QED
        BY <3>1, <3>2 DEF WorkerInv
    <2>2. CASE paused' = FALSE /\ UNCHANGED <<mask, actuator, solver, status>>
      BY <2>2 DEF IInv, WorkerInv, StatusInv, ThreadInv, PlanInv
    <2>3. CASE Unpaused
      BY <2>3 DEF IInv, Unpaused, WorkerInv, StatusInv, ThreadInv, PlanInv
    <2>4. QED
      BY <2>1, <2>2, <2>3
  <1>2. QED
    BY <1>1 DEF IInv

\* A hard failure pauses, once; it never gets here with mutex_ held.
LEMMA FatalPreserves ==
  ASSUME IInv, trigger_fatal PROVE IInv'
  <1> USE DEF trigger_fatal
  <1>1. CASE pause
    <2>1. StatusInv' /\ ThreadInv' /\ PlanInv' /\ outstanding' = NoProposal
      BY <1>1, PauseCleans
    <2>2. ~outstanding'.open
      BY <2>1 DEF NoProposal
    <2>3. QED
      BY <2>1, <2>2 DEF IInv, WorkerInv
  <1>2. CASE Unpaused
    BY <1>2 DEF Unpaused, IInv, WorkerInv, StatusInv, ThreadInv, PlanInv
  <1>3. QED
    BY <1>1, <1>2

\* Events, the verdict on the collector's health, and samples.
LEMMA ConsumePreserves ==
  ASSUME IInv, consume_pending_bpf PROVE IInv'
  <1> USE DEF consume_pending_bpf
  <1>1. PICK delivered \in SUBSET exits : RemoveThreads(delivered) /\ exits' = exits \ delivered
    OBVIOUS
  <1>2. delivered \in SUBSET Tid /\ \A t \in delivered \cap live : gen[t] > 1
    BY <1>1 DEF IInv, ThreadInv
  <1>3. StatusInv' /\ PlanInv'
    BY <1>1, <1>2, RemoveKeeps
  <1>4. WorkerInv'
    BY DEF IInv, WorkerInv, Continue, CallFatal, After
  <1>5. ThreadInv'
    BY <1>1 DEF IInv, ThreadInv
  <1>6. QED
    BY <1>3, <1>4, <1>5 DEF IInv

\* A judgement of the health has the worker go on, or go to trigger_fatal.
LEMMA HealthPreserves ==
  ASSUME IInv, sample_bpf_health PROVE IInv'
  <1> USE DEF sample_bpf_health
  <1>1. WorkerInv'
    BY DEF IInv, WorkerInv, Continue, CallFatal, After
  <1>2. StatusInv' /\ ThreadInv' /\ PlanInv'
    BY DEF IInv, StatusInv, ThreadInv, PlanInv
  <1>3. QED
    BY <1>1, <1>2 DEF IInv

\* A sample takes threads that are gone out of the plan.
LEMMA SamplePreserves ==
  ASSUME IInv, reconcile_and_sample PROVE IInv'
  <1> USE DEF reconcile_and_sample
  <1>1. PICK S \in SUBSET (Tid \ live) : RemoveThreads(S)
    OBVIOUS
  <1>2. StatusInv' /\ PlanInv'
    BY <1>1, RemoveKeeps
  <1>3. WorkerInv' /\ ThreadInv'
    BY DEF IInv, WorkerInv, ThreadInv
  <1>4. QED
    BY <1>2, <1>3 DEF IInv

\* A sampler that throws pauses the runtime, or leaves it as it is.
LEMMA CollectorPreserves ==
  ASSUME IInv, collector_failure PROVE IInv'
  <1> USE DEF collector_failure
  <1>1. CASE pause
    <2>1. StatusInv' /\ ThreadInv' /\ PlanInv' /\ outstanding' = NoProposal
      BY <1>1, PauseCleans
    <2>2. ~outstanding'.open
      BY <2>1 DEF NoProposal
    <2>3. QED
      BY <2>1, <2>2 DEF IInv, WorkerInv
  <1>2. CASE Unpaused
    BY <1>2 DEF Unpaused, IInv, WorkerInv, StatusInv, ThreadInv, PlanInv
  <1>3. QED
    BY <1>1, <1>2

\* A pass that does not solve.
LEMMA NoSolvePreserves ==
  ASSUME IInv, maybe_solve_skips \/ solve_waits_for_bpf \/ worker_joined PROVE IInv'
  BY DEF maybe_solve_skips, solve_waits_for_bpf, worker_joined, IInv, WorkerInv, StatusInv,
         ThreadInv, PlanInv

\* A solve begins with a plan for no thread if it is not valid.
LEMMA ProposePreserves ==
  ASSUME IInv, propose PROVE IInv'
  <1> USE DEF propose
  <1>1. ~outstanding'.valid => outstanding'.planned = NoMasks
    OBVIOUS
  <1>2. WorkerInv'
    BY <1>1 DEF IInv, WorkerInv
  <1>3. StatusInv' /\ ThreadInv' /\ PlanInv'
    BY DEF IInv, StatusInv, ThreadInv, PlanInv
  <1>4. QED
    BY <1>2, <1>3 DEF IInv

\* Shutdown restores everything.
LEMMA FinalPreserves ==
  ASSUME IInv, final_restore PROVE IInv'
  <1> USE DEF final_restore, restore_all
  <1>1. faults' \in Nat
    BY PutBackCounts DEF IInv, ThreadInv
  <1>2. QED
    BY <1>1 DEF IInv, WorkerInv, StatusInv, ThreadInv, PlanInv
-----------------------------------------------------------------------------
(***************************************************************************)
(* The ways out of a solve                                                 *)
(***************************************************************************)
\* A restore that fails inside a solve: the proposal is dropped, solver and status
\* stay as they are.
LEMMA RestoreFailedPreserves ==
  ASSUME IInv, NEW S \in SUBSET Tid, NEW F \in SUBSET Tid, restore(S, F), RestoreFailed,
         ~paused, mode = "active",
         UNCHANGED <<others, exits, current_masks, control, given>>
  PROVE  IInv'
  <1>1. /\ acted_tids' \subseteq acted_tids /\ faults' \in Nat /\ (faults' = 0 => faults = 0)
    BY RestoreShrinks DEF IInv
  <1>2. placement' = placement /\ ~outstanding'.open /\ pc' = "trigger_fatal" /\ next' = "control"
    BY DEF RestoreFailed, discard, NoProposal, CallFatal
  <1>3. WorkerInv' /\ StatusInv'
    BY <1>2 DEF IInv, WorkerInv, StatusInv
  <1>4. ThreadInv' /\ PlanInv'
    BY <1>1, <1>2 DEF IInv, ThreadInv, PlanInv
  <1>5. QED
    BY <1>3, <1>4 DEF IInv

\* A proposal is committed: whatever the new placement is, the status gets it.
LEMMA CommitKeepsStatus ==
  ASSUME IInv, ~paused, UNCHANGED paused, current_masks' = placement', outstanding' = NoProposal, Unlock,
         placement' = [t \in Tid |-> placement'[t]]
  PROVE  WorkerInv' /\ StatusInv'
  <1>1. ~outstanding'.open
    BY DEF NoProposal
  <1>2. QED
    BY <1>1 DEF WorkerInv, StatusInv, Unlock

\* An invalid plan releases every thread that has a place, and so every thread
\* that is pinned.
LEMMA InvalidPreserves ==
  ASSUME IInv, settle_invalid PROVE IInv'
  <1> USE DEF settle_invalid
  <1>0. ~paused /\ outstanding.planned = NoMasks /\ Released(outstanding) \in SUBSET Tid
        /\ Keys(placement) \subseteq Released(outstanding)
    BY DEF IInv, WorkerInv, Released, Keys, NoMasks
  <1>1. PICK F \in SUBSET Tid :
          /\ \/ mode = "active" /\ restore(Released(outstanding), F)
             \/ mode = "plan" /\ F = {} /\ UNCHANGED <<mask, actuator>>
          /\ \/ F # {} /\ RestoreFailed /\ UNCHANGED current_masks
             \/ F = {} /\ commit(outstanding, {}, {}) /\ current_masks' = placement' /\ Unlock
    OBVIOUS
  <1>2. CASE F # {}
    BY <1>0, <1>1, <1>2, RestoreFailedPreserves
  <1>3. CASE F = {}
    <2>1. placement' = [t \in Tid |-> placement'[t]] /\ outstanding' = NoProposal
      BY <1>1, <1>3 DEF commit, Committed
    <2>2. WorkerInv' /\ StatusInv'
      BY <1>0, <1>1, <1>3, <2>1, CommitKeepsStatus
    <2>3. CASE mode = "active"
      <3>1. /\ acted_tids' = acted_tids \ Released(outstanding)
            /\ faults' \in Nat /\ (faults' = 0 => faults = 0)
        BY <1>0, <1>1, <1>3, <2>3, RestoreShrinks DEF IInv
      <3>2. ThreadInv' /\ PlanInv'
        BY <1>0, <3>1 DEF IInv, ThreadInv, PlanInv, Keys
      <3>3. QED
        BY <2>2, <3>2 DEF IInv
    <2>4. CASE mode = "plan"
      <3>1. ThreadInv' /\ PlanInv'
        BY <1>1, <2>4 DEF IInv, ThreadInv, PlanInv
      <3>2. QED
        BY <2>2, <3>1 DEF IInv
    <2>5. QED
      BY <1>1, <2>3, <2>4
  <1>4. QED
    BY <1>2, <1>3

\* A plan that is not confirmed, or that is what there is already.
LEMMA DiscardedPreserves ==
  ASSUME IInv, settle_discarded PROVE IInv'
  <1> USE DEF settle_discarded, discard, Unlock
  <1>1. ~outstanding'.open
    BY DEF NoProposal
  <1>2. ~paused
    BY DEF IInv, WorkerInv
  <1>3. WorkerInv' /\ StatusInv'
    BY <1>1, <1>2 DEF IInv, WorkerInv, StatusInv
  <1>4. ThreadInv' /\ PlanInv'
    BY DEF IInv, ThreadInv, PlanInv
  <1>5. QED
    BY <1>3, <1>4 DEF IInv

\* Plan mode commits without the actuator, which owns nothing.
LEMMA PlanPreserves ==
  ASSUME IInv, settle_plan PROVE IInv'
  <1> USE DEF settle_plan
  <1>1. placement' = [t \in Tid |-> placement'[t]] /\ outstanding' = NoProposal /\ ~paused
    BY DEF commit, Committed, IInv, WorkerInv
  <1>2. WorkerInv' /\ StatusInv'
    BY <1>1, CommitKeepsStatus
  <1>3. ThreadInv' /\ PlanInv'
    BY DEF IInv, ThreadInv, PlanInv
  <1>4. QED
    BY <1>2, <1>3 DEF IInv

\* The release half: after it no owned thread is about to lose its place.
LEMMA ReleasePreserves ==
  ASSUME IInv, settle_release PROVE IInv'
  <1> USE DEF settle_release
  <1>0. ~paused /\ Released(outstanding) \in SUBSET Tid
    BY DEF IInv, WorkerInv, Released, Keys
  <1>1. PICK F \in SUBSET Tid :
          /\ restore(Released(outstanding), F)
          /\ \/ F # {} /\ RestoreFailed
             \/ F = {} /\ pc' = "apply" /\ UNCHANGED <<solver, mutex, next>>
    OBVIOUS
  <1>2. CASE F # {}
    BY <1>0, <1>1, <1>2, RestoreFailedPreserves
  <1>3. CASE F = {}
    <2>1. /\ acted_tids' = acted_tids \ Released(outstanding)
          /\ faults' \in Nat /\ (faults' = 0 => faults = 0)
      BY <1>0, <1>1, <1>3, RestoreShrinks DEF IInv
    <2>2. Released(outstanding)' = Released(outstanding)
      BY <1>1, <1>3 DEF Released, Keys
    <2>3. WorkerInv' /\ StatusInv'
      BY <1>0, <1>1, <1>3, <2>1, <2>2 DEF IInv, WorkerInv, StatusInv
    <2>4. ThreadInv' /\ PlanInv'
      BY <1>1, <1>3, <2>1 DEF IInv, ThreadInv, PlanInv
    <2>5. QED
      BY <2>3, <2>4 DEF IInv
  <1>4. QED
    BY <1>2, <1>3

\* The batch fails: threads that stay pinned are ones that refused a write.
LEMMA ApplyFailsPreserves ==
  ASSUME IInv, apply_fails PROVE IInv'
  <1> USE DEF apply_fails, discard, Unlock
  <1>1. ~outstanding'.open /\ ~paused
    BY DEF NoProposal, IInv, WorkerInv
  <1>2. PICK kept \in SUBSET live : acted_tids' = acted_tids \cup kept /\ faults' = faults + 1 + Cardinality(kept)
    OBVIOUS
  <1>3. Cardinality(kept) \in Nat
    BY <1>2, TidAssumption, FS_Subset, FS_CardinalityType DEF IInv, ThreadInv
  <1>4. WorkerInv' /\ StatusInv'
    BY <1>1 DEF IInv, WorkerInv, StatusInv
  <1>5. ThreadInv' /\ PlanInv'
    <2>1. faults' \in Nat /\ faults' # 0
      BY <1>2, <1>3 DEF IInv, ThreadInv
    <2>2. acted_tids' \subseteq Tid /\ \A t \in acted_tids' : t \in acted_tids \cup live
      BY <1>2 DEF IInv, ThreadInv
    <2>3. ThreadInv'
      BY <2>1, <2>2 DEF IInv, WorkerInv, ThreadInv
    <2>4. QED
      BY <2>1, <2>3 DEF PlanInv
  <1>6. QED
    BY <1>4, <1>5 DEF IInv

\* The batch succeeds: owned threads keep a place, because those that lose it were
\* released, and threads that are new to the record get theirs.
LEMMA ApplySucceedsPreserves ==
  ASSUME IInv, apply_succeeds PROVE IInv'
  <1> USE DEF apply_succeeds
  <1> DEFINE actions == Actions(outstanding)
             committed == actions \cap live
             vanished == actions \ live
  <1>1. /\ ~paused /\ mode = "active" /\ acted_tids \cap Released(outstanding) = {}
        /\ actions \subseteq Keys(outstanding.planned) /\ actions \subseteq Tid
    BY DEF IInv, WorkerInv, Actions, Keys
  <1>2. placement' = [t \in Tid |-> placement'[t]] /\ outstanding' = NoProposal
    BY DEF commit, Committed, Erase
  <1>3. WorkerInv' /\ StatusInv'
    BY <1>1, <1>2, CommitKeepsStatus
  <1>4. ThreadInv'
    BY <1>1 DEF IInv, ThreadInv
  <1>5. ASSUME NEW t \in acted_tids' \cap live', faults' = 0, gen'[t] = 1
        PROVE  placement'[t] # {}
    <2>1. t \in live /\ t \in Tid /\ (t \in acted_tids \/ t \in committed) /\ t \notin vanished
      BY <1>5 DEF IInv, ThreadInv
    <2>2. t \in acted_tids => placement[t] # {} /\ outstanding.planned[t] # {}
      BY <1>1, <1>5, <2>1 DEF IInv, PlanInv, Released, Keys
    <2>3. CASE actions # {} /\ committed = {}
      BY <1>1, <2>1, <2>2, <2>3 DEF Erase, commit
    <2>4. CASE ~(actions # {} /\ committed = {})
      <3>1. placement' = Committed(outstanding, committed, vanished)
        BY <2>4 DEF commit
      <3>2. t \in (Keys(placement) \ vanished) \/ t \in Accepted(outstanding, committed)
        BY <2>1, <2>2 DEF Keys, Accepted
      <3>3. outstanding.planned[t] # {}
        BY <1>1, <2>1, <2>2 DEF Keys
      <3>4. QED
        BY <2>1, <3>1, <3>2, <3>3 DEF Committed
    <2>5. QED
      BY <2>3, <2>4
  <1>6. PlanInv'
    BY <1>5 DEF PlanInv
  <1>7. QED
    BY <1>3, <1>4, <1>6 DEF IInv
-----------------------------------------------------------------------------
(***************************************************************************)
(* The theorems                                                            *)
(***************************************************************************)
\* The worker's invariant holds in every reachable state.
THEOREM Inductive == Spec => []IInv
  <1>1. Init => IInv
    <2> SUFFICES ASSUME Init PROVE IInv
      OBVIOUS
    <2>1. WorkerInv /\ StatusInv
      BY DEF Init, WorkerInv, StatusInv, NoProposal, NoMasks
    <2>2. ThreadInv /\ PlanInv
      <3>1. PICK L \in SUBSET Tid : live = L /\ gen = [t \in Tid |-> IF t \in L THEN 1 ELSE 0]
        BY DEF Init
      <3>2. exits = {} /\ acted_tids = {} /\ faults = 0
        BY DEF Init
      <3>3. gen \in [Tid -> Nat] /\ \A t \in live : gen[t] > 0
        BY <3>1
      <3>4. QED
        BY <3>1, <3>2, <3>3 DEF ThreadInv, PlanInv
    <2>3. QED
      BY <2>1, <2>2 DEF IInv
  <1>2. IInv /\ [Next]_vars => IInv'
    <2> SUFFICES ASSUME IInv, [Next]_vars PROVE IInv'
      OBVIOUS
    <2>1. CASE Target
      BY <2>1, TargetPreserves
    <2>2. CASE Worker
      BY <2>2, ControlPreserves, FatalPreserves, ConsumePreserves, HealthPreserves, SamplePreserves,
         CollectorPreserves, NoSolvePreserves, ProposePreserves, InvalidPreserves, DiscardedPreserves,
         PlanPreserves, ReleasePreserves, ApplyFailsPreserves, ApplySucceedsPreserves, FinalPreserves
      DEF Worker
    <2>3. CASE UNCHANGED vars
      BY <2>3 DEF vars, IInv, WorkerInv, StatusInv, ThreadInv, PlanInv, Released, Keys
    <2>4. QED
      BY <2>1, <2>2, <2>3 DEF Next
  <1>3. QED
    BY <1>1, <1>2, PTL DEF Spec

\* Status and solver have the same plan whenever a command can be served.
THEOREM StatusMirrors == Spec => []StatusMirrorsSolver
  <1>1. IInv => StatusMirrorsSolver
    BY DEF IInv, StatusInv, StatusMirrorsSolver
  <1>2. QED
    BY <1>1, Inductive, PTL

\* No proposal survives its solve, so that propose never throws.
THEOREM ProposalSettled == Spec => []NoStaleProposal
  <1>1. IInv => NoStaleProposal
    BY DEF IInv, WorkerInv, NoStaleProposal
  <1>2. QED
    BY <1>1, Inductive, PTL

\* A paused runtime plans nothing and owns no mask.
THEOREM PauseClean == Spec => []PausedIsClean
  <1>1. IInv => PausedIsClean
    BY DEF IInv, WorkerInv, StatusInv, PausedIsClean
  <1>2. QED
    BY <1>1, Inductive, PTL

\* As long as no write is refused, a thread that the actuator has pinned has a place in
\* the plan.
THEOREM PinnedPlanned == Spec => []PinnedIsPlanned
  <1>1. IInv => PinnedIsPlanned
    BY DEF IInv, PlanInv, PinnedIsPlanned
  <1>2. QED
    BY <1>1, Inductive, PTL
-----------------------------------------------------------------------------
(***************************************************************************)
(* Types                                                                   *)
(***************************************************************************)
Proposal == [open : BOOLEAN, planned : [Tid -> Mask], valid : BOOLEAN, ready : BOOLEAN]

TargetTypes ==
    /\ gen \in [Tid -> 0..MaxGen] /\ live \in SUBSET Tid /\ mask \in [Tid -> Mask]
    /\ parent \in [Tid -> Tid] /\ exits \in SUBSET Tid
SampleTypes ==
    /\ lifecycle \in [Tid -> 0..MaxGen] /\ window \in SUBSET Tid /\ allowed \in [Tid -> Mask]
OwnTypes ==
    /\ DOMAIN restore_masks \in SUBSET Tid /\ \A t \in DOMAIN restore_masks : restore_masks[t] \in Mask
    /\ acted_tids \in SUBSET DOMAIN restore_masks /\ faults \in 0..MaxFaults
PlanTypes ==
    /\ placement \in [Tid -> Mask] /\ current_masks \in [Tid -> Mask] /\ outstanding \in Proposal
FlagTypes ==
    /\ selector_ready \in BOOLEAN /\ paused \in BOOLEAN /\ fatal_error \in BOOLEAN
    /\ stopping \in BOOLEAN /\ mutex \in BOOLEAN /\ sigterm \in BOOLEAN /\ mode \in Modes

Typed == TargetTypes /\ SampleTypes /\ OwnTypes /\ PlanTypes /\ FlagTypes

\* Masks that a plan has no entry in are masks.
LEMMA NoMasksType ==
  /\ NoMasks \in [Tid -> Mask] /\ NoProposal \in Proposal /\ {} \in Mask
  /\ DOMAIN Nothing = {}
  <1>1. NoMasks \in [Tid -> Mask] /\ {} \in Mask /\ DOMAIN Nothing = {}
    BY DEF NoMasks, Mask, Nothing
  <1> HIDE DEF NoMasks
  <1>2. NoProposal \in Proposal
    BY <1>1 DEF NoProposal, Proposal
  <1> QED
    BY <1>1, <1>2

\* What restore and restore_all write back are masks on record, and refused writes
\* stay within their bound.
LEMMA PutBackTypes ==
  ASSUME Typed, NEW S \in SUBSET acted_tids, NEW F, PutBack(S, F)
  PROVE  mask' \in [Tid -> Mask] /\ faults' \in 0..MaxFaults /\ F \subseteq S
  <1> DEFINE empty == {t \in S \cap live : restore_masks[t] = {}}
  <1>1. /\ F \subseteq S \cap live /\ faults + Cardinality(F \ empty) <= MaxFaults
        /\ faults' = faults + Cardinality(F \ empty) /\ mask' = Written(restore_masks, S \ F)
    BY DEF PutBack
  <1> HIDE DEF empty
  <1>2. /\ S \subseteq Tid /\ (\A t \in S : restore_masks[t] \in Mask) /\ mask \in [Tid -> Mask]
        /\ faults \in 0..MaxFaults
    BY DEF Typed, OwnTypes, TargetTypes
  <1>3. Cardinality(F \ empty) \in Nat
    <2>1. F \ empty \subseteq Tid
      BY <1>1, <1>2
    <2> QED
      BY <2>1, TidAssumption, FS_Subset, FS_CardinalityType
  <1>4. faults' \in 0..MaxFaults
    BY <1>1, <1>2, <1>3, BoundAssumption
  <1>5. mask' \in [Tid -> Mask]
    BY <1>1, <1>2 DEF Written
  <1> QED
    BY <1>1, <1>4, <1>5

\* restore_all empties the record.
LEMMA RestoreAllTypes ==
  ASSUME Typed, restore_all
  PROVE  OwnTypes' /\ mask' \in [Tid -> Mask]
  <1>1. PICK F \in SUBSET acted_tids : PutBack(acted_tids, F)
    BY Zenon DEF restore_all
  <1>2. mask' \in [Tid -> Mask] /\ faults' \in 0..MaxFaults
    BY <1>1, PutBackTypes
  <1>3. acted_tids' = {} /\ restore_masks' = Nothing
    BY Zenon DEF restore_all
  <1>4. DOMAIN restore_masks' = {}
    BY <1>3, NoMasksType, Zenon
  <1> QED
    BY <1>2, <1>3, <1>4 DEF OwnTypes

\* pause leaves nothing but the masks it put back.
LEMMA PauseTypes ==
  ASSUME Typed, pause
  PROVE  /\ OwnTypes' /\ mask' \in [Tid -> Mask] /\ PlanTypes'
         /\ paused' \in BOOLEAN /\ selector_ready' \in BOOLEAN
  <1>1. /\ restore_all /\ paused' = TRUE /\ selector_ready' = FALSE /\ current_masks' = NoMasks
        /\ placement' = NoMasks /\ outstanding' = NoProposal
    BY Zenon DEF pause, ResetSolver
  <1>2. PlanTypes'
    BY <1>1, NoMasksType, Zenon DEF PlanTypes
  <1> QED
    BY <1>1, <1>2, RestoreAllTypes, Zenon

\* restore takes TIDs off the record, and the masks with them.
LEMMA RestoreTypes ==
  ASSUME Typed, NEW S, NEW F, restore(S, F)
  PROVE  OwnTypes' /\ mask' \in [Tid -> Mask]
  <1> DEFINE done == (S \cap acted_tids) \ F
             kept == DOMAIN restore_masks \ done
  <1>1. PutBack(S \cap acted_tids, F) /\ acted_tids' = acted_tids \ done
        /\ restore_masks' = Restrict(restore_masks, kept)
    BY Zenon DEF restore
  <1>2. mask' \in [Tid -> Mask] /\ faults' \in 0..MaxFaults
    BY <1>1, PutBackTypes
  <1>3. /\ DOMAIN restore_masks \in SUBSET Tid /\ (\A t \in DOMAIN restore_masks : restore_masks[t] \in Mask)
        /\ acted_tids \in SUBSET DOMAIN restore_masks
    BY Zenon DEF Typed, OwnTypes
  <1>4. DOMAIN restore_masks' = kept /\ \A t \in kept : restore_masks'[t] = restore_masks[t]
    BY <1>1 DEF Restrict
  <1>5. acted_tids' \in SUBSET kept
    BY <1>1, <1>3
  <1>6. kept \in SUBSET Tid /\ \A t \in kept : restore_masks[t] \in Mask
    BY <1>3
  <1> HIDE DEF kept
  <1> QED
    BY <1>2, <1>4, <1>5, <1>6, Zenon DEF OwnTypes

\* A batch saves the masks of the threads it visits.
LEMMA SavedTypes ==
  ASSUME Typed, NEW S \in SUBSET Tid
  PROVE  /\ DOMAIN Saved(S) = S \cup DOMAIN restore_masks /\ DOMAIN Saved(S) \in SUBSET Tid
         /\ \A t \in DOMAIN Saved(S) : Saved(S)[t] \in Mask
  <1>1. /\ DOMAIN restore_masks \in SUBSET Tid /\ (\A t \in DOMAIN restore_masks : restore_masks[t] \in Mask)
        /\ mask \in [Tid -> Mask]
    BY Zenon DEF Typed, OwnTypes, TargetTypes
  <1> QED
    BY <1>1 DEF Saved

\* The masks that note_inherited_mask records are masks: a parent's comes from the
\* record or, in the end, from a sample.
LEMMA InheritedTypes ==
  ASSUME Typed, NEW fresh \in SUBSET Tid
  PROVE  /\ DOMAIN InheritedMask(fresh) = DOMAIN restore_masks \cup fresh
         /\ \A t \in DOMAIN InheritedMask(fresh) : InheritedMask(fresh)[t] \in Mask
  <1> DEFINE noted == DOMAIN restore_masks
             known(t) == parent[t] \in noted
             later(t) == parent[t] \in fresh /\ parent[t] < t
             body(h) == [t \in Tid |-> IF t \in noted THEN restore_masks[t]
                                       ELSE IF known(t) \/ later(t) THEN h[parent[t]] ELSE mask[t]]
             inherit == CHOOSE h : h = body(h)
             up == {t \in Tid \ noted : ~known(t) /\ later(t)}
             base == [t \in Tid |-> IF t \in noted THEN restore_masks[t]
                                    ELSE IF known(t) THEN restore_masks[parent[t]] ELSE mask[t]]
  <1>1. InheritedMask(fresh) = [t \in noted \cup fresh |-> inherit[t]]
    BY DEF InheritedMask
  <1>2. /\ noted \in SUBSET Tid /\ (\A t \in noted : restore_masks[t] \in Mask)
        /\ mask \in [Tid -> Mask] /\ parent \in [Tid -> Tid]
    BY Zenon DEF Typed, OwnTypes, TargetTypes
  <1>3. PICK b \in Nat : Tid \in SUBSET (0..b)
    <2>1. PICK b \in Nat : \A t \in Tid : t <= b
      BY TidAssumption, FiniteIsBounded
    <2> QED
      BY <2>1, TidAssumption
  <1>4. base \in [Tid -> Mask]
    BY <1>2
  <1>5. up \in SUBSET Tid /\ \A t \in up : parent[t] \in Tid /\ parent[t] < t
    BY <1>2
  <1>6. ASSUME NEW h, Copied(h, Tid, up, parent, base), h \in [Tid -> Mask]
        PROVE  h = body(h)
    <2>1. \A t \in Tid : h[t] = IF t \in up THEN h[parent[t]] ELSE base[t]
      BY <1>6 DEF Copied
    <2>2. \A t \in noted : t \in Tid /\ t \notin up /\ base[t] = restore_masks[t]
      BY <1>2
    <2>3. \A t \in noted : h[t] = restore_masks[t]
      BY <2>1, <2>2
    <2>4. \A t \in Tid : h[t] = body(h)[t]
      <3> TAKE t \in Tid
      <3>1. CASE t \in noted
        BY <2>3, <3>1
      <3>2. CASE t \notin noted /\ known(t)
        BY <2>1, <2>3, <3>2
      <3>3. CASE t \notin noted /\ ~known(t)
        BY <2>1, <3>3
      <3> QED
        BY <3>1, <3>2, <3>3
    <2> QED
      BY <1>6, <2>4
  <1>7. ASSUME NEW h, h = body(h)
        PROVE  Copied(h, Tid, up, parent, base)
    <2>1. \A t \in Tid : h[t] = IF t \in noted THEN restore_masks[t]
                                ELSE IF known(t) \/ later(t) THEN h[parent[t]] ELSE mask[t]
      BY <1>7
    <2>2. \A t \in noted : h[t] = restore_masks[t]
      BY <1>2, <2>1
    <2>3. ASSUME NEW t \in Tid
          PROVE  h[t] = IF t \in up THEN h[parent[t]] ELSE base[t]
      <3>1. CASE t \in noted
        BY <2>2, <3>1
      <3>2. CASE t \notin noted /\ known(t)
        BY <2>1, <2>2, <3>2
      <3>3. CASE t \notin noted /\ ~known(t)
        BY <2>1, <3>3
      <3> QED
        BY <3>1, <3>2, <3>3
    <2> QED
      BY <2>3 DEF Copied
  <1> HIDE DEF body, up, base
  <1>8. \E h \in [Tid -> Mask] : Copied(h, Tid, up, parent, base)
    BY <1>3, <1>4, <1>5, CopyExists, Zenon
  <1>9. inherit = body(inherit)
    BY <1>6, <1>8, Zenon
  <1> HIDE DEF inherit
  <1>10. Copied(inherit, Tid, up, parent, base)
    BY <1>7, <1>9, Zenon
  <1>11. \A t \in Tid : base[t] \in Mask
    BY <1>4
  <1>12. \A t \in Tid : inherit[t] \in Mask
    BY <1>3, <1>5, <1>10, <1>11, CopyTyped, Zenon
  <1>13. \A t \in noted \cup fresh : inherit[t] \in Mask
    BY <1>2, <1>12
  <1> HIDE DEF noted
  <1> QED
    BY <1>1, <1>13 DEF noted

\* Threads start and exit, and shutdown begins.
LEMMA TargetTyped ==
  ASSUME Typed, Target
  PROVE  Typed'
  <1>1. ASSUME NEW t \in Tid, ThreadExit(t)
        PROVE  Typed'
    <2>1. /\ live' = live \ {t} /\ mask' = [mask EXCEPT ![t] = {}] /\ exits' = exits \cup {t}
          /\ gen' = gen /\ parent' = parent
      BY <1>1, Zenon DEF ThreadExit
    <2>2. TargetTypes
      BY Zenon DEF Typed
    <2>3. TargetTypes'
      BY <2>1, <2>2, NoMasksType DEF TargetTypes
    <2>4. SampleTypes' /\ OwnTypes' /\ PlanTypes' /\ FlagTypes'
      BY <1>1, Zenon DEF ThreadExit, Typed, SampleTypes, OwnTypes, PlanTypes, FlagTypes
    <2> QED
      BY <2>3, <2>4 DEF Typed
  <1>2. ASSUME NEW t \in Tid, NEW p \in Tid, ThreadStart(t, p)
        PROVE  Typed'
    <2>1. /\ live' = live \cup {t} /\ mask' = [mask EXCEPT ![t] = mask[p]] /\ exits' = exits
          /\ gen[t] < MaxGen /\ gen' = [gen EXCEPT ![t] = gen[t] + 1]
      BY <1>2, Zenon DEF ThreadStart
    <2>2. PICK q \in {p, Main} : parent' = [parent EXCEPT ![t] = q]
      BY <1>2, Zenon DEF ThreadStart
    <2>3. TargetTypes
      BY Zenon DEF Typed
    <2>4. gen' \in [Tid -> 0..MaxGen]
      <3>1. gen \in [Tid -> 0..MaxGen]
        BY <2>3, Zenon DEF TargetTypes
      <3>2. gen[t] + 1 \in 0..MaxGen
        BY <2>1, <3>1, BoundAssumption
      <3> QED
        BY <2>1, <3>1, <3>2
    <2>5. parent' \in [Tid -> Tid]
      BY <2>2, <2>3, TidAssumption DEF TargetTypes
    <2>6. live' \in SUBSET Tid /\ mask' \in [Tid -> Mask] /\ exits' \in SUBSET Tid
      BY <2>1, <2>3 DEF TargetTypes
    <2>7. SampleTypes' /\ OwnTypes' /\ PlanTypes' /\ FlagTypes'
      BY <1>2, Zenon DEF ThreadStart, Typed, SampleTypes, OwnTypes, PlanTypes, FlagTypes
    <2> QED
      BY <2>4, <2>5, <2>6, <2>7 DEF Typed, TargetTypes
  <1>3. CASE Stop
    BY <1>3, Zenon DEF Stop, Typed, TargetTypes, SampleTypes, OwnTypes, PlanTypes, FlagTypes
  <1> QED
    BY <1>1, <1>2, <1>3, Zenon DEF Target

\* A pause, or none: a command, a hard failure, a collector that fails.
LEMMA PauseTyped ==
  ASSUME Typed, UNCHANGED <<others, exits, lifecycle, graph, given, mutex>>,
         fatal_error' \in BOOLEAN, sigterm' \in BOOLEAN,
         \/ pause
         \/ paused' \in BOOLEAN /\ UNCHANGED <<mask, actuator, solver, status>>
  PROVE  Typed'
  <1>1. SampleTypes'
    BY Zenon DEF Typed, SampleTypes
  <1>2. CASE pause
    <2>1. /\ OwnTypes' /\ mask' \in [Tid -> Mask] /\ PlanTypes'
          /\ paused' \in BOOLEAN /\ selector_ready' \in BOOLEAN
      BY <1>2, PauseTypes
    <2>2. TargetTypes' /\ FlagTypes'
      BY <2>1, Zenon DEF Typed, TargetTypes, FlagTypes
    <2> QED
      BY <1>1, <2>1, <2>2 DEF Typed
  <1>3. CASE paused' \in BOOLEAN /\ UNCHANGED <<mask, actuator, solver, status>>
    BY <1>1, <1>3, Zenon DEF Typed, TargetTypes, OwnTypes, PlanTypes, FlagTypes
  <1> QED
    BY <1>2, <1>3

\* Commands, hard failures and collector failures keep the types.
LEMMA ControlTyped ==
  ASSUME Typed, service_control_socket \/ trigger_fatal \/ collector_failure
  PROVE  Typed'
  <1>0. paused \in BOOLEAN /\ fatal_error \in BOOLEAN /\ sigterm \in BOOLEAN
    BY Zenon DEF Typed, FlagTypes
  <1>1. /\ UNCHANGED <<others, exits, lifecycle, graph, given, mutex>>
    BY Zenon DEF service_control_socket, trigger_fatal, collector_failure
  <1>2. fatal_error' \in BOOLEAN /\ sigterm' \in BOOLEAN
    BY <1>0, Zenon DEF service_control_socket, trigger_fatal, collector_failure, Kill
  <1>3. \/ pause
        \/ paused' \in BOOLEAN /\ UNCHANGED <<mask, actuator, solver, status>>
    BY <1>0, Zenon DEF service_control_socket, trigger_fatal, collector_failure, Unpaused
  <1> QED
    BY <1>1, <1>2, <1>3, PauseTyped

\* Threads that are gone leave the plan.
LEMMA RemoveTypes ==
  ASSUME Typed, NEW S, RemoveThreads(S), outstanding' = outstanding
  PROVE  PlanTypes'
  <1>1. PlanTypes
    BY Zenon DEF Typed
  <1>2. current_masks' = Erase(current_masks, S) /\ placement' = Erase(placement, S)
    BY Zenon DEF RemoveThreads
  <1>3. current_masks' \in [Tid -> Mask] /\ placement' \in [Tid -> Mask]
    BY <1>1, <1>2, NoMasksType DEF Erase, PlanTypes
  <1> QED
    BY <1>1, <1>3, Zenon DEF PlanTypes

\* Exits that are delivered keep the types.
LEMMA ConsumeTyped ==
  ASSUME Typed, consume_pending_bpf
  PROVE  Typed'
  <1>1. PICK delivered \in SUBSET exits :
          /\ exits' = exits \ delivered
          /\ lifecycle' = [t \in Tid |-> IF t \in delivered THEN 0 ELSE lifecycle[t]]
          /\ RemoveThreads(delivered)
    BY Zenon DEF consume_pending_bpf
  <1>2. UNCHANGED <<target, graph, actuator, outstanding, selector_ready, control, given, mutex>>
    BY Zenon DEF consume_pending_bpf
  <1>3. exits' \in SUBSET Tid
    BY <1>1 DEF Typed, TargetTypes
  <1>4. lifecycle' \in [Tid -> 0..MaxGen]
    <2>1. lifecycle \in [Tid -> 0..MaxGen] /\ 0 \in 0..MaxGen
      BY BoundAssumption DEF Typed, SampleTypes
    <2> QED
      BY <1>1, <2>1
  <1>5. PlanTypes'
    BY <1>1, <1>2, RemoveTypes
  <1> QED
    BY <1>2, <1>3, <1>4, <1>5, Zenon DEF Typed, TargetTypes, SampleTypes, OwnTypes, FlagTypes

\* Steps that leave the tables alone.
LEMMA NoSolveTyped ==
  ASSUME Typed, sample_bpf_health \/ maybe_solve_skips \/ solve_waits_for_bpf \/ worker_joined
  PROVE  Typed'
  <1>1. /\ UNCHANGED <<target, exits, lifecycle, graph, actuator, solver, current_masks, control, given, mutex>>
        /\ selector_ready' \in {selector_ready, FALSE}
    BY Zenon DEF sample_bpf_health, maybe_solve_skips, solve_waits_for_bpf, worker_joined
  <1>2. selector_ready' \in BOOLEAN
    BY <1>1, Zenon DEF Typed, FlagTypes
  <1> QED
    BY <1>1, <1>2, Zenon DEF Typed, TargetTypes, SampleTypes, OwnTypes, PlanTypes, FlagTypes

\* A sample records generations, masks and, for fresh threads, what they inherited.
LEMMA SampleTyped ==
  ASSUME Typed, reconcile_and_sample
  PROVE  Typed'
  <1>1. UNCHANGED <<target, exits, acted_tids, faults, outstanding, selector_ready, control, given, mutex>>
    BY Zenon DEF reconcile_and_sample
  <1> DEFINE Seen(torn) == live \cup torn
             Fresh(seen) == {t \in seen : lifecycle[t] # gen[t]}
             Gone(seen) == {t \in Tid \ seen : lifecycle[t] # 0}
             Does(torn, expired) ==
               /\ window' = (window \ expired) \cup Seen(torn)
               /\ allowed' = [t \in Tid |-> IF t \in Seen(torn) THEN mask[t]
                                            ELSE IF t \in window' THEN allowed[t] ELSE {}]
               /\ restore_masks' = InheritedMask(Fresh(Seen(torn)))
               /\ RemoveThreads(Gone(Seen(torn)))
               /\ lifecycle' = [t \in Tid |-> IF t \in Seen(torn) THEN gen[t] ELSE 0]
  <1>2. \E torn \in SUBSET (exits \ live), expired \in SUBSET (window \ live) : Does(torn, expired)
    BY Zenon DEF reconcile_and_sample
  <1> HIDE DEF Does
  <1>3. PICK torn \in SUBSET (exits \ live), expired \in SUBSET (window \ live) : Does(torn, expired)
    BY <1>2, Zenon
  <1> DEFINE seen == Seen(torn)
             fresh == Fresh(seen)
             gone == Gone(seen)
  <1>4. /\ window' = (window \ expired) \cup seen
        /\ allowed' = [t \in Tid |-> IF t \in seen THEN mask[t]
                                     ELSE IF t \in window' THEN allowed[t] ELSE {}]
        /\ restore_masks' = InheritedMask(fresh) /\ RemoveThreads(gone)
        /\ lifecycle' = [t \in Tid |-> IF t \in seen THEN gen[t] ELSE 0]
    BY <1>3, Zenon DEF Does
  <1>5. seen \in SUBSET Tid /\ fresh \in SUBSET Tid
    BY DEF Typed, TargetTypes
  <1> HIDE DEF seen, fresh, gone
  <1>6. /\ gen \in [Tid -> 0..MaxGen] /\ mask \in [Tid -> Mask] /\ window \in SUBSET Tid
        /\ allowed \in [Tid -> Mask]
    BY Zenon DEF Typed, TargetTypes, SampleTypes
  <1>7. SampleTypes'
    <2>1. window' \in SUBSET Tid
      BY <1>4, <1>5, <1>6
    <2>2. allowed' \in [Tid -> Mask]
      BY <1>4, <1>6, NoMasksType
    <2>3. 0 \in 0..MaxGen
      BY BoundAssumption
    <2>4. lifecycle' \in [Tid -> 0..MaxGen]
      BY <1>4, <1>6, <2>3
    <2> QED
      BY <2>1, <2>2, <2>4, Zenon DEF SampleTypes
  <1>8. OwnTypes'
    <2>1. /\ DOMAIN restore_masks' = DOMAIN restore_masks \cup fresh
          /\ \A t \in DOMAIN restore_masks' : restore_masks'[t] \in Mask
      BY <1>4, <1>5, InheritedTypes, Zenon
    <2>2. /\ DOMAIN restore_masks \in SUBSET Tid /\ acted_tids \in SUBSET DOMAIN restore_masks
          /\ faults \in 0..MaxFaults
      BY Zenon DEF Typed, OwnTypes
    <2>3. DOMAIN restore_masks' \in SUBSET Tid /\ acted_tids' \in SUBSET DOMAIN restore_masks'
      BY <1>1, <1>5, <2>1, <2>2
    <2> QED
      BY <1>1, <2>1, <2>2, <2>3, Zenon DEF OwnTypes
  <1>9. PlanTypes'
    BY <1>1, <1>4, RemoveTypes, Zenon
  <1> QED
    BY <1>1, <1>7, <1>8, <1>9, Zenon DEF Typed, TargetTypes, FlagTypes

\* A proposal plans masks.
LEMMA ProposeTyped ==
  ASSUME Typed, propose
  PROVE  Typed'
  <1>1. mutex' = TRUE /\ UNCHANGED <<target, exits, lifecycle, graph, actuator, placement, status, control, given>>
    BY Zenon DEF propose
  <1>2. PICK domain \in [Tid -> Domains \cup {{}}], valid \in BOOLEAN, ready \in BOOLEAN :
          outstanding' = [open |-> TRUE, valid |-> valid, ready |-> ready,
                          planned |-> IF valid THEN [t \in Tid |-> domain[t] \cap allowed[t]] ELSE NoMasks]
    BY Zenon DEF propose
  <1> DEFINE cut == [t \in Tid |-> domain[t] \cap allowed[t]]
             planned == IF valid THEN cut ELSE NoMasks
  <1>3. cut \in [Tid -> Mask]
    <2>1. allowed \in [Tid -> Mask]
      BY Zenon DEF Typed, SampleTypes
    <2> QED
      BY <2>1 DEF Mask
  <1> HIDE DEF cut
  <1>4. planned \in [Tid -> Mask]
    BY <1>3, NoMasksType, Zenon
  <1>5. outstanding' = [open |-> TRUE, valid |-> valid, ready |-> ready, planned |-> planned]
    BY <1>2, Zenon DEF cut
  <1> HIDE DEF planned
  <1>6. outstanding' \in Proposal
    BY <1>4, <1>5 DEF Proposal
  <1> QED
    BY <1>1, <1>6, Zenon DEF Typed, TargetTypes, SampleTypes, OwnTypes, PlanTypes, FlagTypes

\* What a commit leaves in the placement.
LEMMA CommitTypes ==
  ASSUME Typed, NEW S, NEW gone, commit(outstanding, S, gone)
  PROVE  placement' \in [Tid -> Mask] /\ outstanding' \in Proposal
  <1>1. placement' = Committed(outstanding, S, gone) /\ outstanding' = NoProposal
    BY Zenon DEF commit
  <1>2. outstanding.planned \in [Tid -> Mask]
    BY DEF Typed, PlanTypes, Proposal
  <1>3. placement' \in [Tid -> Mask]
    BY <1>1, <1>2, NoMasksType DEF Committed
  <1> QED
    BY <1>1, <1>3, NoMasksType, Zenon

\* A settled proposal: whatever its way out, the tables keep their types.
LEMMA SettledTyped ==
  ASSUME Typed, UNCHANGED <<others, exits, lifecycle, graph, control, given>>,
         OwnTypes', mask' \in [Tid -> Mask], PlanTypes', selector_ready' \in BOOLEAN, mutex' \in BOOLEAN
  PROVE  Typed'
  BY Zenon DEF Typed, TargetTypes, SampleTypes, FlagTypes

\* An invalid plan, with a restore that works or fails.
LEMMA InvalidTyped ==
  ASSUME Typed, settle_invalid
  PROVE  Typed'
  <1>1. UNCHANGED <<others, exits, lifecycle, graph, control, given>> /\ selector_ready' = FALSE
    BY Zenon DEF settle_invalid
  <1>2. PICK F \in SUBSET Tid :
          /\ \/ mode = "active" /\ restore(Released(outstanding), F)
             \/ mode = "plan" /\ F = {} /\ UNCHANGED <<mask, actuator>>
          /\ \/ F # {} /\ RestoreFailed /\ UNCHANGED current_masks
             \/ F = {} /\ commit(outstanding, {}, {}) /\ current_masks' = placement' /\ Unlock
    BY Zenon DEF settle_invalid
  <1>3. OwnTypes' /\ mask' \in [Tid -> Mask]
    <2>1. CASE restore(Released(outstanding), F)
      BY <2>1, RestoreTypes
    <2>2. CASE UNCHANGED <<mask, actuator>>
      BY <2>2, Zenon DEF Typed, OwnTypes, TargetTypes
    <2> QED
      BY <1>2, <2>1, <2>2, Zenon
  <1>4. PlanTypes' /\ mutex' \in BOOLEAN
    <2>1. CASE RestoreFailed /\ UNCHANGED current_masks
      <3>1. /\ outstanding' = NoProposal /\ placement' = placement /\ mutex' = mutex
            /\ current_masks' = current_masks
        BY <2>1, Zenon DEF RestoreFailed, discard
      <3> QED
        BY <3>1, NoMasksType, Zenon DEF Typed, PlanTypes, FlagTypes
    <2>2. CASE commit(outstanding, {}, {}) /\ current_masks' = placement' /\ Unlock
      <3>1. placement' \in [Tid -> Mask] /\ outstanding' \in Proposal
        BY <2>2, CommitTypes, Zenon
      <3> QED
        BY <2>2, <3>1, Zenon DEF PlanTypes, Unlock
    <2> QED
      BY <1>2, <2>1, <2>2, Zenon
  <1> QED
    BY <1>1, <1>3, <1>4, SettledTyped, Zenon

\* A plan that is dropped, or committed in plan mode.
LEMMA DiscardedTyped ==
  ASSUME Typed, settle_discarded \/ settle_plan
  PROVE  Typed'
  <1>1. CASE settle_discarded
    <2>1. /\ UNCHANGED <<target, exits, lifecycle, graph, actuator, current_masks, control, given>>
          /\ outstanding' = NoProposal /\ placement' = placement /\ mutex' = FALSE
      BY <1>1, Zenon DEF settle_discarded, discard, Unlock
    <2>2. selector_ready' = (outstanding.ready \/ Keys(placement) # {})
      BY <1>1, Zenon DEF settle_discarded
    <2>3. selector_ready' \in BOOLEAN
      BY <2>2
    <2>4. PlanTypes'
      BY <2>1, NoMasksType, Zenon DEF Typed, PlanTypes
    <2> QED
      BY <2>1, <2>3, <2>4, Zenon DEF Typed, TargetTypes, SampleTypes, OwnTypes, FlagTypes
  <1>2. CASE settle_plan
    <2>1. /\ UNCHANGED <<target, exits, lifecycle, graph, actuator, control, given>>
          /\ selector_ready' = TRUE /\ mutex' = FALSE
          /\ commit(outstanding, {}, {}) /\ current_masks' = placement'
      BY <1>2, Zenon DEF settle_plan, Unlock
    <2>2. placement' \in [Tid -> Mask] /\ outstanding' \in Proposal
      BY <2>1, CommitTypes, Zenon
    <2> QED
      BY <2>1, <2>2, Zenon DEF Typed, TargetTypes, SampleTypes, OwnTypes, PlanTypes, FlagTypes
  <1> QED
    BY <1>1, <1>2

\* The release half of a solve.
LEMMA ReleaseTyped ==
  ASSUME Typed, settle_release
  PROVE  Typed'
  <1>1. /\ UNCHANGED <<others, exits, lifecycle, graph, current_masks, control, given>>
        /\ selector_ready' = TRUE
    BY Zenon DEF settle_release
  <1>2. PICK F \in SUBSET Tid :
          /\ restore(Released(outstanding), F)
          /\ \/ F # {} /\ RestoreFailed
             \/ F = {} /\ pc' = "apply" /\ UNCHANGED <<solver, mutex, next>>
    BY Zenon DEF settle_release
  <1>3. OwnTypes' /\ mask' \in [Tid -> Mask]
    BY <1>2, RestoreTypes, Zenon
  <1>4. placement' = placement /\ outstanding' \in {outstanding, NoProposal} /\ mutex' = mutex
    BY <1>2, Zenon DEF RestoreFailed, discard
  <1>5. outstanding' \in Proposal
    BY <1>4, NoMasksType, Zenon DEF Typed, PlanTypes
  <1>6. PlanTypes' /\ mutex' \in BOOLEAN
    BY <1>1, <1>4, <1>5, Zenon DEF Typed, PlanTypes, FlagTypes
  <1> QED
    BY <1>1, <1>3, <1>6, SettledTyped, Zenon

\* The masks that a batch leaves behind.
LEMMA WrittenTypes ==
  ASSUME Typed, NEW S
  PROVE  Written(outstanding.planned, S) \in [Tid -> Mask]
  <1>1. outstanding.planned \in [Tid -> Mask] /\ mask \in [Tid -> Mask]
    BY DEF Typed, PlanTypes, Proposal, TargetTypes
  <1> QED
    BY <1>1 DEF Written

\* A batch takes ownership only of threads it has visited.
LEMMA OwnedTypes ==
  ASSUME Typed, NEW visited \in SUBSET Tid, NEW kept \in SUBSET visited,
         acted_tids' = acted_tids \cup kept, restore_masks' = Saved(visited), faults' \in 0..MaxFaults
  PROVE  OwnTypes'
  <1>1. /\ DOMAIN restore_masks' = visited \cup DOMAIN restore_masks /\ DOMAIN restore_masks' \in SUBSET Tid
        /\ \A t \in DOMAIN restore_masks' : restore_masks'[t] \in Mask
    BY SavedTypes, Zenon
  <1>2. acted_tids \in SUBSET DOMAIN restore_masks
    BY Zenon DEF Typed, OwnTypes
  <1>3. acted_tids' \in SUBSET DOMAIN restore_masks'
    BY <1>1, <1>2
  <1> QED
    BY <1>1, <1>3, Zenon DEF OwnTypes

\* A batch that fails part of the way.
LEMMA ApplyFailsTyped ==
  ASSUME Typed, apply_fails
  PROVE  Typed'
  <1>1. /\ UNCHANGED <<others, exits, lifecycle, graph, status, control, given>>
        /\ outstanding' = NoProposal /\ placement' = placement /\ mutex' = FALSE
    BY Zenon DEF apply_fails, discard, Unlock
  <1> DEFINE upto(t) == {u \in Actions(outstanding) : u <= t}
  <1>2. PICK t \in Actions(outstanding) \cap live : \E kept \in SUBSET ((upto(t) \cap live) \ {t}) :
              /\ faults + 1 + Cardinality(kept) <= MaxFaults
              /\ faults' = faults + 1 + Cardinality(kept)
              /\ mask' = Written(outstanding.planned, kept)
              /\ acted_tids' = acted_tids \cup kept
              /\ restore_masks' = Saved(upto(t))
    BY Zenon DEF apply_fails
  <1>3. PICK kept \in SUBSET ((upto(t) \cap live) \ {t}) :
              /\ faults + 1 + Cardinality(kept) <= MaxFaults
              /\ faults' = faults + 1 + Cardinality(kept)
              /\ mask' = Written(outstanding.planned, kept)
              /\ acted_tids' = acted_tids \cup kept
              /\ restore_masks' = Saved(upto(t))
    BY <1>2, Zenon
  <1>4. upto(t) \in SUBSET Tid /\ kept \in SUBSET upto(t)
    BY DEF Actions, Keys
  <1> HIDE DEF upto
  <1>5. faults' \in 0..MaxFaults
    <2>1. kept \subseteq Tid
      BY <1>4
    <2>2. Cardinality(kept) \in Nat
      BY <2>1, TidAssumption, FS_Subset, FS_CardinalityType
    <2>3. faults \in 0..MaxFaults
      BY Zenon DEF Typed, OwnTypes
    <2> QED
      BY <1>3, <2>2, <2>3, BoundAssumption
  <1>6. OwnTypes'
    BY <1>3, <1>4, <1>5, OwnedTypes, Zenon
  <1>7. mask' \in [Tid -> Mask]
    BY <1>3, WrittenTypes, Zenon
  <1>8. PlanTypes' /\ selector_ready' \in BOOLEAN /\ mutex' \in BOOLEAN
    BY <1>1, NoMasksType, Zenon DEF Typed, PlanTypes, FlagTypes
  <1> QED
    BY <1>1, <1>6, <1>7, <1>8, SettledTyped, Zenon

\* A batch that succeeds, for the threads that still exist.
LEMMA ApplySucceedsTyped ==
  ASSUME Typed, apply_succeeds
  PROVE  Typed'
  <1> DEFINE actions == Actions(outstanding)
             committed == actions \cap live
             vanished == actions \ live
  <1>1. /\ UNCHANGED <<others, exits, lifecycle, graph, faults, selector_ready, control, given>>
        /\ mutex' = FALSE /\ current_masks' = placement'
        /\ mask' = Written(outstanding.planned, committed) /\ acted_tids' = acted_tids \cup committed
        /\ restore_masks' = Saved(actions)
        /\ \/ /\ placement' = Erase(placement, vanished \cup Released(outstanding))
              /\ outstanding' = NoProposal
           \/ commit(outstanding, committed, vanished)
    BY Zenon DEF apply_succeeds, Unlock
  <1>2. actions \in SUBSET Tid /\ committed \in SUBSET actions
    BY DEF Actions, Keys
  <1> HIDE DEF actions, committed, vanished
  <1>3. mask' \in [Tid -> Mask]
    BY <1>1, WrittenTypes, Zenon
  <1>4. faults' \in 0..MaxFaults /\ selector_ready' \in BOOLEAN
    BY <1>1, Zenon DEF Typed, OwnTypes, FlagTypes
  <1>5. OwnTypes'
    BY <1>1, <1>2, <1>4, OwnedTypes, Zenon
  <1>6. placement' \in [Tid -> Mask] /\ outstanding' \in Proposal
    <2>1. CASE /\ placement' = Erase(placement, vanished \cup Released(outstanding))
               /\ outstanding' = NoProposal
      <3>1. placement \in [Tid -> Mask]
        BY Zenon DEF Typed, PlanTypes
      <3> QED
        BY <2>1, <3>1, NoMasksType DEF Erase
    <2>2. CASE commit(outstanding, committed, vanished)
      BY <2>2, CommitTypes, Zenon
    <2> QED
      BY <1>1, <2>1, <2>2, Zenon
  <1>7. PlanTypes' /\ mutex' \in BOOLEAN
    BY <1>1, <1>6, Zenon DEF PlanTypes
  <1> QED
    BY <1>1, <1>3, <1>4, <1>5, <1>7, SettledTyped, Zenon

\* The last restore_all.
LEMMA FinalTyped ==
  ASSUME Typed, final_restore
  PROVE  Typed'
  <1>1. /\ restore_all
        /\ UNCHANGED <<others, exits, lifecycle, graph, solver, status, control, given, mutex>>
    BY Zenon DEF final_restore
  <1>2. OwnTypes' /\ mask' \in [Tid -> Mask]
    BY <1>1, RestoreAllTypes, Zenon
  <1>3. PlanTypes' /\ selector_ready' \in BOOLEAN /\ mutex' \in BOOLEAN
    BY <1>1, Zenon DEF Typed, PlanTypes, FlagTypes
  <1> QED
    BY <1>1, <1>2, <1>3, SettledTyped, Zenon

\* The runtime starts with empty tables.
LEMMA InitTyped ==
  ASSUME Init
  PROVE  Typed
  <1>1. PICK L \in SUBSET Tid : /\ live = L /\ gen = [t \in Tid |-> IF t \in L THEN 1 ELSE 0]
                               /\ mask = [t \in Tid |-> IF t \in L THEN Node ELSE {}]
    BY Zenon DEF Init
  <1>2. /\ parent = [t \in Tid |-> Main] /\ exits = {} /\ lifecycle = [t \in Tid |-> 0] /\ window = {}
        /\ allowed = NoMasks /\ restore_masks = Nothing /\ acted_tids = {} /\ faults = 0
        /\ placement = NoMasks /\ outstanding = NoProposal /\ mode \in Modes /\ current_masks = NoMasks
    BY Zenon DEF Init
  <1>3. 0 \in 0..MaxGen /\ 1 \in 0..MaxGen /\ 0 \in 0..MaxFaults
    BY BoundAssumption
  <1>4. TargetTypes
    BY <1>1, <1>2, <1>3, TidAssumption DEF TargetTypes, Mask
  <1>5. SampleTypes
    BY <1>2, <1>3, NoMasksType DEF SampleTypes
  <1>6. OwnTypes
    <2>1. DOMAIN restore_masks = {}
      BY <1>2, NoMasksType, Zenon
    <2> QED
      BY <1>2, <1>3, <2>1 DEF OwnTypes
  <1>7. PlanTypes
    BY <1>2, NoMasksType, Zenon DEF PlanTypes
  <1>8. FlagTypes
    BY Zenon DEF Init, FlagTypes
  <1> QED
    BY <1>4, <1>5, <1>6, <1>7, <1>8 DEF Typed

\* Every table of the runtime keeps its type, whatever the target does between two
\* steps of the worker: masks are sets of nodes, the inherited ones included, owned
\* threads have a mask on record, and refused writes stay within their bound.
THEOREM TypeCorrect == Spec => []TypeOK
  <1>1. Init => Typed
    BY InitTyped
  <1>2. Typed /\ [Next]_vars => Typed'
    <2> SUFFICES ASSUME Typed, [Next]_vars
                 PROVE  Typed'
      OBVIOUS
    <2>1. CASE Target
      BY <2>1, TargetTyped
    <2>2. CASE Worker
      BY <2>2, ControlTyped, ConsumeTyped, NoSolveTyped, SampleTyped, ProposeTyped, InvalidTyped,
         DiscardedTyped, ReleaseTyped, ApplyFailsTyped, ApplySucceedsTyped, FinalTyped, Zenon DEF Worker
    <2>3. CASE UNCHANGED vars
      BY <2>3, Zenon DEF vars, Typed, TargetTypes, SampleTypes, OwnTypes, PlanTypes, FlagTypes
    <2> QED
      BY <2>1, <2>2, <2>3, Zenon DEF Next
  <1>3. Typed => TypeOK
    <2> SUFFICES ASSUME Typed
                 PROVE  TypeOK
      OBVIOUS
    <2>1. {selector_ready, paused, fatal_error, stopping, mutex, sigterm} \subseteq BOOLEAN
      BY Zenon DEF Typed, FlagTypes
    <2> QED
      BY <2>1 DEF Typed, TargetTypes, SampleTypes, OwnTypes, PlanTypes, FlagTypes, Proposal, TypeOK
  <1> QED
    BY <1>1, <1>2, <1>3, PTL DEF Spec
=============================================================================
