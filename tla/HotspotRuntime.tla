--------------------------- MODULE HotspotRuntime ---------------------------
(***************************************************************************)
(* The runtime's worker with the incremental-hotspot-v1 selector: the      *)
(* incremental branch of maybe_solve in src/runtime.cpp, and the handlers  *)
(* that share its state.                                                   *)
(*                                                                         *)
(* A solve window settles the cohort of managed threads, asks the solver   *)
(* for a batch of singleton pins, and carries it out.  The target runs on  *)
(* between the proposal and the batch; commands, exit events and samples   *)
(* come between windows.                                                   *)
(*                                                                         *)
(* A thread's identity is how many threads have had its TID.  Mask 0 is no *)
(* pin: module Actuator has what mask a restored thread gets, masks the    *)
(* application sets, and writes that fail during a rollback.               *)
(***************************************************************************)
EXTENDS IncrementalSolver

CONSTANTS Modes,              \* subset of {"plan", "active"}
          Limits,             \* values of maximum_threads_per_cpu
          MaxGen,             \* bound: threads per TID
          Disturbances        \* bound: how many exits, starts, pauses and refused writes there
                              \* may be, by the configuration and the number of threads at the start

ASSUME ConfigAssumption == Modes \subseteq {"plan", "active"} /\ Limits \subseteq Nat
ASSUME BoundAssumption ==
    MaxGen \in Nat \ {0} /\ Disturbances \in [Modes -> [Limits -> [1..Cardinality(Tid) -> Nat]]]

VARIABLES
  \* config_
  mode, maximum_threads_per_cpu,
  \* the target (external)
  gen, live, mask,
  disturbances,     \* how many are left
  \* events and samples
  exits,            \* TIDs with an EXIT event that is not yet consumed
  window,           \* [Tid -> 0..MaxGen]: the thread graph_ has for the TID
  \* actuator_ and solver_
  acted_tids, solver,
  outstanding,      \* the delta of the proposal that is to be carried out
  \* members of Runtime
  active_cohort, current_plan, paused,
  pc                \* "idle", "act", "failed" (the target is sent SIGTERM) or
                    \* "terminated" (an exception has left the worker)

config == <<mode, maximum_threads_per_cpu>>
threads == <<gen, live>>
graph == <<exits, window>>
status == <<active_cohort, current_plan>>
vars == <<config, threads, mask, disturbances, graph, acted_tids, solver, outstanding, status, paused, pc>>

Init ==
    /\ mode \in Modes /\ maximum_threads_per_cpu \in Limits
    /\ live \in (SUBSET Tid) \ {{}} /\ gen = [t \in Tid |-> IF t \in live THEN 1 ELSE 0] /\ mask = None
    /\ disturbances = Disturbances[mode][maximum_threads_per_cpu][Cardinality(live)]
    /\ exits = {} /\ window = None
    /\ acted_tids = {} /\ solver = Reset /\ outstanding = None
    /\ active_cohort = {} /\ current_plan = None /\ paused = FALSE
    /\ pc = "idle"

Disturb == disturbances > 0 /\ disturbances' = disturbances - 1
-----------------------------------------------------------------------------
(***************************************************************************)
(* The target                                                              *)
(***************************************************************************)
ThreadExit(t) ==
    /\ Disturb /\ t \in live
    /\ live' = live \ {t} /\ mask' = [mask EXCEPT ![t] = 0] /\ exits' = exits \cup {t}
    /\ UNCHANGED <<config, gen, window, acted_tids, solver, outstanding, status, paused, pc>>

\* A clone runs under its creator's mask.
ThreadStart(t, p) ==
    /\ Disturb /\ t \notin live /\ p \in live /\ gen[t] < MaxGen
    /\ gen' = [gen EXCEPT ![t] = @ + 1]
    /\ live' = live \cup {t} /\ mask' = [mask EXCEPT ![t] = mask[p]]
    /\ UNCHANGED <<config, graph, acted_tids, solver, outstanding, status, paused, pc>>
-----------------------------------------------------------------------------
(***************************************************************************)
(* Between windows                                                         *)
(***************************************************************************)
thread_exited(t) ==
    /\ pc = "idle" /\ t \in exits /\ exits' = exits \ {t}
    /\ current_plan' = Without(current_plan, {t}) /\ active_cohort' = active_cohort \ {t}
    /\ solver' = remove_threads(solver, {t})
    /\ UNCHANGED <<config, threads, mask, disturbances, window, acted_tids, outstanding, paused, pc>>

\* Threads that are gone stay in the graph until their samples are too old.
reconcile_and_sample(aged) ==
    /\ pc = "idle" /\ live # {}
    /\ window' = [t \in Tid |-> IF t \in live THEN gen[t] ELSE IF t \in aged THEN 0 ELSE window[t]]
    /\ current_plan' = Without(current_plan, Tid \ live)
    /\ UNCHANGED <<config, threads, mask, disturbances, exits, acted_tids, solver, outstanding,
                   active_cohort, paused, pc>>

\* restore_all forgets also the threads whose write is refused.
pause(refused) ==
    /\ Disturb /\ pc = "idle"
    /\ mask' = Without(mask, acted_tids \ refused) /\ acted_tids' = {}
    /\ paused' = TRUE /\ current_plan' = None /\ active_cohort' = {} /\ solver' = Reset
    /\ UNCHANGED <<config, threads, graph, outstanding, pc>>

resume ==
    /\ pc = "idle" /\ paused /\ paused' = FALSE
    /\ UNCHANGED <<config, threads, mask, disturbances, graph, acted_tids, solver, outstanding, status, pc>>
-----------------------------------------------------------------------------
(***************************************************************************)
(* The solve window                                                        *)
(***************************************************************************)
\* Mutant: a thread that cools off keeps its pin.
CoolingPinsKept(next) == {}

\* The pins of threads that leave the cohort.
CoolingPins(next) == IF mode = "active" THEN (active_cohort \ next) \cap acted_tids ELSE {}

\* A write is refused: SIGTERM to the target, where the model ends.  Nothing is paused.
CohortRestoreFails(next, refused) ==
    /\ Disturb /\ pc = "idle" /\ ~paused /\ refused # {}
    /\ mask' = Without(mask, CoolingPins(next) \ refused)
    /\ acted_tids' = acted_tids \ (CoolingPins(next) \ refused)
    /\ pc' = "failed"
    /\ UNCHANGED <<config, threads, graph, solver, outstanding, status, paused>>

\* The cohort becomes next, whom select_managed_threads takes.
SettleCohort(next) ==
    /\ pc = "idle" /\ ~paused
    /\ mask' = Without(mask, CoolingPins(next)) /\ acted_tids' = acted_tids \ CoolingPins(next)
    /\ current_plan' = Without(current_plan, active_cohort \ next) /\ active_cohort' = next
    /\ UNCHANGED <<config, threads, disturbances, graph, paused>>

Settled(next) ==
    IF next = {} /\ active_cohort # {} THEN Reset
    ELSE remove_threads(Elapsed(solver), active_cohort \ next)

\* Nothing is proposed for no threads, or while the collector is not healthy.
QuietWindow(next) ==
    /\ SettleCohort(next) /\ solver' = Settled(next) /\ UNCHANGED <<outstanding, pc>>

SolveWindow(next) ==
    /\ SettleCohort(next) /\ next # {}
    /\ \E r \in propose(Settled(next), Without(window, Tid \ next), maximum_threads_per_cpu) :
         /\ solver' = r.solver /\ outstanding' = r.delta
         /\ pc' = IF r.thrown THEN "terminated" ELSE IF r.delta = None THEN "idle" ELSE "act"

WindowEnds == pc' = "idle" /\ outstanding' = None
Unplaced == {t \in Keys(outstanding) : solver.placement[t] = 0}

ShadowCommit ==
    /\ pc = "act" /\ mode = "plan" /\ WindowEnds
    /\ \E still \in SUBSET Unplaced : solver' = commit(solver, outstanding, {}, still)
    /\ current_plan' = solver'.placement
    /\ UNCHANGED <<config, threads, mask, disturbances, graph, acted_tids, active_cohort, paused>>

\* Mutant: a batch that was rolled back is committed.
ApplyFailsCommitted ==
    /\ Disturb /\ pc = "act" /\ mode = "active" /\ Keys(outstanding) \cap live # {} /\ WindowEnds
    /\ solver' = commit(solver, outstanding, {}, {})
    /\ UNCHANGED <<config, threads, mask, graph, acted_tids, status, paused>>

\* A refused write: the batch is rolled back and the proposal discarded.
ApplyFails ==
    /\ Disturb /\ pc = "act" /\ mode = "active" /\ Keys(outstanding) \cap live # {} /\ WindowEnds
    /\ UNCHANGED <<config, threads, mask, graph, acted_tids, solver, status, paused>>

\* Threads that are gone by now leave the solver; if any are left they are committed.
Settle(committed, still) ==
    LET s == remove_threads(solver, Keys(outstanding) \ committed)
    IN IF committed = {} THEN s ELSE commit(s, outstanding, committed, still)

Apply ==
    /\ pc = "act" /\ mode = "active" /\ WindowEnds
    /\ LET committed == Keys(outstanding) \cap live
       IN /\ mask' = [t \in Tid |-> IF t \in committed THEN outstanding[t] ELSE mask[t]]
          /\ acted_tids' = acted_tids \cup committed
          /\ \E still \in SUBSET Unplaced : solver' = Settle(committed, still)
    /\ current_plan' = solver'.placement
    /\ UNCHANGED <<config, threads, disturbances, graph, active_cohort, paused>>
-----------------------------------------------------------------------------
Next ==
    \/ \E t \in Tid : ThreadExit(t) \/ thread_exited(t)
    \/ \E t, p \in Tid : ThreadStart(t, p)
    \/ \E aged \in SUBSET (Keys(window) \ live) : reconcile_and_sample(aged)
    \/ \E refused \in SUBSET (acted_tids \cap live) : pause(refused)
    \/ resume
    \/ \E next \in SUBSET Keys(window) :
         \/ \E refused \in SUBSET (CoolingPins(next) \cap live) : CohortRestoreFails(next, refused)
         \/ QuietWindow(next) \/ SolveWindow(next)
    \/ ShadowCommit \/ ApplyFails \/ Apply

Spec == Init /\ [][Next]_vars
-----------------------------------------------------------------------------
(***************************************************************************)
(* Properties                                                              *)
(***************************************************************************)
\* Every variable has its type; the solver aims, places and delays only threads
\* that it knows.
TypeOK ==
    /\ mode \in Modes /\ maximum_threads_per_cpu \in Limits
    /\ gen \in [Tid -> 0..MaxGen] /\ mask \in [Tid -> Cpu \cup {0}]
    /\ {live, exits, acted_tids, active_cohort} \subseteq SUBSET Tid
    /\ window \in [Tid -> 0..MaxGen] /\ disturbances \in Nat
    /\ {outstanding, current_plan, solver.placement, solver.targets} \subseteq [Tid -> Cpu \cup {0}]
    /\ {solver.identities, solver.candidate} \subseteq [Tid -> 0..MaxGen]
    /\ solver.wait \in [Tid -> 0..Dwell] /\ solver.confirmation \in 0..InitialConfirmations
    /\ solver.phase \in {"uninitialized", "planning", "pinning", "optimizing"}
    /\ \A f \in {solver.placement, solver.targets, solver.wait} : Keys(f) \subseteq Keys(solver.identities)
    /\ {solver.replan, paused} \subseteq BOOLEAN /\ solver.population \in 0..Cardinality(Tid)
    /\ pc \in {"idle", "act", "failed", "terminated"}

\* Between windows, in active mode, what the solver remembers is what the kernel
\* has: a living thread whose identity and CPU it knows runs under that pin; and the
\* plan that the status reports for a thread, unless its TID was used again, is the
\* solver's.  Batches that are rolled back, threads that vanish under a batch and
\* TIDs that are used again come between the two.
PlacementIsBacked ==
    pc = "idle" /\ mode = "active" =>
      \A t \in live :
        /\ solver.identities[t] = gen[t] /\ solver.placement[t] # 0 => mask[t] = solver.placement[t]
        /\ gen[t] = 1 /\ current_plan[t] # 0 => current_plan[t] = solver.placement[t]

\* Between windows, every pin the actuator holds belongs to a thread of the cohort
\* that the solver has placed, so that cooling, or the next window, will see it;
\* unless a restore was refused, or the thread's TID was used before (the EXIT event
\* of its predecessor may come late and takes it out of the cohort).
PinnedIsManaged ==
    pc = "idle" =>
      \A t \in acted_tids \cap live :
        gen[t] = 1 => t \in active_cohort /\ solver.placement[t] # 0

Cap(s) == cpu_slot_cap(maximum_threads_per_cpu, Size(s))

\* No committed batch makes a CPU fuller than the slot cap that it was not before
\* ("the slot cap [is] an invariant after every commit"), also if only part of the
\* batch was carried out; and propose gives up only on a cohort that no placement
\* fits, so never when the cap follows the cohort.
SlotsAreKept ==
    [][/\ pc = "act" => SlotViolation(solver'.placement, Cap(solver)) <= SlotViolation(solver.placement, Cap(solver))
       /\ pc' = "terminated" => Size(solver') > Cap(solver') * Cardinality(Cpu)]_vars
=============================================================================
