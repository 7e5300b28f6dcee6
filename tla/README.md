# AffinityGraph: TLA+ models and proofs

AffinityGraph starts a program under supervision, watches its threads with BPF
programs and `/proc`, and, in *active* mode, pins them to CPUs or NUMA nodes
with `sched_setaffinity`. What it must get right is hard to test: it shares the
masks with a target that goes on creating and losing threads, it must be able to
take back everything it has done, and a handful of tables have to agree
although different handlers write them.

This directory models that part of the system. Paths below are relative to the
repository; line numbers refer to the files under `src/`, `bpf/` and `docs/`.

## The system and its modules

| Part | Code | Module |
| --- | --- | --- |
| Actuator: batches of masks, rollback, restore | `src/actuator.cpp` | `Actuator`, abstract: `AffinityLedger`; proofs: `ActuatorProofs` |
| Worker thread with the numa-domain-v1 selector | `src/runtime.cpp` | `DomainRuntime`; proofs: `DomainRuntimeProofs` |
| numa-domain-v1 selector | `src/domain_solver.cpp` | `DomainSolver`; proofs: `DomainSolverProofs` |
| Worker thread with the incremental-hotspot-v1 selector | `src/runtime.cpp` | `HotspotRuntime`; proofs: `HotspotRuntimeProofs` |
| incremental-hotspot-v1 selector | `src/solver.cpp`, class `IncrementalSolver` | `IncrementalSolver` (operators, used by `HotspotRuntime`); proofs: `HotspotRuntimeProofs` |
| Watch over the BPF collector | `src/runtime.cpp`, `run_bpf`, `sample_bpf_health` | `BpfHealth`; proofs: `BpfHealthProofs` |
| Task events, from tracepoint to thread table | `bpf/affinitygraph.bpf.c`, `src/bpf_reader.cpp`, `src/runtime.cpp` | `EventPipeline`; proofs: `EventPipelineProofs`, `EventBatchProofs` |
| affinity-run: fork, barrier, signals, reaping | `src/affinity_run.cpp` | `Supervisor`; proofs: `SupervisorProofs` |

`MCActuator` and `MCHotspotRuntime` hold the constants of two finite instances;
the others get theirs in the `.cfg` files.

How the parts interact: affinity-run forks the target and keeps it behind a
barrier until BPF tracks it, then creates the `Runtime`. The Runtime has two
threads. The BPF thread drains the ring into a bounded queue and samples the
health counters. The worker loops: serve the control socket, take the queue,
judge the health, sample `/proc`, solve. A solve asks the configured selector
for a proposal and carries it out through the actuator. The modules cut this
where the interfaces are narrow. `Actuator` has an arbitrary caller.
`DomainRuntime` and `HotspotRuntime` make an actuator call one step with an
outcome that `Actuator` allows. `DomainSolver` takes a window's evidence as input
and `DomainRuntime` takes any set of domains. `EventPipeline` has the table that
the workers start from.

### Actuator and AffinityLedger

`Actuator` goes system call by system call. An operation (`apply`, `restore`,
`restore_all`, `note_application_mask`, `note_inherited_mask`) opens a frame: `pc`
is the loop it is in, `todo` the TIDs left to visit, `completed`,
`previous_masks`, `previously_acted` and `vanished` are `apply`'s locals.
`backend.set` is two steps (`SetWrites`/`SetFails`, then `ReadBack`), and between any two
steps a thread may exit, a clone may take its TID or inherit a mask, and the
application may set masks itself. The kernel may refuse a write or narrow it to
a cpuset. `touched` and `pin` are history variables.

`AffinityLedger` is what a caller may rely on: each TID has at most one baseline
(the mask to give back); a batch never replaces a baseline; the policy owns only
TIDs with a baseline. The mapping is `baseline <- restore_masks`,
`owned <- acted_tids`, `busy <- pc # "idle"`.

### DomainRuntime

One iteration of the worker is the cycle control → consume → health → sample →
solve of `pc`. `service_control_socket`, `consume_pending_bpf`,
`sample_bpf_health`, `reconcile_and_sample`, `collector_failure`, `propose`, the
`settle_*` and `apply_*` actions (one per way out of `solve_numa_domains`),
`trigger_fatal`, `pause` and the destructor's `worker_joined` and `final_restore`
are the code's functions. `mutex` is `mutex_`: not recursive, so `trigger_fatal`
has it free as a guard. (A second lock by the owner is formally undefined for
`std::mutex`; in the glibc build that the repository targets it blocks for ever,
and that is what is modelled.) Masks are sets of NUMA nodes; `gen` counts how
many threads have had a TID.

### DomainSolver

The selector's memory: confirmations of families and of merges, grace of
pending merges, expand/shrink confirmations, node decisions, dwell times, the
plan's signature and confirmations. Each `propose` takes a window of evidence
as its input: which families are seen, cohesive, or qualify for a merge, how
many nodes a domain needs, and whether the demand is clear of the hysteresis
band. A family stands for its one thread. Counters stop at their thresholds and
ages at `Dwell`, since the code only compares them with these. `last`, `streak`
and `quiet` are history variables.

### HotspotRuntime and IncrementalSolver

`IncrementalSolver` is the class as a record with operators: `Reset`,
`remove_threads`, `propose` (as the set of its possible results), `commit`. Phases,
confirmations, dwell, budgets, slot caps, the repair of a batch that does not
fit, and the selection of moves and swaps are the code's; which CPU a thread is
aimed at and which moves look good are choices, because the code decides them
with floating-point objectives. `HotspotRuntime` is the worker around it: the
cohort settles (`SettleCohort`, `CohortRestoreFails`), the solver proposes
(`SolveWindow`), the target runs on, the batch is carried out (`Apply`,
`ApplyFails`, `ShadowCommit`), and exits, samples, `pause` and `resume` come
between windows. `Apply` pins by TID, as the code does: a TID used again between
proposal and batch is pinned.

### BpfHealth

Two threads share a bounded queue of samples and the time of the last one. Each
reads the clock before it takes the lock, so `ReadHealth`/`QueueSample` and
`LoopTop`/`TakeSamples` are separate steps. Differences of times are taken modulo
`Wrap`, as for `uint64_t`. `GetStuck` hangs the BPF thread.

### EventPipeline

The kernel's tasks (`on_fork`, `on_exec`, `on_exit`, `Reap`,
`on_sched_setaffinity`, and tasks that have nothing to do with the target), the
`pids` map, the ring, the queue, and the worker's `consume_pending_bpf`,
`read_proc` and `reconcile_and_sample`. The snapshot of `/proc` and its use are
two steps. `consume_pending_bpf` goes over the batch twice (`Pass`): forks,
execs and masks in their order, then exits, as the code does. Simplifications: a
leader exits last; only a single-threaded process calls exec; a
`sched_setaffinity` call and its report are one step.

### Supervisor

`supervise()` from `load_object` to the last `waitpid`, the forked child
(`ChildSetup`, `ChildRead`, `ChildExec`), the two pipes with their writers, the
signal handler, SIGKILL at any moment (`Crash`), and a target that forks, orphans
its children and leaves its process group.

## What the runs check

Each passing run also checks its module's type invariant; each property has a
mutation of a modelled definition that breaks it (the definitions marked
*Mutant*, next to the one they replace).

| Run | States | Shows |
| --- | --- | --- |
| `actuator` | 1.8 M | `ActedHasRestoreMask`: `restore_masks_.at` never throws. `RollbackIsComplete`, `CommitIsExact`, `RestoreAllIsExact`: what a batch or a restore reports is what happened. `PolicyPinIsRecorded`: no verified pin is off the record. `ImplementsLedger`: refinement. |
| `domain_runtime` | 2.8 M | `StatusMirrorsSolver`, `NoStaleProposal`, `PausedIsClean`, `PinnedIsPlanned`: solver, status and actuator agree on every path. |
| `domain_runtime_live` | 0.32 M | With a kernel that refuses no write, `HardFailureFollows` and `ShutdownCompletes`. |
| `domain_solver` | 0.12 M | `OneDomainPerFamily`, `PlanIsConfirmed`, `PendingMergeWaits`, `PlacementIsCommitted`, `NodesShrinkSlowly`. |
| `hotspot_runtime` | 0.08 M | `PlacementIsBacked`: what the solver remembers is what the kernel has. `PinnedIsManaged`: no pin is forgotten. `SlotsAreKept`: no commit makes a CPU fuller than the cap that was not, and `propose` throws only for a cohort that fits nowhere. |
| `bpf_health` | 0.79 M | `StallAlarmIsTrue`, `StallIsFatal`: no false alarm, no missed stall. `WindowIsTight`: the loss ratio is over thirty seconds. |
| `event_pipeline` | 3.1 M | `OnlyTargetsReport`, `EventsAreAccounted`, `TableFollowsProc`, `DescendantsAreTargets`, `ApplicationMaskIsKept`. |
| `supervisor` | 0.29 M | `TrackedBeforeExec`, `NoTargetWithoutSupervisor`, `ReturnIsTargets`, and the liveness properties `BarrierEnds`, `TermEndsRun`. |

Four runs have a counterexample, where the code does not do what its
documentation or comments say:

* `actuator_inherited`, `RestorationIsComplete`. A thread cloned from a pinned one
  inherits the pin but is not in `acted_tids_`; it keeps the pin after a
  `restore_all` that reports no failure (`src/actuator.cpp:120`). A thread that
  `note_inherited_mask` has met has a saved mask and is still not visited.
* `domain_runtime_deadlock`, `HardFailureFollows`. A refused restore inside a
  solve calls `trigger_fatal`, which locks `mutex_` while `maybe_solve` holds it:
  no SIGTERM, and the destructor's join does not return (`src/runtime.cpp:1188`).
  The comment at `src/actuator.cpp:116` asks for a hard failure.
* `domain_runtime_status`, `StatusIsBacked`. When the release half of a solve
  succeeds and the batch fails, the proposal is discarded with the released
  threads still in `placement_` and `current_masks_` (`src/runtime.cpp:1286`),
  which the comment at `src/domain_solver.cpp:651` rules out.
* `domain_solver_mask`, `MaskIsDomains`. A plan is intersected with the mask each
  thread was sampled under, which for a pinned thread is the pin: a committed
  expansion never reaches the threads (`src/runtime.cpp:1329`,
  `docs/architecture.md:45`).

### Bounds, and why they are enough

* `actuator`: two TIDs, three CPUs, one refused or narrowed write, two steps of
  the target. Two TIDs make a batch with a written and a failing member, and a
  clone of a pinned thread; three CPUs let a cpuset narrow a pin to something
  else than pin or baseline; one fault starts a rollback, and target steps let
  the rollback meet an exit and a reused TID. The proofs lift all of these bounds.
* `domain_runtime`: two threads, two nodes, one domain, each TID used twice, one
  refused write; plan and active mode. The paths of a solve distinguish none,
  some and all of a batch. In the three other runs each TID is used once, which
  is enough for what they ask.
* `domain_solver`: two families (merge, split, and a domain held beside a
  candidate need two), thresholds of 2 where the code asks for several, a shrink
  that needs 2, dwell 2. The same properties held with dwell 3 (286,000 states).
  Three families are needed for one more behaviour: see the observations.
* `hotspot_runtime`: three threads, two CPUs (so that the cap, 2 when it follows
  the cohort, can be exceeded and repaired), a fixed cap of 1 and the dynamic
  one, the shipped confirmations (1 for the plan, 2 for a move), ratios of two
  thirds, so that pinning takes two batches. How many exits, starts, pauses and
  refused writes there are depends on configuration and size. In active mode it is
  one with one thread, one or (with the fixed cap) two with two threads, none with
  three; two are enough for a TID to be used again. TIDs and CPUs are symmetric.
  The same properties held with two also under the dynamic cap (201,000 states), and
  then with `InitialConfirmations = 2` (347,000), with
  `MaxPotentials = 2` (653,000), and with `Dwell = 2` and one more disturbance
  (651,000); these take longer than the run kept here.
* `bpf_health`: spans of two periods, a clock up to 5, a queue of 2. The queue
  overflows, the window fills and slides, and `Wrap` is larger than every honest
  difference, so that a wrapped one is recognised.
* `event_pipeline`: two ids, three tasks, one exec, two mask calls, ring and queue
  of 2. Ids are reused by the target and by strangers; both buffers overflow.
  The model stops at the first hard failure.
* `supervisor`: the child and two descendants, two attempts, two signals.

`domain_runtime*`, `event_pipeline`, `supervisor` and `hotspot_runtime` may stop:
the worker is joined, the model ends at a hard failure, affinity-run returns, or
an exception has ended the worker. They do not check for deadlock. The others do.

### Fairness

* `BpfHealth`: weak fairness of the clock and of the worker, whose loop sleeps at
  most a fixed time. None of the BPF thread: that it may hang is the point.
* `DomainRuntime`: weak fairness of the worker, a thread that the kernel
  schedules and that makes no call that waits for the target. None of the
  target or the commands.
* `Supervisor`: weak fairness of affinity-run and of the child before exec. None
  of the target, which may run for ever.

## What is proved

The theorems hold for every value of the constants that satisfies the named
assumptions of the modules; TLC evaluates those assumptions on the runs'
instances.

### ActuatorProofs

`Inductive` shows `IInv`, from which the others follow: `TypeCorrect`,
`ActedIsRestorable`, `RollbackComplete`, `CommitExact`, `RestoreAllExact` and
`PinRecorded` (each for the property of that name in the run), and
`ActuatorImplementsLedger`, the refinement.

None of the properties is inductive by itself. That `acted_tids_` has saved masks
(`ActedHasRestoreMask`) must also hold for the TID whose write is pending:
`CallInLoop` says with which arguments `backend.set` can be pending in which loop,
`CallOutcome` what a finished call says about the thread. `RollbackIsComplete`
speaks of the moment of return; `RollbackInv` is the loop invariant behind it
(every completed TID is waiting, pending, failed, or back), as `BatchInv` is for
`CommitIsExact` and `RestoreAllInv` for `RestoreAllIsExact`. `DeadThreads` connects
a thread's death with the history variables, `LoopTodo` and `FrameInv` say what the
locals are outside of their loops. `Inductive` has one lemma per group of
actions, and under it one step per conjunct that the group can disturb.

`OperationsTerminate` shows `OperationsEnd`: every step of an operation decreases
the lexicographic rank (loop, TIDs left, system calls left), and no step of the
target increases it, so that an operation over any number of threads takes
finitely many steps. That an operation is never stuck on the way is left to TLC:
in the run `actuator`, where target steps are bounded and no new operation can
start inside one, it would be a deadlock.

Assumptions: masks are sets of CPUs, `NoMask` is none of them, bounds are naturals.

### DomainRuntimeProofs

`StatusMirrors`, `ProposalSettled`, `PauseClean` and `PinnedPlanned` show the
four properties of the run `domain_runtime`. The invariant behind them has four
parts. `WorkerInv`: inside a solve (`settle`, `apply`) the worker holds `mutex_` and is
not paused; outside, no proposal is open; before the batch is applied, whoever
the proposal releases has been restored. `StatusInv`: `current_masks_` is the
solver's placement, and both are empty when paused. `ThreadInv` and `PlanInv` carry
`PinnedIsPlanned` through a solve, where the plan changes in two steps.
`PinnedIsPlanned` speaks of TIDs used once: the late EXIT of a TID's former user
takes its next user out of the plan (see the observations), so that the
stronger statement is false.

`TypeCorrect` shows the type invariant. Its hard part is `InheritedMask`, which
follows a fresh thread's parents to one with a mask on record: that there is one mask
at the end of each chain is an induction over the TIDs (`CopyExists` and `CopyTyped`).

Assumptions: TIDs are a finite set of naturals with the main thread in it,
domains are not empty, modes are the code's, there is at least one generation.

### EventPipelineProofs

`OnlyTargets`, `EventsAccounted` and `TableExact`. The first is the interesting
one: entries of the `pids` map are never deleted, and ids are used again.
`KernelInv` says that generations never come back, that a live task's leader is
live, and that a process is the target's with all of its threads or not at all;
`PidsInv`, that an entry equal to its id's present generation belongs to the
target, and that an entry without one is the root's before its exec.
`TrackedIsOurs` puts them together: who passes `tracked_task` is the target's.
`RecordInv` adds up ring, queue and overflow.

The second half of the module is about what the worker knows. It looks at the
*stream*: the queue followed by the ring, that is, the records that no handler has
seen, in the order of their events. Draining a batch leaves the stream as it is
(`DrainKeepsStream`); a step of the kernel leaves it alone or adds one record at its
end, and `Shown` lists the five ways in which the target's tasks can change with that
record (`ForkShown`, `ExecShown`, ...). `StreamInv` then says, as long as nothing is
lost:

* `TargetInv`: a live task of the target has its fork in the stream, or its
  process is one the sampler visits;
* `MasksInv`, `ExitsInv`: what must follow a mask or an exit in the stream. A mask is
  for the present user of its id, with no fork after it, or its exit follows; an
  exit of an id that is in use again is followed by the fork of the new user;
* `PendingInv`: a mask that waits for its thread is for the present user of the
  id, whom the next sample will have, or its exit is still to come;
* `MaskInv`: the last mask that the application asked for is in the stream, with
  neither a fork nor an exit after it, or it is recorded or waiting and nothing
  in the stream will change that.

Neither `DescendantsAreTargets` nor `ApplicationMaskIsKept` is inductive without
these: they speak of the moments when everything is handled, and say nothing of
the records under way. TLC has checked `StreamInv` on the instance of the run.

Assumptions: the root is a task id; ring, queue, tasks and execs have limits of
at least one.

### EventBatchProofs

What `consume_pending_bpf` makes of a batch of any length. `PassExists` shows that
the recursive function of a pass is defined, `FirstPass`, `FirstPassKeeps` and
`SecondPass` what holds after its n-th record, each by induction over the queue:
targets and thread records are only added; a mask is recorded for a thread that
has a record and waits otherwise; only an exit takes a waiting mask away.
`BatchFacts` puts the two passes together, and with it `ConsumeStream` carries
`StreamInv` over the step. The theorems: `TypeCorrect`; `StreamAccounts`, the invariant
itself; `DescendantsStayTargets` and `ApplicationMaskStays`, which follow from it when
the stream is empty.

### BpfHealthProofs

`TypeCorrect`, `WindowStaysTight` and the action property `StallAlarmHolds`. Times are
unsigned, so everything rests on differences being taken the right way round.
`OrderInv` says that samples and their counters are in order from the read through
queue and worker to the window, whatever the queue drops. `ClockInv`: the worker's
clock reading may be older than the newest sample, but then that sample is in
the queue, and the age of the last one is not judged. `WindowInv` says where the
window starts, and that `ready` is about the present window. `FailInv` bounds the
counter of failures: a failed read is counted once.

Assumptions: spans and limits are positive, `Wrap` is larger than every honest
difference, the clock can reach 1.

### DomainSolverProofs

`TypeCorrect`, `OneDomain`, `PlanStaysConfirmed`, `PendingMergeHolds`, `PlacementHolds`
and the action property `NodesShrinkLate`. `OneDomainPerFamily` is the one that needs
most: candidates are the components of the confirmed pairs, hence disjoint, and
the loop over committed domains replaces what a held one overlaps; that the
result is disjoint after any number of rounds is an induction over the loop.
`ProposalInv` adds that masks planned or placed lie on the nodes of a domain of the
same plan, which is what a commit hands over. `HistoryInv` identifies the history
variables with what the solver remembers. `NodesInv` connects the recorded nodes
with the committed domains; an open proposal that takes nodes away was made after
the dwell, and nothing changes the age before it is settled.

Assumptions: there are families, finitely many, and finitely many nodes; a domain
needs a set of nodes; thresholds and dwell are positive.

### HotspotRuntimeProofs

`TypeCorrect`, `PlacementsAreBacked`, `PinsAreManaged` and the action property `SlotCap`
show the properties of the run `hotspot_runtime`; `UnlimitedNeverTerminates` and
`OptimizingIsComplete` say two things more. `propose` is a set of possible results,
because scores are inputs, so the first half of the module is about every member of
such a set. `Proposal` says what all of them have in common: the solver keeps
`SolverInv` and its placement, the batch is for threads it knows and adds no slot
violation, and it throws only for a cohort larger than all slots. There is a lemma for
each phase: `NodePlanningInv`, `InitialPinningInv`, `OptimizingPhaseInv`. The second
half shows that the steps of the worker keep `IInv`:

* `SolverInv`: the solver aims, places and delays only threads it knows; with a plan
  it aims all of them, once it optimizes all of them are placed. That is
  `OptimizingIsComplete`: `placement_[tid]` never makes up a CPU in a move or a swap;
* `TargetInv`: nothing is on record for a thread that is yet to come, no identity is
  newer than its TID's present user, and an EXIT event still under way for a TID in
  use means that the TID was used before. The plan had to be part of it: without it,
  a thread that starts could find itself planned;
* `CohortInv`: the solver knows threads of the cohort only, and its open batch is for
  threads it knows;
* `BackedInv`, `PinnedInv`: `PlacementIsBacked` and `PinnedIsManaged`, also while a
  batch is out;
* `BatchInv`: the open batch adds no slot violation. A batch of which only a part
  was carried out adds none either (`PartAddsNothing`): its other threads are gone and
  the solver forgets them, so that no CPU gets more than the whole batch would give it.

That `propose` throws only for a cohort larger than all slots is a counting argument:
if every CPU is at the cap, at least as many threads are placed as there are slots
(`FibresFill`), so that in a cohort that fits, a thread still to be placed finds one
(`SomeSlotIsFree`). `RepairExists` places the threads of a batch one after the other, by
induction. With `maximum_threads_per_cpu = 0` the cap is at least the cohort divided by the CPUs,
so that the case never comes. `Crowded` keeps the fact over the steps that the target
takes after the exception.

Assumptions: finitely many TIDs, finitely many CPUs and at least one (the
configuration refuses an empty envelope), 0 stands for no CPU, TIDs are used at
least once, thresholds are naturals and confirmations positive, modes are the code's.

### Induction

The induction theorems of the library take a predicate as a parameter, which the
provers used here cannot instantiate. The modules that need induction state it
about sets instead, in a section of their own: the set of the numbers that have a
property, in `UpToInduction`, and a step of a recursive definition as a function, in
`RecursionExists`. Both come from the well-foundedness of the natural numbers
(`LeastElement`).

### SupervisorProofs

`TypeCorrect`, `TrackedFirst`, `NoOrphan` and `ReturnExact`. `BarrierInv` connects
how far `supervise` is with what the child may do. `ReturnIsTargets` needs an
argument about trees: `waitpid` says ECHILD when the supervisor has no child,
while the property is about all descendants. `TreeInv` says that whoever is there
has a running parent or is the supervisor's, and that no set of processes is
closed under "parent", so that one process at least is the supervisor's child.

Assumptions: the child is none of the descendants, affinity-run none of either.

## What is only model-checked

* Liveness (`HardFailureFollows`, `ShutdownCompletes`, `StallIsFatal`, `BarrierEnds`,
  `TermEndsRun`): the prover has neither fairness nor ENABLED.
* The four properties with a counterexample, which are false.

## Observations

Behaviour met while modelling, most of which no document of the repository rules
out; none of it is a finding of a run.

Selectors:

* `src/solver.cpp:1122` and `:945` throw out of `propose`, and nothing on the way to
  the worker's thread function catches: the process ends with its pins in place.
  `SlotsAreKept` shows that the first needs a cohort that does not fit. The second is
  not modelled.
* The comment at `src/solver.cpp:1094` calls the slot cap an invariant. With the
  dynamic cap it is one of the commit: when the cohort shrinks, so does the cap,
  and a CPU may be above it until a move changes that.
* `src/solver.cpp:729` leaves the pinning phase without clearing
  `replan_existing_threads_`. `stable_hotspot_replan_pending_` is never set to true,
  so that lines 757-771 are not reached.
* `src/domain_solver.cpp:492`: the loop over committed domains compares each with
  the proposal as earlier rounds have left it. With {1} and {2,3} committed and
  the candidates {1,2} and {3}, {1} counts as upgraded, then {2,3} is held in
  place of both candidates, and family 1 is released within its dwell. The
  comment at line 488 says that a committed domain is kept. It takes three
  families; the run `domain_solver` has two.
* `src/domain_solver.cpp:460`: a proposal made invalid by a domain stays invalid
  although the dwell loop may replace that domain.

Runtime:

* `src/runtime.cpp:456`: `thread_exited` compares no start time; see
  DomainRuntimeProofs. Relations of a dead thread are likewise credited to
  the TID's next user.
* `src/runtime.cpp:944`: threads that a sample misses are taken out of the plan and
  the domain selector, but not out of `active_cohort_` and `solver_`; those wait for the
  next window or the EXIT event.
* `src/runtime.cpp:1477`: a failed cohort restore sets `fatal_error_` by itself, so that
  a later hard failure returns early and nothing pauses.
* `src/runtime.cpp:1673`: a BPF thread that hangs before its first sample is never
  noticed, because the age is only looked at when there was one.
* `src/runtime.cpp:1800`: with `static_scan_seconds = 0` the worker stops consuming
  events along with sampling.
* `src/actuator.cpp:36`: saved masks are not erased when their thread exits; the
  `pids` map (1024 entries) is never cleaned either.

affinity-run:

* `docs/architecture.md:13` says that observe and plan supervisors retain no
  capability; `src/affinity_run.cpp:555` always asks for CAP_SYS_PTRACE to be kept.
* Orphans that come to the subreaper are collected only once the root has ended
  (`src/affinity_run.cpp:580`). Descendants that have left the process group get no
  signal, and the return waits for them (`:583`).
* A child that is killed before the barrier opens turns the write at `:527` into a
  SIGPIPE, which ends affinity-run before its error handling.

## What is not modelled, and why

* Scores: thread profiles, graph windows, edge weights, hotspot selection, the
  node partition (`src/solver.cpp:806-996`) and the capacity planner of
  `src/domain_solver.cpp`. They are floating-point computations without state of
  their own; the models take every outcome they could have as input.
* Static profiles (`static_profile_effective`): placements by thread name, applied by
  the sampler through the actuator, with the selector held.
* futex and VFS aggregates, thread names, pthread uprobes: they feed the
  scores and change no table that a property is about.
* Configuration, topology and `/proc` parsing, status and log text, replay tools and
  `affinityctl`: input and output. Of the sampler, what it does to the thread table
  is in `EventPipeline` and `DomainRuntime`.
* `trigger_fatal` in `HotspotRuntime`: it is `pause` there; `DomainRuntime` has all of it.
  The model ends after `CohortRestoreFails`.
* Memory ordering: what the BPF thread and the worker share is behind
  `bpf_pending_mutex_`, or atomic (`stopping_`, `paused_`).
