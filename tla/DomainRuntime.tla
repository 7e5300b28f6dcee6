--------------------------- MODULE DomainRuntime ---------------------------
(***************************************************************************)
(* The runtime's worker thread with the numa-domain-v1 selector            *)
(* (src/runtime.cpp, and the proposal life cycle of src/domain_solver.cpp).*)
(*                                                                         *)
(* The worker repeats: serve the control socket, consume BPF events, judge *)
(* BPF health, sample /proc, solve.  A solve holds mutex_, which is not    *)
(* recursive, and makes up to two actuator calls; the target runs on.      *)
(*                                                                         *)
(* Masks are sets of NUMA nodes; the application's own mask is Node.  The  *)
(* empty mask is what a dead thread or a torn sample shows, and "no entry"  *)
(* in a plan.  An actuator call is one step, with an outcome Actuator.tla  *)
(* allows.  Which domains the selector forms, and when it has confirmed    *)
(* them, is any choice.                                                    *)
(***************************************************************************)
EXTENDS Naturals, FiniteSets, Functions

CONSTANTS Tid,          \* thread ids; a batch visits them in increasing order
          Main,         \* the target's main thread (its tgid)
          Node,         \* NUMA nodes
          Domains,      \* node sets the selector gives to domains
          Modes,        \* the modes to start in
          MaxFaults,    \* bound: writes that fail for another reason than ESRCH
          MaxGen        \* bound: threads that get the same TID

ASSUME TidAssumption == Tid \subseteq Nat /\ IsFiniteSet(Tid) /\ Main \in Tid
ASSUME DomainsAssumption == Domains \subseteq (SUBSET Node) \ {{}}
ASSUME ModesAssumption == Modes \subseteq {"observe", "plan", "active"}
ASSUME BoundAssumption == MaxFaults \in Nat /\ MaxGen \in Nat \ {0}

VARIABLES
  \* the target (external)
  gen,            \* [Tid -> 0..MaxGen]: how many threads have had the TID
  live, mask,
  parent,         \* [Tid -> Tid]: parent_tid of the TID's lifecycle record
  \* events and samples
  exits,          \* TIDs with an EXIT event that is not yet consumed
  lifecycle,      \* [Tid -> 0..MaxGen]: the thread lifecycle_ has for the TID; 0: none
  window,         \* TIDs in graph_: sampled in the last sixty seconds
  allowed,        \* [Tid -> Mask]: allowed_cpus of the last sample
  \* actuator_ and domain_solver_
  restore_masks,  \* a function from TIDs to masks; here {} is a mask that was read
  acted_tids, faults,
  placement, outstanding,
  \* members of Runtime
  mode, current_masks, selector_ready, paused, fatal_error, stopping,
  mutex,          \* mutex_ is held
  pc,             \* where the worker (after the join: the destructor) is
  next,           \* where it goes on after trigger_fatal ("": not in there)
  sigterm         \* SIGTERM was sent to the target

target == <<gen, live, mask, parent>>
others == <<gen, live, parent>>
graph == <<window, allowed>>
actuator == <<restore_masks, acted_tids, faults>>
solver == <<placement, outstanding>>
status == <<current_masks, selector_ready>>
control == <<paused, fatal_error, sigterm>>
given == <<mode, stopping>>
vars == <<target, exits, lifecycle, graph, actuator, solver, status, control,
          given, mutex, pc, next>>

Mask == SUBSET Node
NoMasks == [t \in Tid |-> {}]
Nothing == [t \in {} |-> {}]
Keys(f) == {t \in Tid : f[t] # {}}
Erase(f, S) == [t \in Tid |-> IF t \in S THEN {} ELSE f[t]]
NoProposal == [open |-> FALSE, planned |-> NoMasks, valid |-> FALSE, ready |-> FALSE]

Init ==
    /\ \E L \in SUBSET Tid :
         /\ Main \in L /\ live = L
         /\ gen = [t \in Tid |-> IF t \in L THEN 1 ELSE 0]
         /\ mask = [t \in Tid |-> IF t \in L THEN Node ELSE {}]
    /\ parent = [t \in Tid |-> Main]
    /\ exits = {} /\ lifecycle = [t \in Tid |-> 0] /\ window = {} /\ allowed = NoMasks
    /\ restore_masks = Nothing /\ acted_tids = {} /\ faults = 0
    /\ placement = NoMasks /\ outstanding = NoProposal
    /\ mode \in Modes /\ current_masks = NoMasks /\ selector_ready = FALSE
    /\ paused = FALSE /\ fatal_error = FALSE /\ stopping = FALSE /\ sigterm = FALSE
    /\ mutex = FALSE /\ pc = "control" /\ next = ""
-----------------------------------------------------------------------------
(***************************************************************************)
(* The target and the main thread (external).                              *)
(***************************************************************************)
\* The main thread ends with the process.
ThreadExit(t) ==
    /\ t \in live /\ (t = Main => live = {Main})
    /\ live' = live \ {t} /\ mask' = [mask EXCEPT ![t] = {}] /\ exits' = exits \cup {t}
    /\ UNCHANGED <<gen, parent, lifecycle, graph, actuator, solver, status,
                   control, given, mutex, pc, next>>

\* clone(): the child gets its creator's mask.  Its FORK event names the
\* creator; without the event the sampler takes the main thread for it.
ThreadStart(t, p) ==
    /\ t \notin live /\ p \in live /\ gen[t] < MaxGen
    /\ live' = live \cup {t} /\ mask' = [mask EXCEPT ![t] = mask[p]]
    /\ gen' = [gen EXCEPT ![t] = @ + 1]
    /\ \E q \in {p, Main} : parent' = [parent EXCEPT ![t] = q]
    /\ UNCHANGED <<exits, lifecycle, graph, actuator, solver, status, control,
                   given, mutex, pc, next>>

Stop ==
    /\ ~stopping /\ stopping' = TRUE
    /\ UNCHANGED <<target, exits, lifecycle, graph, actuator, solver, status, control,
                   mode, mutex, pc, next>>
-----------------------------------------------------------------------------
(***************************************************************************)
(* pause: restore_all, which forgets the TIDs it could not restore too,    *)
(* and every plan is dropped.                                              *)
(***************************************************************************)
\* Masks after writing f[t] to the threads S.
Written(f, S) == [t \in Tid |-> IF t \in S \cap live THEN f[t] ELSE mask[t]]

\* The masks of S are put back, but for F, which the kernel refuses: the empty
\* masks among them always.
PutBack(S, F) ==
    LET empty == {t \in S \cap live : restore_masks[t] = {}}
    IN /\ empty \subseteq F /\ F \subseteq S \cap live
       /\ faults + Cardinality(F \ empty) <= MaxFaults
       /\ faults' = faults + Cardinality(F \ empty)
       /\ mask' = Written(restore_masks, S \ F)

restore_all ==
    /\ \E F \in SUBSET acted_tids : PutBack(acted_tids, F)
    /\ acted_tids' = {} /\ restore_masks' = Nothing

\* Mutant: the solver keeps its placement over a pause.
PauseKeepsPlacement == placement' = placement /\ outstanding' = NoProposal
ResetSolver == placement' = NoMasks /\ outstanding' = NoProposal

pause ==
    /\ paused' = TRUE
    /\ restore_all
    /\ current_masks' = NoMasks /\ selector_ready' = FALSE
    /\ ResetSolver

Unpaused == UNCHANGED <<paused, mask, actuator, solver, status>>

\* The top of the loop: a command, and then sleep on or start a pass.
service_control_socket ==
    /\ pc = "control" /\ ~stopping /\ pc' \in {"control", "consume"}
    /\ \/ pause
       \/ paused' = FALSE /\ UNCHANGED <<mask, actuator, solver, status>>
       \/ Unpaused
    /\ UNCHANGED <<others, exits, lifecycle, graph, fatal_error, sigterm, given,
                   mutex, next>>

\* Mutant: a hard failure does not end the target.
NoSigterm == UNCHANGED sigterm
Kill == sigterm' = TRUE

trigger_fatal ==
    /\ pc = "trigger_fatal" /\ ~mutex /\ pc' = next /\ next' = ""
    /\ \/ fatal_error /\ Unpaused /\ UNCHANGED <<fatal_error, sigterm>>
       \/ ~fatal_error /\ fatal_error' = TRUE /\ pause /\ Kill
    /\ UNCHANGED <<others, exits, lifecycle, graph, given, mutex>>
-----------------------------------------------------------------------------
Continue(where) == pc' = where /\ UNCHANGED next
CallFatal(back) == pc' = "trigger_fatal" /\ next' = back
After == [consume |-> "health", health |-> "sample",
          final_consume |-> "final_health", final_health |-> "final_restore"]

\* Mutant: an exit leaves the thread in the solver.
ForgetsStatusOnly(S) == current_masks' = Erase(current_masks, S) /\ UNCHANGED placement
RemoveThreads(S) ==
    /\ current_masks' = Erase(current_masks, S)
    /\ placement' = Erase(placement, S)

\* The exits the BPF thread has delivered; then the overflow check.
consume_pending_bpf ==
    /\ pc \in {"consume", "final_consume"}
    /\ Continue(After[pc]) \/ CallFatal(After[pc])
    /\ \E delivered \in SUBSET exits :
         /\ exits' = exits \ delivered
         /\ lifecycle' = [t \in Tid |-> IF t \in delivered THEN 0 ELSE lifecycle[t]]
         /\ RemoveThreads(delivered)
    /\ UNCHANGED <<target, graph, actuator, outstanding, selector_ready, control,
                   given, mutex>>

\* The verdict on BPF health; BpfHealth.tla says how it comes about.
sample_bpf_health ==
    /\ pc \in {"health", "final_health"}
    /\ Continue(After[pc]) \/ CallFatal(After[pc])
    /\ UNCHANGED <<target, exits, lifecycle, graph, actuator, solver, status, control, given,
                   mutex>>

\* note_inherited_mask for the fresh samples, in the order of their TIDs: the
\* mask on record for the parent, or else the mask of the sample.
InheritedMask(fresh) ==
    LET noted == DOMAIN restore_masks
        inherit[t \in Tid] ==
          IF t \in noted THEN restore_masks[t]
          ELSE IF parent[t] \in noted \/ (parent[t] \in fresh /\ parent[t] < t)
               THEN inherit[parent[t]] ELSE mask[t]
    IN [t \in noted \cup fresh |-> inherit[t]]

\* A thread that dies while it is being read leaves a sample without a mask;
\* the window keeps dead threads until they expire.
reconcile_and_sample ==
    /\ pc = "sample" /\ pc' = "solve"
    /\ \E torn \in SUBSET (exits \ live), expired \in SUBSET (window \ live) :
         LET seen == live \cup torn
             fresh == {t \in seen : lifecycle[t] # gen[t]}
             gone == {t \in Tid \ seen : lifecycle[t] # 0}
         IN /\ seen # {}
            /\ window' = (window \ expired) \cup seen
            /\ allowed' = [t \in Tid |-> IF t \in seen THEN mask[t]
                                         ELSE IF t \in window' THEN allowed[t] ELSE {}]
            /\ restore_masks' = InheritedMask(fresh)
            /\ RemoveThreads(gone)
            /\ lifecycle' = [t \in Tid |-> IF t \in seen THEN gen[t] ELSE 0]
    /\ UNCHANGED <<target, exits, acted_tids, faults, outstanding, selector_ready,
                   control, given, mutex, next>>

\* The collector fails; when it has for thirty seconds, the runtime pauses.
collector_failure ==
    /\ pc = "sample" /\ pc' = "solve"
    /\ \/ ~paused /\ pause
       \/ Unpaused
    /\ UNCHANGED <<others, exits, lifecycle, graph, fatal_error, sigterm, given,
                   mutex, next>>
-----------------------------------------------------------------------------
(***************************************************************************)
(* maybe_solve and solve_numa_domains                                      *)
(***************************************************************************)
\* Not due, paused, or observing.
maybe_solve_skips ==
    /\ pc = "solve" /\ pc' = "control"
    /\ UNCHANGED <<target, exits, lifecycle, graph, actuator, solver, status, control,
                   given, mutex, next>>

\* BPF health is not valid, its window not ready, or one percent was lost.
solve_waits_for_bpf ==
    /\ pc = "solve" /\ ~paused /\ mode # "observe" /\ pc' = "control"
    /\ selector_ready' = FALSE
    /\ UNCHANGED <<target, exits, lifecycle, graph, actuator, solver, current_masks,
                   control, given, mutex, next>>

Released(p) == Keys(placement) \ Keys(p.planned)
Inherited(p) == {t \in Keys(p.planned) : placement[t] = {} /\ allowed[t] = p.planned[t]}
Actions(p) == {t \in Keys(p.planned) : placement[t] # p.planned[t]} \ Inherited(p)

\* Domains for threads of the window, each cut down to the thread's sampled
\* mask.  One empty intersection makes the plan invalid and empties it; too
\* many threads or too little capacity do so too.
propose ==
    /\ pc = "solve" /\ ~paused /\ mode # "observe" /\ ~mutex
    /\ ~outstanding.open                                  \* or it throws
    /\ mutex' = TRUE /\ pc' = "settle"
    /\ \E domain \in [Tid -> Domains \cup {{}}], valid, ready \in BOOLEAN :
         /\ Keys(domain) \subseteq window
         /\ outstanding' = [open |-> TRUE, valid |-> valid, ready |-> ready,
                            planned |-> IF valid THEN [t \in Tid |-> domain[t] \cap allowed[t]]
                                                 ELSE NoMasks]
         /\ IF valid THEN Keys(outstanding'.planned) = Keys(domain)
                     ELSE Keys(domain) # {} /\ ~ready
         /\ valid /\ Keys(domain) = {} => (ready <=> Released(outstanding') # {})
    /\ UNCHANGED <<target, exits, lifecycle, graph, actuator, placement, status,
                   control, given, next>>

\* Mutant: a proposal that is not carried out stays outstanding.
Undiscarded(p) == UNCHANGED solver
discard(p) == outstanding' = NoProposal /\ UNCHANGED placement

\* Mutant: the actions that were not committed enter the placement.
Uncommitted(p, committed) == Actions(p) \ committed
\* An empty committed_tids stands for all of them.
Accepted(p, committed) == IF committed = {} THEN Actions(p) ELSE Actions(p) \cap committed

\* placement_ after commit, from the placement after remove_thread(gone).
Committed(p, committed, gone) ==
    LET kept == Keys(placement) \ gone
    IN [t \in Tid |-> IF t \in kept \cup Inherited(p) \cup Accepted(p, committed)
                      THEN p.planned[t] ELSE {}]

commit(p, committed, gone) ==
    /\ placement' = Committed(p, committed, gone)
    /\ outstanding' = NoProposal

\* Mutant: a solve does not release mutex_.
StaysLocked == pc' = "control" /\ UNCHANGED <<mutex, next>>
Unlock == mutex' = FALSE /\ pc' = "control" /\ UNCHANGED next

\* actuator_.restore: a TID that cannot be restored stays on record.
restore(tids, F) ==
    LET requested == tids \cap acted_tids
    IN /\ PutBack(requested, F)
       /\ acted_tids' = acted_tids \ (requested \ F)
       /\ restore_masks' = Restrict(restore_masks, DOMAIN restore_masks \ (requested \ F))

\* trigger_fatal, called with mutex_ held.
RestoreFailed == discard(outstanding) /\ CallFatal("control") /\ UNCHANGED mutex

\* !proposal.valid: give everything back.
settle_invalid ==
    /\ pc = "settle" /\ ~outstanding.valid
    /\ selector_ready' = FALSE
    /\ \E F \in SUBSET Tid :
         /\ \/ mode = "active" /\ restore(Released(outstanding), F)
            \/ mode = "plan" /\ F = {} /\ UNCHANGED <<mask, actuator>>
         /\ \/ F # {} /\ RestoreFailed /\ UNCHANGED current_masks
            \/ F = {} /\ commit(outstanding, {}, {}) /\ current_masks' = placement' /\ Unlock
    /\ UNCHANGED <<others, exits, lifecycle, graph, control, given>>

Stable == /\ Actions(outstanding) = {} /\ Released(outstanding) = {}
          /\ outstanding.planned = placement

\* Not confirmed yet, or nothing to do.
settle_discarded ==
    /\ pc = "settle" /\ outstanding.valid /\ (~outstanding.ready \/ Stable)
    /\ selector_ready' = (outstanding.ready \/ Keys(placement) # {})
    /\ discard(outstanding) /\ Unlock
    /\ UNCHANGED <<target, exits, lifecycle, graph, actuator, current_masks, control,
                   given>>

settle_plan ==
    /\ pc = "settle" /\ outstanding.valid /\ outstanding.ready /\ ~Stable /\ mode = "plan"
    /\ selector_ready' = TRUE
    /\ commit(outstanding, {}, {}) /\ current_masks' = placement' /\ Unlock
    /\ UNCHANGED <<target, exits, lifecycle, graph, actuator, control, given>>

settle_release ==
    /\ pc = "settle" /\ outstanding.valid /\ outstanding.ready /\ ~Stable /\ mode = "active"
    /\ selector_ready' = TRUE
    /\ \E F \in SUBSET Tid :
         /\ restore(Released(outstanding), F)
         /\ \/ F # {} /\ RestoreFailed
            \/ F = {} /\ pc' = "apply" /\ UNCHANGED <<solver, mutex, next>>
    /\ UNCHANGED <<others, exits, lifecycle, graph, current_masks, control, given>>

\* Mutant: a batch saves no masks.
Unsaved(S) == restore_masks
\* The masks on record when a batch has visited the threads S.
Saved(S) == [t \in S \cup DOMAIN restore_masks |->
               IF t \in DOMAIN restore_masks THEN restore_masks[t] ELSE mask[t]]

\* The write for t fails and the batch is rolled back, but for the threads
\* that refuse that too: they keep the new mask.
apply_fails ==
    /\ pc = "apply"
    /\ \E t \in Actions(outstanding) \cap live :
         LET visited == {u \in Actions(outstanding) : u <= t}
         IN \E kept \in SUBSET ((visited \cap live) \ {t}) :
              /\ faults + 1 + Cardinality(kept) <= MaxFaults
              /\ faults' = faults + 1 + Cardinality(kept)
              /\ mask' = Written(outstanding.planned, kept)
              /\ acted_tids' = acted_tids \cup kept
              /\ restore_masks' = Saved(visited)
    /\ discard(outstanding) /\ Unlock
    /\ UNCHANGED <<others, exits, lifecycle, graph, status, control, given>>

\* The TIDs that turn out to be gone leave the placement before the commit.
apply_succeeds ==
    /\ pc = "apply" /\ Unlock
    /\ LET actions == Actions(outstanding)
           committed == actions \cap live
           vanished == actions \ live
       IN /\ mask' = Written(outstanding.planned, committed)
          /\ acted_tids' = acted_tids \cup committed
          /\ restore_masks' = Saved(actions)
          /\ \/ /\ actions # {} /\ committed = {}
                /\ placement' = Erase(placement, vanished \cup Released(outstanding))
                /\ outstanding' = NoProposal
             \/ /\ actions = {} \/ committed # {}
                /\ commit(outstanding, committed, vanished)
    /\ current_masks' = placement'
    /\ UNCHANGED <<others, exits, lifecycle, graph, faults, selector_ready, control,
                   given>>
-----------------------------------------------------------------------------
\* The loop ends, the worker is joined, and the destructor goes on.
worker_joined ==
    /\ pc = "control" /\ stopping /\ pc' = "final_consume"
    /\ UNCHANGED <<target, exits, lifecycle, graph, actuator, solver, status, control,
                   given, mutex, next>>

final_restore ==
    /\ pc = "final_restore" /\ pc' = "stopped"
    /\ restore_all
    /\ UNCHANGED <<others, exits, lifecycle, graph, solver, status, control, given,
                   mutex, next>>
-----------------------------------------------------------------------------
Target == \/ \E t \in Tid : ThreadExit(t)
          \/ \E t, p \in Tid : ThreadStart(t, p)
          \/ Stop

Worker ==
    \/ service_control_socket \/ trigger_fatal \/ consume_pending_bpf \/ sample_bpf_health
    \/ reconcile_and_sample \/ collector_failure
    \/ maybe_solve_skips \/ solve_waits_for_bpf \/ propose
    \/ settle_invalid \/ settle_discarded \/ settle_plan \/ settle_release
    \/ apply_fails \/ apply_succeeds
    \/ worker_joined \/ final_restore

Next == Target \/ Worker

Spec == Init /\ [][Next]_vars

\* The worker is a running thread.
FairSpec == Spec /\ WF_vars(Worker)
-----------------------------------------------------------------------------
(***************************************************************************)
(* Properties                                                              *)
(***************************************************************************)
\* Every variable has its type.
TypeOK ==
    /\ gen \in [Tid -> 0..MaxGen] /\ live \subseteq Tid /\ mask \in [Tid -> Mask]
    /\ parent \in [Tid -> Tid] /\ exits \subseteq Tid /\ lifecycle \in [Tid -> 0..MaxGen]
    /\ window \subseteq Tid /\ allowed \in [Tid -> Mask]
    /\ DOMAIN restore_masks \subseteq Tid /\ \A t \in DOMAIN restore_masks : restore_masks[t] \in Mask
    /\ acted_tids \subseteq DOMAIN restore_masks /\ faults \in 0..MaxFaults
    /\ placement \in [Tid -> Mask] /\ current_masks \in [Tid -> Mask]
    /\ outstanding \in [open : BOOLEAN, planned : [Tid -> Mask], valid : BOOLEAN, ready : BOOLEAN]
    /\ {selector_ready, paused, fatal_error, stopping, mutex, sigterm} \subseteq BOOLEAN
    /\ mode \in Modes

\* What the status reports is what the solver believes: whenever a command can
\* be served, current_masks_ and the solver's placement are the same, although
\* eight handlers update the two separately.
StatusMirrorsSolver == ~mutex => current_masks = placement

\* Every proposal is committed or discarded on every path out of a solve, so
\* that the next propose does not throw and end the worker.
NoStaleProposal == pc = "solve" => ~outstanding.open

\* While the runtime is paused it plans nothing and owns no mask, whatever
\* exits, samples and hard failures come in.
PausedIsClean ==
    paused /\ ~mutex => /\ placement = NoMasks /\ acted_tids = {}
                       /\ ~selector_ready /\ ~outstanding.open

\* A thread the actuator has pinned is in the plan the status reports, as long
\* as no write is refused: nothing but a release, which restores it, takes a
\* living thread out of the placement.
PinnedIsPlanned ==
    ~mutex /\ faults = 0 => \A t \in acted_tids \cap live : gen[t] = 1 => placement[t] # {}

\* The status does not claim masks that do not exist: a living thread runs under
\* the mask the status reports for it.
StatusIsBacked ==
    ~mutex /\ mode = "active" /\ pc # "stopped" =>
      \A t \in live : gen[t] = 1 /\ current_masks[t] # {} => mask[t] = current_masks[t]

\* A hard failure ends the target: whoever calls trigger_fatal, SIGTERM follows.
HardFailureFollows == pc = "trigger_fatal" ~> sigterm

\* Shutdown ends: once the supervisor destroys the runtime, the worker is joined
\* and the last restore_all is done.
ShutdownCompletes == stopping ~> pc = "stopped"
=============================================================================
