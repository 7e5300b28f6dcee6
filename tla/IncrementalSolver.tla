-------------------------- MODULE IncrementalSolver --------------------------
(***************************************************************************)
(* The incremental-hotspot-v1 selector, class IncrementalSolver of         *)
(* src/solver.cpp: what it remembers as a record, its methods as operators *)
(* on that record.                                                         *)
(*                                                                         *)
(* Demands, relations and loads are floating-point sums; which CPU they    *)
(* favour for a thread, and which moves they make worth while or urgent,   *)
(* is a choice.  What the solver keeps from window to window, its phases,  *)
(* confirmations, dwell, budgets and slot caps are the code's.             *)
(*                                                                         *)
(* A map from TIDs is a function on Tid; 0 is "no entry".                  *)
(***************************************************************************)
EXTENDS Naturals, FiniteSets, FiniteSetsExt, Functions

CONSTANTS Tid, Cpu,
          SlotSlack,              \* thread_slot_slack
          InitialConfirmations,   \* initial_proposal_confirmations
          ProposalConfirmations,  \* proposal_confirmations
          InitialRatio, MoveRatio,  \* migrated threads, in percent of the cohort
          ReplanMin,              \* hotspot_replan_min_threads
          Dwell,                  \* minimum_dwell_ns, in solve windows
          MaxPotentials           \* bound: moves and swaps that look good in one window

ASSUME TidAssumption == IsFiniteSet(Tid)
ASSUME CpuAssumption == IsFiniteSet(Cpu) /\ 0 \notin Cpu /\ Cpu # {}
ASSUME OptionAssumption ==
    /\ {SlotSlack, InitialRatio, MoveRatio, ReplanMin, Dwell, MaxPotentials} \subseteq Nat
    /\ {InitialConfirmations, ProposalConfirmations} \subseteq Nat \ {0}

None == [t \in Tid |-> 0]
Keys(f) == {t \in Tid : f[t] # 0}
Without(f, S) == [t \in Tid |-> IF t \in S THEN 0 ELSE f[t]]
Overlay(f, a) == [t \in Tid |-> IF t \in DOMAIN a THEN a[t] ELSE f[t]]
Least(m, n) == IF m < n THEN m ELSE n
Excess(m, n) == IF m > n THEN m - n ELSE 0

\* threads_ has the keys of identities_, and pinned_ those of placement_; wait is
\* what is left of a thread's dwell, in windows.
Reset == [phase |-> "uninitialized", identities |-> None, targets |-> None,
          placement |-> None, wait |-> None, candidate |-> None, confirmation |-> 0,
          replan |-> FALSE, population |-> 0, action_confirmations |-> <<>>]

\* Mutant: a thread that leaves keeps its target.
remove_threadsKeepsTarget(s, S) ==
    [s EXCEPT !.identities = Without(@, S), !.placement = Without(@, S),
              !.wait = Without(@, S), !.candidate = Without(@, S)]

remove_threads(s, S) ==
    [s EXCEPT !.identities = Without(@, S), !.targets = Without(@, S), !.placement = Without(@, S),
              !.wait = Without(@, S), !.candidate = Without(@, S)]

\* One window of every dwell is over.
Elapsed(s) == [s EXCEPT !.wait = [t \in Tid |-> Excess(@[t], 1)]]
-----------------------------------------------------------------------------
(***************************************************************************)
(* Slots                                                                   *)
(***************************************************************************)
Size(s) == Cardinality(Keys(s.identities))
Budget(s, ratio) == (Size(s) * ratio) \div 100

\* limit is maximum_threads_per_cpu; 0: the cap follows the cohort.
cpu_slot_cap(limit, n) ==
    IF limit > 0 THEN limit ELSE (n + Cardinality(Cpu) - 1) \div Cardinality(Cpu) + SlotSlack

Count(placement, c) == Cardinality({t \in Tid : placement[t] = c})
SlotViolation(placement, cap) ==
    Cardinality({slot \in Cpu \X (1..Cardinality(Tid)) :
                   cap < slot[2] /\ slot[2] <= Count(placement, slot[1])})
-----------------------------------------------------------------------------
(***************************************************************************)
(* propose: taking in the cohort                                           *)
(***************************************************************************)
\* Threads the solver does not know, or knows only an earlier holder of their TID.
Newcomers(s, demands) == {t \in Keys(demands) : s.identities[t] # demands[t]}
Arrived(s, demands) == s.phase \in {"pinning", "optimizing"} /\ Newcomers(s, demands) # {}

\* hotspot_replan_growth_ratio is a quarter.
SubstantialGrowth(s, demands) ==
    /\ Arrived(s, demands) /\ s.population > 0
    /\ Cardinality(Newcomers(s, demands)) >= ReplanMin
    /\ Cardinality(Keys(demands)) >= (5 * s.population + 3) \div 4

TargetsEffective(s) ==
    /\ Cardinality(Keys(s.placement)) = Size(s)
    /\ s.replan => \A t \in Keys(s.identities) : s.placement[t] = s.targets[t]

\* aim: the CPUs for threads that come when there is a plan already.
Admitted(s, demands, aim) ==
    [remove_threads(s, {t \in Keys(s.identities) : s.identities[t] # demands[t]}) EXCEPT
       !.identities = demands, !.targets = Overlay(@, aim),
       !.phase = IF SubstantialGrowth(s, demands) \/ @ = "uninitialized" THEN "planning"
                 ELSE IF Arrived(s, demands) THEN "pinning" ELSE @,
       !.replan = @ \/ SubstantialGrowth(s, demands),
       !.confirmation = IF SubstantialGrowth(s, demands) THEN 0 ELSE @,
       !.candidate = IF SubstantialGrowth(s, demands) THEN None ELSE @]

\* Pinning may be over by now, if threads have left; replan stays as it is.
Refreshed(s) == IF s.phase = "pinning" /\ TargetsEffective(s) THEN [s EXCEPT !.phase = "optimizing"] ELSE s

Refreshes(s, demands) ==
    {Refreshed(Admitted(s, demands, aim)) :
       aim \in [IF Arrived(s, demands) THEN Newcomers(s, demands) ELSE {} -> Cpu]}
-----------------------------------------------------------------------------
(***************************************************************************)
(* propose: the three phases.  Each gives the set of its possible results. *)
(***************************************************************************)
Result(s, delta) == [solver |-> s, delta |-> delta, thrown |-> FALSE]
NotReady(s) == Result(s, None)

\* The node plan counts its confirmations while the cohort stays the same; once it
\* is confirmed, every thread is aimed at a CPU.  (The next plan counts from 1.)
NodePlanning(s) ==
    LET n == IF s.candidate = s.identities THEN s.confirmation + 1 ELSE 1
        c == [s EXCEPT !.confirmation = n, !.candidate = s.identities]
    IN IF n < InitialConfirmations THEN {NotReady(c)}
       ELSE {NotReady([s EXCEPT !.phase = "pinning", !.confirmation = 0, !.candidate = None,
                                !.population = Size(s), !.targets = Overlay(None, aim)]) :
               aim \in [Keys(s.identities) -> Cpu]}

Pending(s) ==
    {t \in Keys(s.identities) : s.placement[t] = 0 \/ (s.replan /\ s.placement[t] # s.targets[t])}

\* Mutant: the free slots are not counted down along the batch.
RepairsUncounted(s, batch, cap) ==
    {a \in [batch -> Cpu] : \A t \in batch : Count(Without(s.placement, batch), a[t]) < cap}

\* Where a batch may go, one thread after another in some order: to its target, or
\* if that CPU is full, given what stays placed, to one with a slot left.
Repairs(s, batch, cap) ==
    LET free == [c \in Cpu |-> Excess(cap, Count(Without(s.placement, batch), c))]
        Taken(a, earlier, c) == Cardinality({t \in earlier : a[t] = c})
    IN {a \in [batch -> Cpu] :
          \E rank \in Injection(batch, 1..Cardinality(batch)) : \A t \in batch :
            LET earlier == {u \in batch : rank[u] < rank[t]}
            IN /\ Taken(a, earlier, a[t]) < free[a[t]]
               /\ a[t] # s.targets[t] => Taken(a, earlier, s.targets[t]) >= free[s.targets[t]]}

\* A batch that does not fit throws; nothing in the runtime catches it.
InitialPinning(s, cap) ==
    LET size == Least(Cardinality(Pending(s)), Budget(s, InitialRatio))
    IN IF Budget(s, InitialRatio) = 0 THEN {NotReady(s)}
       ELSE UNION {LET repairs == Repairs(s, batch, cap)
                   IN IF repairs = {} THEN {[NotReady(s) EXCEPT !.thrown = TRUE]}
                      ELSE {Result([s EXCEPT !.targets = Overlay(@, a)], Overlay(None, a)) : a \in repairs} :
                     batch \in kSubset(size, Pending(s))}

\* A potential is a set of actions <<tid, identity, from_cpu, target_cpu>>, one for
\* a move and two for a swap, and is its own key in action_confirmations_.
Action(s, t, c) == <<t, s.identities[t], s.placement[t], c>>
Tids(actions) == {a[1] : a \in actions}
Moved(f, actions) == Overlay(f, [t \in Tids(actions) |-> (CHOOSE a \in actions : a[1] = t)[4]])
After(s, actions, cap) == SlotViolation(Moved(s.placement, actions), cap)

\* Within its dwell a thread is moved only in an emergency.  A CPU that is full takes
\* a thread only from one that is fuller than the cap.
Moves(s, cap) ==
    LET n == [c \in Cpu |-> Count(s.placement, c)]
    IN {[actions |-> {Action(s, m[1], m[2])}, emergency |-> m[3]] :
          m \in {w \in Keys(s.identities) \X Cpu \X BOOLEAN :
                   /\ s.placement[w[1]] # w[2] /\ (s.wait[w[1]] > 0 => w[3])
                   /\ IF n[s.placement[w[1]]] > cap THEN n[w[2]] < cap => w[3] ELSE n[w[2]] < cap}}
Swaps(s) ==
    {[actions |-> {Action(s, p[1], s.placement[p[2]]), Action(s, p[2], s.placement[p[1]])}, emergency |-> FALSE] :
       p \in {q \in Keys(s.identities) \X Keys(s.identities) :
                s.placement[q[1]] # s.placement[q[2]] /\ s.wait[q[1]] = 0 /\ s.wait[q[2]] = 0}}

\* At most one move of a thread is a potential.
Potentials(s, cap) ==
    {Q \in {{}} \cup {Range(f) : f \in [1..MaxPotentials -> Moves(s, cap) \cup Swaps(s)]} :
       \A p, q \in Q : p # q => Tids(p.actions) # Tids(q.actions)}

Confirmations(s, Q) ==
    [k \in {q.actions : q \in Q} |->
       IF k \in DOMAIN s.action_confirmations
       THEN Least(s.action_confirmations[k] + 1, ProposalConfirmations) ELSE 1]

\* The potentials of a batch: confirmed or urgent, of different threads, within the
\* budget, and none adds a slot violation when it is added to the batch.
Selections(s, Q, cap) ==
    {S \in SUBSET {q \in Q : q.emergency \/ Confirmations(s, Q)[q.actions] >= ProposalConfirmations} :
       LET Actions(P) == UNION {p.actions : p \in P}
       IN /\ \A p, q \in S : p # q => Tids(p.actions) \cap Tids(q.actions) = {}
          /\ Cardinality(Actions(S)) <= Budget(s, MoveRatio)
          /\ \E rank \in Injection(S, 1..Cardinality(S)) : \A q \in S :
               LET earlier == {p \in S : rank[p] < rank[q]}
               IN After(s, Actions(earlier \cup {q}), cap) <= After(s, Actions(earlier), cap)}

Optimizing(s, cap) ==
    IF Budget(s, MoveRatio) = 0 THEN {NotReady(s)}
    ELSE UNION {{Result([s EXCEPT !.action_confirmations = Confirmations(s, Q)],
                        Moved(None, UNION {q.actions : q \in S})) :
                   S \in Selections(s, Q, cap)} :
                  Q \in Potentials(s, cap)}

propose(s, demands, limit) ==
    LET cap == cpu_slot_cap(limit, Cardinality(Keys(demands)))
    IN UNION {CASE r.phase = "planning" -> NodePlanning(r)
                [] r.phase = "pinning" -> InitialPinning(r, cap)
                [] r.phase = "optimizing" -> Optimizing(r, cap) :
                r \in Refreshes(s, demands)}
-----------------------------------------------------------------------------
\* commit(proposal, now, committed_tids), where no TIDs stand for all of them.
\* still: threads that were on their CPU before they were pinned to it.
commit(s, delta, committed_tids, still) ==
    LET tids == IF committed_tids = {} THEN Keys(delta) ELSE committed_tids
        moved == {t \in tids : s.placement[t] # delta[t]} \ still
        c == [s EXCEPT !.placement = [t \in Tid |-> IF t \in tids THEN delta[t] ELSE @[t]],
                       !.wait = [t \in Tid |-> IF t \in moved THEN Dwell ELSE @[t]]]
    IN IF c.phase = "pinning" /\ TargetsEffective(c)
       THEN [c EXCEPT !.phase = "optimizing", !.replan = FALSE] ELSE c
=============================================================================
