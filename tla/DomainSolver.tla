---------------------------- MODULE DomainSolver ----------------------------
(***************************************************************************)
(* The numa-domain-v1 selector (src/domain_solver.cpp): what               *)
(* NumaDomainSolver remembers from one solve window to the next, and the   *)
(* ways in which solve_numa_domains (src/runtime.cpp) settles a proposal.  *)
(*                                                                         *)
(* The measured evidence of a window is its input: which families are      *)
(* observed, which are cohesive, which pairs qualify for a merge, how many *)
(* nodes a domain's demand needs and whether the demand is clear of the    *)
(* hysteresis band.  A family stands for its one thread, a domain id for   *)
(* the set of its families, and time is counted in windows.                *)
(*                                                                         *)
(* Counters stop at their thresholds and ages at Dwell: the code only asks *)
(* whether they have got there.                                            *)
(***************************************************************************)
EXTENDS Naturals, FiniteSets, FiniteSetsExt

CONSTANTS Family,              \* family names; domain ids sort by their first family
          Node,                \* NUMA nodes; the application's own mask is all of them
          Needs,               \* node sets the capacity planner comes up with; {}: none is enough
          Cohesive,            \* families that can be cohesive on their own
          Torn,                \* families whose thread may be sampled without a mask
          Active,              \* active mode; otherwise plan mode
          FamilyStability, DomainStability, PlanConfirmations,
          ExpandConfirmations, ShrinkConfirmations,
          Dwell                \* minimum_dwell_ns, in windows

ASSUME FamilyAssumption ==
    /\ Family \subseteq Nat \ {0} /\ Family # {} /\ IsFiniteSet(Family)
    /\ Cohesive \cup Torn \subseteq Family
ASSUME NeedsAssumption == Needs \subseteq SUBSET Node /\ IsFiniteSet(Node)
ASSUME ThresholdAssumption ==
    {FamilyStability, DomainStability, PlanConfirmations, ExpandConfirmations,
     ShrinkConfirmations, Dwell} \subseteq Nat \ {0}

VARIABLES
  family_confirmations, merge_confirmations, merge_pending_grace,
  expand_confirmations, shrink_confirmations,
  domain_nodes,        \* [Id -> SUBSET Node], {}: no entry
  changed_age,         \* [Id -> 0..Dwell]: now - last_changed_ns_
  evidence_age,        \* [Id -> 0..Dwell]: now - last_confirmed_domain_evidence_ns_
  domains,             \* domains_: the domains of the last commit
  placement,           \* [Family -> SUBSET Node], {}: no entry
  pending_signature, plan_confirmation,
  outstanding,
  mask,                \* [Family -> SUBSET Node]: the kernel's (external)
  \* history, for the properties only
  last, streak,        \* the last plan proposed, and how many windows in a row
  quiet                \* [Id -> 0..Dwell]: windows since a commit changed the id's nodes

evidence == <<family_confirmations, merge_confirmations, merge_pending_grace>>
capacity == <<expand_confirmations, shrink_confirmations>>
committed == <<domain_nodes, changed_age, domains>>
plan == <<pending_signature, plan_confirmation>>
history == <<last, streak, quiet>>
vars == <<evidence, capacity, committed, evidence_age, plan, placement, outstanding, mask, history>>

Id == (SUBSET Family) \ {{}}
Pair == {p \in Id : Cardinality(p) = 2}
Keys(f) == {x \in Family : f[x] # {}}
NoMasks == [f \in Family |-> {}]
NoProposal == [open |-> FALSE, families |-> {}, domains |-> {}, planned |-> NoMasks,
               inherited |-> {}, valid |-> FALSE, ready |-> FALSE]
Last == Max(Family)
UpTo(limit, n) == IF n < limit THEN n ELSE limit

Zero(S) == [x \in S |-> 0]
LongAgo == [i \in Id |-> Dwell]
NoNodes == [i \in Id |-> {}]
Unpinned == [f \in Family |-> Node]

Init ==
    /\ family_confirmations = Zero(Family)
    /\ merge_confirmations = Zero(Pair) /\ merge_pending_grace = Zero(Pair)
    /\ expand_confirmations = Zero(Id) /\ shrink_confirmations = Zero(Id)
    /\ domain_nodes = NoNodes /\ changed_age = LongAgo /\ evidence_age = LongAgo
    /\ domains = {} /\ placement = NoMasks /\ mask = Unpinned
    /\ pending_signature = {} /\ plan_confirmation = 0 /\ outstanding = NoProposal
    /\ last = {} /\ streak = 0 /\ quiet = LongAgo
-----------------------------------------------------------------------------
(***************************************************************************)
(* propose: from evidence to candidates                                    *)
(***************************************************************************)
FamilyCounts(cohesive) ==
    [f \in Family |-> IF f \in cohesive THEN UpTo(FamilyStability, family_confirmations[f] + 1) ELSE 0]
PairCounts(qualifying) ==
    [p \in Pair |-> IF p \in qualifying THEN UpTo(DomainStability, merge_confirmations[p] + 1) ELSE 0]
\* A pair that no longer qualifies counts as waiting for a while.
PairGrace(qualifying) ==
    [p \in Pair |-> IF p \in qualifying THEN PlanConfirmations
                    ELSE IF merge_pending_grace[p] > 0 THEN merge_pending_grace[p] - 1 ELSE 0]

Confirmed(confirmations) == {p \in Pair : confirmations[p] >= DomainStability}

\* Mutant: a pending pair does not hold back its families.
AnchorsAtOnce(stable, confirmations, grace, seen) ==
    (UNION Confirmed(confirmations)) \cup stable
\* A family is in if a pair of it is confirmed, or if it is cohesive and no pair
\* of it is waiting for confirmation.
Anchors(stable, confirmations, grace, seen) ==
    LET pending == {p \in Pair \ Confirmed(confirmations) : grace[p] > 0 /\ p \subseteq seen}
    IN (UNION Confirmed(confirmations)) \cup (stable \ UNION pending)

\* The components of the anchors under the confirmed pairs.
Components(anchors, pairs) ==
    LET closed == {c \in (SUBSET anchors) \ {{}} : \A p \in pairs : p \subseteq c \/ p \cap c = {}}
    IN {c \in closed : \A d \in closed : d \subseteq c => d = c}

\* The nodes of a domain that is already on some stay until an expansion or a
\* shrink is confirmed.
Tracked(id, need) == domain_nodes[id] # {} /\ need # {}
Expand(id, need, clear) ==
    Tracked(id, need) /\ clear /\ Cardinality(need) > Cardinality(domain_nodes[id])
Shrink(id, need, clear) ==
    /\ Tracked(id, need) /\ clear /\ Cardinality(need) < Cardinality(domain_nodes[id])
    /\ changed_age[id] + 1 >= Dwell

Counted(count, wanted, id, need, limit) ==
    IF ~Tracked(id, need) THEN count[id]
    ELSE IF wanted THEN UpTo(limit, count[id] + 1) ELSE 0

TargetNodes(id, need, clear, expands, shrinks) ==
    IF \/ ~Tracked(id, need)
       \/ Expand(id, need, clear) /\ expands[id] >= ExpandConfirmations
       \/ Shrink(id, need, clear) /\ shrinks[id] >= ShrinkConfirmations
    THEN need ELSE domain_nodes[id]

Expansions(ids, need, clear) ==
    [i \in Id |-> IF i \notin ids THEN expand_confirmations[i]
                  ELSE Counted(expand_confirmations, Expand(i, need[i], i \in clear), i, need[i],
                               ExpandConfirmations)]
Shrinkages(ids, need, clear) ==
    [i \in Id |-> IF i \notin ids THEN shrink_confirmations[i]
                  ELSE Counted(shrink_confirmations, Shrink(i, need[i], i \in clear), i, need[i],
                               ShrinkConfirmations)]

Candidate(id, nodes, allowed) ==
    [families |-> id, nodes |-> nodes, valid |-> \A f \in id : nodes \cap allowed[f] # {}]
Candidates(ids, need, clear, expands, shrinks, allowed) ==
    {Candidate(i, TargetNodes(i, need[i], i \in clear, expands, shrinks), allowed) : i \in ids}
-----------------------------------------------------------------------------
(***************************************************************************)
(* propose: committed domains within their dwell                           *)
(***************************************************************************)
Ids(S) == {d.families : d \in S}
Covers(d, families) == families \subseteq d.families

\* Mutant: a held domain does not replace what overlaps it.
HoldBeside(found, d, ages, seen) ==
    IF \/ ages[d.families] >= Dwell \/ \E c \in found : Covers(c, d.families)
       \/ d.families \cap seen = {}
    THEN found ELSE found \cup {d}
\* A committed domain that the window's domains do not cover is held, in place
\* of the ones that overlap it.
Hold(found, d, ages, seen) ==
    IF \/ ages[d.families] >= Dwell \/ \E c \in found : Covers(c, d.families)
       \/ d.families \cap seen = {}
    THEN found ELSE {c \in found : c.families \cap d.families = {}} \cup {d}

\* The committed domains are visited in the order of their ids.
Held(candidates, ages, seen) ==
    LET held[n \in 0..Last] ==
          IF n = 0 THEN candidates
          ELSE LET at == {d \in domains : Min(d.families) = n}
               IN IF at = {} THEN held[n - 1]
                  ELSE Hold(held[n - 1], CHOOSE d \in at : TRUE, ages, seen)
    IN held[Last]

Older(age) == UpTo(Dwell, age + 1)

\* Complete evidence for a committed domain makes it young again.
Refreshed(candidates) ==
    [i \in Id |-> IF \E d \in domains : d.families = i /\ \E c \in candidates : c.valid /\ Covers(c, i)
                  THEN 0 ELSE Older(evidence_age[i])]

\* Valid domains with a member whose sampled mask leaves nothing of the nodes;
\* the first of them is made invalid, and the whole plan with it.
Misfits(found, allowed, seen) ==
    {d \in found : d.valid /\ \E f \in d.families \cap seen : d.nodes \cap allowed[f] = {}}
Fitted(found, allowed, seen) ==
    LET misfits == Misfits(found, allowed, seen)
        first == {d \in misfits : \A e \in misfits : Min(d.families) <= Min(e.families)}
    IN (found \ first) \cup {[d EXCEPT !.valid = FALSE] : d \in first}

\* Mutant: a held domain keeps the threads it had.
PlannedForAll(found, allowed, seen) ==
    [f \in Family |-> UNION {d.nodes \cap allowed[f] : d \in {e \in found : e.valid /\ f \in e.families}}]
Planned(found, allowed, seen) ==
    [f \in Family |-> UNION {d.nodes \cap allowed[f] : d \in {e \in found : e.valid /\ f \in e.families \cap seen}}]

\* Mutant: a plan that differs from the last one counts as confirmed so far.
CountedOn(found) == UpTo(PlanConfirmations, plan_confirmation + 1)
Confirmations(found) ==
    IF found = pending_signature THEN UpTo(PlanConfirmations, plan_confirmation + 1) ELSE 1

\* The plan made of the domains found; valid: no candidate was invalid.
MakeProposal(found, valid, allowed, seen) ==
    LET ok == valid /\ Misfits(found, allowed, seen) = {}
        final == IF valid THEN Fitted(found, allowed, seen) ELSE found
        planned == IF ok THEN Planned(final, allowed, seen) ELSE NoMasks
        confirmed == Confirmations(final) >= PlanConfirmations
        released == Keys(placement) \ Keys(planned)
    IN [open |-> TRUE, families |-> seen, domains |-> final, planned |-> planned, valid |-> ok,
        ready |-> ok /\ IF final = {} THEN released # {} ELSE confirmed,
        inherited |-> {f \in Keys(planned) : placement[f] = {} /\ allowed[f] = planned[f]}]

SampledMasks(torn) == [f \in Family |-> IF f \in torn THEN {} ELSE mask[f]]
StableFamilies(cohesive) == {f \in cohesive : FamilyCounts(cohesive)[f] >= FamilyStability}
IdsOf(seen, cohesive, qualifying) ==
    LET pairs == PairCounts(qualifying)
    IN Components(Anchors(StableFamilies(cohesive), pairs, PairGrace(qualifying), seen), Confirmed(pairs))

\* The plan for the candidates of a window, and what is remembered of it.
Plan(candidates, allowed, seen) ==
    \E ages \in {Refreshed(candidates)} : \E found \in {Held(candidates, ages, seen)} :
    \E proposal \in {MakeProposal(found, \A c \in candidates : c.valid, allowed, seen)} :
      /\ evidence_age' = ages
      /\ outstanding' = proposal
      /\ pending_signature' = proposal.domains
      /\ plan_confirmation' = Confirmations(proposal.domains)
      /\ last' = proposal.domains
      /\ streak' = IF last = proposal.domains THEN UpTo(PlanConfirmations, streak + 1) ELSE 1

\* The evidence of a window, with what the planner makes of the components.
Weigh(seen, cohesive, qualifying, torn, ids, need, clear) ==
    LET expands == Expansions(ids, need, clear)
        shrinks == Shrinkages(ids, need, clear)
    IN /\ family_confirmations' = FamilyCounts(cohesive)
       /\ merge_confirmations' = PairCounts(qualifying)
       /\ merge_pending_grace' = PairGrace(qualifying)
       /\ expand_confirmations' = expands /\ shrink_confirmations' = shrinks
       /\ \E candidates \in {Candidates(ids, need, clear, expands, shrinks, SampledMasks(torn))} :
            Plan(candidates, SampledMasks(torn), seen)

propose ==
    /\ ~outstanding.open                                   \* or it throws
    /\ \E seen \in SUBSET Family :
       \E cohesive \in SUBSET (Cohesive \cap seen), qualifying \in SUBSET {p \in Pair : p \subseteq seen},
          torn \in SUBSET (Torn \cap seen) :
         \E ids \in {IdsOf(seen, cohesive, qualifying)} :
           \E need \in [ids -> Needs], clear \in SUBSET ids :
             Weigh(seen, cohesive, qualifying, torn, ids, need, clear)
    /\ changed_age' = [i \in Id |-> Older(changed_age[i])]
    /\ quiet' = [i \in Id |-> Older(quiet[i])]
    /\ UNCHANGED <<domain_nodes, domains, placement, mask>>
-----------------------------------------------------------------------------
(***************************************************************************)
(* commit, discard, remove_thread, reset, as solve_numa_domains, the exit  *)
(* of a thread and pause call them                                         *)
(***************************************************************************)
Released == Keys(placement) \ Keys(outstanding.planned)
Actions == {f \in Keys(outstanding.planned) : placement[f] # outstanding.planned[f]} \ outstanding.inherited

discard == outstanding' = NoProposal /\ UNCHANGED <<committed, evidence_age, quiet>>

\* Mutant: the time of a node change is not kept.
AgesKept(changed) == changed_age
ChangedAges(changed) == [i \in Id |-> IF i \in changed THEN 0 ELSE changed_age[i]]

\* Mutant: a released thread keeps its place.
ReleasedStay(accepted, gone) ==
    [f \in Family |-> IF f \in accepted \cup outstanding.inherited THEN outstanding.planned[f]
                      ELSE IF f \in gone THEN {} ELSE placement[f]]
Placed(accepted, gone) ==
    [f \in Family |-> IF f \in (Keys(placement) \ gone) \cup outstanding.inherited \cup accepted
                      THEN outstanding.planned[f] ELSE {}]

\* written: the actions whose masks are in place; an empty set stands for all.
commit(written, gone) ==
    LET accepted == IF written = {} THEN Actions ELSE Actions \cap written
        plans == outstanding.domains
        now == [i \in Id |-> IF i \in Ids(plans)
                             THEN (CHOOSE d \in plans : d.families = i).nodes ELSE domain_nodes[i]]
        changed == {i \in Id : now[i] # domain_nodes[i]}
        fresh == Ids(plans) \ Ids(domains)
    IN /\ placement' = Placed(accepted, gone)
       /\ domain_nodes' = now
       /\ changed_age' = ChangedAges(changed)
       /\ quiet' = [i \in Id |-> IF i \in changed THEN 0 ELSE quiet[i]]
       /\ evidence_age' = [i \in Id |-> IF i \in fresh THEN 0 ELSE evidence_age[i]]
       /\ domains' = plans
       /\ outstanding' = NoProposal

\* Masks once the released threads have the application's mask back.
GivenBack == [f \in Family |-> IF Active /\ f \in Released THEN Node ELSE mask[f]]

Stable == Actions = {} /\ Released = {} /\ outstanding.planned = placement

settle_invalid ==
    /\ outstanding.open /\ ~outstanding.valid
    /\ commit({}, {}) /\ mask' = GivenBack
    /\ UNCHANGED <<evidence, capacity, plan, last, streak>>

settle_discarded ==
    /\ outstanding.open /\ outstanding.valid /\ (~outstanding.ready \/ Stable)
    /\ discard
    /\ UNCHANGED <<evidence, capacity, plan, placement, mask, last, streak>>

\* The batch succeeds for the threads that still exist: in plan mode, all.
settle_applied ==
    /\ outstanding.open /\ outstanding.ready /\ ~Stable
    /\ \E gone \in SUBSET (IF Active THEN Actions ELSE {}) :
         LET written == Actions \ gone
         IN /\ mask' = [f \in Family |-> IF Active /\ f \in written THEN outstanding.planned[f]
                                         ELSE GivenBack[f]]
            /\ IF Actions # {} /\ written = {}
               THEN /\ placement' = [f \in Family |-> IF f \in gone \cup Released THEN {} ELSE placement[f]]
                    /\ discard
               ELSE commit(IF Active THEN written ELSE {}, gone)
    /\ UNCHANGED <<evidence, capacity, plan, last, streak>>

\* The batch fails and is rolled back; the releases stay.
settle_failed ==
    /\ outstanding.open /\ outstanding.ready /\ ~Stable /\ Active /\ Actions # {}
    /\ mask' = GivenBack
    /\ discard
    /\ UNCHANGED <<evidence, capacity, plan, placement, last, streak>>

\* A thread exits; the next one of its family starts with the application's mask.
remove_thread(f) ==
    /\ ~outstanding.open /\ placement[f] # {}
    /\ placement' = [placement EXCEPT ![f] = {}] /\ mask' = [mask EXCEPT ![f] = Node]
    /\ UNCHANGED <<evidence, capacity, committed, evidence_age, plan, outstanding, history>>

\* pause() gives every mask back and starts afresh.
reset ==
    /\ ~outstanding.open
    /\ family_confirmations' = Zero(Family)
    /\ merge_confirmations' = Zero(Pair) /\ merge_pending_grace' = Zero(Pair)
    /\ expand_confirmations' = Zero(Id) /\ shrink_confirmations' = Zero(Id)
    /\ domain_nodes' = NoNodes /\ changed_age' = LongAgo /\ evidence_age' = LongAgo
    /\ domains' = {} /\ placement' = NoMasks /\ mask' = Unpinned
    /\ pending_signature' = {} /\ plan_confirmation' = 0 /\ outstanding' = NoProposal
    /\ last' = {} /\ streak' = 0 /\ quiet' = LongAgo

Next ==
    \/ propose
    \/ settle_invalid \/ settle_discarded \/ settle_applied \/ settle_failed
    \/ \E f \in Family : remove_thread(f)
    \/ reset

Spec == Init /\ [][Next]_vars
-----------------------------------------------------------------------------
(***************************************************************************)
(* Properties                                                              *)
(***************************************************************************)
Domain == [families : Id, nodes : SUBSET Node, valid : BOOLEAN]

\* Every variable has its type; a proposal plans only for observed families.
TypeOK ==
    /\ family_confirmations \in [Family -> 0..FamilyStability]
    /\ merge_confirmations \in [Pair -> 0..DomainStability]
    /\ merge_pending_grace \in [Pair -> 0..PlanConfirmations]
    /\ expand_confirmations \in [Id -> 0..ExpandConfirmations]
    /\ shrink_confirmations \in [Id -> 0..ShrinkConfirmations]
    /\ domain_nodes \in [Id -> SUBSET Node]
    /\ {changed_age, evidence_age, quiet} \subseteq [Id -> 0..Dwell]
    /\ domains \subseteq Domain /\ outstanding.domains \subseteq Domain
    /\ {placement, mask, outstanding.planned} \subseteq [Family -> SUBSET Node]
    /\ Keys(outstanding.planned) \subseteq outstanding.families
    /\ plan_confirmation \in 0..PlanConfirmations /\ streak \in 0..PlanConfirmations

\* "A family can belong to one domain only": no plan and no committed state has
\* a family in two domains, however candidates and held domains overlap.
OneDomainPerFamily ==
    \A S \in {domains, outstanding.domains} :
      \A d, e \in S : d.families \cap e.families # {} => d = e

\* Active changes masks only after the whole plan is confirmed: a plan with
\* domains is ready only if it was proposed, the same, in that many windows in
\* a row, whatever was discarded, failed or became invalid on the way.
PlanIsConfirmed ==
    outstanding.ready /\ outstanding.domains # {} => streak >= PlanConfirmations

\* A pending merge holds back its families: no new singleton domain is planned
\* for a family that has a qualifying pair still short of its confirmations.
PendingMergeWaits ==
    outstanding.open =>
      \A f \in Family :
        {f} \in Ids(outstanding.domains) \ Ids(domains) =>
          \A p \in Pair : f \in p => merge_confirmations[p] \in {0, DomainStability}

\* A domain's nodes shrink only when they have been the same for the dwell.
NodesShrinkSlowly ==
    [][\A i \in Id : domain_nodes'[i] # {} /\ Cardinality(domain_nodes'[i]) < Cardinality(domain_nodes[i])
                     => quiet[i] >= Dwell]_vars

\* What is planned for a thread comes from a committed domain: every placement
\* lies on the nodes of a valid domain of the last commit.
PlacementIsCommitted ==
    \A f \in Keys(placement) :
      \E d \in domains : d.valid /\ f \in d.families /\ placement[f] \subseteq d.nodes

(***************************************************************************)
(* What the documentation says, and the code does not do.                  *)
(***************************************************************************)
\* A plan gives a thread its domain's nodes, cut down to what the application
\* itself allows (here: every node).
MaskIsDomains ==
    outstanding.valid =>
      \A d \in outstanding.domains, f \in Family :
        d.valid /\ f \in d.families /\ outstanding.planned[f] # {} => outstanding.planned[f] = d.nodes
=============================================================================
