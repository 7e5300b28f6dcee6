------------------------ MODULE HotspotRuntimeProofs ------------------------
(***************************************************************************)
(* Proofs about the worker with the incremental selector, and about the    *)
(* solver it asks, for any number of threads, CPUs and steps.              *)
(*                                                                         *)
(* Module IncrementalSolver gives the results of a call as a set: first    *)
(* it is shown what every member of such a set keeps (SolverInv, the slot  *)
(* violations, the cohort that makes propose throw), then that the steps   *)
(* of the worker keep IInv.                                                *)
(***************************************************************************)
EXTENDS HotspotRuntime, Integers, FiniteSetTheorems, TLAPS

Phases == {"uninitialized", "planning", "pinning", "optimizing"}
CpuMaps == [Tid -> Cpu \cup {0}]
IdentityMaps == [Tid -> 0..MaxGen]
WaitMaps == [Tid -> 0..Dwell]
Counts == 0..InitialConfirmations
Sizes == 0..Cardinality(Tid)

\* The fields of a solver, whatever it has counted for single actions.
SolverRecord(k) ==
    [phase : Phases, identities : IdentityMaps, targets : CpuMaps, placement : CpuMaps,
     wait : WaitMaps, candidate : IdentityMaps, confirmation : Counts, replan : BOOLEAN,
     population : Sizes, action_confirmations : {k}]

Known(s) == Keys(s.identities)

\* The solver aims, places and delays only threads that it knows; with a plan it aims
\* all of them, and once it optimizes all of them are placed.
SolverInv(s) ==
    /\ s \in SolverRecord(s.action_confirmations)
    /\ Keys(s.placement) \subseteq Known(s) /\ Keys(s.targets) \subseteq Known(s) /\ Keys(s.wait) \subseteq Known(s)
    /\ s.phase \in {"pinning", "optimizing"} => Known(s) \subseteq Keys(s.targets)
    /\ s.phase = "optimizing" => Known(s) \subseteq Keys(s.placement)
-----------------------------------------------------------------------------
(***************************************************************************)
(* Induction over the natural numbers, stated about sets                   *)
(***************************************************************************)
\* Every non-empty set of numbers has a least element.
LEMMA LeastElement ==
  ASSUME NEW T \in SUBSET Nat, T # {}
  PROVE  \E x \in T : \A y \in T : x <= y
  <1> DEFINE R == OpToRel(<, Nat)
  <1>1. IsWellFoundedOn(R, Nat)
    BY NatLessThanWellFounded, Zenon
  <1>2. \A x, y \in Nat : <<y, x>> \in R <=> y < x
    BY DEF OpToRel
  <1> HIDE DEF R
  <1>3. PICK x \in T : \A y \in T : ~(<<y, x>> \in R)
    BY Zenon, <1>1, WFMin
  <1>4. ASSUME NEW y \in T PROVE x <= y
    <2>1. x \in Nat /\ y \in Nat
      OBVIOUS
    <2>2. ~(y < x)
      BY Zenon, <1>2, <1>3, <2>1
    <2>3. QED
      BY <2>1, <2>2
  <1>5. QED
    BY <1>4

\* Induction up to N: a set with 0 and every successor of its members is all of 0..N.
LEMMA UpToInduction ==
  ASSUME NEW N \in Nat, NEW T, 0 \in T, \A n \in 1..N : n - 1 \in T => n \in T
  PROVE  0..N \subseteq T
  <1> SUFFICES ASSUME (0..N) \ T # {} PROVE FALSE
    OBVIOUS
  <1> DEFINE U == (0..N) \ T
  <1>0. U \in SUBSET Nat /\ U # {}
    OBVIOUS
  <1>1. PICK x \in U : \A y \in U : x <= y
    BY Zenon, <1>0, LeastElement
  <1>2. x \in 1..N /\ x - 1 \in 0..N /\ ~(x <= x - 1)
    BY <1>1
  <1>3. x - 1 \in T
    BY <1>1, <1>2
  <1>4. QED
    BY <1>1, <1>2, <1>3
-----------------------------------------------------------------------------
(***************************************************************************)
(* Maps from TIDs                                                          *)
(***************************************************************************)
\* The fields of a solver have their types.
LEMMA SolverFields ==
  ASSUME NEW s, NEW k, s \in SolverRecord(k)
  PROVE  /\ s.phase \in Phases /\ s.identities \in IdentityMaps /\ s.targets \in CpuMaps
         /\ s.placement \in CpuMaps /\ s.wait \in WaitMaps /\ s.candidate \in IdentityMaps
         /\ s.confirmation \in Counts /\ s.replan \in BOOLEAN /\ s.population \in Sizes
         /\ s.action_confirmations = k
  BY DEF SolverRecord

\* remove_threads takes threads out of five maps and keeps the rest.
LEMMA RemovedFields ==
  ASSUME NEW s, NEW k, s \in SolverRecord(k), NEW S
  PROVE  LET r == remove_threads(s, S)
         IN /\ r.identities = Without(s.identities, S) /\ r.targets = Without(s.targets, S)
            /\ r.placement = Without(s.placement, S) /\ r.wait = Without(s.wait, S)
            /\ r.candidate = Without(s.candidate, S) /\ r.phase = s.phase
            /\ r.confirmation = s.confirmation /\ r.replan = s.replan
            /\ r.population = s.population /\ r.action_confirmations = s.action_confirmations
  BY DEF SolverRecord, remove_threads

\* Removing entries keeps the type of a map.
LEMMA WithoutTyped ==
  ASSUME NEW S
  PROVE  /\ \A f \in CpuMaps : Without(f, S) \in CpuMaps
         /\ \A f \in IdentityMaps : Without(f, S) \in IdentityMaps
         /\ \A f \in WaitMaps : Without(f, S) \in WaitMaps
  <1>1. 0 \in 0..MaxGen /\ 0 \in 0..Dwell /\ 0 \in Cpu \cup {0}
    BY BoundAssumption, OptionAssumption
  <1> QED
    BY <1>1 DEF Without, CpuMaps, IdentityMaps, WaitMaps

\* remove_threads gives a solver again.
LEMMA RemovedRecord ==
  ASSUME NEW s, NEW k, s \in SolverRecord(k), NEW S
  PROVE  remove_threads(s, S) \in SolverRecord(k)
  BY SolverFields, WithoutTyped, Zenon DEF SolverRecord, remove_threads

\* The keys of a map without some threads.
LEMMA WithoutKeys ==
  ASSUME NEW f, NEW S
  PROVE  Keys(Without(f, S)) = Keys(f) \ S
  BY DEF Keys, Without

\* The entries of a map without some threads.
LEMMA WithoutValue ==
  ASSUME NEW f, NEW S, NEW t \in Tid
  PROVE  Without(f, S)[t] = IF t \in S THEN 0 ELSE f[t]
  BY DEF Without

\* The same, case by case.
LEMMA WithoutCases ==
  ASSUME NEW f, NEW S
  PROVE  \A t \in Tid : /\ t \in S => Without(f, S)[t] = 0
                        /\ t \notin S => Without(f, S)[t] = f[t]
                        /\ Without(f, S)[t] = 0 \/ Without(f, S)[t] = f[t]
  BY Zenon DEF Without

\* An identity is a number, and 0 is none.
LEMMA IdentityIsNat == \A f \in IdentityMaps : \A t \in Tid : f[t] \in Nat
  BY BoundAssumption DEF IdentityMaps

\* Small facts about numbers.
LEMMA LeastNumber == \A x \in Nat : 0 <= x /\ x <= x
  OBVIOUS

\* 1 and its neighbours.
LEMMA OnlyOne == \A x \in Nat : (x <= 1 /\ x # 0 => x = 1) /\ (x > 1 => x # 1)
  OBVIOUS

\* What a bound of a number says.
LEMMA Bounded == \A x, y \in Nat : (x # 0 /\ x <= y => y > 0) /\ (x <= y => x <= y + 1 /\ x # y + 1)
  OBVIOUS

\* A successor.
LEMMA OneMore == \A x \in Nat : x + 1 > 0 /\ (x > 0 => x + 1 > 1 /\ x + 1 # 1)
  OBVIOUS

\* A solver that has lost threads is as good as before.
LEMMA RemovedInv ==
  ASSUME NEW s, SolverInv(s), NEW S
  PROVE  SolverInv(remove_threads(s, S)) /\ Known(remove_threads(s, S)) = Known(s) \ S
  <1> DEFINE r == remove_threads(s, S)  k == s.action_confirmations
  <1>1. s \in SolverRecord(k)
    BY DEF SolverInv
  <1>2. /\ r.identities = Without(s.identities, S) /\ r.targets = Without(s.targets, S)
        /\ r.placement = Without(s.placement, S) /\ r.wait = Without(s.wait, S)
        /\ r.phase = s.phase /\ r.action_confirmations = k
    BY <1>1, RemovedFields, Zenon
  <1>3. r \in SolverRecord(k)
    BY <1>1, RemovedRecord, Zenon
  <1> HIDE DEF r, k
  <1>4. /\ Known(r) = Known(s) \ S /\ Keys(r.targets) = Keys(s.targets) \ S
        /\ Keys(r.placement) = Keys(s.placement) \ S /\ Keys(r.wait) = Keys(s.wait) \ S
    BY <1>2, WithoutKeys, Zenon DEF Known
  <1>5. r \in SolverRecord(r.action_confirmations)
    BY <1>2, <1>3, Zenon
  <1>6. SolverInv(r)
    BY <1>2, <1>4, <1>5 DEF SolverInv
  <1> QED
    BY <1>4, <1>6 DEF r

\* A window that is over shortens dwells.
LEMMA ElapsedInv ==
  ASSUME NEW s, SolverInv(s)
  PROVE  LET e == Elapsed(s)
         IN /\ SolverInv(e) /\ e.identities = s.identities /\ e.placement = s.placement
            /\ e.phase = s.phase
  <1> DEFINE e == Elapsed(s)  k == s.action_confirmations  w == [t \in Tid |-> Excess(s.wait[t], 1)]
  <1>1. s \in SolverRecord(k)
    BY DEF SolverInv
  <1>2. s.wait \in WaitMaps
    BY <1>1, SolverFields
  <1>3. w \in WaitMaps /\ Keys(w) \subseteq Keys(s.wait)
    <2>1. \A n \in 0..Dwell : Excess(n, 1) \in 0..Dwell /\ (Excess(n, 1) # 0 => n # 0)
      BY OptionAssumption DEF Excess
    <2>2. \A t \in Tid : s.wait[t] \in 0..Dwell
      BY <1>2 DEF WaitMaps
    <2>3. \A t \in Tid : Excess(s.wait[t], 1) \in 0..Dwell /\ (Excess(s.wait[t], 1) # 0 => s.wait[t] # 0)
      BY <2>1, <2>2, Zenon
    <2> QED
      BY <2>3 DEF WaitMaps, Keys
  <1>4. e = [s EXCEPT !.wait = w]
    BY Zenon DEF Elapsed
  <1> HIDE DEF w, e
  <1>5. /\ e \in SolverRecord(k) /\ e.identities = s.identities /\ e.placement = s.placement
        /\ e.phase = s.phase /\ e.wait = w /\ e.targets = s.targets
    BY <1>1, <1>3, <1>4 DEF SolverRecord
  <1>6. e.action_confirmations = k
    BY <1>5, SolverFields
  <1> HIDE DEF k
  <1>7. SolverInv(e)
    BY <1>3, <1>5, <1>6 DEF SolverInv, Known
  <1> QED
    BY <1>5, <1>7 DEF e

\* An empty solver.
LEMMA ResetInv == SolverInv(Reset) /\ Known(Reset) = {} /\ Reset.placement = None /\ Reset.identities = None
  <1>1. 0 \in 0..MaxGen /\ 0 \in 0..Dwell /\ 0 \in Cpu \cup {0} /\ 0 \in Counts /\ 0 \in Sizes
    <2>1. Cardinality(Tid) \in Nat
      BY TidAssumption, FS_CardinalityType
    <2> QED
      BY <2>1, BoundAssumption, OptionAssumption DEF Counts, Sizes
  <1>2. None \in CpuMaps /\ None \in IdentityMaps /\ None \in WaitMaps /\ Keys(None) = {}
    BY <1>1 DEF None, Keys, CpuMaps, IdentityMaps, WaitMaps
  <1>3. Reset \in SolverRecord(Reset.action_confirmations)
    BY <1>1, <1>2 DEF Reset, SolverRecord, Phases
  <1>4. /\ Reset.placement = None /\ Reset.identities = None /\ Reset.targets = None /\ Reset.wait = None
        /\ Reset.phase = "uninitialized"
    BY DEF Reset
  <1> QED
    BY <1>2, <1>3, <1>4 DEF SolverInv, Known
-----------------------------------------------------------------------------
(***************************************************************************)
(* Taking in the cohort                                                    *)
(***************************************************************************)
\* A solver whose targets are effective has placed every thread it knows.
LEMMA EffectiveIsFull ==
  ASSUME NEW s, SolverInv(s), TargetsEffective(s)
  PROVE  Known(s) \subseteq Keys(s.placement)
  <1>1. Known(s) \in SUBSET Tid /\ Keys(s.placement) \in SUBSET Known(s)
    BY DEF Known, Keys, SolverInv
  <1>2. IsFiniteSet(Known(s))
    BY <1>1, TidAssumption, FS_Subset
  <1>3. Cardinality(Keys(s.placement)) = Cardinality(Known(s))
    BY DEF TargetsEffective, Size, Known
  <1> QED
    BY <1>1, <1>2, <1>3, FS_Subset

\* From pinning to optimizing, when the targets are effective.
LEMMA OptimizingInv ==
  ASSUME NEW s, SolverInv(s), s.phase = "pinning", TargetsEffective(s), NEW b \in BOOLEAN,
         NEW r, r = [s EXCEPT !.phase = "optimizing", !.replan = b]
  PROVE  SolverInv(r) /\ r.identities = s.identities /\ r.placement = s.placement
  <1> DEFINE k == s.action_confirmations
  <1>1. s \in SolverRecord(k)
    BY DEF SolverInv
  <1>2. /\ r \in SolverRecord(k) /\ r.identities = s.identities /\ r.placement = s.placement
        /\ r.wait = s.wait /\ r.targets = s.targets
    BY <1>1, Zenon DEF SolverRecord, Phases
  <1>3. r.action_confirmations = k
    BY <1>2, SolverFields
  <1>4. Known(s) \subseteq Keys(s.placement)
    BY EffectiveIsFull
  <1> HIDE DEF k
  <1> QED
    BY <1>2, <1>3, <1>4 DEF SolverInv, Known

\* What the solver knows of a thread with another identity is forgotten.
Forgotten(s, demands, t) == s.identities[t] # 0 /\ s.identities[t] # demands[t]
TakenIn(r, s, demands) ==
    /\ SolverInv(r) /\ r.identities = demands /\ r.phase # "uninitialized"
    /\ \A t \in Tid : r.placement[t] = IF Forgotten(s, demands, t) THEN 0 ELSE s.placement[t]

\* The cohort is what the solver knows next, and nothing is placed anew.
LEMMA AdmittedInv ==
  ASSUME NEW s, SolverInv(s), NEW demands \in IdentityMaps,
         NEW aim \in [IF Arrived(s, demands) THEN Newcomers(s, demands) ELSE {} -> Cpu]
  PROVE  TakenIn(Admitted(s, demands, aim), s, demands)
  <1> DEFINE X == IF Arrived(s, demands) THEN Newcomers(s, demands) ELSE {}
             Gone == {t \in Keys(s.identities) : s.identities[t] # demands[t]}
             g == remove_threads(s, Gone)
             a == Admitted(s, demands, aim)
             k == s.action_confirmations
             phase == IF SubstantialGrowth(s, demands) \/ g.phase = "uninitialized" THEN "planning"
                      ELSE IF Arrived(s, demands) THEN "pinning" ELSE g.phase
             replan == g.replan \/ SubstantialGrowth(s, demands)
             confirmation == IF SubstantialGrowth(s, demands) THEN 0 ELSE g.confirmation
             candidate == IF SubstantialGrowth(s, demands) THEN None ELSE g.candidate
             targets == Overlay(g.targets, aim)
  <1> HIDE DEF Gone
  <1>0. s \in SolverRecord(k)
    BY DEF SolverInv
  <1> HIDE DEF k
  <1>1. g \in SolverRecord(k)
    BY <1>0, RemovedRecord, Zenon
  <1>2. /\ g.targets = Without(s.targets, Gone) /\ g.placement = Without(s.placement, Gone)
        /\ g.wait = Without(s.wait, Gone) /\ g.phase = s.phase
    BY <1>0, RemovedFields, Zenon
  <1>3. a = [g EXCEPT !.identities = demands, !.targets = targets, !.phase = phase, !.replan = replan,
                      !.confirmation = confirmation, !.candidate = candidate]
    BY Zenon DEF Admitted, Gone
  <1>4. \A t \in Gone : t \in Tid /\ s.identities[t] # 0 /\ s.identities[t] # demands[t]
    BY DEF Keys, Gone
  <1>5. \A t \in Tid : t \in Gone <=> Forgotten(s, demands, t)
    BY DEF Keys, Forgotten, Gone
  <1>6. DOMAIN aim = X /\ X \subseteq Keys(demands) /\ \A t \in X : aim[t] \in Cpu
    BY DEF Newcomers
  <1>7. X \subseteq Tid
    BY <1>6 DEF Keys
  <1> HIDE DEF g, X
  <1>8. /\ phase \in Phases /\ phase # "uninitialized" /\ replan \in BOOLEAN /\ confirmation \in Counts
        /\ candidate \in IdentityMaps
    <2>1. /\ g.phase \in Phases /\ g.replan \in BOOLEAN /\ g.confirmation \in Counts /\ g.candidate \in IdentityMaps
      BY <1>1, SolverFields, Zenon
    <2>2. 0 \in Counts /\ None \in IdentityMaps
      BY OptionAssumption, BoundAssumption DEF Counts, None, IdentityMaps
    <2> QED
      BY <2>1, <2>2 DEF Phases
  <1>9. targets \in CpuMaps /\ \A t \in Tid : targets[t] = IF t \in X THEN aim[t] ELSE g.targets[t]
    <2>1. g.targets \in CpuMaps
      BY <1>1, SolverFields, Zenon
    <2> QED
      BY <1>6, <2>1 DEF Overlay, CpuMaps
  <1> HIDE DEF targets, replan, confirmation, candidate
  <1>10. /\ a \in SolverRecord(k) /\ a.identities = demands /\ a.targets = targets /\ a.phase = phase
         /\ a.placement = g.placement /\ a.wait = g.wait
    <2> HIDE DEF phase, a
    <2> QED
      BY <1>1, <1>3, <1>8, <1>9, Zenon DEF SolverRecord
  <1> HIDE DEF a
  <1>11. a.action_confirmations = k
    BY <1>10, SolverFields, Zenon
  <1>12. \A t \in Tid : a.placement[t] = IF Forgotten(s, demands, t) THEN 0 ELSE s.placement[t]
    BY <1>2, <1>5, <1>10, WithoutValue
  <1>13. ASSUME NEW f, Keys(f) \subseteq Known(s)
         PROVE  Keys(Without(f, Gone)) \subseteq Keys(demands)
    <2>1. \A t \in Known(s) : ~Forgotten(s, demands, t) => t \in Keys(demands)
      BY DEF Known, Keys, Forgotten
    <2>2. \A t \in Known(s) : t \in Tid
      BY DEF Known, Keys
    <2> QED
      BY <1>5, <1>13, <2>1, <2>2, WithoutKeys
  <1>14. Keys(a.placement) \subseteq Keys(demands) /\ Keys(a.wait) \subseteq Keys(demands)
    BY <1>2, <1>10, <1>13, Zenon DEF SolverInv
  <1>15. Keys(a.targets) \subseteq Keys(demands)
    <2>1. Keys(g.targets) \subseteq Keys(demands)
      BY <1>2, <1>13, Zenon DEF SolverInv
    <2> QED
      BY <1>6, <1>9, <1>10, <2>1 DEF Keys
  <1>16. ASSUME phase \in {"pinning", "optimizing"}, NEW t \in Keys(demands)
         PROVE  t \in Keys(a.targets)
    <2>1. s.phase \in {"pinning", "optimizing"} /\ t \in Tid /\ demands[t] # 0
      BY <1>2, <1>16 DEF Arrived, Keys
    <2>2. CASE t \in X
      BY <1>6, <1>9, <1>10, <2>1, <2>2, CpuAssumption, Zenon DEF Keys
    <2>3. CASE t \notin X
      <3>1. s.identities[t] = demands[t]
        BY <2>1, <2>3, <1>16 DEF X, Arrived, Newcomers
      <3>2. t \in Keys(s.targets) /\ t \notin Gone
        BY <1>4, <2>1, <3>1 DEF SolverInv, Known, Keys
      <3>3. targets[t] = s.targets[t]
        BY <1>2, <1>9, <2>1, <2>3, <3>2, WithoutValue
      <3> QED
        BY <1>10, <3>2, <3>3 DEF Keys
    <2> QED
      BY <2>2, <2>3
  <1>17. ASSUME phase = "optimizing", NEW t \in Keys(demands)
         PROVE  t \in Keys(a.placement)
    <2>1. s.phase = "optimizing" /\ t \in Tid /\ demands[t] # 0 /\ ~Arrived(s, demands)
      BY <1>2, <1>17 DEF Keys
    <2>2. s.identities[t] = demands[t]
      BY <1>17, <2>1 DEF Arrived, Newcomers
    <2>3. t \in Keys(s.placement) /\ ~Forgotten(s, demands, t)
      BY <2>1, <2>2 DEF SolverInv, Known, Keys, Forgotten
    <2> QED
      BY <1>12, <2>1, <2>3 DEF Keys
  <1> HIDE DEF phase
  <1>18. SolverInv(a)
    BY <1>10, <1>11, <1>14, <1>15, <1>16, <1>17 DEF SolverInv, Known
  <1> QED
    BY <1>8, <1>10, <1>12, <1>18, Zenon DEF TakenIn, a

\* Every way to take in the cohort, also where pinning is over by it.
LEMMA RefreshesInv ==
  ASSUME NEW s, SolverInv(s), NEW demands \in IdentityMaps, NEW r \in Refreshes(s, demands)
  PROVE  TakenIn(r, s, demands)
  <1>1. PICK aim \in [IF Arrived(s, demands) THEN Newcomers(s, demands) ELSE {} -> Cpu] :
          r = Refreshed(Admitted(s, demands, aim))
    BY Zenon DEF Refreshes
  <1> DEFINE a == Admitted(s, demands, aim)
  <1>2. TakenIn(a, s, demands)
    BY AdmittedInv, Zenon
  <1> HIDE DEF a
  <1>3. CASE a.phase = "pinning" /\ TargetsEffective(a)
    <2>1. a \in SolverRecord(a.action_confirmations)
      BY <1>2, Zenon DEF TakenIn, SolverInv
    <2>2. r = [a EXCEPT !.phase = "optimizing"]
      BY <1>1, <1>3, Zenon DEF Refreshed, a
    <2>3. r = [a EXCEPT !.phase = "optimizing", !.replan = a.replan] /\ a.replan \in BOOLEAN /\ r.phase = "optimizing"
      BY <2>1, <2>2, Zenon DEF SolverRecord
    <2>4. SolverInv(r) /\ r.identities = a.identities /\ r.placement = a.placement
      BY <1>2, <1>3, <2>3, OptimizingInv, Zenon DEF TakenIn
    <2> QED
      BY <1>2, <2>3, <2>4 DEF TakenIn
  <1>4. CASE ~(a.phase = "pinning" /\ TargetsEffective(a))
    BY <1>1, <1>2, <1>4, Zenon DEF Refreshed, a
  <1> QED
    BY <1>3, <1>4
-----------------------------------------------------------------------------
(***************************************************************************)
(* Counting slots                                                          *)
(***************************************************************************)
At(f, c) == {t \in Tid : f[t] = c}
Over(f, cap) == {slot \in Cpu \X (1..Cardinality(Tid)) : cap < slot[2] /\ slot[2] <= Count(f, slot[1])}

\* What is on a CPU can be counted.
LEMMA CountIsNat ==
  ASSUME NEW f, NEW c
  PROVE  Count(f, c) \in Nat /\ IsFiniteSet(At(f, c)) /\ Count(f, c) = Cardinality(At(f, c))
  <1>1. At(f, c) \in SUBSET Tid
    BY DEF At
  <1>2. IsFiniteSet(At(f, c))
    BY <1>1, TidAssumption, FS_Subset
  <1>3. Count(f, c) = Cardinality(At(f, c))
    BY DEF At, Count
  <1> QED
    BY <1>2, <1>3, FS_CardinalityType

\* Where there are no more threads the count is no larger.
LEMMA CountGrows ==
  ASSUME NEW f, NEW g, NEW c, At(f, c) \subseteq At(g, c)
  PROVE  Count(f, c) <= Count(g, c)
  <1>1. IsFiniteSet(At(g, c)) /\ Count(f, c) = Cardinality(At(f, c)) /\ Count(g, c) = Cardinality(At(g, c))
    BY CountIsNat, Zenon
  <1>2. At(f, c) \in SUBSET At(g, c)
    OBVIOUS
  <1> QED
    BY <1>1, <1>2, FS_Subset

\* What is over the slot cap can be counted.
LEMMA OverIsFinite ==
  ASSUME NEW f, NEW cap
  PROVE  /\ IsFiniteSet(Over(f, cap)) /\ SlotViolation(f, cap) \in Nat
         /\ SlotViolation(f, cap) = Cardinality(Over(f, cap))
  <1>1. Cardinality(Tid) \in Nat
    BY TidAssumption, FS_CardinalityType
  <1>2. IsFiniteSet(1..Cardinality(Tid))
    BY <1>1, FS_Interval
  <1>3. IsFiniteSet(Cpu \X (1..Cardinality(Tid)))
    BY <1>2, CpuAssumption, FS_Product, Zenon
  <1>4. Over(f, cap) \in SUBSET (Cpu \X (1..Cardinality(Tid)))
    BY DEF Over
  <1>5. IsFiniteSet(Over(f, cap))
    BY <1>3, <1>4, FS_Subset
  <1>6. SlotViolation(f, cap) = Cardinality(Over(f, cap))
    BY DEF Over, SlotViolation
  <1> QED
    BY <1>5, <1>6, FS_CardinalityType

\* If every CPU stays within the cap or gets no fuller, no violation is added.
LEMMA ViolationGrows ==
  ASSUME NEW f, NEW g, NEW cap \in Nat,
         \A c \in Cpu : Count(f, c) <= cap \/ Count(f, c) <= Count(g, c)
  PROVE  SlotViolation(f, cap) <= SlotViolation(g, cap)
  <1>1. Over(f, cap) \in SUBSET Over(g, cap)
    <2> SUFFICES ASSUME NEW slot \in Over(f, cap) PROVE slot \in Over(g, cap)
      OBVIOUS
    <2>1. Cardinality(Tid) \in Nat
      BY TidAssumption, FS_CardinalityType
    <2>2. PICK c \in Cpu, n \in 1..Cardinality(Tid) : slot = <<c, n>>
      BY DEF Over
    <2>3. cap < n /\ n <= Count(f, c)
      BY <2>2 DEF Over
    <2>4. Count(f, c) \in Nat /\ Count(g, c) \in Nat
      BY CountIsNat, Zenon
    <2>5. n <= Count(g, c)
      BY <2>1, <2>3, <2>4
    <2> QED
      BY <2>2, <2>3, <2>5 DEF Over
  <1>2. /\ IsFiniteSet(Over(g, cap)) /\ SlotViolation(f, cap) = Cardinality(Over(f, cap))
        /\ SlotViolation(g, cap) = Cardinality(Over(g, cap))
    BY OverIsFinite, Zenon
  <1> QED
    BY <1>1, <1>2, FS_Subset

\* cpu_slot_cap is a number; without a limit it gives the cohort slots enough.
LEMMA CapIsNat ==
  ASSUME NEW limit \in Nat, NEW n \in Nat
  PROVE  /\ cpu_slot_cap(limit, n) \in Nat
         /\ limit = 0 => n <= cpu_slot_cap(limit, n) * Cardinality(Cpu)
  <1>1. Cardinality(Cpu) \in Nat /\ Cardinality(Cpu) > 0
    <2>1. Cardinality(Cpu) \in Nat /\ Cardinality(Cpu) # 0
      BY CpuAssumption, FS_CardinalityType, FS_EmptySet
    <2> QED
      BY <2>1
  <1> DEFINE k == Cardinality(Cpu)  q == (n + k - 1) \div k
  <1> HIDE DEF k
  <1>2. k \in Nat /\ k > 0 /\ n + k - 1 \in Nat
    BY <1>1 DEF k
  <1>3. q \in Nat /\ n + k - 1 < k * q + k
    <2>1. \A x \in Nat, y \in Nat \ {0} : x \div y \in Nat /\ x < y * (x \div y) + y
      OBVIOUS
    <2> QED
      BY <1>2, <2>1
  <1>4. SlotSlack \in Nat
    BY OptionAssumption
  <1> HIDE DEF q
  <1>5. n <= k * q
    BY <1>2, <1>3
  <1>6. (q + SlotSlack) * k = k * q + SlotSlack * k /\ SlotSlack * k \in Nat /\ k * q \in Nat
    BY <1>2, <1>3, <1>4
  <1>7. n <= (q + SlotSlack) * k
    BY <1>5, <1>6
  <1>8. cpu_slot_cap(limit, n) = IF limit > 0 THEN limit ELSE q + SlotSlack
    BY DEF cpu_slot_cap, q, k
  <1> QED
    BY <1>3, <1>4, <1>7, <1>8 DEF k
-----------------------------------------------------------------------------
(***************************************************************************)
(* Proposals                                                               *)
(***************************************************************************)
\* Placement f after a whole batch d.
Carried(f, d) == [t \in Tid |-> IF d[t] # 0 THEN d[t] ELSE f[t]]

\* A proposal pins threads that the solver knows and adds no slot violation; it is
\* refused only for a cohort that is larger than all slots together.
Proposal(x, r, cap) ==
    /\ SolverInv(x.solver) /\ x.solver.identities = r.identities /\ x.solver.placement = r.placement
    /\ x.delta \in CpuMaps /\ Keys(x.delta) \subseteq Known(r)
    /\ SlotViolation(Carried(r.placement, x.delta), cap) <= SlotViolation(r.placement, cap)
    /\ x.thrown \in BOOLEAN /\ (x.thrown => x.delta = None /\ Size(r) > cap * Cardinality(Cpu))

\* The empty map.
LEMMA NoneFacts == None \in CpuMaps /\ None \in IdentityMaps /\ Keys(None) = {} /\ \A t \in Tid : None[t] = 0
  BY BoundAssumption DEF None, CpuMaps, IdentityMaps, Keys

\* No batch adds no violation.
LEMMA EmptyBatch ==
  ASSUME NEW f \in CpuMaps, NEW cap
  PROVE  SlotViolation(Carried(f, None), cap) <= SlotViolation(f, cap)
  <1>1. Carried(f, None) = f
    BY NoneFacts DEF Carried, CpuMaps
  <1>2. SlotViolation(f, cap) \in Nat
    BY OverIsFinite, Zenon
  <1> QED
    BY <1>1, <1>2

\* The solver knows finitely many threads.
LEMMA SizeIsNat ==
  ASSUME NEW s
  PROVE  Size(s) \in Nat /\ Size(s) \in Sizes /\ IsFiniteSet(Known(s)) /\ Known(s) \subseteq Tid
  <1>1. Known(s) \in SUBSET Tid /\ Size(s) = Cardinality(Known(s))
    BY DEF Known, Keys, Size
  <1>2. /\ IsFiniteSet(Known(s)) /\ Cardinality(Known(s)) <= Cardinality(Tid)
        /\ Cardinality(Tid) \in Nat
    BY <1>1, TidAssumption, FS_Subset, FS_CardinalityType
  <1>3. Cardinality(Known(s)) \in Nat
    BY <1>2, FS_CardinalityType
  <1> QED
    BY <1>1, <1>2, <1>3 DEF Sizes

\* A result without a batch.
LEMMA NotReadyInv ==
  ASSUME NEW r, SolverInv(r), NEW s, SolverInv(s), s.identities = r.identities, s.placement = r.placement,
         NEW cap
  PROVE  Proposal(NotReady(s), r, cap)
  <1>1. NotReady(s).solver = s /\ NotReady(s).delta = None /\ NotReady(s).thrown = FALSE
    BY DEF NotReady, Result
  <1>2. r.placement \in CpuMaps
    BY SolverFields, Zenon DEF SolverInv
  <1> QED
    BY <1>1, <1>2, EmptyBatch, NoneFacts, Zenon DEF Proposal

\* The node plan counts its confirmations, and in the end aims every thread.
LEMMA NodePlanningInv ==
  ASSUME NEW r, SolverInv(r), r.phase = "planning", NEW cap, NEW x \in NodePlanning(r)
  PROVE  Proposal(x, r, cap)
  <1> DEFINE n == IF r.candidate = r.identities THEN r.confirmation + 1 ELSE 1
             c == [r EXCEPT !.confirmation = n, !.candidate = r.identities]
             P(aim) == [r EXCEPT !.phase = "pinning", !.confirmation = 0, !.candidate = None,
                                 !.population = Size(r), !.targets = Overlay(None, aim)]
             k == r.action_confirmations
  <1>1. r \in SolverRecord(k)
    BY DEF SolverInv
  <1>2. r.confirmation \in Counts /\ r.identities \in IdentityMaps
    BY <1>1, SolverFields, Zenon
  <1>3. InitialConfirmations \in Nat \ {0} /\ n \in Nat /\ 0 \in Counts /\ (n < InitialConfirmations => n \in Counts)
    BY <1>2, OptionAssumption DEF Counts
  <1>4. CASE n < InitialConfirmations
    <2>1. x = NotReady(c)
      BY <1>4 DEF NodePlanning
    <2>2. n \in Counts
      BY <1>3, <1>4
    <2> HIDE DEF n
    <2>3. /\ c \in SolverRecord(k) /\ c.identities = r.identities /\ c.placement = r.placement
          /\ c.targets = r.targets /\ c.wait = r.wait /\ c.phase = r.phase
      <3> HIDE DEF k
      <3> QED
        BY <1>1, <1>2, <2>2, Zenon DEF SolverRecord
    <2> HIDE DEF c
    <2>4. c.action_confirmations = k
      BY <2>3, SolverFields, Zenon
    <2>5. SolverInv(c)
      BY <2>3, <2>4 DEF SolverInv, Known
    <2> QED
      BY <2>1, <2>3, <2>5, NotReadyInv, Zenon
  <1>5. CASE ~(n < InitialConfirmations)
    <2>1. PICK aim \in [Keys(r.identities) -> Cpu] : x = NotReady(P(aim))
      BY <1>5, Zenon DEF NodePlanning
    <2> DEFINE targets == Overlay(None, aim)  p == P(aim)
    <2>2. targets \in CpuMaps /\ Keys(targets) = Known(r)
      BY NoneFacts, CpuAssumption DEF Overlay, CpuMaps, Keys, Known
    <2>3. Size(r) \in Sizes /\ None \in IdentityMaps
      BY SizeIsNat, NoneFacts, Zenon
    <2>4. /\ p \in SolverRecord(k) /\ p.identities = r.identities /\ p.placement = r.placement
          /\ p.targets = targets /\ p.wait = r.wait /\ p.phase = "pinning"
      <3> HIDE DEF k, targets
      <3>1. p = [r EXCEPT !.phase = "pinning", !.confirmation = 0, !.candidate = None,
                          !.population = Size(r), !.targets = targets]
        BY Zenon DEF targets
      <3> HIDE DEF p
      <3> QED
        BY <1>1, <1>3, <2>2, <2>3, <3>1, Zenon DEF SolverRecord, Phases
    <2> HIDE DEF p, targets
    <2>5. p.action_confirmations = k
      BY <2>4, SolverFields, Zenon
    <2>6. SolverInv(p)
      BY <2>2, <2>4, <2>5 DEF SolverInv, Known
    <2> QED
      BY <2>1, <2>4, <2>6, NotReadyInv, Zenon DEF p
  <1> QED
    BY <1>4, <1>5
-----------------------------------------------------------------------------
(***************************************************************************)
(* Pinning                                                                 *)
(***************************************************************************)
\* In a set of ranked elements one is last.
LEMMA LastRanked ==
  ASSUME NEW N \in Nat, NEW S, NEW rank \in [S -> 1..N], NEW B \in SUBSET S, B # {}
  PROVE  \E t \in B : \A u \in B : rank[u] <= rank[t]
  <1> DEFINE T == {N - rank[u] : u \in B}
  <1>1. \A u \in B : rank[u] \in 1..N /\ N - rank[u] \in Nat
    OBVIOUS
  <1>2. T \in SUBSET Nat /\ T # {}
    BY <1>1
  <1>3. PICK x \in T : \A y \in T : x <= y
    BY <1>2, LeastElement, Zenon
  <1>4. PICK t \in B : x = N - rank[t]
    OBVIOUS
  <1>5. \A u \in B : N - rank[t] <= N - rank[u]
    BY <1>3, <1>4
  <1> QED
    BY <1>1, <1>5

\* A batch of repairs leaves every CPU within the cap, or no fuller.
LEMMA RepairsKeepSlots ==
  ASSUME NEW s, s.placement \in CpuMaps, NEW batch \in SUBSET Tid, NEW cap \in Nat,
         NEW a \in Repairs(s, batch, cap), NEW c \in Cpu
  PROVE  LET g == Carried(s.placement, Overlay(None, a))
         IN Count(g, c) <= cap \/ Count(g, c) <= Count(s.placement, c)
  <1> DEFINE f == s.placement
             w == Without(f, batch)
             g == Carried(f, Overlay(None, a))
             B == {t \in batch : a[t] = c}
  <1>1. a \in [batch -> Cpu] /\ 0 \notin Cpu /\ IsFiniteSet(batch)
    BY CpuAssumption, TidAssumption, FS_Subset DEF Repairs
  <1>2. \A t \in Tid : g[t] = IF t \in batch THEN a[t] ELSE f[t]
    BY <1>1, NoneFacts DEF Carried, Overlay
  <1>3. \A t \in Tid : w[t] = IF t \in batch THEN 0 ELSE f[t]
    BY DEF Without
  <1> HIDE DEF g, w
  <1>4. At(g, c) = At(w, c) \cup B /\ At(w, c) \cap B = {} /\ At(w, c) \subseteq At(f, c)
    BY <1>1, <1>2, <1>3 DEF At
  <1>5. CASE B = {}
    <2>1. At(g, c) \subseteq At(f, c)
      BY <1>4, <1>5
    <2>2. Count(g, c) <= Count(f, c)
      BY <2>1, CountGrows, Zenon
    <2> QED
      BY <2>2 DEF g
  <1>6. CASE B # {}
    <2> DEFINE free == [x \in Cpu |-> Excess(cap, Count(w, x))]
               Earlier(rank, t) == {u \in batch : rank[u] < rank[t]}
    <2>1. PICK rank \in Injection(batch, 1..Cardinality(batch)) : \A t \in batch :
            Cardinality({u \in Earlier(rank, t) : a[u] = a[t]}) < free[a[t]]
      BY Zenon DEF Repairs, w
    <2>2. Cardinality(batch) \in Nat /\ rank \in [batch -> 1..Cardinality(batch)]
      BY <1>1, FS_CardinalityType DEF Injection
    <2>3. B \in SUBSET batch /\ IsFiniteSet(B)
      BY <1>1, FS_Subset
    <2>4. PICK t \in B : \A u \in B : rank[u] <= rank[t]
      BY <1>6, <2>2, <2>3, LastRanked, Zenon
    <2>5. {u \in Earlier(rank, t) : a[u] = a[t]} = B \ {t}
      <3>1. \A u \in batch : rank[u] \in Nat /\ (rank[u] = rank[t] => u = t)
        BY <2>2, <2>4 DEF Injection, IsInjective
      <3>2. \A u \in B : u # t => rank[u] < rank[t]
        BY <2>2, <2>3, <2>4, <3>1
      <3>3. t \in batch /\ a[t] = c /\ ~(rank[t] < rank[t])
        BY <2>4, <3>1
      <3> QED
        BY <3>2, <3>3
    <2>6. Cardinality(B \ {t}) < Excess(cap, Count(w, c))
      BY <2>1, <2>4, <2>5, Zenon
    <2>7. Cardinality(B \ {t}) = Cardinality(B) - 1 /\ Cardinality(B) \in Nat
      BY <2>3, <2>4, FS_RemoveElement, FS_CardinalityType, Zenon
    <2>8. Count(w, c) \in Nat /\ IsFiniteSet(At(w, c)) /\ Count(w, c) = Cardinality(At(w, c))
      BY CountIsNat, Zenon
    <2>9. Cardinality(B \ {t}) \in Nat
      BY <2>3, FS_RemoveElement, FS_CardinalityType
    <2>10. Cardinality(B) + Count(w, c) <= cap
      BY <2>6, <2>7, <2>8, <2>9 DEF Excess
    <2>11. Cardinality(At(w, c) \cup B) = Count(w, c) + Cardinality(B)
      <3>1. Cardinality(At(w, c) \cap B) = 0
        BY <1>4, FS_EmptySet, Zenon
      <3>2. Cardinality(At(w, c) \cup B) = Cardinality(At(w, c)) + Cardinality(B) - Cardinality(At(w, c) \cap B)
        BY <2>3, <2>8, FS_Union, Zenon
      <3> QED
        BY <2>7, <2>8, <3>1, <3>2
    <2>12. Count(g, c) = Cardinality(At(g, c))
      BY CountIsNat, Zenon
    <2>13. Count(g, c) <= cap
      BY <1>4, <2>7, <2>8, <2>10, <2>11, <2>12
    <2> QED
      BY <2>13 DEF g
  <1> QED
    BY <1>5, <1>6, Zenon

\* An interval from 1 has as many elements as its end.
LEMMA IntervalSize ==
  ASSUME NEW N \in Nat
  PROVE  IsFiniteSet(1..N) /\ Cardinality(1..N) = N
  <1>1. Cardinality(1..N) = IF 1 > N THEN 0 ELSE N - 1 + 1
    BY FS_Interval
  <1>2. IsFiniteSet(1..N)
    BY FS_Interval
  <1> QED
    BY <1>1, <1>2

\* If every CPU has cap threads of X, X has cap threads for every CPU.
LEMMA FibresFill ==
  ASSUME NEW cap \in Nat, NEW X, IsFiniteSet(X), NEW f,
         \A c \in Cpu : Cardinality({t \in X : f[t] = c}) >= cap
  PROVE  Cardinality(X) >= cap * Cardinality(Cpu)
  <1> DEFINE F(c) == {t \in X : f[t] = c}
             b(c) == CHOOSE h \in Bijection(1..Cardinality(F(c)), F(c)) : TRUE
             D == Cpu \X (1..cap)
             g == [p \in D |-> b(p[1])[p[2]]]
  <1>1. ASSUME NEW c \in Cpu
        PROVE  /\ b(c) \in [1..Cardinality(F(c)) -> F(c)] /\ 1..cap \subseteq 1..Cardinality(F(c))
               /\ \A i, j \in 1..Cardinality(F(c)) : b(c)[i] = b(c)[j] => i = j
    <2>1. F(c) \in SUBSET X
      OBVIOUS
    <2>2. IsFiniteSet(F(c))
      BY <2>1, FS_Subset
    <2>3. Cardinality(F(c)) \in Nat /\ ExistsBijection(1..Cardinality(F(c)), F(c))
      BY <2>2, FS_CardinalityType
    <2>4. b(c) \in Bijection(1..Cardinality(F(c)), F(c))
      BY <2>3, Zenon DEF ExistsBijection
    <2>5. Cardinality(F(c)) >= cap
      OBVIOUS
    <2> HIDE DEF b, F
    <2>6. 1..cap \subseteq 1..Cardinality(F(c))
      BY <2>3, <2>5
    <2> QED
      BY <2>4, <2>6 DEF Bijection, Injection, IsInjective
  <1> HIDE DEF b
  <1>2. \A c \in Cpu : \A i \in 1..cap : b(c)[i] \in X /\ f[b(c)[i]] = c
    BY <1>1, Zenon
  <1>3. \A c \in Cpu : \A i, j \in 1..cap : b(c)[i] = b(c)[j] => i = j
    BY <1>1, Zenon
  <1> HIDE DEF F
  <1>4. g \in [D -> X]
    BY <1>2
  <1>5. ASSUME NEW p \in D, NEW q \in D, g[p] = g[q]
        PROVE  p = q
    <2>1. PICK c \in Cpu, i \in 1..cap : p = <<c, i>>
      OBVIOUS
    <2>2. PICK d \in Cpu, j \in 1..cap : q = <<d, j>>
      OBVIOUS
    <2>3. b(c)[i] = b(d)[j]
      BY <1>5, <2>1, <2>2
    <2>4. c = d
      BY <1>2, <2>3
    <2>5. i = j
      BY <1>3, <2>3, <2>4
    <2> QED
      BY <2>1, <2>2, <2>4, <2>5
  <1> HIDE DEF g
  <1>6. g \in Injection(D, X)
    BY <1>4, <1>5 DEF Injection, IsInjective
  <1>7. Cardinality(D) <= Cardinality(X)
    BY <1>6, FS_Injection
  <1>8. IsFiniteSet(1..cap) /\ Cardinality(1..cap) = cap
    BY IntervalSize, Zenon
  <1>9. Cardinality(D) = Cardinality(Cpu) * cap
    BY <1>8, CpuAssumption, FS_Product, Zenon
  <1>10. Cardinality(Cpu) \in Nat /\ Cardinality(X) \in Nat
    BY CpuAssumption, FS_CardinalityType
  <1> HIDE DEF D
  <1> QED
    BY <1>7, <1>9, <1>10

Taken(a, earlier, c) == Cardinality({t \in earlier : a[t] = c})
Free(s, batch, cap, c) == Excess(cap, Count(Without(s.placement, batch), c))

\* If the cohort fits, there is a slot for every thread of a batch.
LEMMA SomeSlotIsFree ==
  ASSUME NEW s, SolverInv(s), NEW cap \in Nat, Size(s) <= cap * Cardinality(Cpu),
         NEW batch \in SUBSET Known(s), NEW a \in [batch -> Cpu],
         NEW t \in batch, NEW earlier \in SUBSET (batch \ {t})
  PROVE  \E c \in Cpu : Taken(a, earlier, c) < Free(s, batch, cap, c)
  <1> SUFFICES ASSUME \A c \in Cpu : ~(Taken(a, earlier, c) < Free(s, batch, cap, c)) PROVE FALSE
    OBVIOUS
  <1> DEFINE w == Without(s.placement, batch)
             X == Keys(w) \cup earlier
             f == [u \in X |-> IF u \in earlier THEN a[u] ELSE w[u]]
  <1>1. /\ Known(s) \subseteq Tid /\ IsFiniteSet(Known(s)) /\ Size(s) = Cardinality(Known(s)) /\ Size(s) \in Nat
    BY SizeIsNat DEF Size, Known
  <1>2. Keys(w) = Keys(s.placement) \ batch
    BY WithoutKeys, Zenon
  <1>3. Keys(s.placement) \subseteq Known(s)
    BY DEF SolverInv
  <1> HIDE DEF w
  <1>4. X \in SUBSET (Known(s) \ {t}) /\ t \in Known(s)
    BY <1>2, <1>3
  <1>5. IsFiniteSet(Known(s) \ {t}) /\ Cardinality(Known(s) \ {t}) = Size(s) - 1
    BY <1>1, <1>4, FS_RemoveElement
  <1>6. IsFiniteSet(X) /\ Cardinality(X) <= Size(s) - 1
    <2>1. X \in SUBSET (Known(s) \ {t})
      BY <1>4, Zenon
    <2> HIDE DEF X
    <2>2. IsFiniteSet(X) /\ Cardinality(X) <= Cardinality(Known(s) \ {t})
      BY <1>5, <2>1, FS_Subset, Zenon
    <2> QED
      BY <1>5, <2>2, Zenon
  <1>7. ASSUME NEW c \in Cpu
        PROVE  Cardinality({u \in X : f[u] = c}) >= cap
    <2> DEFINE E == {u \in earlier : a[u] = c}
    <2>1. {u \in X : f[u] = c} = At(w, c) \cup E /\ At(w, c) \cap E = {}
      <3>1. c # 0
        BY CpuAssumption
      <3>2. \A u \in At(w, c) : u \in Keys(w)
        BY <3>1 DEF At, Keys
      <3>3. \A u \in Keys(w) : u \notin earlier /\ u \in Tid
        BY <1>2 DEF Keys
      <3> QED
        BY <3>2, <3>3, Zenon DEF At
    <2>2. IsFiniteSet(E)
      <3>1. E \in SUBSET X
        OBVIOUS
      <3> QED
        BY <1>6, <3>1, FS_Subset
    <2>3. Count(w, c) \in Nat /\ IsFiniteSet(At(w, c)) /\ Count(w, c) = Cardinality(At(w, c))
      BY CountIsNat, Zenon
    <2>4. ~(Cardinality(E) < Excess(cap, Count(w, c)))
      BY DEF Taken, Free, w
    <2>5. Cardinality(E) \in Nat
      BY <2>2, FS_CardinalityType, Zenon
    <2>6. Cardinality(At(w, c) \cap E) = 0
      BY <2>1, FS_EmptySet, Zenon
    <2>7. Cardinality(At(w, c) \cup E) = Cardinality(At(w, c)) + Cardinality(E) - Cardinality(At(w, c) \cap E)
      BY <2>2, <2>3, FS_Union, Zenon
    <2> HIDE DEF E
    <2>8. Cardinality(At(w, c) \cup E) >= cap
      BY <2>3, <2>4, <2>5, <2>6, <2>7 DEF Excess
    <2> QED
      BY <2>1, <2>8, Zenon
  <1>8. Cardinality(X) >= cap * Cardinality(Cpu)
    <2> HIDE DEF X, f
    <2> QED
      BY <1>6, <1>7, FibresFill
  <1>9. Cardinality(X) \in Nat /\ Cardinality(Cpu) \in Nat /\ cap * Cardinality(Cpu) \in Nat
    BY <1>6, CpuAssumption, FS_CardinalityType
  <1> QED
    BY <1>1, <1>6, <1>8, <1>9

\* The choice of the code for one thread, after the ones ranked before it.
Placed(s, batch, cap, rank, a, t) ==
    LET earlier == {u \in batch : rank[u] < rank[t]}
    IN /\ Taken(a, earlier, a[t]) < Free(s, batch, cap, a[t])
       /\ a[t] # s.targets[t] => Taken(a, earlier, s.targets[t]) >= Free(s, batch, cap, s.targets[t])

\* If the cohort fits, the batch is repaired: initial pinning does not throw.
LEMMA RepairExists ==
  ASSUME NEW s, SolverInv(s), s.phase = "pinning", NEW cap \in Nat, Size(s) <= cap * Cardinality(Cpu),
         NEW batch \in SUBSET Known(s)
  PROVE  Repairs(s, batch, cap) # {}
  <1> DEFINE N == Cardinality(batch)
             Upto(rank, a, k) == \A t \in batch : rank[t] <= k => Placed(s, batch, cap, rank, a, t)
  <1>1. Known(s) \subseteq Tid /\ IsFiniteSet(Known(s)) /\ s.targets \in CpuMaps
    BY SizeIsNat, SolverFields, Zenon DEF SolverInv
  <1>2. IsFiniteSet(batch) /\ N \in Nat
    BY <1>1, FS_Subset, FS_CardinalityType
  <1>3. PICK rank : rank \in Injection(batch, 1..N)
    <2>1. IsFiniteSet(1..N) /\ Cardinality(1..N) = N
      BY <1>2, IntervalSize, Zenon
    <2>2. ExistsBijection(batch, 1..N)
      BY <1>2, <2>1, FS_SameCardinalityBij
    <2> QED
      BY <2>2 DEF ExistsBijection, Bijection
  <1>4. rank \in [batch -> 1..N] /\ \A t, u \in batch : rank[t] = rank[u] => t = u
    BY <1>3, Zenon DEF Injection, IsInjective
  <1>5. \A t \in batch : s.targets[t] \in Cpu
    BY <1>1 DEF SolverInv, Keys, CpuMaps
  <1> HIDE DEF N
  <1> DEFINE T == {k \in 0..N : \E a \in [batch -> Cpu] : Upto(rank, a, k)}
  <1>6. 0 \in T
    <2>1. PICK c : c \in Cpu
      BY CpuAssumption
    <2> DEFINE a == [t \in batch |-> c]
    <2>2. a \in [batch -> Cpu]
      BY <2>1
    <2> HIDE DEF a
    <2>3. \A t \in batch : ~(rank[t] <= 0)
      BY <1>2, <1>4
    <2>4. 0 \in 0..N
      BY <1>2
    <2>5. Upto(rank, a, 0)
      BY <2>3, Zenon
    <2> QED
      BY <2>2, <2>4, <2>5, Zenon
  <1>7. ASSUME NEW k \in 1..N, k - 1 \in T
        PROVE  k \in T
    <2>1. PICK a \in [batch -> Cpu] : Upto(rank, a, k - 1)
      BY <1>7
    <2>2. \A t \in batch : rank[t] \in Nat /\ (rank[t] <= k /\ rank[t] # k => rank[t] <= k - 1)
      BY <1>2, <1>4
    <2>3. k \in 0..N
      BY <1>2
    <2>4. CASE \A t \in batch : rank[t] # k
      <3>1. Upto(rank, a, k)
        BY <2>1, <2>2, <2>4, Zenon
      <3> QED
        BY <2>3, <3>1, Zenon
    <2>5. CASE \E t \in batch : rank[t] = k
      <3>1. PICK t \in batch : rank[t] = k
        BY <2>5
      <3> DEFINE E(u) == {v \in batch : rank[v] < rank[u]}
                 Right(c) == /\ Taken(a, E(t), c) < Free(s, batch, cap, c)
                             /\ c # s.targets[t] => Taken(a, E(t), s.targets[t]) >= Free(s, batch, cap, s.targets[t])
      <3>2. E(t) \in SUBSET (batch \ {t})
        BY <2>2
      <3>3. \A c \in Cpu : Taken(a, E(t), c) \in Nat /\ Free(s, batch, cap, c) \in Nat
        <4> SUFFICES ASSUME NEW c \in Cpu PROVE Taken(a, E(t), c) \in Nat /\ Free(s, batch, cap, c) \in Nat
          OBVIOUS
        <4> DEFINE V == {v \in E(t) : a[v] = c}
        <4>1. V \in SUBSET batch
          OBVIOUS
        <4>2. Cardinality(V) \in Nat
          BY <1>2, <4>1, FS_Subset, FS_CardinalityType
        <4>3. Count(Without(s.placement, batch), c) \in Nat
          BY CountIsNat, Zenon
        <4> QED
          BY <4>2, <4>3 DEF Taken, Free, Excess
      <3>4. \E c \in Cpu : Taken(a, E(t), c) < Free(s, batch, cap, c)
        BY <3>2, SomeSlotIsFree, Zenon
      <3>5. s.targets[t] \in Cpu
        BY <1>5, Zenon
      <3> HIDE DEF E
      <3>6. PICK c \in Cpu : Right(c)
        <4>1. CASE Taken(a, E(t), s.targets[t]) < Free(s, batch, cap, s.targets[t])
          BY <3>5, <4>1, Zenon
        <4>2. CASE ~(Taken(a, E(t), s.targets[t]) < Free(s, batch, cap, s.targets[t]))
          <5>1. Taken(a, E(t), s.targets[t]) >= Free(s, batch, cap, s.targets[t])
            BY <3>3, <3>5, <4>2
          <5> QED
            BY <3>4, <5>1, Zenon
        <4> QED
          BY <4>1, <4>2
      <3> DEFINE b == [v \in batch |-> IF v = t THEN c ELSE a[v]]
      <3>7. b \in [batch -> Cpu] /\ b[t] = c /\ \A v \in batch : v # t => b[v] = a[v]
        BY Zenon
      <3> HIDE DEF b
      <3>8. ASSUME NEW u \in batch, rank[u] <= k, NEW x
            PROVE  Taken(b, E(u), x) = Taken(a, E(u), x)
        <4>1. t \notin E(u) /\ E(u) \subseteq batch
          BY <2>2, <3>1, <3>8 DEF E
        <4>2. {v \in E(u) : b[v] = x} = {v \in E(u) : a[v] = x}
          BY <3>7, <4>1
        <4> QED
          BY <4>2 DEF Taken
      <3>9. ASSUME NEW u \in batch, rank[u] <= k
            PROVE  Placed(s, batch, cap, rank, b, u)
        <4>1. CASE u = t
          BY <3>6, <3>7, <3>8, <3>9, <4>1, Zenon DEF Placed, E
        <4>2. CASE u # t
          <5>1. rank[u] # k
            BY <1>4, <3>1, <4>2
          <5>2. Placed(s, batch, cap, rank, a, u)
            BY <2>1, <2>2, <3>9, <5>1, Zenon
          <5>3. /\ Taken(b, E(u), b[u]) = Taken(a, E(u), a[u]) /\ b[u] = a[u]
                /\ Taken(b, E(u), s.targets[u]) = Taken(a, E(u), s.targets[u])
            BY <3>7, <3>8, <3>9, <4>2, Zenon
          <5> QED
            BY <5>2, <5>3, Zenon DEF Placed, E
        <4> QED
          BY <4>1, <4>2
      <3> QED
        BY <2>3, <3>7, <3>9, Zenon
    <2> QED
      BY <2>4, <2>5, Zenon
  <1> HIDE DEF T
  <1>8. N \in T
    <2>1. 0..N \subseteq T
      BY <1>2, <1>6, <1>7, UpToInduction, Zenon
    <2> QED
      BY <1>2, <2>1
  <1>9. PICK a \in [batch -> Cpu] : Upto(rank, a, N)
    BY <1>8 DEF T
  <1>10. \A t \in batch : Placed(s, batch, cap, rank, a, t)
    BY <1>2, <1>4, <1>9
  <1>11. \A t \in batch : s.targets[t] \in Cpu /\ a[t] \in Cpu
    BY <1>5, Zenon
  <1>12. a \in Repairs(s, batch, cap)
    BY <1>3, <1>10, <1>11, Zenon DEF Repairs, Placed, Taken, Free, N
  <1> QED
    BY <1>12

\* One step of initial pinning: a batch is pinned where there are slots, or the cohort
\* is larger than all slots together and the solver throws.
LEMMA InitialPinningInv ==
  ASSUME NEW r, SolverInv(r), r.phase = "pinning", NEW cap \in Nat, NEW x \in InitialPinning(r, cap)
  PROVE  Proposal(x, r, cap)
  <1> DEFINE k == r.action_confirmations
             size == Least(Cardinality(Pending(r)), Budget(r, InitialRatio))
  <1>0. r \in SolverRecord(k) /\ r.placement \in CpuMaps /\ r.targets \in CpuMaps
    BY SolverFields, Zenon DEF SolverInv
  <1>1. CASE Budget(r, InitialRatio) = 0
    <2>1. x = NotReady(r)
      BY <1>1 DEF InitialPinning
    <2> QED
      BY <2>1, NotReadyInv, Zenon
  <1>2. CASE Budget(r, InitialRatio) # 0
    <2>1. PICK batch \in kSubset(size, Pending(r)) :
            x \in IF Repairs(r, batch, cap) = {} THEN {[NotReady(r) EXCEPT !.thrown = TRUE]}
                  ELSE {Result([r EXCEPT !.targets = Overlay(@, a)], Overlay(None, a)) : a \in Repairs(r, batch, cap)}
      BY <1>2, Zenon DEF InitialPinning
    <2>2. batch \in SUBSET Known(r) /\ Known(r) \subseteq Tid
      BY <2>1, SizeIsNat, Zenon DEF kSubset, Pending, Known
    <2>3. CASE Repairs(r, batch, cap) = {}
      <3>1. x = [NotReady(r) EXCEPT !.thrown = TRUE]
        BY <2>1, <2>3
      <3>2. x.solver = r /\ x.delta = None /\ x.thrown = TRUE
        BY <3>1 DEF NotReady, Result
      <3>3. ~(Size(r) <= cap * Cardinality(Cpu))
        BY <2>2, <2>3, RepairExists, Zenon
      <3>4. Size(r) \in Nat /\ Cardinality(Cpu) \in Nat
        BY SizeIsNat, CpuAssumption, FS_CardinalityType
      <3>5. cap * Cardinality(Cpu) \in Nat
        BY <3>4
      <3>6. Size(r) > cap * Cardinality(Cpu)
        BY <3>3, <3>4, <3>5
      <3> QED
        BY <1>0, <3>2, <3>6, EmptyBatch, NoneFacts, Zenon DEF Proposal
    <2>4. CASE Repairs(r, batch, cap) # {}
      <3>1. PICK a \in Repairs(r, batch, cap) :
              x = Result([r EXCEPT !.targets = Overlay(@, a)], Overlay(None, a))
        BY <2>1, <2>4
      <3> DEFINE targets == Overlay(r.targets, a)  d == Overlay(None, a)  s == [r EXCEPT !.targets = targets]
      <3>2. x.solver = s /\ x.delta = d /\ x.thrown = FALSE
        <4>1. x = [solver |-> s, delta |-> d, thrown |-> FALSE]
          BY <3>1, Zenon DEF Result
        <4> HIDE DEF s, d
        <4> QED
          BY <4>1
      <3>3. a \in [batch -> Cpu]
        BY DEF Repairs
      <3>4. targets \in CpuMaps /\ Keys(targets) = Keys(r.targets) \cup batch
        BY <1>0, <2>2, <3>3, CpuAssumption, Zenon DEF Overlay, CpuMaps, Keys
      <3>5. d \in CpuMaps /\ Keys(d) = batch
        BY <2>2, <3>3, NoneFacts, CpuAssumption DEF Overlay, CpuMaps, Keys
      <3>6. SlotViolation(Carried(r.placement, d), cap) <= SlotViolation(r.placement, cap)
        <4>1. batch \in SUBSET Tid
          BY <2>2
        <4>2. \A c \in Cpu : \/ Count(Carried(r.placement, d), c) <= cap
                             \/ Count(Carried(r.placement, d), c) <= Count(r.placement, c)
          BY <1>0, <4>1, RepairsKeepSlots, Zenon
        <4> HIDE DEF d
        <4> QED
          BY <4>2, ViolationGrows, Zenon
      <3> HIDE DEF targets, d
      <3>7. /\ s \in SolverRecord(k) /\ s.identities = r.identities /\ s.placement = r.placement
            /\ s.targets = targets /\ s.wait = r.wait /\ s.phase = r.phase
        <4> HIDE DEF k
        <4> QED
          BY <1>0, <3>4 DEF SolverRecord
      <3> HIDE DEF s
      <3>8. s.action_confirmations = k
        BY <3>7, SolverFields, Zenon
      <3>9. SolverInv(s)
        BY <2>2, <3>4, <3>7, <3>8, Zenon DEF SolverInv, Known
      <3> QED
        BY <2>2, <3>2, <3>5, <3>6, <3>7, <3>9, Zenon DEF Proposal
    <2> QED
      BY <2>3, <2>4
  <1> QED
    BY <1>1, <1>2
-----------------------------------------------------------------------------
(***************************************************************************)
(* Optimizing                                                              *)
(***************************************************************************)
\* Every move and swap is of a known thread, to a CPU: what it swaps with is placed.
LEMMA PotentialActions ==
  ASSUME NEW r, SolverInv(r), r.phase = "optimizing", NEW cap, NEW q \in Moves(r, cap) \cup Swaps(r),
         NEW a \in q.actions
  PROVE  a[1] \in Known(r) /\ a[4] \in Cpu
  <1>1. \A t \in Known(r) : r.placement[t] \in Cpu
    <2>1. r.placement \in CpuMaps
      BY SolverFields, Zenon DEF SolverInv
    <2> QED
      BY <2>1 DEF SolverInv, Keys, CpuMaps
  <1>2. \A t, c : Action(r, t, c)[1] = t /\ Action(r, t, c)[4] = c
    BY Zenon DEF Action
  <1>3. CASE q \in Moves(r, cap)
    <2>1. PICK m \in Known(r) \X Cpu \X BOOLEAN :
            q = [actions |-> {Action(r, m[1], m[2])}, emergency |-> m[3]]
      BY <1>3, Zenon DEF Moves, Known
    <2>2. a = Action(r, m[1], m[2])
      BY <2>1, Zenon
    <2> QED
      BY <1>2, <2>1, <2>2
  <1>4. CASE q \in Swaps(r)
    <2>1. PICK p \in Known(r) \X Known(r) :
            q = [actions |-> {Action(r, p[1], r.placement[p[2]]), Action(r, p[2], r.placement[p[1]])},
                 emergency |-> FALSE]
      BY <1>4, Zenon DEF Swaps, Known
    <2>2. p[1] \in Known(r) /\ p[2] \in Known(r)
      BY <2>1, Zenon
    <2>3. a = Action(r, p[1], r.placement[p[2]]) \/ a = Action(r, p[2], r.placement[p[1]])
      BY <2>1, Zenon
    <2>4. r.placement[p[1]] \in Cpu /\ r.placement[p[2]] \in Cpu
      BY <1>1, <2>2, Zenon
    <2>5. CASE a = Action(r, p[1], r.placement[p[2]])
      <3>1. a[1] = p[1] /\ a[4] = r.placement[p[2]]
        BY <1>2, <2>5
      <3> QED
        BY <2>2, <2>4, <3>1
    <2>6. CASE a = Action(r, p[2], r.placement[p[1]])
      <3>1. a[1] = p[2] /\ a[4] = r.placement[p[1]]
        BY <1>2, <2>6
      <3> QED
        BY <2>2, <2>4, <3>1
    <2> QED
      BY <2>3, <2>5, <2>6, Zenon
  <1> QED
    BY <1>3, <1>4, Zenon

\* The potentials of a window are finitely many moves and swaps.
LEMMA PotentialsFinite ==
  ASSUME NEW r, NEW cap, NEW Q \in Potentials(r, cap)
  PROVE  IsFiniteSet(Q) /\ Q \subseteq Moves(r, cap) \cup Swaps(r)
  <1> DEFINE M == Moves(r, cap) \cup Swaps(r)
  <1>1. Q = {} \/ \E f \in [1..MaxPotentials -> M] : Q = Range(f)
    BY Zenon DEF Potentials
  <1> HIDE DEF M
  <1>2. CASE Q = {}
    BY <1>2, FS_EmptySet, Zenon
  <1>3. CASE \E f \in [1..MaxPotentials -> M] : Q = Range(f)
    <2>1. PICK f \in [1..MaxPotentials -> M] : Q = Range(f)
      BY <1>3
    <2>2. f \in Surjection(1..MaxPotentials, Q) /\ Q \subseteq M
      BY <2>1, Zenon DEF Surjection, Range
    <2>3. IsFiniteSet(1..MaxPotentials)
      BY OptionAssumption, IntervalSize, Zenon
    <2> QED
      BY <2>2, <2>3, FS_Surjection DEF M
  <1> QED
    BY <1>1, <1>2, <1>3 DEF M

\* The violation after the potentials P.
Violation(r, P, cap) == After(r, UNION {p.actions : p \in P}, cap)

\* Potentials that are added one by one, none of them with a new violation, add none
\* together.
LEMMA BatchAddsNothing ==
  ASSUME NEW r, NEW cap, NEW S, IsFiniteSet(S), NEW rank \in Injection(S, 1..Cardinality(S)),
         \A q \in S : LET earlier == {p \in S : rank[p] < rank[q]}
                      IN Violation(r, earlier \cup {q}, cap) <= Violation(r, earlier, cap)
  PROVE  Violation(r, S, cap) <= Violation(r, {}, cap)
  <1> DEFINE N == Cardinality(S)
             Upto(k) == {p \in S : rank[p] <= k}
             T == {k \in 0..N : Violation(r, Upto(k), cap) <= Violation(r, {}, cap)}
  <1>1. N \in Nat /\ rank \in [S -> 1..N] /\ \A p, q \in S : rank[p] = rank[q] => p = q
    BY FS_CardinalityType DEF Injection, IsInjective
  <1>2. \A P : Violation(r, P, cap) \in Nat
    BY OverIsFinite, Zenon DEF Violation, After
  <1> HIDE DEF N
  <1>3. 0 \in T
    <2>1. Upto(0) = {}
      BY <1>1
    <2>2. 0 \in 0..N
      BY <1>1
    <2>3. Violation(r, {}, cap) <= Violation(r, {}, cap)
      BY <1>2
    <2> QED
      BY <2>1, <2>2, <2>3, Zenon
  <1>4. ASSUME NEW k \in 1..N, k - 1 \in T
        PROVE  k \in T
    <2>0. k \in 0..N
      BY <1>1
    <2>1. Violation(r, Upto(k - 1), cap) <= Violation(r, {}, cap)
      BY <1>4, Zenon
    <2>2. \A p \in S : /\ rank[p] <= k <=> rank[p] <= k - 1 \/ rank[p] = k
                       /\ rank[p] <= k - 1 <=> rank[p] < k
      <3>1. \A p \in S : rank[p] \in Nat
        BY <1>1
      <3>2. \A n \in Nat : /\ n <= k <=> n <= k - 1 \/ n = k
                           /\ n <= k - 1 <=> n < k
        BY <1>1
      <3> QED
        BY <3>1, <3>2, Zenon
    <2>3. CASE \A p \in S : rank[p] # k
      <3>1. Upto(k) = Upto(k - 1)
        BY <2>2, <2>3, Zenon
      <3> QED
        BY <2>0, <2>1, <3>1, Zenon
    <2>4. CASE \E p \in S : rank[p] = k
      <3>1. PICK q \in S : rank[q] = k
        BY <2>4, Zenon
      <3>2. Upto(k - 1) = {p \in S : rank[p] < rank[q]}
        BY <2>2, <3>1, Zenon
      <3>3. Upto(k) = Upto(k - 1) \cup {q}
        BY <1>1, <2>2, <3>1
      <3> HIDE DEF Upto
      <3>4. Violation(r, Upto(k), cap) <= Violation(r, Upto(k - 1), cap)
        BY <3>2, <3>3, Zenon
      <3>5. Violation(r, Upto(k), cap) <= Violation(r, {}, cap)
        <4>1. \A x, y, z \in Nat : x <= y /\ y <= z => x <= z
          OBVIOUS
        <4> QED
          BY <1>2, <2>1, <3>4, <4>1, Zenon
      <3> QED
        BY <2>0, <3>5, Zenon
    <2> QED
      BY <2>3, <2>4, Zenon
  <1>5. Upto(N) = S
    BY <1>1
  <1> HIDE DEF T, Upto
  <1>6. N \in T
    <2>1. 0..N \subseteq T
      BY <1>1, <1>3, <1>4, UpToInduction, Zenon
    <2> QED
      BY <1>1, <2>1
  <1> QED
    BY <1>5, <1>6, Zenon DEF T

\* One batch of optimizing moves known threads to CPUs and adds no violation.
LEMMA OptimizingPhaseInv ==
  ASSUME NEW r, SolverInv(r), r.phase = "optimizing", NEW cap, NEW x \in Optimizing(r, cap)
  PROVE  Proposal(x, r, cap)
  <1> DEFINE k == r.action_confirmations
  <1>0. r \in SolverRecord(k) /\ r.placement \in CpuMaps
    BY SolverFields, Zenon DEF SolverInv
  <1>1. CASE Budget(r, MoveRatio) = 0
    <2>1. x = NotReady(r)
      BY <1>1, Zenon DEF Optimizing
    <2> QED
      BY <2>1, NotReadyInv, Zenon
  <1>2. CASE Budget(r, MoveRatio) # 0
    <2>1. PICK Q \in Potentials(r, cap) : \E S \in Selections(r, Q, cap) :
            x = Result([r EXCEPT !.action_confirmations = Confirmations(r, Q)],
                       Moved(None, UNION {q.actions : q \in S}))
      BY <1>2, Zenon DEF Optimizing
    <2>2. PICK S \in Selections(r, Q, cap) :
            x = Result([r EXCEPT !.action_confirmations = Confirmations(r, Q)],
                       Moved(None, UNION {q.actions : q \in S}))
      BY <2>1, Zenon
    <2> DEFINE A == UNION {q.actions : q \in S}
               m == [t \in Tids(A) |-> (CHOOSE a \in A : a[1] = t)[4]]
               d == Moved(None, A)
               conf == Confirmations(r, Q)
               s == [r EXCEPT !.action_confirmations = conf]
    <2>3. x.solver = s /\ x.delta = d /\ x.thrown = FALSE
      BY <2>2 DEF Result
    <2>4. IsFiniteSet(Q) /\ Q \subseteq Moves(r, cap) \cup Swaps(r)
      BY PotentialsFinite, Zenon
    <2>5. S \in SUBSET Q
      BY DEF Selections
    <2>6. IsFiniteSet(S)
      BY <2>4, <2>5, FS_Subset
    <2>7. \A a \in A : a[1] \in Known(r) /\ a[4] \in Cpu
      <3> SUFFICES ASSUME NEW a \in A PROVE a[1] \in Known(r) /\ a[4] \in Cpu
        BY Zenon
      <3>1. PICK q \in S : a \in q.actions
        BY Zenon
      <3>2. q \in Moves(r, cap) \cup Swaps(r)
        BY <2>4, <2>5
      <3> QED
        BY <3>1, <3>2, PotentialActions, Zenon
    <2>8. PICK rank \in Injection(S, 1..Cardinality(S)) : \A q \in S :
            LET earlier == {p \in S : rank[p] < rank[q]}
            IN Violation(r, earlier \cup {q}, cap) <= Violation(r, earlier, cap)
      BY Zenon DEF Selections, Violation
    <2>9. Violation(r, S, cap) <= Violation(r, {}, cap)
      BY <2>6, <2>8, BatchAddsNothing, Zenon
    <2> HIDE DEF A
    <2>10. Tids(A) \subseteq Known(r) /\ \A t \in Tids(A) : m[t] \in Cpu
      <3>1. \A t \in Tids(A) : \E a \in A : a[1] = t
        BY DEF Tids
      <3>2. \A t \in Tids(A) : (CHOOSE a \in A : a[1] = t) \in A
        BY <3>1
      <3>3. \A t \in Tids(A) : m[t] = (CHOOSE a \in A : a[1] = t)[4]
        BY Zenon
      <3> HIDE DEF m
      <3> QED
        BY <2>7, <3>1, <3>2, <3>3, Zenon
    <2>11. DOMAIN m = Tids(A)
      OBVIOUS
    <2>12. \A f : Moved(f, A) = Overlay(f, m)
      BY Zenon DEF Moved
    <2> HIDE DEF m
    <2>13. Known(r) \subseteq Tid
      BY SizeIsNat, Zenon
    <2>14. \A f : \A t \in Tid : Overlay(f, m)[t] = IF t \in Tids(A) THEN m[t] ELSE f[t]
      BY <2>11, Zenon DEF Overlay
    <2>15. d \in CpuMaps /\ Keys(d) = Tids(A)
      <3>1. d = Overlay(None, m)
        BY <2>12, Zenon
      <3>2. d \in [Tid -> Cpu \cup {0}]
        BY <2>10, <2>11, <3>1, NoneFacts, Zenon DEF Overlay
      <3>3. \A t \in Tid : d[t] = IF t \in Tids(A) THEN m[t] ELSE 0
        BY <2>14, <3>1, NoneFacts, Zenon
      <3> HIDE DEF d
      <3> QED
        BY <2>10, <2>13, <3>2, <3>3, CpuAssumption DEF CpuMaps, Keys
    <2>16. Carried(r.placement, d) = Moved(r.placement, A)
      <3>0. d = Overlay(None, m)
        BY <2>12, Zenon
      <3>1. \A t \in Tid : d[t] = IF t \in Tids(A) THEN m[t] ELSE 0
        BY <2>14, <3>0, NoneFacts, Zenon
      <3>2. \A t \in Tids(A) : m[t] # 0
        BY <2>10, CpuAssumption, Zenon
      <3>3. Moved(r.placement, A) = [t \in Tid |-> IF t \in Tids(A) THEN m[t] ELSE r.placement[t]]
        <4>1. \A f : Overlay(f, m) = [t \in Tid |-> IF t \in Tids(A) THEN m[t] ELSE f[t]]
          BY <2>11, Zenon DEF Overlay
        <4> QED
          BY <2>12, <4>1, Zenon
      <3> HIDE DEF d
      <3> QED
        BY <3>1, <3>2, <3>3, Zenon DEF Carried
    <2>17. Violation(r, S, cap) = SlotViolation(Carried(r.placement, d), cap)
      BY <2>16, Zenon DEF Violation, After, A
    <2>18. Violation(r, {}, cap) = SlotViolation(r.placement, cap)
      <3>1. UNION {p.actions : p \in {}} = {} /\ Tids({}) = {}
        BY Zenon DEF Tids
      <3>2. Moved(r.placement, {}) = r.placement
        BY <1>0, <3>1 DEF Moved, Overlay, CpuMaps
      <3> QED
        BY <3>1, <3>2, Zenon DEF Violation, After
    <2> HIDE DEF d, conf
    <2>19. /\ s \in SolverRecord(s.action_confirmations) /\ s.identities = r.identities
           /\ s.placement = r.placement /\ s.targets = r.targets /\ s.wait = r.wait /\ s.phase = r.phase
      <3> HIDE DEF k
      <3> QED
        BY <1>0 DEF SolverRecord
    <2> HIDE DEF s
    <2>20. SolverInv(s)
      BY <2>19, Zenon DEF SolverInv, Known
    <2>21. SlotViolation(Carried(r.placement, d), cap) <= SlotViolation(r.placement, cap)
      BY <2>9, <2>17, <2>18, Zenon
    <2> QED
      BY <2>3, <2>10, <2>15, <2>19, <2>20, <2>21, Zenon DEF Proposal
  <1> QED
    BY <1>1, <1>2

\* What propose returns, of whatever phase.
LEMMA ProposeInv ==
  ASSUME NEW s, SolverInv(s), NEW demands \in IdentityMaps, NEW limit \in Nat, NEW x \in propose(s, demands, limit)
  PROVE  \E r : TakenIn(r, s, demands) /\ Proposal(x, r, cpu_slot_cap(limit, Cardinality(Keys(demands))))
  <1> DEFINE cap == cpu_slot_cap(limit, Cardinality(Keys(demands)))
  <1>1. PICK r \in Refreshes(s, demands) :
          x \in CASE r.phase = "planning" -> NodePlanning(r)
                  [] r.phase = "pinning" -> InitialPinning(r, cap)
                  [] r.phase = "optimizing" -> Optimizing(r, cap)
    BY Zenon DEF propose
  <1>2. TakenIn(r, s, demands)
    BY RefreshesInv, Zenon
  <1>3. SolverInv(r) /\ r.identities = demands /\ r.phase # "uninitialized" /\ r.phase \in Phases
    BY <1>2, SolverFields, Zenon DEF TakenIn, SolverInv
  <1>4. cap \in Nat
    <2>1. Size(r) = Cardinality(Keys(demands)) /\ Size(r) \in Nat
      BY <1>3, SizeIsNat DEF Size
    <2> QED
      BY <2>1, CapIsNat, Zenon
  <1> HIDE DEF cap
  <1>5. CASE r.phase = "planning"
    BY <1>1, <1>2, <1>3, <1>5, NodePlanningInv DEF cap
  <1>6. CASE r.phase = "pinning"
    BY <1>1, <1>2, <1>3, <1>4, <1>6, InitialPinningInv DEF cap
  <1>7. CASE r.phase = "optimizing"
    BY <1>1, <1>2, <1>3, <1>7, OptimizingPhaseInv, Zenon DEF cap
  <1> QED
    BY <1>3, <1>5, <1>6, <1>7 DEF Phases
-----------------------------------------------------------------------------
(***************************************************************************)
(* Commits                                                                 *)
(***************************************************************************)
Committed(c, s, delta, tids) ==
    /\ SolverInv(c) /\ c.identities = s.identities
    /\ c.placement = [t \in Tid |-> IF t \in tids THEN delta[t] ELSE s.placement[t]]

\* commit places the committed threads and no other.
LEMMA CommitInv ==
  ASSUME NEW s, SolverInv(s), NEW delta \in CpuMaps, NEW committed, NEW still, NEW tids,
         committed = {} => tids = Keys(delta), committed # {} => tids = committed,
         tids \subseteq Keys(delta) \cap Known(s)
  PROVE  Committed(commit(s, delta, committed, still), s, delta, tids)
  <1> DEFINE moved == {t \in tids : s.placement[t] # delta[t]} \ still
             placement == [t \in Tid |-> IF t \in tids THEN delta[t] ELSE s.placement[t]]
             wait == [t \in Tid |-> IF t \in moved THEN Dwell ELSE s.wait[t]]
             c == [s EXCEPT !.placement = placement, !.wait = wait]
             k == s.action_confirmations
             x == commit(s, delta, committed, still)
  <1>1. s \in SolverRecord(k) /\ s.placement \in CpuMaps /\ s.wait \in WaitMaps
    BY SolverFields, Zenon DEF SolverInv
  <1>2. x = IF c.phase = "pinning" /\ TargetsEffective(c)
            THEN [c EXCEPT !.phase = "optimizing", !.replan = FALSE] ELSE c
    <2>1. tids = IF committed = {} THEN Keys(delta) ELSE committed
      BY Zenon
    <2> QED
      BY <2>1, Zenon DEF commit
  <1>3. /\ placement \in CpuMaps
        /\ Keys(placement) \subseteq Known(s) /\ Keys(s.placement) \subseteq Keys(placement)
    BY <1>1, Zenon DEF CpuMaps, Keys, SolverInv
  <1>4. wait \in WaitMaps /\ Keys(wait) \subseteq Known(s)
    <2>1. Dwell \in 0..Dwell
      BY OptionAssumption
    <2>2. moved \subseteq Known(s)
      OBVIOUS
    <2> HIDE DEF moved
    <2> QED
      BY <1>1, <2>1, <2>2, Zenon DEF WaitMaps, Keys, SolverInv
  <1> HIDE DEF wait, x, k
  <1>5. /\ c \in SolverRecord(k) /\ c.identities = s.identities /\ c.placement = placement
        /\ c.targets = s.targets /\ c.wait = wait /\ c.phase = s.phase
    <2> HIDE DEF placement
    <2> QED
      BY <1>1, <1>3, <1>4, Zenon DEF SolverRecord
  <1> HIDE DEF placement, c
  <1>6. c.action_confirmations = k
    BY <1>5, SolverFields, Zenon
  <1>7. SolverInv(c)
    BY <1>3, <1>4, <1>5, <1>6 DEF SolverInv, Known
  <1>8. SolverInv(x) /\ x.identities = c.identities /\ x.placement = c.placement
    <2>1. CASE c.phase = "pinning" /\ TargetsEffective(c)
      <3>1. x = [c EXCEPT !.phase = "optimizing", !.replan = FALSE]
        BY <1>2, <2>1, Zenon
      <3> QED
        BY <1>7, <2>1, <3>1, OptimizingInv, Zenon
    <2>2. CASE ~(c.phase = "pinning" /\ TargetsEffective(c))
      <3>1. x = c
        BY <1>2, <2>2, Zenon
      <3> QED
        BY <1>7, <3>1
    <2> QED
      BY <2>1, <2>2
  <1> QED
    BY <1>5, <1>8 DEF x, placement, Committed

\* After a batch of which only some threads were left.
PartlyCarried(f, d, committed) ==
    [t \in Tid |-> IF t \in committed THEN d[t] ELSE IF d[t] # 0 THEN 0 ELSE f[t]]

\* A part of a batch adds no violation that the whole would not.
LEMMA PartAddsNothing ==
  ASSUME NEW f, NEW d \in CpuMaps, NEW committed \in SUBSET Keys(d), NEW cap \in Nat
  PROVE  SlotViolation(PartlyCarried(f, d, committed), cap) <= SlotViolation(Carried(f, d), cap)
  <1> DEFINE p == PartlyCarried(f, d, committed)  g == Carried(f, d)
  <1>1. ASSUME NEW c \in Cpu
        PROVE  Count(p, c) <= Count(g, c)
    <2>1. \A t \in Tid : p[t] = c => g[t] = c
      BY CpuAssumption DEF PartlyCarried, Carried, Keys
    <2>2. At(p, c) \subseteq At(g, c)
      BY <2>1, Zenon DEF At
    <2> QED
      BY <2>2, CountGrows, Zenon
  <1> HIDE DEF p, g
  <1>2. SlotViolation(p, cap) <= SlotViolation(g, cap)
    BY <1>1, ViolationGrows, Zenon
  <1> QED
    BY <1>2 DEF p, g

\* The batch that was proposed goes to threads that the solver knows.
LEMMA SettleInv ==
  ASSUME SolverInv(solver), outstanding \in CpuMaps, Keys(outstanding) \subseteq Known(solver),
         NEW committed \in SUBSET Keys(outstanding), NEW still
  PROVE  LET r == Settle(committed, still)
         IN /\ SolverInv(r) /\ r.identities = Without(solver.identities, Keys(outstanding) \ committed)
            /\ r.placement = PartlyCarried(solver.placement, outstanding, committed)
  <1> DEFINE Gone == Keys(outstanding) \ committed
             s == remove_threads(solver, Gone)
             r == Settle(committed, still)
             k == solver.action_confirmations
  <1>1. solver \in SolverRecord(k) /\ solver.placement \in CpuMaps
    BY SolverFields, Zenon DEF SolverInv
  <1>2. r = IF committed = {} THEN s ELSE commit(s, outstanding, committed, still)
    BY Zenon DEF Settle
  <1> HIDE DEF Gone, r
  <1>3. SolverInv(s) /\ Known(s) = Known(solver) \ Gone
    BY RemovedInv, Zenon
  <1>4. s.identities = Without(solver.identities, Gone) /\ s.placement = Without(solver.placement, Gone)
    BY <1>1, RemovedFields, Zenon
  <1> HIDE DEF s
  <1>5. \A t \in Tid : t \in Keys(outstanding) <=> outstanding[t] # 0
    BY DEF Keys
  <1>6. [t \in Tid |-> IF t \in committed THEN outstanding[t] ELSE s.placement[t]]
        = PartlyCarried(solver.placement, outstanding, committed)
    BY <1>4, <1>5, WithoutValue DEF PartlyCarried, Gone
  <1>7. CASE committed = {}
    <2>1. s.placement = PartlyCarried(solver.placement, outstanding, committed)
      BY <1>4, <1>5, <1>7 DEF PartlyCarried, Gone, Without
    <2> QED
      BY <1>2, <1>3, <1>4, <1>7, <2>1, Zenon DEF r, Gone
  <1>8. CASE committed # {}
    <2>1. committed \subseteq Keys(outstanding) \cap Known(s)
      BY <1>3 DEF Gone
    <2>2. r = commit(s, outstanding, committed, still)
      BY <1>2, <1>8
    <2> DEFINE c == commit(s, outstanding, committed, still)
    <2>3. Committed(c, s, outstanding, committed)
      BY <1>3, <1>8, <2>1, CommitInv, Zenon
    <2> HIDE DEF c
    <2>4. r = c
      BY <2>2, Zenon DEF c
    <2> QED
      BY <1>4, <1>6, <2>3, <2>4, Zenon DEF r, Gone, Committed
  <1> QED
    BY <1>7, <1>8
-----------------------------------------------------------------------------
(***************************************************************************)
(* The inductive invariant                                                 *)
(***************************************************************************)
Types ==
    /\ mode \in Modes /\ maximum_threads_per_cpu \in Limits
    /\ gen \in IdentityMaps /\ window \in IdentityMaps
    /\ mask \in CpuMaps /\ outstanding \in CpuMaps /\ current_plan \in CpuMaps
    /\ live \in SUBSET Tid /\ exits \in SUBSET Tid /\ acted_tids \in SUBSET Tid /\ active_cohort \in SUBSET Tid
    /\ disturbances \in Nat /\ paused \in BOOLEAN
    /\ pc \in {"idle", "act", "failed", "terminated"}

\* Nothing is known of a thread that is yet to come, and an EXIT event is of a thread
\* that is gone.
TargetInv ==
    /\ \A t \in live \cup exits \cup acted_tids \cup Keys(current_plan) : gen[t] > 0
    /\ \A t \in exits \cap live : gen[t] > 1
    /\ \A t \in Tid : window[t] <= gen[t] /\ solver.identities[t] <= gen[t]

\* The solver knows threads of the cohort only, and has a batch out for threads it knows.
CohortInv ==
    /\ Known(solver) \subseteq active_cohort
    /\ mode = "plan" => acted_tids = {}
    /\ Keys(outstanding) \subseteq IF pc = "act" THEN Known(solver) ELSE {}

Up == pc \in {"idle", "act"}

\* PlacementIsBacked and PinnedIsManaged, also while a batch is out.
BackedInv ==
    Up /\ mode = "active" =>
      \A t \in live :
        /\ solver.identities[t] = gen[t] /\ solver.placement[t] # 0 => mask[t] = solver.placement[t]
        /\ gen[t] = 1 /\ current_plan[t] # 0 => current_plan[t] = solver.placement[t]

PinnedInv ==
    Up => \A t \in acted_tids \cap live : gen[t] = 1 => t \in active_cohort /\ solver.placement[t] # 0

\* The batch that is out adds no slot violation.
BatchInv ==
    pc = "act" => SlotViolation(Carried(solver.placement, outstanding), Cap(solver))
                  <= SlotViolation(solver.placement, Cap(solver))

IInv == Types /\ SolverInv(solver) /\ TargetInv /\ CohortInv /\ BackedInv /\ PinnedInv /\ BatchInv

\* The maps of the worker's solver.
LEMMA SolverMaps ==
  ASSUME SolverInv(solver)
  PROVE  /\ solver.identities \in IdentityMaps /\ solver.placement \in CpuMaps
         /\ \A t \in Tid : solver.placement[t] # 0 => t \in Known(solver)
         /\ \A t \in Tid : t \in Known(solver) <=> solver.identities[t] # 0
  <1>1. solver.identities \in IdentityMaps /\ solver.placement \in CpuMaps
    BY SolverFields, Zenon DEF SolverInv
  <1> QED
    BY <1>1 DEF SolverInv, Known, Keys

\* The types and the solver's invariant give TypeOK.
LEMMA TypesGiveTypeOK ==
  ASSUME Types, SolverInv(solver)
  PROVE  TypeOK
  <1>1. /\ solver.phase \in Phases /\ solver.identities \in IdentityMaps /\ solver.targets \in CpuMaps
        /\ solver.placement \in CpuMaps /\ solver.wait \in WaitMaps /\ solver.candidate \in IdentityMaps
        /\ solver.confirmation \in Counts /\ solver.replan \in BOOLEAN /\ solver.population \in Sizes
    BY SolverFields, Zenon DEF SolverInv
  <1>2. \A f \in {solver.placement, solver.targets, solver.wait} : Keys(f) \subseteq Keys(solver.identities)
    BY Zenon DEF SolverInv, Known
  <1> QED
    BY <1>1, <1>2 DEF Types, TypeOK, CpuMaps, IdentityMaps, WaitMaps, Phases, Counts, Sizes

\* Numbers of threads, and what is at most the number of a TID's threads.
LEMMA GenFacts ==
  ASSUME IInv
  PROVE  /\ \A t \in Tid : gen[t] \in Nat /\ window[t] \in Nat
         /\ \A t \in Tid : window[t] <= gen[t] /\ solver.identities[t] <= gen[t]
  <1>1. gen \in IdentityMaps /\ window \in IdentityMaps
    BY Zenon DEF IInv, Types
  <1>2. \A t \in Tid : gen[t] \in Nat /\ window[t] \in Nat
    <2> HIDE DEF IInv
    <2> QED
      BY <1>1 DEF IdentityMaps
  <1> QED
    BY <1>2, Zenon DEF IInv, TargetInv

\* The invariant holds at the start.
LEMMA InitInv == Init => IInv
  <1> SUFFICES ASSUME Init PROVE IInv
    BY Zenon
  <1> USE DEF Init
  <1>1. /\ solver = Reset /\ SolverInv(solver) /\ Known(solver) = {} /\ solver.placement = None
        /\ solver.identities = None
    BY ResetInv, Zenon
  <1>2. None \in CpuMaps /\ None \in IdentityMaps /\ Keys(None) = {} /\ \A t \in Tid : None[t] = 0
    BY NoneFacts
  <1>3. live \in SUBSET Tid /\ live # {}
    BY Zenon
  <1>4. Cardinality(live) \in 1..Cardinality(Tid)
    <2>1. IsFiniteSet(live) /\ Cardinality(live) <= Cardinality(Tid) /\ Cardinality(Tid) \in Nat
      BY <1>3, TidAssumption, FS_Subset, FS_CardinalityType, Zenon
    <2>2. Cardinality(live) \in Nat /\ Cardinality(live) # 0
      BY <1>3, <2>1, FS_CardinalityType, FS_EmptySet
    <2> QED
      BY <2>1, <2>2
  <1>5. disturbances \in Nat
    <2> DEFINE Sized == [1..Cardinality(Tid) -> Nat]
    <2>1. \A m \in Modes : \A n \in Limits : Disturbances[m][n] \in Sized
      BY BoundAssumption, Zenon
    <2>2. Disturbances[mode][maximum_threads_per_cpu] \in Sized
      BY <2>1, Zenon
    <2> QED
      BY <1>4, <2>2, Zenon
  <1>6. \A t \in Tid : gen[t] \in Nat /\ (t \in live => gen[t] = 1)
    OBVIOUS
  <1>7. gen \in IdentityMaps
    <2>1. 0 \in 0..MaxGen /\ 1 \in 0..MaxGen
      BY BoundAssumption
    <2> QED
      BY <2>1, Zenon DEF IdentityMaps
  <1>8. Types
    BY <1>2, <1>3, <1>5, <1>7, Zenon DEF Types
  <1>9. TargetInv
    <2>1. \A t \in live \cup exits \cup acted_tids \cup Keys(current_plan) : gen[t] > 0
      BY <1>2, <1>3, <1>6
    <2>2. \A t \in Tid : window[t] <= gen[t] /\ solver.identities[t] <= gen[t]
      BY <1>1, <1>2, <1>6
    <2> QED
      BY <2>1, <2>2 DEF TargetInv
  <1>10. CohortInv /\ BackedInv /\ PinnedInv /\ BatchInv
    BY <1>1, <1>2, <1>3 DEF CohortInv, BackedInv, PinnedInv, BatchInv
  <1> QED
    BY <1>1, <1>8, <1>9, <1>10 DEF IInv
-----------------------------------------------------------------------------
(***************************************************************************)
(* Steps of the target, and between windows                                *)
(***************************************************************************)
\* A thread exits.
LEMMA ThreadExitKeeps ==
  ASSUME IInv, NEW t \in Tid, ThreadExit(t)
  PROVE  IInv'
  <1>1. /\ t \in live /\ live' = live \ {t} /\ mask' = [mask EXCEPT ![t] = 0] /\ exits' = exits \cup {t}
        /\ disturbances > 0 /\ disturbances' = disturbances - 1
        /\ UNCHANGED <<mode, maximum_threads_per_cpu, gen, window, acted_tids, solver, outstanding,
                       active_cohort, current_plan, paused, pc>>
    BY Zenon DEF ThreadExit, Disturb, config, status
  <1>2. mask \in CpuMaps /\ gen \in IdentityMaps
    BY Zenon DEF IInv, Types
  <1>3. mask' \in CpuMaps /\ \A u \in Tid : u # t => mask'[u] = mask[u]
    BY <1>1, <1>2, Zenon DEF CpuMaps
  <1>4. Types'
    BY <1>1, <1>3 DEF IInv, Types
  <1>5. TargetInv'
    BY <1>1, Zenon DEF IInv, TargetInv
  <1>6. SolverInv(solver)' /\ CohortInv' /\ BatchInv'
    BY <1>1, Zenon DEF IInv, CohortInv, BatchInv, Cap
  <1>7. BackedInv' /\ PinnedInv'
    <2>1. live \subseteq Tid
      BY DEF IInv, Types
    <2> QED
      BY <1>1, <1>3, <2>1 DEF IInv, BackedInv, PinnedInv, Up
  <1> QED
    BY <1>4, <1>5, <1>6, <1>7 DEF IInv

\* A thread starts, with a TID that may have been used before.
LEMMA ThreadStartKeeps ==
  ASSUME IInv, NEW t \in Tid, NEW p \in Tid, ThreadStart(t, p)
  PROVE  IInv'
  <1>1. /\ t \notin live /\ p \in live /\ gen[t] < MaxGen /\ gen' = [gen EXCEPT ![t] = @ + 1]
        /\ live' = live \cup {t} /\ mask' = [mask EXCEPT ![t] = mask[p]]
        /\ disturbances > 0 /\ disturbances' = disturbances - 1
        /\ UNCHANGED <<mode, maximum_threads_per_cpu, exits, window, acted_tids, solver, outstanding,
                       active_cohort, current_plan, paused, pc>>
    BY Zenon DEF ThreadStart, Disturb, config, status, graph
  <1>2. mask \in CpuMaps /\ gen \in IdentityMaps /\ live \subseteq Tid
    BY Zenon DEF IInv, Types
  <1>3. mask' \in CpuMaps /\ \A u \in Tid : u # t => mask'[u] = mask[u]
    BY <1>1, <1>2, Zenon DEF CpuMaps
  <1>4. /\ gen' \in IdentityMaps /\ gen'[t] = gen[t] + 1
        /\ \A u \in Tid : gen[u] \in Nat /\ (u # t => gen'[u] = gen[u])
    BY <1>1, <1>2, BoundAssumption DEF IdentityMaps
  <1>5. Types'
    BY <1>1, <1>3, <1>4 DEF IInv, Types
  <1>6. TargetInv'
    <2>1. \A u \in Tid : solver.identities[u] \in Nat /\ window[u] \in Nat
      BY SolverMaps, IdentityIsNat, Zenon DEF IInv, Types
    <2>2. \A u \in live' \cup exits' \cup acted_tids' \cup Keys(current_plan') : gen'[u] > 0
      <3>1. \A u \in live' \cup exits' \cup acted_tids' \cup Keys(current_plan') :
              u = t \/ u \in live \cup exits \cup acted_tids \cup Keys(current_plan)
        BY <1>1, Zenon
      <3>2. \A u \in live \cup exits \cup acted_tids \cup Keys(current_plan) : u \in Tid /\ gen[u] > 0
        BY Zenon DEF IInv, Types, TargetInv, Keys
      <3> QED
        BY <1>4, <3>1, <3>2, OneMore, Zenon
    <2>3. \A u \in exits' \cap live' : gen'[u] > 1
      <3>1. \A u \in exits' \cap live' : u \in Tid /\ gen[u] > 0 /\ (u # t => gen[u] > 1)
        BY <1>1, Zenon DEF IInv, Types, TargetInv
      <3> QED
        BY <1>4, <3>1, OneMore, Zenon
    <2>4. \A u \in Tid : window'[u] <= gen'[u] /\ solver'.identities[u] <= gen'[u]
      <3>1. \A u \in Tid : gen'[u] = gen[u] \/ gen'[u] = gen[u] + 1
        BY <1>4, Zenon
      <3>2. \A u \in Tid : window[u] <= gen[u] + 1 /\ solver.identities[u] <= gen[u] + 1
        BY <1>4, <2>1, GenFacts, Bounded, Zenon
      <3> QED
        BY <1>1, <3>1, <3>2, GenFacts, Zenon
    <2> QED
      BY <2>2, <2>3, <2>4, Zenon DEF TargetInv
  <1>7. SolverInv(solver)' /\ CohortInv' /\ BatchInv'
    BY <1>1, Zenon DEF IInv, CohortInv, BatchInv, Cap
  <1>8. solver.identities[t] # gen'[t]
    <2>1. solver.identities[t] \in Nat
      BY SolverMaps, IdentityIsNat, Zenon DEF IInv
    <2> QED
      BY <1>4, <2>1, GenFacts, Bounded, Zenon
  <1>9. gen'[t] = 1 => t \notin acted_tids /\ current_plan[t] = 0
    <2>1. t \in acted_tids \cup Keys(current_plan) => gen[t] > 0
      BY Zenon DEF IInv, TargetInv
    <2>2. t \in acted_tids \cup Keys(current_plan) => gen'[t] # 1
      BY <1>4, <2>1, OneMore, Zenon
    <2> QED
      BY <2>2, Zenon DEF Keys
  <1>10. BackedInv'
    BY <1>1, <1>2, <1>3, <1>4, <1>8, <1>9, Zenon DEF IInv, BackedInv, Up
  <1>11. PinnedInv'
    BY <1>1, <1>2, <1>4, <1>9, Zenon DEF IInv, PinnedInv, Up
  <1> QED
    BY <1>5, <1>6, <1>7, <1>10, <1>11 DEF IInv

\* The EXIT event of a thread; its TID may be in use again.
LEMMA ThreadExitedKeeps ==
  ASSUME IInv, NEW t \in Tid, thread_exited(t)
  PROVE  IInv'
  <1>1. /\ pc = "idle" /\ t \in exits /\ exits' = exits \ {t}
        /\ current_plan' = Without(current_plan, {t}) /\ active_cohort' = active_cohort \ {t}
        /\ solver' = remove_threads(solver, {t})
        /\ UNCHANGED <<mode, maximum_threads_per_cpu, gen, live, mask, disturbances, window, acted_tids,
                       outstanding, paused, pc>>
    BY Zenon DEF thread_exited, config, threads
  <1>2. SolverInv(solver) /\ Types /\ solver \in SolverRecord(solver.action_confirmations)
    BY DEF IInv, SolverInv
  <1>3. SolverInv(solver') /\ Known(solver') = Known(solver) \ {t}
    BY <1>1, <1>2, RemovedInv, Zenon
  <1>4. solver'.identities = Without(solver.identities, {t}) /\ solver'.placement = Without(solver.placement, {t})
    BY <1>1, <1>2, RemovedFields, Zenon
  <1>5. /\ \A u \in Tid : u # t => /\ solver'.identities[u] = solver.identities[u]
                                   /\ solver'.placement[u] = solver.placement[u]
                                   /\ current_plan'[u] = current_plan[u]
        /\ solver'.identities[t] = 0 /\ solver'.placement[t] = 0 /\ current_plan'[t] = 0
    <2>1. \A f : \A u \in Tid : u # t => Without(f, {t})[u] = f[u]
      BY Zenon DEF Without
    <2>2. \A f : Without(f, {t})[t] = 0
      BY Zenon DEF Without
    <2> QED
      BY <1>1, <1>4, <2>1, <2>2, Zenon
  <1>6. current_plan' \in CpuMaps
    BY <1>1, <1>2, WithoutTyped, Zenon DEF Types
  <1>7. Types'
    BY <1>1, <1>2, <1>6, Zenon DEF Types
  <1>8. TargetInv'
    <2>1. \A u \in Tid : gen[u] \in Nat
      BY GenFacts, Zenon
    <2>2. \A u \in live' \cup exits' \cup acted_tids' \cup Keys(current_plan') :
            u \in live \cup exits \cup acted_tids \cup Keys(current_plan)
      BY <1>1, <1>5, Zenon DEF Keys
    <2>3. \A u \in Tid : solver'.identities[u] <= gen[u]
      BY <1>5, <2>1, GenFacts, LeastNumber, Zenon
    <2> QED
      BY <1>1, <2>2, <2>3, Zenon DEF IInv, TargetInv
  <1>9. CohortInv' /\ BatchInv'
    BY <1>1, <1>3, Zenon DEF IInv, CohortInv, BatchInv
  <1>10. t \in live => gen[t] # 1
    <2>1. t \in live => gen[t] > 1
      BY <1>1, Zenon DEF IInv, TargetInv
    <2> QED
      BY <2>1, GenFacts, OnlyOne, Zenon
  <1>11. BackedInv'
    <2> SUFFICES ASSUME mode = "active", NEW u \in live
                 PROVE  /\ solver'.identities[u] = gen[u] /\ solver'.placement[u] # 0
                             => mask[u] = solver'.placement[u]
                        /\ gen[u] = 1 /\ current_plan'[u] # 0 => current_plan'[u] = solver'.placement[u]
      BY <1>1, Zenon DEF BackedInv
    <2>1. CASE u = t
      BY <1>5, <2>1, Zenon
    <2>2. CASE u # t
      <3>1. u \in Tid /\ Up
        BY <1>1, <1>2, Zenon DEF Types, Up
      <3>2. /\ solver.identities[u] = gen[u] /\ solver.placement[u] # 0 => mask[u] = solver.placement[u]
            /\ gen[u] = 1 /\ current_plan[u] # 0 => current_plan[u] = solver.placement[u]
        BY <3>1, Zenon DEF IInv, BackedInv
      <3> QED
        BY <1>5, <2>2, <3>1, <3>2, Zenon
    <2> QED
      BY <2>1, <2>2, Zenon
  <1>12. PinnedInv'
    BY <1>1, <1>2, <1>5, <1>10, Zenon DEF IInv, PinnedInv, Up, Types
  <1> QED
    BY <1>3, <1>7, <1>8, <1>9, <1>11, <1>12 DEF IInv

\* A sampling pass; threads that are gone leave the plan, and the graph when they are old.
LEMMA SampleKeeps ==
  ASSUME IInv, NEW aged \in SUBSET (Keys(window) \ live), reconcile_and_sample(aged)
  PROVE  IInv'
  <1>1. /\ pc = "idle"
        /\ window' = [t \in Tid |-> IF t \in live THEN gen[t] ELSE IF t \in aged THEN 0 ELSE window[t]]
        /\ current_plan' = Without(current_plan, Tid \ live)
        /\ UNCHANGED <<mode, maximum_threads_per_cpu, gen, live, mask, disturbances, exits, acted_tids,
                       solver, outstanding, active_cohort, paused, pc>>
    BY Zenon DEF reconcile_and_sample, config, threads
  <1>2. Types /\ \A t \in Tid : gen[t] \in Nat /\ window[t] \in Nat /\ 0 \in 0..MaxGen
    <2>1. 0 \in 0..MaxGen
      BY BoundAssumption
    <2> QED
      BY <2>1, GenFacts, Zenon DEF IInv
  <1>3. window' \in IdentityMaps /\ \A t \in Tid : window'[t] \in {gen[t], 0, window[t]}
    BY <1>1, <1>2, Zenon DEF Types, IdentityMaps
  <1>4. current_plan' \in CpuMaps /\ \A t \in Tid : current_plan'[t] = current_plan[t] \/ current_plan'[t] = 0
    BY <1>1, <1>2, WithoutTyped, WithoutCases, Zenon DEF Types
  <1>5. Types'
    BY <1>1, <1>2, <1>3, <1>4, Zenon DEF Types
  <1>6. TargetInv'
    <2>1. \A t \in live' \cup exits' \cup acted_tids' \cup Keys(current_plan') :
            t \in live \cup exits \cup acted_tids \cup Keys(current_plan)
      BY <1>1, <1>4, Zenon DEF Keys
    <2>2. \A t \in Tid : window'[t] <= gen[t]
      BY <1>2, <1>3, GenFacts, LeastNumber, Zenon
    <2> QED
      BY <1>1, <2>1, <2>2, Zenon DEF IInv, TargetInv
  <1>7. SolverInv(solver)' /\ CohortInv' /\ BatchInv' /\ PinnedInv'
    BY <1>1, Zenon DEF IInv, CohortInv, BatchInv, PinnedInv, Up
  <1>8. BackedInv'
    BY <1>1, <1>2, <1>4, Zenon DEF IInv, BackedInv, Up, Types
  <1> QED
    BY <1>5, <1>6, <1>7, <1>8 DEF IInv

\* A pause restores what it can and forgets everything.
LEMMA PauseKeeps ==
  ASSUME IInv, NEW refused, pause(refused)
  PROVE  IInv'
  <1>1. /\ pc = "idle" /\ disturbances > 0 /\ disturbances' = disturbances - 1
        /\ mask' = Without(mask, acted_tids \ refused) /\ acted_tids' = {}
        /\ paused' = TRUE /\ current_plan' = None /\ active_cohort' = {} /\ solver' = Reset
        /\ UNCHANGED <<mode, maximum_threads_per_cpu, gen, live, exits, window, outstanding, pc>>
    BY Zenon DEF pause, Disturb, config, threads, graph
  <1>2. Types /\ \A t \in Tid : gen[t] \in Nat
    BY GenFacts, Zenon DEF IInv
  <1>3. SolverInv(solver') /\ Known(solver') = {} /\ solver'.placement = None /\ solver'.identities = None
    BY <1>1, ResetInv, Zenon
  <1>4. mask' \in CpuMaps
    BY <1>1, <1>2, WithoutTyped, Zenon DEF Types
  <1>5. Types'
    BY <1>1, <1>2, <1>4, NoneFacts DEF Types
  <1>6. TargetInv'
    <2>1. \A t \in Tid : solver'.identities[t] <= gen[t]
      BY <1>2, <1>3, NoneFacts, LeastNumber, Zenon
    <2>2. \A t \in live' \cup exits' \cup acted_tids' \cup Keys(current_plan') : t \in live \cup exits
      BY <1>1, NoneFacts, Zenon
    <2> QED
      BY <1>1, <2>1, <2>2, Zenon DEF IInv, TargetInv
  <1>7. CohortInv' /\ BatchInv' /\ PinnedInv'
    BY <1>1, <1>3, Zenon DEF IInv, CohortInv, BatchInv, PinnedInv
  <1>8. BackedInv'
    BY <1>1, <1>2, <1>3, NoneFacts DEF BackedInv, Types
  <1> QED
    BY <1>3, <1>5, <1>6, <1>7, <1>8 DEF IInv

\* A resume lets windows go on and changes nothing else.
LEMMA ResumeKeeps ==
  ASSUME IInv, resume
  PROVE  IInv'
  <1>1. /\ paused' = FALSE
        /\ UNCHANGED <<mode, maximum_threads_per_cpu, gen, live, mask, disturbances, exits, window, acted_tids,
                       solver, outstanding, active_cohort, current_plan, pc>>
    BY Zenon DEF resume, config, threads, graph, status
  <1>2. Types'
    BY <1>1, Zenon DEF IInv, Types
  <1>3. TargetInv' /\ CohortInv' /\ BackedInv' /\ PinnedInv' /\ BatchInv' /\ SolverInv(solver)'
    BY <1>1, Zenon DEF IInv, TargetInv, CohortInv, BackedInv, PinnedInv, BatchInv, Up, Cap
  <1> QED
    BY <1>2, <1>3 DEF IInv
-----------------------------------------------------------------------------
(***************************************************************************)
(* The solve window                                                        *)
(***************************************************************************)
Left(f, next, t) == IF t \in next THEN f[t] ELSE 0

\* Settling the cohort takes those who leave it out of the solver; an empty cohort
\* resets it.
LEMMA SettledInv ==
  ASSUME SolverInv(solver), Known(solver) \subseteq active_cohort, NEW next
  PROVE  /\ SolverInv(Settled(next))
         /\ \A t \in Tid : /\ Settled(next).identities[t] = Left(solver.identities, next, t)
                           /\ Settled(next).placement[t] = Left(solver.placement, next, t)
  <1> DEFINE r == Settled(next)  e == Elapsed(solver)
  <1>1. CASE next = {} /\ active_cohort # {}
    <2>1. r = Reset
      BY <1>1, Zenon DEF Settled
    <2>2. SolverInv(r) /\ r.placement = None /\ r.identities = None
      BY <2>1, ResetInv, Zenon
    <2> QED
      BY <1>1, <2>2, NoneFacts DEF Left
  <1>2. CASE ~(next = {} /\ active_cohort # {})
    <2>1. r = remove_threads(e, active_cohort \ next)
      BY <1>2, Zenon DEF Settled
    <2>2. SolverInv(e) /\ e.identities = solver.identities /\ e.placement = solver.placement
      BY ElapsedInv
    <2> HIDE DEF e
    <2>3. e \in SolverRecord(e.action_confirmations)
      BY <2>2, Zenon DEF SolverInv
    <2> DEFINE d == remove_threads(e, active_cohort \ next)
    <2>7. SolverInv(d)
      BY <2>2, RemovedInv, Zenon
    <2>8. /\ d.identities = Without(e.identities, active_cohort \ next)
          /\ d.placement = Without(e.placement, active_cohort \ next)
      BY <2>3, RemovedFields, Zenon
    <2> HIDE DEF r, d
    <2>4. /\ SolverInv(r) /\ r.identities = Without(solver.identities, active_cohort \ next)
          /\ r.placement = Without(solver.placement, active_cohort \ next)
      BY <2>1, <2>2, <2>7, <2>8 DEF d
    <2>5. \A t \in Tid : t \notin active_cohort => solver.identities[t] = 0 /\ solver.placement[t] = 0
      BY SolverMaps, Zenon
    <2>6. \A t \in Tid : /\ r.identities[t] = Left(solver.identities, next, t)
                         /\ r.placement[t] = Left(solver.placement, next, t)
      BY <2>4, <2>5, WithoutValue DEF Left
    <2> QED
      BY <2>4, <2>6 DEF r
  <1> QED
    BY <1>1, <1>2, Zenon

\* What a window makes of the solver: it forgets threads, but none that is in the
\* cohort with the identity it knows.
Window(next) ==
    /\ SolverInv(solver') /\ Known(solver') \subseteq next
    /\ \A t \in Tid : solver'.placement[t] # 0 =>
         /\ t \in next /\ solver'.placement[t] = solver.placement[t]
         /\ solver'.identities[t] = solver.identities[t]
    /\ \A t \in next : solver.identities[t] = window[t] => solver'.placement[t] = solver.placement[t]
    /\ \A t \in Tid : solver'.identities[t] <= gen[t]
    /\ pc' \in {"idle", "act", "failed", "terminated"} /\ outstanding' \in CpuMaps
    /\ Keys(outstanding') \subseteq IF pc' = "act" THEN Known(solver') ELSE {}
    /\ BatchInv'

\* Every window keeps the invariant: a pin stays where the solver keeps its thread.
LEMMA WindowKeeps ==
  ASSUME IInv, NEW next \in SUBSET Keys(window), SettleCohort(next), Window(next)
  PROVE  IInv'
  <1>1. /\ pc = "idle"
        /\ mask' = Without(mask, CoolingPins(next)) /\ acted_tids' = acted_tids \ CoolingPins(next)
        /\ current_plan' = Without(current_plan, active_cohort \ next) /\ active_cohort' = next
        /\ UNCHANGED <<mode, maximum_threads_per_cpu, gen, live, disturbances, exits, window, paused>>
    BY Zenon DEF SettleCohort, config, threads, graph
  <1>2. Types /\ next \in SUBSET Tid /\ \A t \in Tid : gen[t] \in Nat /\ window[t] \in Nat
    BY GenFacts, Zenon DEF IInv, Keys
  <1>3. CoolingPins(next) = IF mode = "active" THEN (active_cohort \ next) \cap acted_tids ELSE {}
    BY Zenon DEF CoolingPins
  <1>4. mask' \in CpuMaps /\ current_plan' \in CpuMaps
    BY <1>1, <1>2, WithoutTyped, Zenon DEF Types
  <1>5. /\ \A t \in Tid : t \notin CoolingPins(next) => mask'[t] = mask[t]
        /\ \A t \in Tid : current_plan'[t] # 0 =>
             current_plan'[t] = current_plan[t] /\ (t \in active_cohort => t \in next)
    <2>1. \A t \in Tid :
            /\ Without(mask, CoolingPins(next))[t] = IF t \in CoolingPins(next) THEN 0 ELSE mask[t]
            /\ Without(current_plan, active_cohort \ next)[t] =
                 IF t \in active_cohort \ next THEN 0 ELSE current_plan[t]
      BY WithoutValue
    <2>2. \A t \in Tid :
            /\ mask'[t] = IF t \in CoolingPins(next) THEN 0 ELSE mask[t]
            /\ current_plan'[t] = IF t \in active_cohort \ next THEN 0 ELSE current_plan[t]
      BY <1>1, <2>1
    <2> QED
      BY <2>2, Zenon
  <1>6. /\ solver.identities \in IdentityMaps
        /\ \A t \in Tid : solver.placement[t] # 0 => t \in Known(solver)
        /\ \A t \in Tid : t \in Known(solver) <=> solver.identities[t] # 0
    BY SolverMaps, Zenon DEF IInv
  <1>7. Types'
    BY <1>1, <1>2, <1>4, Zenon DEF Types, Window
  <1>8. TargetInv'
    <2>1. \A t \in live' \cup exits' \cup acted_tids' \cup Keys(current_plan') :
            t \in live \cup exits \cup acted_tids \cup Keys(current_plan)
      BY <1>1, <1>5, Zenon DEF Keys
    <2> QED
      BY <1>1, <2>1, Zenon DEF IInv, TargetInv, Window
  <1>9. CohortInv'
    BY <1>1 DEF IInv, CohortInv, Window
  <1>10. ASSUME NEW t \in live, gen[t] = 1, solver.placement[t] # 0, t \in next
         PROVE  solver'.placement[t] = solver.placement[t]
    <2>1. t \in Tid /\ solver.identities[t] # 0 /\ window[t] # 0
      BY <1>2, <1>6, <1>10, Zenon DEF Types, Keys
    <2>3. solver.identities[t] \in Nat
      BY <1>6, <2>1 DEF IdentityMaps
    <2>2. solver.identities[t] = 1 /\ window[t] = 1
      BY <1>2, <1>10, <2>1, <2>3, GenFacts, OnlyOne, Zenon
    <2> QED
      BY <1>10, <2>2, Zenon DEF Window
  <1>11. BackedInv'
    <2> SUFFICES ASSUME mode = "active", NEW t \in live
                 PROVE  /\ solver'.identities[t] = gen[t] /\ solver'.placement[t] # 0
                             => mask'[t] = solver'.placement[t]
                        /\ gen[t] = 1 /\ current_plan'[t] # 0 => current_plan'[t] = solver'.placement[t]
      BY <1>1, Zenon DEF BackedInv
    <2>1. t \in Tid /\ Up
      BY <1>1, <1>2 DEF Types, Up
    <2>2. ASSUME solver'.identities[t] = gen[t], solver'.placement[t] # 0
          PROVE  mask'[t] = solver'.placement[t]
      <3>1. t \in next /\ solver'.placement[t] = solver.placement[t] /\ solver.identities[t] = gen[t]
        BY <2>1, <2>2, Zenon DEF Window
      <3>2. mask[t] = solver.placement[t]
        BY <2>1, <2>2, <3>1, Zenon DEF IInv, BackedInv
      <3> QED
        BY <1>3, <1>5, <2>1, <3>1, <3>2
    <2>3. ASSUME gen[t] = 1, current_plan'[t] # 0
          PROVE  current_plan'[t] = solver'.placement[t]
      <3>1. current_plan'[t] = current_plan[t] /\ current_plan[t] = solver.placement[t]
        BY <1>5, <2>1, <2>3, Zenon DEF IInv, BackedInv
      <3>2. t \in active_cohort
        BY <1>6, <2>1, <2>3, <3>1, Zenon DEF IInv, CohortInv
      <3> QED
        BY <1>5, <1>10, <2>1, <2>3, <3>1, <3>2, Zenon
    <2> QED
      BY <2>2, <2>3, Zenon
  <1>12. PinnedInv'
    <2> SUFFICES ASSUME NEW t \in acted_tids' \cap live, gen[t] = 1
                 PROVE  t \in next /\ solver'.placement[t] # 0
      BY <1>1, Zenon DEF PinnedInv
    <2>1. t \in active_cohort /\ solver.placement[t] # 0
      BY <1>1 DEF IInv, PinnedInv, Up
    <2>2. mode = "active"
      BY <1>1, <1>2, ConfigAssumption, Zenon DEF IInv, CohortInv, Types
    <2>3. t \in next
      BY <1>1, <1>3, <2>1, <2>2
    <2> QED
      BY <1>10, <2>1, <2>3, Zenon
  <1> QED
    BY <1>7, <1>8, <1>9, <1>11, <1>12 DEF IInv, Window

\* A window in which nothing is proposed.
LEMMA QuietWindowKeeps ==
  ASSUME IInv, NEW next \in SUBSET Keys(window), QuietWindow(next)
  PROVE  IInv'
  <1>1. /\ SettleCohort(next) /\ solver' = Settled(next) /\ outstanding' = outstanding
        /\ pc' = pc /\ pc = "idle"
    BY Zenon DEF QuietWindow, SettleCohort
  <1>2. SolverInv(solver) /\ Known(solver) \subseteq active_cohort /\ Types
    BY DEF IInv, CohortInv
  <1>3. /\ SolverInv(solver')
        /\ \A t \in Tid : /\ solver'.identities[t] = Left(solver.identities, next, t)
                          /\ solver'.placement[t] = Left(solver.placement, next, t)
    BY <1>1, <1>2, SettledInv, Zenon
  <1>4. \A t \in Tid : gen[t] \in Nat /\ solver.identities[t] <= gen[t]
    BY GenFacts, Zenon
  <1>5. Known(solver') \subseteq next
    BY <1>3, Zenon DEF Known, Keys, Left
  <1>6. \A t \in Tid : solver'.placement[t] # 0 =>
          /\ t \in next /\ solver'.placement[t] = solver.placement[t]
          /\ solver'.identities[t] = solver.identities[t]
    BY <1>3, Zenon DEF Left
  <1>7. \A t \in next : solver'.placement[t] = solver.placement[t]
    BY <1>3, Zenon DEF Left, Keys
  <1>8. \A t \in Tid : solver'.identities[t] <= gen[t]
    BY <1>3, <1>4 DEF Left
  <1>9. /\ outstanding' \in CpuMaps /\ pc' \in {"idle", "act", "failed", "terminated"}
        /\ Keys(outstanding') \subseteq IF pc' = "act" THEN Known(solver') ELSE {}
    BY <1>1, <1>2 DEF IInv, CohortInv, Types
  <1>10. BatchInv'
    BY <1>1, Zenon DEF BatchInv
  <1>11. Window(next)
    BY <1>3, <1>5, <1>6, <1>7, <1>8, <1>9, <1>10 DEF Window
  <1> QED
    BY <1>1, <1>11, WindowKeeps

\* A window with a proposal: the solver takes in the cohort, and with an exception the
\* cohort is larger than all slots together.
LEMMA SolveWindowInv ==
  ASSUME IInv, NEW next \in SUBSET Keys(window), SolveWindow(next)
  PROVE  /\ Window(next)
         /\ pc' = "terminated" => Size(solver') > Cap(solver)' * Cardinality(Cpu)
  <1> DEFINE demands == Without(window, Tid \ next)
             s == Settled(next)
             n == Cardinality(Keys(demands))
             cap == cpu_slot_cap(maximum_threads_per_cpu, n)
  <1>1. PICK x \in propose(s, demands, maximum_threads_per_cpu) :
          /\ solver' = x.solver /\ outstanding' = x.delta
          /\ pc' = IF x.thrown THEN "terminated" ELSE IF x.delta = None THEN "idle" ELSE "act"
    BY Zenon DEF SolveWindow
  <1>2. /\ SolverInv(solver) /\ Known(solver) \subseteq active_cohort /\ Types /\ TargetInv
        /\ maximum_threads_per_cpu \in Nat /\ maximum_threads_per_cpu' = maximum_threads_per_cpu
        /\ next \in SUBSET Tid
    <2>1. maximum_threads_per_cpu' = maximum_threads_per_cpu
      BY Zenon DEF SolveWindow, SettleCohort, config
    <2> QED
      BY <2>1, ConfigAssumption DEF IInv, CohortInv, Types, Keys
  <1>3. /\ SolverInv(s)
        /\ \A t \in Tid : /\ s.identities[t] = Left(solver.identities, next, t)
                          /\ s.placement[t] = Left(solver.placement, next, t)
    BY <1>2, SettledInv, Zenon
  <1>4. /\ demands \in IdentityMaps
        /\ \A t \in Tid : demands[t] = Left(window, next, t)
    <2>1. \A t \in Tid : t \in next <=> t \notin Tid \ next
      BY Zenon
    <2> QED
      BY <1>2, <2>1, WithoutTyped, WithoutCases, Zenon DEF Types, Left
  <1> HIDE DEF s, demands
  <1>5. PICK r : TakenIn(r, s, demands) /\ Proposal(x, r, cap)
    BY <1>1, <1>2, <1>3, <1>4, ProposeInv, Zenon
  <1>6. /\ SolverInv(r) /\ r.identities = demands
        /\ \A t \in Tid : r.placement[t] = IF Forgotten(s, demands, t) THEN 0 ELSE s.placement[t]
    BY <1>5 DEF TakenIn
  <1>7. /\ SolverInv(solver') /\ solver'.identities = demands /\ solver'.placement = r.placement
        /\ Known(solver') = Known(r) /\ Size(r) = n /\ Size(solver') = n
    BY <1>1, <1>5, <1>6, Zenon DEF Proposal, Known, Size
  <1>8. \A t \in Tid : s.placement[t] # 0 => s.identities[t] # 0
    <2>1. s.identities \in IdentityMaps /\ s.placement \in CpuMaps
      BY <1>3, SolverFields, Zenon DEF SolverInv
    <2> QED
      BY <1>3, Zenon DEF SolverInv, Known, Keys
  <1>9. \A t \in Tid : gen[t] \in Nat /\ window[t] <= gen[t]
    BY GenFacts, Zenon
  <1>10. Known(solver') \subseteq next /\ \A t \in Tid : solver'.identities[t] <= gen[t]
    <2>1. \A t \in Tid : solver'.identities[t] = Left(window, next, t)
      BY <1>4, <1>7, Zenon
    <2> QED
      BY <1>9, <2>1 DEF Known, Keys, Left
  <1>11. \A t \in Tid : solver'.placement[t] # 0 =>
           /\ t \in next /\ solver'.placement[t] = solver.placement[t]
           /\ solver'.identities[t] = solver.identities[t]
    BY <1>3, <1>6, <1>7, <1>8, Zenon DEF Forgotten, Left
  <1>12. \A t \in next : solver.identities[t] = window[t] => solver'.placement[t] = solver.placement[t]
    BY <1>2, <1>3, <1>4, <1>6, <1>7, Zenon DEF Forgotten, Left
  <1>13. Cap(solver)' = cap
    BY <1>2, <1>7, Zenon DEF Cap
  <1>14. /\ outstanding' \in CpuMaps /\ pc' \in {"idle", "act", "failed", "terminated"}
         /\ Keys(outstanding') \subseteq IF pc' = "act" THEN Known(solver') ELSE {}
    <2>1. x.delta \in CpuMaps /\ Keys(x.delta) \subseteq Known(r) /\ (x.thrown => x.delta = None)
      BY <1>5, Zenon DEF Proposal
    <2> QED
      BY <1>1, <1>7, <2>1, NoneFacts
  <1>15. BatchInv'
    <2>1. SlotViolation(Carried(r.placement, x.delta), cap) <= SlotViolation(r.placement, cap)
      BY <1>5, Zenon DEF Proposal
    <2> HIDE DEF cap
    <2> QED
      BY <1>1, <1>7, <1>13, <2>1 DEF BatchInv
  <1>16. Window(next)
    BY <1>7, <1>10, <1>11, <1>12, <1>14, <1>15, Zenon DEF Window
  <1>17. ASSUME pc' = "terminated"
         PROVE  Size(solver') > Cap(solver)' * Cardinality(Cpu)
    <2>1. x.thrown
      BY <1>1, <1>17
    <2>2. Size(r) > cap * Cardinality(Cpu)
      BY <1>5, <2>1, Zenon DEF Proposal
    <2> HIDE DEF cap
    <2> QED
      BY <1>7, <1>13, <2>2
  <1> QED
    BY <1>16, <1>17

\* A window with a proposal is a window.
LEMMA SolveWindowKeeps ==
  ASSUME IInv, NEW next \in SUBSET Keys(window), SolveWindow(next)
  PROVE  IInv'
  <1>1. SettleCohort(next)
    BY Zenon DEF SolveWindow
  <1> QED
    BY <1>1, SolveWindowInv, WindowKeeps

\* A restore of a pin that cools off is refused: the worker stops there.
LEMMA CohortRestoreFailsKeeps ==
  ASSUME IInv, NEW next, NEW refused, CohortRestoreFails(next, refused)
  PROVE  IInv'
  <1>1. /\ pc = "idle" /\ pc' = "failed" /\ disturbances > 0 /\ disturbances' = disturbances - 1
        /\ mask' = Without(mask, CoolingPins(next) \ refused)
        /\ acted_tids' = acted_tids \ (CoolingPins(next) \ refused)
        /\ UNCHANGED <<mode, maximum_threads_per_cpu, gen, live, exits, window, solver, outstanding,
                       active_cohort, current_plan, paused>>
    BY Zenon DEF CohortRestoreFails, Disturb, config, threads, graph, status
  <1>2. Types
    BY Zenon DEF IInv
  <1>3. mask' \in CpuMaps
    BY <1>1, <1>2, WithoutTyped, Zenon DEF Types
  <1>4. Types'
    BY <1>1, <1>2, <1>3 DEF Types
  <1>5. TargetInv' /\ SolverInv(solver)'
    BY <1>1 DEF IInv, TargetInv
  <1>6. CohortInv' /\ BackedInv' /\ PinnedInv' /\ BatchInv'
    BY <1>1, Zenon DEF IInv, CohortInv, BackedInv, PinnedInv, BatchInv, Up
  <1> QED
    BY <1>4, <1>5, <1>6 DEF IInv
-----------------------------------------------------------------------------
(***************************************************************************)
(* The batch                                                               *)
(***************************************************************************)
\* The new plan is of threads that there are.
LEMMA PlanIsOfThreads ==
  ASSUME IInv, SolverInv(solver'), current_plan' = solver'.placement,
         \A t \in Tid : solver'.identities[t] # 0 => solver'.identities[t] = solver.identities[t]
  PROVE  /\ current_plan' \in CpuMaps /\ \A t \in Keys(current_plan') : gen[t] > 0
         /\ \A t \in Tid : solver'.identities[t] <= gen[t]
  <1>1. /\ solver'.identities \in IdentityMaps /\ solver'.placement \in CpuMaps
        /\ Keys(solver'.placement) \subseteq Keys(solver'.identities)
    BY SolverFields, Zenon DEF SolverInv, Known
  <1>2. \A t \in Tid : gen[t] \in Nat /\ solver.identities[t] <= gen[t]
    BY GenFacts, Zenon
  <1>3. \A t \in Tid : solver'.identities[t] \in Nat
    BY <1>1, IdentityIsNat, Zenon
  <1>4. \A t \in Tid : solver'.identities[t] <= gen[t]
    BY <1>2, <1>3, LeastNumber, Zenon
  <1>5. \A t \in Keys(solver'.placement) : t \in Tid /\ solver'.identities[t] # 0
    BY <1>1, Zenon DEF Keys
  <1> QED
    BY <1>1, <1>2, <1>3, <1>4, <1>5, Bounded, Zenon

\* The whole batch is committed in plan mode.
LEMMA ShadowCommitted ==
  ASSUME IInv, ShadowCommit
  PROVE  SolverInv(solver') /\ solver'.identities = solver.identities
         /\ solver'.placement = Carried(solver.placement, outstanding)
  <1>1. pc = "act" /\ \E still \in SUBSET Unplaced : solver' = commit(solver, outstanding, {}, still)
    BY Zenon DEF ShadowCommit
  <1>2. PICK still : solver' = commit(solver, outstanding, {}, still)
    BY <1>1, Zenon
  <1>3. SolverInv(solver) /\ outstanding \in CpuMaps /\ Keys(outstanding) \subseteq Known(solver)
    BY <1>1, Zenon DEF IInv, Types, CohortInv
  <1> DEFINE c == commit(solver, outstanding, {}, still)
  <1>4. Committed(c, solver, outstanding, Keys(outstanding))
    BY <1>3, CommitInv
  <1> HIDE DEF c
  <1>5. /\ SolverInv(solver') /\ solver'.identities = solver.identities
        /\ solver'.placement = [t \in Tid |-> IF t \in Keys(outstanding) THEN outstanding[t] ELSE solver.placement[t]]
    BY <1>2, <1>4, Zenon DEF c, Committed
  <1> QED
    BY <1>5 DEF Carried, Keys

\* A batch that is only planned.
LEMMA ShadowCommitKeeps ==
  ASSUME IInv, ShadowCommit
  PROVE  IInv'
  <1>1. /\ pc = "act" /\ mode = "plan" /\ pc' = "idle" /\ outstanding' = None
        /\ current_plan' = solver'.placement
        /\ UNCHANGED <<mode, maximum_threads_per_cpu, gen, live, mask, disturbances, exits, window, acted_tids,
                       active_cohort, paused>>
    BY Zenon DEF ShadowCommit, WindowEnds, config, threads, graph
  <1>2. SolverInv(solver') /\ solver'.identities = solver.identities
    BY ShadowCommitted, Zenon
  <1>3. /\ current_plan' \in CpuMaps /\ \A t \in Keys(current_plan') : gen[t] > 0
        /\ \A t \in Tid : solver'.identities[t] <= gen[t]
    BY <1>1, <1>2, PlanIsOfThreads, Zenon
  <1>4. Types'
    BY <1>1, <1>3, NoneFacts, Zenon DEF IInv, Types
  <1>5. TargetInv'
    BY <1>1, <1>3 DEF IInv, TargetInv
  <1>6. CohortInv' /\ BackedInv' /\ PinnedInv' /\ BatchInv'
    BY <1>1, <1>2, NoneFacts, Zenon DEF IInv, CohortInv, BackedInv, PinnedInv, BatchInv, Known
  <1> QED
    BY <1>2, <1>4, <1>5, <1>6 DEF IInv

\* A batch that was rolled back.
LEMMA ApplyFailsKeeps ==
  ASSUME IInv, ApplyFails
  PROVE  IInv'
  <1>1. /\ pc = "act" /\ pc' = "idle" /\ outstanding' = None /\ disturbances > 0 /\ disturbances' = disturbances - 1
        /\ UNCHANGED <<mode, maximum_threads_per_cpu, gen, live, mask, exits, window, acted_tids, solver,
                       active_cohort, current_plan, paused>>
    BY Zenon DEF ApplyFails, Disturb, WindowEnds, config, threads, graph, status
  <1>2. Types'
    BY <1>1, NoneFacts DEF IInv, Types
  <1>3. SolverInv(solver)' /\ TargetInv' /\ CohortInv' /\ BackedInv' /\ PinnedInv' /\ BatchInv'
    BY <1>1, NoneFacts, Zenon DEF IInv, TargetInv, CohortInv, BackedInv, PinnedInv, BatchInv, Up
  <1> QED
    BY <1>2, <1>3 DEF IInv

\* What is left of a batch is committed in active mode, and the rest is forgotten.
LEMMA Applied ==
  ASSUME IInv, Apply
  PROVE  LET committed == Keys(outstanding) \cap live
         IN /\ SolverInv(solver') /\ solver'.identities = Without(solver.identities, Keys(outstanding) \ committed)
            /\ solver'.placement = PartlyCarried(solver.placement, outstanding, committed)
  <1> DEFINE committed == Keys(outstanding) \cap live
  <1>1. pc = "act" /\ \E still \in SUBSET Unplaced : solver' = Settle(committed, still)
    BY Zenon DEF Apply
  <1>2. PICK still : solver' = Settle(committed, still)
    BY <1>1, Zenon
  <1>3. /\ SolverInv(solver) /\ outstanding \in CpuMaps /\ Keys(outstanding) \subseteq Known(solver)
        /\ committed \in SUBSET Keys(outstanding)
    BY <1>1 DEF IInv, Types, CohortInv
  <1> HIDE DEF committed
  <1>4. LET r == Settle(committed, still)
        IN /\ SolverInv(r) /\ r.identities = Without(solver.identities, Keys(outstanding) \ committed)
           /\ r.placement = PartlyCarried(solver.placement, outstanding, committed)
    BY <1>3, SettleInv, Zenon
  <1> QED
    BY <1>2, <1>4 DEF committed

\* A batch that is carried out: each thread of it that is left has its pin.
LEMMA ApplyKeeps ==
  ASSUME IInv, Apply
  PROVE  IInv'
  <1> DEFINE committed == Keys(outstanding) \cap live
  <1>1. /\ pc = "act" /\ mode = "active" /\ pc' = "idle" /\ outstanding' = None
        /\ mask' = [t \in Tid |-> IF t \in committed THEN outstanding[t] ELSE mask[t]]
        /\ acted_tids' = acted_tids \cup committed /\ current_plan' = solver'.placement
        /\ UNCHANGED <<mode, maximum_threads_per_cpu, gen, live, disturbances, exits, window,
                       active_cohort, paused>>
    BY Zenon DEF Apply, WindowEnds, config, threads, graph
  <1>2. /\ SolverInv(solver') /\ solver'.identities = Without(solver.identities, Keys(outstanding) \ committed)
        /\ solver'.placement = PartlyCarried(solver.placement, outstanding, committed)
    BY Applied, Zenon
  <1>3. /\ Types /\ committed \in SUBSET live /\ committed \in SUBSET Tid
        /\ \A t \in Tid : t \in committed <=> t \in live /\ outstanding[t] # 0
    BY Zenon DEF IInv, Types, Keys
  <1>4. \A t \in Tid : solver'.identities[t] # 0 => solver'.identities[t] = solver.identities[t]
    <2> DEFINE Gone == Keys(outstanding) \ committed
    <2>1. solver'.identities = Without(solver.identities, Gone)
      BY <1>2, Zenon
    <2> HIDE DEF Gone, committed
    <2>2. \A t \in Tid : \/ Without(solver.identities, Gone)[t] = 0
                         \/ Without(solver.identities, Gone)[t] = solver.identities[t]
      BY Zenon DEF Without
    <2> QED
      BY <2>1, <2>2
  <1>5. \A t \in Tid : solver'.placement[t] =
          IF t \in committed THEN outstanding[t] ELSE IF outstanding[t] # 0 THEN 0 ELSE solver.placement[t]
    BY <1>2 DEF PartlyCarried
  <1>6. /\ current_plan' \in CpuMaps /\ \A t \in Keys(current_plan') : gen[t] > 0
        /\ \A t \in Tid : solver'.identities[t] <= gen[t]
    BY <1>1, <1>2, <1>4, PlanIsOfThreads, Zenon
  <1>7. committed \subseteq Known(solver) /\ Known(solver') \subseteq Known(solver)
    <2>1. committed \subseteq Known(solver)
      BY <1>1, Zenon DEF IInv, CohortInv
    <2>2. Known(solver') \subseteq Known(solver)
      BY <1>4, Zenon DEF Known, Keys
    <2> QED
      BY <2>1, <2>2
  <1> HIDE DEF committed
  <1>8. Types'
    <2>1. mask' \in CpuMaps
      BY <1>1, <1>3, Zenon DEF Types, CpuMaps
    <2> QED
      BY <1>1, <1>3, <1>6, <2>1, NoneFacts, Zenon DEF Types
  <1>9. TargetInv'
    BY <1>1, <1>3, <1>6 DEF IInv, TargetInv
  <1>10. CohortInv' /\ BatchInv'
    BY <1>1, <1>7, NoneFacts, Zenon DEF IInv, CohortInv, BatchInv
  <1>11. ASSUME NEW t \in live, t \notin committed
         PROVE  t \in Tid /\ solver'.placement[t] = solver.placement[t] /\ mask'[t] = mask[t]
    BY <1>1, <1>3, <1>5, <1>11, Zenon DEF Types
  <1>12. BackedInv'
    <2> SUFFICES ASSUME NEW t \in live, solver'.identities[t] = gen[t], solver'.placement[t] # 0
                 PROVE  mask'[t] = solver'.placement[t]
      BY <1>1, Zenon DEF BackedInv
    <2>1. t \in Tid /\ gen[t] > 0 /\ gen[t] \in Nat
      BY <1>3, GenFacts, Zenon DEF IInv, TargetInv, Types
    <2>2. CASE t \in committed
      BY <1>1, <1>5, <2>1, <2>2, Zenon
    <2>3. CASE t \notin committed
      <3>1. solver.identities[t] = gen[t]
        BY <1>4, <2>1
      <3> QED
        BY <1>1, <1>11, <2>3, <3>1, Zenon DEF IInv, BackedInv, Up
    <2> QED
      BY <2>2, <2>3
  <1>13. PinnedInv'
    <2> SUFFICES ASSUME NEW t \in acted_tids' \cap live, gen[t] = 1
                 PROVE  t \in active_cohort /\ solver'.placement[t] # 0
      BY <1>1, Zenon DEF PinnedInv
    <2>1. CASE t \in committed
      BY <1>3, <1>5, <1>7, <2>1, Zenon DEF IInv, CohortInv
    <2>2. CASE t \notin committed
      BY <1>1, <1>11, <2>2, Zenon DEF IInv, PinnedInv, Up
    <2> QED
      BY <2>1, <2>2
  <1> QED
    BY <1>2, <1>8, <1>9, <1>10, <1>12, <1>13 DEF IInv
-----------------------------------------------------------------------------
(***************************************************************************)
(* Theorems                                                                *)
(***************************************************************************)
\* Every step keeps the invariant.
LEMMA NextKeeps == IInv /\ [Next]_vars => IInv'
  <1> SUFFICES ASSUME IInv, [Next]_vars PROVE IInv'
    BY Zenon
  <1>1. ASSUME NEW t \in Tid, ThreadExit(t) PROVE IInv'
    BY <1>1, ThreadExitKeeps
  <1>2. ASSUME NEW t \in Tid, thread_exited(t) PROVE IInv'
    BY <1>2, ThreadExitedKeeps
  <1>3. ASSUME NEW t \in Tid, NEW p \in Tid, ThreadStart(t, p) PROVE IInv'
    BY <1>3, ThreadStartKeeps
  <1>4. ASSUME NEW aged \in SUBSET (Keys(window) \ live), reconcile_and_sample(aged) PROVE IInv'
    BY <1>4, SampleKeeps
  <1>5. ASSUME NEW refused, pause(refused) PROVE IInv'
    BY <1>5, PauseKeeps
  <1>6. CASE resume
    BY <1>6, ResumeKeeps
  <1>7. ASSUME NEW next, NEW refused, CohortRestoreFails(next, refused) PROVE IInv'
    BY <1>7, CohortRestoreFailsKeeps
  <1>8. ASSUME NEW next \in SUBSET Keys(window), QuietWindow(next) PROVE IInv'
    BY <1>8, QuietWindowKeeps
  <1>9. ASSUME NEW next \in SUBSET Keys(window), SolveWindow(next) PROVE IInv'
    BY <1>9, SolveWindowKeeps, Zenon
  <1>10. CASE ShadowCommit
    BY <1>10, ShadowCommitKeeps
  <1>11. CASE ApplyFails
    BY <1>11, ApplyFailsKeeps
  <1>12. CASE Apply
    BY <1>12, ApplyKeeps
  <1>13. CASE UNCHANGED vars
    <2>1. UNCHANGED <<mode, maximum_threads_per_cpu, gen, live, mask, disturbances, exits, window, acted_tids,
                      solver, outstanding, active_cohort, current_plan, paused, pc>>
      BY <1>13, Zenon DEF vars, config, threads, graph, status
    <2>2. Types'
      BY <2>1 DEF IInv, Types
    <2>3. SolverInv(solver)' /\ TargetInv' /\ CohortInv' /\ BackedInv' /\ PinnedInv' /\ BatchInv'
      BY <2>1, Zenon DEF IInv, TargetInv, CohortInv, BackedInv, PinnedInv, BatchInv, Up, Cap
    <2> QED
      BY <2>2, <2>3 DEF IInv
  <1> QED
    BY <1>1, <1>2, <1>3, <1>4, <1>5, <1>6, <1>7, <1>8, <1>9, <1>10, <1>11, <1>12, <1>13, Zenon DEF Next

\* The invariant holds in every state of the worker.
THEOREM Invariance == Spec => []IInv
  BY InitInv, NextKeeps, PTL DEF Spec

\* Every variable keeps its type, and the solver aims, places and delays only threads
\* that it knows.
THEOREM TypeCorrect == Spec => []TypeOK
  <1>1. IInv => TypeOK
    BY TypesGiveTypeOK DEF IInv
  <1> QED
    BY <1>1, Invariance, PTL

\* In active mode, between windows, the solver's memory of a living thread is the pin
\* that the kernel has, and the reported plan is the solver's; whatever batches were
\* rolled back, threads vanished and TIDs were used again.
THEOREM PlacementsAreBacked == Spec => []PlacementIsBacked
  <1>1. IInv => PlacementIsBacked
    BY Zenon DEF IInv, BackedInv, Up, PlacementIsBacked
  <1> QED
    BY <1>1, Invariance, PTL

\* No pin is left behind: the actuator's pins are of threads that the cohort and the
\* solver have, so that cooling restores them.
THEOREM PinsAreManaged == Spec => []PinnedIsManaged
  <1>1. IInv => PinnedIsManaged
    BY Zenon DEF IInv, PinnedInv, Up, PinnedIsManaged
  <1> QED
    BY <1>1, Invariance, PTL

\* The worker ended with an exception only for a cohort that no placement fits.
Crowded == pc = "terminated" => Size(solver) > Cap(solver) * Cardinality(Cpu)

\* A step of the worker commits no batch that adds a slot violation, and ends with an
\* exception only for such a cohort.
LEMMA SlotStep ==
  ASSUME IInv, Crowded, Next
  PROVE  /\ pc = "act" => SlotViolation(solver'.placement, Cap(solver)) <= SlotViolation(solver.placement, Cap(solver))
         /\ Crowded' /\ maximum_threads_per_cpu' = maximum_threads_per_cpu
  <1> DEFINE Goal == /\ pc = "act" => SlotViolation(solver'.placement, Cap(solver))
                                      <= SlotViolation(solver.placement, Cap(solver))
                     /\ Crowded' /\ maximum_threads_per_cpu' = maximum_threads_per_cpu
  <1>1. Cap(solver) \in Nat /\ SolverInv(solver) /\ outstanding \in CpuMaps
    <2>1. maximum_threads_per_cpu \in Nat /\ SolverInv(solver) /\ outstanding \in CpuMaps
      BY ConfigAssumption DEF IInv, Types
    <2> QED
      BY <2>1, SizeIsNat, CapIsNat, Zenon DEF Cap
  <1>2. \A f : SlotViolation(f, Cap(solver)) \in Nat
    BY OverIsFinite, Zenon
  <1>3. ASSUME solver' = solver, pc' \in {pc, "idle"}, maximum_threads_per_cpu' = maximum_threads_per_cpu
        PROVE  Goal
    BY <1>2, <1>3 DEF Crowded, Cap
  <1>4. ASSUME pc = "idle", pc' \in {"idle", "failed"}, maximum_threads_per_cpu' = maximum_threads_per_cpu
        PROVE  Goal
    BY <1>4, Zenon DEF Crowded
  <1>5. ASSUME NEW t \in Tid, ThreadExit(t) PROVE Goal
    <2>1. solver' = solver /\ pc' = pc /\ maximum_threads_per_cpu' = maximum_threads_per_cpu
      BY <1>5, Zenon DEF ThreadExit, config
    <2> QED
      BY <1>3, <2>1
  <1>6. ASSUME NEW t \in Tid, NEW p \in Tid, ThreadStart(t, p) PROVE Goal
    <2>1. solver' = solver /\ pc' = pc /\ maximum_threads_per_cpu' = maximum_threads_per_cpu
      BY <1>6, Zenon DEF ThreadStart, config
    <2> QED
      BY <1>3, <2>1
  <1>7. ASSUME NEW t \in Tid, thread_exited(t) PROVE Goal
    <2>1. pc = "idle" /\ pc' = pc /\ maximum_threads_per_cpu' = maximum_threads_per_cpu
      BY <1>7, Zenon DEF thread_exited, config
    <2> QED
      BY <1>4, <2>1
  <1>8. ASSUME NEW aged, reconcile_and_sample(aged) PROVE Goal
    <2>1. pc = "idle" /\ pc' = pc /\ maximum_threads_per_cpu' = maximum_threads_per_cpu
      BY <1>8, Zenon DEF reconcile_and_sample, config
    <2> QED
      BY <1>4, <2>1
  <1>9. ASSUME NEW refused, pause(refused) PROVE Goal
    <2>1. pc = "idle" /\ pc' = pc /\ maximum_threads_per_cpu' = maximum_threads_per_cpu
      BY <1>9, Zenon DEF pause, config
    <2> QED
      BY <1>4, <2>1
  <1>10. ASSUME resume PROVE Goal
    <2>1. pc = "idle" /\ pc' = pc /\ maximum_threads_per_cpu' = maximum_threads_per_cpu
      BY <1>10, Zenon DEF resume, config
    <2> QED
      BY <1>4, <2>1
  <1>11. ASSUME NEW next, NEW refused, CohortRestoreFails(next, refused) PROVE Goal
    <2>1. pc = "idle" /\ pc' = "failed" /\ maximum_threads_per_cpu' = maximum_threads_per_cpu
      BY <1>11, Zenon DEF CohortRestoreFails, config
    <2> QED
      BY <1>4, <2>1
  <1>12. ASSUME NEW next, QuietWindow(next) PROVE Goal
    <2>1. pc = "idle" /\ pc' = pc /\ maximum_threads_per_cpu' = maximum_threads_per_cpu
      BY <1>12, Zenon DEF QuietWindow, SettleCohort, config
    <2> QED
      BY <1>4, <2>1
  <1>13. ASSUME NEW next \in SUBSET Keys(window), SolveWindow(next) PROVE Goal
    <2>1. pc = "idle" /\ maximum_threads_per_cpu' = maximum_threads_per_cpu
      BY <1>13, Zenon DEF SolveWindow, SettleCohort, config
    <2>2. Crowded'
      BY <1>13, SolveWindowInv, Zenon DEF Crowded
    <2> QED
      BY <2>1, <2>2
  <1>14. ASSUME ShadowCommit PROVE Goal
    <2>1. pc = "act" /\ pc' = "idle" /\ maximum_threads_per_cpu' = maximum_threads_per_cpu
      BY <1>14, Zenon DEF ShadowCommit, WindowEnds, config
    <2>2. solver'.placement = Carried(solver.placement, outstanding)
      BY <1>14, ShadowCommitted, Zenon
    <2> QED
      BY <2>1, <2>2 DEF IInv, BatchInv, Crowded
  <1>15. ASSUME ApplyFails PROVE Goal
    <2>1. solver' = solver /\ pc' = "idle" /\ maximum_threads_per_cpu' = maximum_threads_per_cpu
      BY <1>15, Zenon DEF ApplyFails, WindowEnds, config
    <2> QED
      BY <1>3, <2>1
  <1>16. ASSUME Apply PROVE Goal
    <2> DEFINE committed == Keys(outstanding) \cap live
               g == Carried(solver.placement, outstanding)
    <2>1. pc = "act" /\ pc' = "idle" /\ maximum_threads_per_cpu' = maximum_threads_per_cpu
      BY <1>16, Zenon DEF Apply, WindowEnds, config
    <2>2. solver'.placement = PartlyCarried(solver.placement, outstanding, committed)
      BY <1>16, Applied
    <2>3. committed \in SUBSET Keys(outstanding)
      BY Zenon
    <2> HIDE DEF committed
    <2>4. SlotViolation(solver'.placement, Cap(solver)) <= SlotViolation(g, Cap(solver))
      BY <1>1, <2>2, <2>3, PartAddsNothing, Zenon
    <2>5. SlotViolation(g, Cap(solver)) <= SlotViolation(solver.placement, Cap(solver))
      BY <2>1 DEF IInv, BatchInv
    <2> HIDE DEF g
    <2> QED
      BY <1>2, <2>1, <2>4, <2>5 DEF Crowded
  <1> HIDE DEF Goal
  <1>17. Goal
    BY <1>5, <1>6, <1>7, <1>8, <1>9, <1>10, <1>11, <1>12, <1>13, <1>14, <1>15, <1>16, Zenon DEF Next
  <1> QED
    BY <1>17, Zenon DEF Goal

\* Only a cohort that no placement fits ends the worker, through every step.
LEMMA CrowdedKeeps == IInv /\ Crowded /\ [Next]_vars => Crowded'
  <1> SUFFICES ASSUME IInv, Crowded, [Next]_vars PROVE Crowded'
    BY Zenon
  <1>1. CASE Next
    BY <1>1, SlotStep, Zenon
  <1>2. CASE UNCHANGED vars
    <2>1. maximum_threads_per_cpu' = maximum_threads_per_cpu /\ solver' = solver /\ pc' = pc
      BY <1>2, Zenon DEF vars, config
    <2> QED
      BY <2>1 DEF Crowded, Cap
  <1> QED
    BY <1>1, <1>2

\* The worker starts without an exception.
LEMMA InitCrowded == Init => Crowded
  BY DEF Init, Crowded

\* No committed batch makes a CPU fuller than the slot cap that it was not before, also
\* if only a part of it was carried out, and propose gives up only on a cohort that is
\* larger than all slots.
THEOREM SlotCap == Spec => SlotsAreKept
  <1> DEFINE A == /\ pc = "act" => SlotViolation(solver'.placement, Cap(solver))
                                   <= SlotViolation(solver.placement, Cap(solver))
                  /\ pc' = "terminated" => Size(solver') > Cap(solver') * Cardinality(Cpu)
  <1>1. IInv /\ Crowded /\ [Next]_vars => [A]_vars
    <2> SUFFICES ASSUME IInv, Crowded, Next PROVE A
      OBVIOUS
    <2> QED
      BY SlotStep, Zenon DEF Crowded, Cap
  <1>2. SlotsAreKept <=> [][A]_vars
    BY DEF SlotsAreKept
  <1> HIDE DEF A
  <1> QED
    BY <1>1, <1>2, Invariance, InitCrowded, CrowdedKeeps, PTL DEF Spec

\* With maximum_threads_per_cpu = 0 the cap follows the cohort, and the exception of a
\* placement without a free slot is never thrown.
NeverTerminated == maximum_threads_per_cpu = 0 => pc # "terminated"

\* The initial repair of a plan always finds a slot when the cap follows the cohort.
THEOREM UnlimitedNeverTerminates == Spec => []NeverTerminated
  <1>1. IInv /\ Crowded => NeverTerminated
    <2> SUFFICES ASSUME IInv, Crowded, maximum_threads_per_cpu = 0, pc = "terminated" PROVE FALSE
      BY Zenon DEF NeverTerminated
    <2>1. Size(solver) \in Nat /\ Size(solver) > Cap(solver) * Cardinality(Cpu)
      BY SizeIsNat DEF Crowded
    <2>2. Cap(solver) = cpu_slot_cap(0, Size(solver))
      BY Zenon DEF Cap
    <2>3. Cap(solver) \in Nat /\ Size(solver) <= Cap(solver) * Cardinality(Cpu)
      BY <2>1, <2>2, CapIsNat, Zenon
    <2>4. Cardinality(Cpu) \in Nat
      BY CpuAssumption, FS_CardinalityType
    <2> QED
      BY <2>1, <2>3, <2>4
  <1> QED
    BY <1>1, Invariance, InitCrowded, CrowdedKeeps, PTL DEF Spec

\* Once the solver optimizes, every thread that it knows is aimed at a CPU and placed on
\* one: the lookups of a thread's CPU and target, in the moves and in the swaps, find it.
AllArePlaced ==
    solver.phase = "optimizing" => Keys(solver.placement) = Known(solver) /\ Keys(solver.targets) = Known(solver)

\* Arrivals, departures, used TIDs and partial commits never leave the optimizing phase
\* with a thread that has no CPU.
THEOREM OptimizingIsComplete == Spec => []AllArePlaced
  <1>1. IInv => AllArePlaced
    BY DEF IInv, SolverInv, AllArePlaced
  <1> QED
    BY <1>1, Invariance, PTL
=============================================================================
