------------------------- MODULE DomainSolverProofs -------------------------
(***************************************************************************)
(* What NumaDomainSolver keeps from window to window, for any families,    *)
(* nodes and thresholds, and whatever evidence the windows bring.          *)
(***************************************************************************)
EXTENDS DomainSolver, FiniteSetTheorems, TLAPS

-----------------------------------------------------------------------------
(***************************************************************************)
(* Induction over the natural numbers, stated about sets                   *)
(***************************************************************************)
\* Every non-empty set of numbers has a least element.
LEMMA LeastElement ==
  ASSUME NEW T \in SUBSET Nat, T # {}
  PROVE  \E x \in T : \A y \in T : x <= y
  <1> DEFINE R == OpToRel(<, Nat)
  <1>1. IsWellFoundedOn(R, Nat)
    BY NatLessThanWellFounded
  <1>2. \A x, y \in Nat : <<y, x>> \in R <=> y < x
    BY DEF OpToRel
  <1> HIDE DEF R
  <1>3. PICK x \in T : \A y \in T : ~(<<y, x>> \in R)
    BY Zenon, <1>1, WFMin
  <1>4. ASSUME NEW y \in T PROVE x <= y
    <2>1. x \in Nat /\ y \in Nat
      OBVIOUS
    <2>2. ~(y < x)
      BY Zenon, <1>2, <1>3, <2>1
    <2>3. QED
      BY <2>1, <2>2
  <1>5. QED
    BY <1>4

\* Max is the greatest element of a set that has a bound.
LEMMA MaxIsGreatest ==
  ASSUME NEW T \in SUBSET Nat, T # {}, NEW b \in Nat, \A y \in T : y <= b
  PROVE  Max(T) \in T /\ \A y \in T : Max(T) >= y
  <1> DEFINE U == {b - y : y \in T}
  <1>1. U \in SUBSET Nat /\ U # {}
    <2>1. \A y \in T : b - y \in Nat
      OBVIOUS
    <2>2. QED
      BY Zenon, <2>1
  <1>2. PICK u \in U : \A v \in U : u <= v
    BY <1>1, LeastElement
  <1>3. PICK x \in T : u = b - x
    OBVIOUS
  <1>4. \A y \in T : x >= y
    BY <1>2, <1>3
  <1>5. QED
    BY <1>3, <1>4 DEF Max

\* Induction up to N: a set with 0 and every successor of its members is all of 0..N.
LEMMA UpToInduction ==
  ASSUME NEW N \in Nat, NEW T, 0 \in T, \A n \in 1..N : n - 1 \in T => n \in T
  PROVE  0..N \subseteq T
  <1> SUFFICES ASSUME (0..N) \ T # {} PROVE FALSE
    OBVIOUS
  <1> DEFINE U == (0..N) \ T
  <1>0. U \in SUBSET Nat /\ U # {}
    OBVIOUS
  <1>1. PICK x \in U : \A y \in U : x <= y
    BY Zenon, <1>0, LeastElement
  <1>2. x \in 1..N /\ x - 1 \in 0..N /\ ~(x <= x - 1)
    BY <1>1
  <1>3. x - 1 \in T
    BY <1>1, <1>2
  <1>4. QED
    BY <1>1, <1>2, <1>3

\* A finite set of numbers has a bound.
LEMMA FiniteIsBounded ==
  ASSUME NEW S \in SUBSET Nat, IsFiniteSet(S)
  PROVE  \E b \in Nat : \A y \in S : y <= b
  <1> DEFINE Bounded(U) == \E b \in Nat : \A y \in U : y <= b
             T == {n \in Nat : \A U \in SUBSET Nat : IsFiniteSet(U) /\ Cardinality(U) = n => Bounded(U)}
  <1>1. 0 \in T
    <2>1. ASSUME NEW U \in SUBSET Nat, IsFiniteSet(U), Cardinality(U) = 0 PROVE Bounded(U)
      <3>1. U = {}
        BY <2>1, FS_EmptySet
      <3>2. QED
        BY <3>1
    <2>2. QED
      BY <2>1
  <1>2. ASSUME NEW n \in 1..Cardinality(S), n - 1 \in T PROVE n \in T
    <2>1. ASSUME NEW U \in SUBSET Nat, IsFiniteSet(U), Cardinality(U) = n PROVE Bounded(U)
      <3>1. PICK x : x \in U
        BY <2>1, FS_EmptySet
      <3>2. IsFiniteSet(U \ {x}) /\ Cardinality(U \ {x}) = n - 1
        BY <2>1, <3>1, FS_RemoveElement
      <3>3. PICK b \in Nat : \A y \in U \ {x} : y <= b
        BY <1>2, <3>2
      <3>4. x + b \in Nat /\ \A y \in U : y <= x + b
        BY <3>1, <3>3
      <3>5. QED
        BY <3>4
    <2>2. n \in Nat
      BY <1>2
    <2>3. QED
      BY <2>1, <2>2
  <1>3. Cardinality(S) \in Nat
    BY FS_CardinalityType
  <1> HIDE DEF T
  <1>4. Cardinality(S) \in T
    BY <1>1, <1>2, <1>3, UpToInduction
  <1>5. QED
    BY <1>4 DEF T

\* g starts with a value and goes on by a step function, N times.
Iterates(g, N, start, step) == g[0] = start /\ \A n \in 1..N : g[n] = step[n][g[n - 1]]

\* A step function determines what it makes of a start value in N steps.
LEMMA RecursionExists ==
  ASSUME NEW N \in Nat, NEW S, NEW start \in S, NEW step \in [1..N -> [S -> S]]
  PROVE  \E g \in [0..N -> S] : Iterates(g, N, start, step)
  <1> DEFINE Upto(m, g) == Iterates(g, m, start, step)
             T == {m \in 0..N : \E g \in [0..m -> S] : Upto(m, g)}
  <1>1. 0 \in T
    <2>1. [i \in 0..0 |-> start] \in [0..0 -> S] /\ Upto(0, [i \in 0..0 |-> start])
      BY DEF Iterates
    <2>2. 0 \in 0..N
      OBVIOUS
    <2>3. QED
      BY Zenon, <2>1, <2>2
  <1>2. ASSUME NEW m \in 1..N, m - 1 \in T PROVE m \in T
    <2>1. PICK g \in [0..m - 1 -> S] : Upto(m - 1, g)
      BY <1>2
    <2> DEFINE next == step[m][g[m - 1]]
               h == [i \in 0..m |-> IF i = m THEN next ELSE g[i]]
    <2>2. next \in S
      BY <1>2, <2>1
    <2>3. h \in [0..m -> S]
      BY <1>2, <2>2
    <2>4. h[0] = start
      BY <1>2, <2>1 DEF Iterates
    <2>5. ASSUME NEW n \in 1..m PROVE h[n] = step[n][h[n - 1]]
      <3>1. h[n - 1] = g[n - 1]
        BY <1>2, <2>5
      <3>2. CASE n = m
        <4>1. h[n] = next
          BY <3>2
        <4>2. QED
          BY Zenon, <3>1, <3>2, <4>1
      <3>3. CASE n # m
        BY <2>1, <3>1, <3>3 DEF Iterates
      <3>4. QED
        BY <3>2, <3>3
    <2>6. m \in 0..N
      BY <1>2
    <2> HIDE DEF h
    <2>7. Upto(m, h)
      BY <2>4, <2>5, Zenon DEF Iterates
    <2>8. QED
      BY Zenon, <2>3, <2>6, <2>7
  <1> HIDE DEF T
  <1>3. N \in T
    <2>1. 0..N \subseteq T
      BY <1>1, <1>2, UpToInduction, Zenon
    <2>2. QED
      BY <2>1
  <1>4. QED
    BY <1>3 DEF T
-----------------------------------------------------------------------------

Proposal == [open : BOOLEAN, families : SUBSET Family, domains : SUBSET Domain,
             planned : [Family -> SUBSET Node], inherited : SUBSET Family,
             valid : BOOLEAN, ready : BOOLEAN]

Types ==
    /\ family_confirmations \in [Family -> 0..FamilyStability]
    /\ merge_confirmations \in [Pair -> 0..DomainStability]
    /\ merge_pending_grace \in [Pair -> 0..PlanConfirmations]
    /\ expand_confirmations \in [Id -> 0..ExpandConfirmations]
    /\ shrink_confirmations \in [Id -> 0..ShrinkConfirmations]
    /\ domain_nodes \in [Id -> SUBSET Node]
    /\ changed_age \in [Id -> 0..Dwell] /\ evidence_age \in [Id -> 0..Dwell]
    /\ domains \in SUBSET Domain /\ outstanding \in Proposal
    /\ placement \in [Family -> SUBSET Node] /\ mask \in [Family -> SUBSET Node]
    /\ plan_confirmation \in 0..PlanConfirmations

Disjoint(S) == \A d, e \in S : d.families \cap e.families # {} => d = e

\* Every planned mask lies on the nodes of a valid domain of the plan.
Backed(masks, S) ==
    \A f \in Keys(masks) : \E d \in S : d.valid /\ f \in d.families /\ masks[f] \subseteq d.nodes

ProposalInv ==
    /\ Keys(outstanding.planned) \subseteq outstanding.families
    /\ Disjoint(domains) /\ Disjoint(outstanding.domains)
    /\ Backed(placement, domains) /\ Backed(outstanding.planned, outstanding.domains)

\* The history is what the solver remembers itself.
HistoryInv ==
    /\ last = pending_signature /\ streak = plan_confirmation /\ quiet = changed_age
    /\ outstanding.ready => outstanding.domains = {} \/ plan_confirmation >= PlanConfirmations

\* The nodes of the committed domains are recorded, and a plan takes nodes from a
\* domain only after the dwell.
NodesInv ==
    /\ \A d \in domains : domain_nodes[d.families] = d.nodes
    /\ outstanding.open =>
         \A d \in outstanding.domains :
           d.nodes # {} /\ Cardinality(d.nodes) < Cardinality(domain_nodes[d.families])
             => changed_age[d.families] >= Dwell

IInv == Types /\ ProposalInv /\ HistoryInv /\ PendingMergeWaits /\ NodesInv
-----------------------------------------------------------------------------
(***************************************************************************)
(* Candidates and held domains                                             *)
(***************************************************************************)
\* The fields of a domain.
LEMMA DomainFields ==
  ASSUME NEW d \in Domain
  PROVE  d.families \in Id /\ d.families \in SUBSET Family /\ d.families # {}
         /\ d.nodes \in SUBSET Node /\ d.valid \in BOOLEAN
  BY DEF Domain, Id

\* The domain ids that are visited, in the order of their first family, end.
LEMMA LastIsFamily == Last \in Nat
  <1>1. Family \in SUBSET Nat /\ Family # {}
    BY FamilyAssumption
  <1>2. PICK b \in Nat : \A y \in Family : y <= b
    BY <1>1, FamilyAssumption, FiniteIsBounded
  <1>3. Max(Family) \in Family
    BY <1>1, <1>2, MaxIsGreatest
  <1> QED
    BY <1>1, <1>3 DEF Last

\* Two components share no family: what two closed sets share is closed.
LEMMA ComponentsDisjoint ==
  ASSUME NEW anchors \in SUBSET Family, NEW pairs
  PROVE  /\ Components(anchors, pairs) \subseteq Id
         /\ \A c, d \in Components(anchors, pairs) : c \cap d # {} => c = d
         /\ \A c \in Components(anchors, pairs) :
              c \subseteq anchors /\ \A p \in pairs : p \subseteq c \/ p \cap c = {}
  <1> DEFINE closed == {c \in (SUBSET anchors) \ {{}} : \A p \in pairs : p \subseteq c \/ p \cap c = {}}
  <1>1. Components(anchors, pairs) = {c \in closed : \A d \in closed : d \subseteq c => d = c}
    BY DEF Components
  <1>2. \A c \in closed : c \in Id /\ c \subseteq anchors /\ \A p \in pairs : p \subseteq c \/ p \cap c = {}
    BY DEF Id
  <1>3. \A c, d \in closed : c \cap d # {} => c \cap d \in closed
    OBVIOUS
  <1> HIDE DEF closed
  <1>4. ASSUME NEW c \in Components(anchors, pairs), NEW d \in Components(anchors, pairs), c \cap d # {}
        PROVE  c = d
    <2>1. c \in closed /\ d \in closed /\ (\A e \in closed : e \subseteq c => e = c)
          /\ (\A e \in closed : e \subseteq d => e = d)
      BY <1>1
    <2>2. c \cap d \in closed
      BY <1>3, <1>4, <2>1
    <2>3. c \cap d \subseteq c /\ c \cap d \subseteq d
      OBVIOUS
    <2>4. c \cap d = c /\ c \cap d = d
      BY <2>1, <2>2, <2>3, Zenon
    <2> QED
      BY <2>4
  <1> QED
    BY <1>1, <1>2, <1>4

\* Holding a committed domain keeps the domains apart.
LEMMA HoldKeeps ==
  ASSUME NEW F, NEW d, NEW ages, NEW seen, Disjoint(F)
  PROVE  Hold(F, d, ages, seen) \subseteq F \cup {d} /\ Disjoint(Hold(F, d, ages, seen))
  <1> DEFINE G == {c \in F : c.families \cap d.families = {}} \cup {d}
  <1>1. Hold(F, d, ages, seen) \in {F, G}
    BY DEF Hold
  <1>2. G \subseteq F \cup {d}
    OBVIOUS
  <1>3. Disjoint(G)
    BY DEF Disjoint
  <1> QED
    BY <1>1, <1>2, <1>3, Zenon

\* However many committed domains are held, the domains of the window are apart,
\* and each of them is a candidate or a committed one.
LEMMA HeldKeeps ==
  ASSUME NEW candidates, NEW ages, NEW seen, Disjoint(candidates)
  PROVE  Held(candidates, ages, seen) \subseteq candidates \cup domains
         /\ Disjoint(Held(candidates, ages, seen))
  <1> DEFINE T == {F \in SUBSET (candidates \cup domains) : Disjoint(F)}
             at(n) == {d \in domains : Min(d.families) = n}
             One(n, F) == IF at(n) = {} THEN F ELSE Hold(F, CHOOSE d \in at(n) : TRUE, ages, seen)
             step == [n \in 1..Last |-> [F \in T |-> One(n, F)]]
             body(h) == [n \in 0..Last |-> IF n = 0 THEN candidates ELSE One(n, h[n - 1])]
             held == CHOOSE h : h = body(h)
  <1>1. Held(candidates, ages, seen) = held[Last]
    BY DEF Held
  <1>2. Last \in Nat
    BY LastIsFamily
  <1>3. candidates \in T
    OBVIOUS
  <1>4. ASSUME NEW n \in 1..Last, NEW F \in T
        PROVE  One(n, F) \in T
    <2>1. CASE at(n) = {}
      BY <2>1
    <2>2. CASE at(n) # {}
      <3>1. (CHOOSE d \in at(n) : TRUE) \in domains
        BY <2>2
      <3>2. \A d \in domains : Hold(F, d, ages, seen) \in T
        BY HoldKeeps
      <3> QED
        BY <2>2, <3>1, <3>2
    <2> QED
      BY <2>1, <2>2
  <1> HIDE DEF T, One, at
  <1>5. step \in [1..Last -> [T -> T]]
    BY <1>4
  <1>6. PICK g \in [0..Last -> T] : Iterates(g, Last, candidates, step)
    <2> HIDE DEF step
    <2> QED
      BY <1>2, <1>3, <1>5, RecursionExists, Zenon
  <1>7. \A n \in 1..Last : n - 1 \in 0..Last /\ g[n - 1] \in T
    BY <1>2, <1>6
  <1>8. g = body(g)
    <2>1. \A n \in 0..Last : g[n] = IF n = 0 THEN candidates ELSE One(n, g[n - 1])
      <3> TAKE n \in 0..Last
      <3>1. CASE n = 0
        BY <1>6, <3>1 DEF Iterates
      <3>2. CASE n # 0
        <4>1. n \in 1..Last
          BY <1>2, <3>2
        <4>2. step[n][g[n - 1]] = One(n, g[n - 1])
          BY <1>7, <4>1
        <4> QED
          BY <1>6, <3>2, <4>1, <4>2, Zenon DEF Iterates
      <3> QED
        BY <3>1, <3>2
    <2> QED
      BY <1>6, <2>1
  <1>9. held = body(held)
    BY <1>8
  <1> HIDE DEF held
  <1>10. held[0] = candidates /\ \A n \in 1..Last : held[n] = One(n, held[n - 1])
    BY <1>2, <1>9
  <1> DEFINE U == {n \in 0..Last : held[n] \in T}
  <1>11. 0 \in U
    BY <1>2, <1>3, <1>10
  <1>12. \A n \in 1..Last : n - 1 \in U => n \in U
    BY <1>2, <1>4, <1>10
  <1>13. 0..Last \subseteq U
    <2> HIDE DEF U
    <2> QED
      BY <1>2, <1>11, <1>12, UpToInduction
  <1>14. held[Last] \in T
    BY <1>2, <1>13
  <1> QED
    BY <1>1, <1>14 DEF T
-----------------------------------------------------------------------------
(***************************************************************************)
(* The plan of a window                                                    *)
(***************************************************************************)
\* A domain that does not fit is marked, and stays what it is otherwise.
LEMMA FittedShape ==
  ASSUME NEW found \in SUBSET Domain, Disjoint(found), NEW allowed, NEW seen
  PROVE  LET fitted == Fitted(found, allowed, seen)
         IN /\ fitted \subseteq Domain /\ Disjoint(fitted)
            /\ \A x \in fitted : \E d \in found : x.families = d.families /\ x.nodes = d.nodes
  <1> DEFINE misfits == Misfits(found, allowed, seen)
             first == {d \in misfits : \A e \in misfits : Min(d.families) <= Min(e.families)}
             fitted == Fitted(found, allowed, seen)
             mark(d) == [d EXCEPT !.valid = FALSE]
             as(d) == IF d \in first THEN mark(d) ELSE d
  <1>1. fitted = (found \ first) \cup {mark(d) : d \in first}
    BY DEF Fitted
  <1>2. first \subseteq found
    BY DEF Misfits
  <1> HIDE DEF first, fitted
  <1>3. \A d \in Domain : mark(d) \in Domain /\ mark(d).families = d.families /\ mark(d).nodes = d.nodes
    BY DEF Domain
  <1> HIDE DEF mark
  <1>4. ASSUME NEW x \in fitted
        PROVE  \E d \in found : \/ x = d /\ d \notin first
                                \/ x = mark(d) /\ d \in first
    BY <1>1, <1>2, Zenon
  <1>5. ASSUME NEW x \in fitted
        PROVE  \E d \in found : /\ x.families = d.families /\ x.nodes = d.nodes /\ x \in Domain
                                /\ x = as(d)
    <2>1. PICK d \in found : \/ x = d /\ d \notin first
                             \/ x = mark(d) /\ d \in first
      BY <1>4, <1>5, Zenon
    <2>2. d \in Domain /\ mark(d) \in Domain /\ mark(d).families = d.families /\ mark(d).nodes = d.nodes
      BY <1>3
    <2> QED
      BY <2>1, <2>2, Zenon
  <1> HIDE DEF as
  <1>6. Disjoint(fitted)
    <2> SUFFICES ASSUME NEW x \in fitted, NEW y \in fitted, x.families \cap y.families # {}
                 PROVE  x = y
      BY DEF Disjoint
    <2>1. PICK d \in found : x.families = d.families /\ x = as(d)
      BY <1>5, Zenon
    <2>2. PICK e \in found : y.families = e.families /\ y = as(e)
      BY <1>5, Zenon
    <2>3. d = e
      <3>1. d.families \cap e.families # {}
        BY <2>1, <2>2, Zenon
      <3> QED
        BY <3>1, Zenon DEF Disjoint
    <2> QED
      BY <2>1, <2>2, <2>3, Zenon
  <1>7. fitted \subseteq Domain /\ \A x \in fitted : \E d \in found : x.families = d.families /\ x.nodes = d.nodes
    BY <1>5, Zenon
  <1> QED
    BY <1>6, <1>7 DEF fitted

\* Planned masks lie on the nodes of the one domain that has the family.
LEMMA PlannedShape ==
  ASSUME NEW S \in SUBSET Domain, Disjoint(S), NEW allowed \in [Family -> SUBSET Node],
         NEW seen \in SUBSET Family
  PROVE  /\ Planned(S, allowed, seen) \in [Family -> SUBSET Node]
         /\ Keys(Planned(S, allowed, seen)) \subseteq seen
         /\ Backed(Planned(S, allowed, seen), S)
  <1> DEFINE of(f) == {e \in S : e.valid /\ f \in e.families \cap seen}
             at(f) == UNION {d.nodes \cap allowed[f] : d \in of(f)}
             planned == Planned(S, allowed, seen)
  <1>1. planned = [f \in Family |-> at(f)]
    BY DEF Planned
  <1>2. ASSUME NEW f \in Family
        PROVE  at(f) \in SUBSET Node
    BY DomainFields
  <1>3. planned \in [Family -> SUBSET Node]
    BY <1>1, <1>2
  <1>4. ASSUME NEW f \in Family, at(f) # {}
        PROVE  f \in seen /\ \E d \in S : d.valid /\ f \in d.families /\ at(f) \subseteq d.nodes
    <2>1. PICK d \in of(f) : TRUE
      BY <1>4
    <2>2. d \in S /\ d.valid /\ f \in d.families /\ f \in seen
      BY <2>1
    <2>3. \A e \in of(f) : e = d
      BY <2>2 DEF Disjoint
    <2>4. at(f) \subseteq d.nodes
      BY <2>3
    <2> QED
      BY <2>2, <2>4
  <1> HIDE DEF at
  <1>5. \A f \in Keys(planned) : f \in Family /\ at(f) # {} /\ planned[f] = at(f)
    BY <1>1 DEF Keys
  <1> HIDE DEF planned
  <1> QED
    BY <1>3, <1>4, <1>5, Zenon DEF Backed, planned

\* A plan without masks is backed by any domains.
LEMMA NoMasksShape ==
  /\ NoMasks \in [Family -> SUBSET Node] /\ Keys(NoMasks) = {} /\ \A S : Backed(NoMasks, S)
  BY DEF NoMasks, Keys, Backed

\* A plan made of what the window found.
Sound(p, found) ==
    /\ p \in Proposal /\ p.open /\ Disjoint(p.domains) /\ Backed(p.planned, p.domains)
    /\ Keys(p.planned) \subseteq p.families
    /\ \A x \in p.domains : \E d \in found : x.families = d.families /\ x.nodes = d.nodes
    /\ p.ready => p.domains = {} \/ Confirmations(p.domains) >= PlanConfirmations

\* What a plan is made of, whatever the window found.
LEMMA MakeProposalShape ==
  ASSUME NEW found \in SUBSET Domain, Disjoint(found), NEW valid \in BOOLEAN,
         NEW allowed \in [Family -> SUBSET Node], NEW seen \in SUBSET Family
  PROVE  Sound(MakeProposal(found, valid, allowed, seen), found)
  <1> DEFINE ok == valid /\ Misfits(found, allowed, seen) = {}
             final == IF valid THEN Fitted(found, allowed, seen) ELSE found
             planned == IF ok THEN Planned(final, allowed, seen) ELSE NoMasks
             confirmed == Confirmations(final) >= PlanConfirmations
             released == Keys(placement) \ Keys(planned)
             ready == ok /\ IF final = {} THEN released # {} ELSE confirmed
             inherited == {f \in Keys(planned) : placement[f] = {} /\ allowed[f] = planned[f]}
             p == MakeProposal(found, valid, allowed, seen)
  <1>1. p = [open |-> TRUE, families |-> seen, domains |-> final, planned |-> planned, valid |-> ok,
             ready |-> ready, inherited |-> inherited]
    BY DEF MakeProposal
  <1>2. /\ final \in SUBSET Domain /\ Disjoint(final)
        /\ \A x \in final : \E d \in found : x.families = d.families /\ x.nodes = d.nodes
    <2>1. CASE valid
      BY <2>1, FittedShape
    <2>2. CASE ~valid
      BY <2>2, Zenon
    <2> QED
      BY <2>1, <2>2
  <1> HIDE DEF final
  <1>3. planned \in [Family -> SUBSET Node] /\ Keys(planned) \subseteq seen /\ Backed(planned, final)
    <2>1. CASE ok
      BY <1>2, <2>1, PlannedShape
    <2>2. CASE ~ok
      BY <2>2, NoMasksShape
    <2> QED
      BY <2>1, <2>2
  <1>4. inherited \in SUBSET Family
    BY DEF Keys
  <1>5. ok \in BOOLEAN /\ ready \in BOOLEAN
    OBVIOUS
  <1>6. ready => final = {} \/ Confirmations(final) >= PlanConfirmations
    OBVIOUS
  <1> HIDE DEF planned, inherited, ok, ready, p
  <1>7. p \in Proposal
    BY <1>1, <1>2, <1>3, <1>4, <1>5 DEF Proposal
  <1>8. p.open /\ p.domains = final /\ p.planned = planned /\ p.families = seen /\ p.ready = ready
    BY <1>1, Zenon
  <1> QED
    BY <1>2, <1>3, <1>6, <1>7, <1>8, Zenon DEF p, Sound
-----------------------------------------------------------------------------
(***************************************************************************)
(* Counters, ages and nodes                                                *)
(***************************************************************************)
\* The thresholds of the options are positive.
LEMMA Thresholds ==
  /\ FamilyStability \in Nat \ {0} /\ DomainStability \in Nat \ {0} /\ PlanConfirmations \in Nat \ {0}
  /\ ExpandConfirmations \in Nat \ {0} /\ ShrinkConfirmations \in Nat \ {0} /\ Dwell \in Nat \ {0}
  /\ Dwell >= Dwell
  BY ThresholdAssumption

\* A set of nodes has a size, and is not smaller than itself.
LEMMA NodesAreFinite ==
  ASSUME NEW S \in SUBSET Node
  PROVE  Cardinality(S) \in Nat /\ ~(Cardinality(S) < Cardinality(S))
  <1>1. Cardinality(S) \in Nat
    BY NeedsAssumption, FS_Subset, FS_CardinalityType
  <1> QED
    BY <1>1

\* Counters stop at their thresholds.
LEMMA UpToShape ==
  ASSUME NEW limit \in Nat, NEW n \in Nat
  PROVE  UpTo(limit, n) \in 0..limit /\ (n >= limit => UpTo(limit, n) = limit)
  BY DEF UpTo

\* Ages stop at the dwell.
LEMMA OlderShape ==
  ASSUME NEW age \in 0..Dwell
  PROVE  Older(age) \in 0..Dwell /\ (age + 1 >= Dwell => Older(age) = Dwell)
  BY Thresholds, UpToShape DEF Older

\* Confirmations and grace stay in range; a pair that qualifies has grace left, and
\* one that does not starts again.
LEMMA EvidenceShape ==
  ASSUME Types, NEW cohesive, NEW qualifying
  PROVE  /\ FamilyCounts(cohesive) \in [Family -> 0..FamilyStability]
         /\ PairCounts(qualifying) \in [Pair -> 0..DomainStability]
         /\ PairGrace(qualifying) \in [Pair -> 0..PlanConfirmations]
         /\ \A p \in Pair \ qualifying : PairCounts(qualifying)[p] = 0
         /\ \A p \in Pair \cap qualifying : PairGrace(qualifying)[p] > 0
  <1>1. FamilyCounts(cohesive) \in [Family -> 0..FamilyStability]
    <2>1. \A f \in Family : family_confirmations[f] + 1 \in Nat
      BY Thresholds DEF Types
    <2>2. \A f \in Family : UpTo(FamilyStability, family_confirmations[f] + 1) \in 0..FamilyStability
      BY <2>1, Thresholds, UpToShape
    <2>3. 0 \in 0..FamilyStability
      BY Thresholds
    <2> QED
      BY <2>2, <2>3 DEF FamilyCounts
  <1>2. PairCounts(qualifying) \in [Pair -> 0..DomainStability]
    <2>1. \A p \in Pair : merge_confirmations[p] + 1 \in Nat
      BY Thresholds DEF Types
    <2>2. \A p \in Pair : UpTo(DomainStability, merge_confirmations[p] + 1) \in 0..DomainStability
      BY <2>1, Thresholds, UpToShape
    <2>3. 0 \in 0..DomainStability
      BY Thresholds
    <2> QED
      BY <2>2, <2>3 DEF PairCounts
  <1>3. PairGrace(qualifying) \in [Pair -> 0..PlanConfirmations]
    <2>1. \A p \in Pair : merge_pending_grace[p] \in 0..PlanConfirmations
      BY DEF Types
    <2> QED
      BY <2>1, Thresholds DEF PairGrace
  <1>4. \A p \in Pair \ qualifying : PairCounts(qualifying)[p] = 0
    BY DEF PairCounts
  <1>5. \A p \in Pair \cap qualifying : PairGrace(qualifying)[p] > 0
    BY Thresholds DEF PairGrace
  <1> QED
    BY <1>1, <1>2, <1>3, <1>4, <1>5

\* Expansions and shrinks are counted up to their thresholds.
LEMMA CapacityShape ==
  ASSUME Types, NEW ids, NEW need, NEW clear
  PROVE  /\ Expansions(ids, need, clear) \in [Id -> 0..ExpandConfirmations]
         /\ Shrinkages(ids, need, clear) \in [Id -> 0..ShrinkConfirmations]
  <1>1. ASSUME NEW limit \in Nat, NEW count \in [Id -> 0..limit], NEW i \in Id, NEW wanted, NEW n
        PROVE  Counted(count, wanted, i, n, limit) \in 0..limit
    <2>1. count[i] \in 0..limit /\ count[i] + 1 \in Nat /\ 0 \in 0..limit
      OBVIOUS
    <2>2. UpTo(limit, count[i] + 1) \in 0..limit
      BY <2>1, UpToShape
    <2> QED
      BY <2>1, <2>2 DEF Counted
  <1>2. /\ expand_confirmations \in [Id -> 0..ExpandConfirmations]
        /\ shrink_confirmations \in [Id -> 0..ShrinkConfirmations]
        /\ ExpandConfirmations \in Nat /\ ShrinkConfirmations \in Nat
    BY Thresholds DEF Types
  <1>3. Expansions(ids, need, clear) \in [Id -> 0..ExpandConfirmations]
    BY <1>1, <1>2 DEF Expansions
  <1>4. Shrinkages(ids, need, clear) \in [Id -> 0..ShrinkConfirmations]
    BY <1>1, <1>2 DEF Shrinkages
  <1> QED
    BY <1>3, <1>4

\* A candidate has fewer nodes than its domain only after the dwell.
LEMMA TargetShape ==
  ASSUME Types, NEW id \in Id, NEW need \in Needs, NEW clear, NEW expands, NEW shrinks
  PROVE  LET nodes == TargetNodes(id, need, clear, expands, shrinks)
         IN /\ nodes \in SUBSET Node
            /\ nodes # {} /\ Cardinality(nodes) < Cardinality(domain_nodes[id]) => changed_age[id] + 1 >= Dwell
  <1> DEFINE nodes == TargetNodes(id, need, clear, expands, shrinks)
             old == domain_nodes[id]
  <1>1. need \in SUBSET Node /\ old \in SUBSET Node /\ IsFiniteSet(Node)
    BY NeedsAssumption DEF Types
  <1>2. Cardinality(need) \in Nat /\ Cardinality(old) \in Nat
    BY <1>1, FS_Subset, FS_CardinalityType
  <1>3. nodes \in {need, old}
    BY DEF TargetNodes
  <1>4. ASSUME nodes # {}, Cardinality(nodes) < Cardinality(old)
        PROVE  changed_age[id] + 1 >= Dwell
    <2>1. nodes # old
      BY <1>2, <1>4
    <2>2. nodes = need /\ need # {} /\ Cardinality(need) < Cardinality(old)
      BY <1>3, <1>4, <2>1, Zenon
    <2>3. old # {}
      BY <1>2, <2>2, FS_EmptySet
    <2>4. Tracked(id, need)
      BY <2>2, <2>3 DEF Tracked
    <2>5. ~(Cardinality(need) > Cardinality(old))
      BY <1>2, <2>2
    <2>6. ~Expand(id, need, clear)
      BY <2>5, Zenon DEF Expand
    <2>7. Shrink(id, need, clear)
      BY <2>1, <2>4, <2>6, Zenon DEF TargetNodes
    <2> QED
      BY <2>7, Zenon DEF Shrink
  <1> QED
    BY <1>1, <1>3, <1>4

\* The candidates are domains of their own, one for each component.
LEMMA CandidatesShape ==
  ASSUME Types, NEW ids \in SUBSET Id, \A c, d \in ids : c \cap d # {} => c = d,
         NEW need \in [ids -> Needs], NEW clear, NEW expands, NEW shrinks, NEW allowed
  PROVE  LET candidates == Candidates(ids, need, clear, expands, shrinks, allowed)
         IN /\ candidates \in SUBSET Domain /\ Disjoint(candidates)
            /\ \A c \in candidates :
                 /\ c.families \in ids
                 /\ c.nodes # {} /\ Cardinality(c.nodes) < Cardinality(domain_nodes[c.families])
                      => changed_age[c.families] + 1 >= Dwell
  <1> DEFINE candidates == Candidates(ids, need, clear, expands, shrinks, allowed)
             nodes(i) == TargetNodes(i, need[i], i \in clear, expands, shrinks)
             made(i) == Candidate(i, nodes(i), allowed)
  <1>1. candidates = {made(i) : i \in ids}
    BY DEF Candidates
  <1>2. ASSUME NEW i \in ids
        PROVE  /\ nodes(i) \in SUBSET Node
               /\ nodes(i) # {} /\ Cardinality(nodes(i)) < Cardinality(domain_nodes[i])
                    => changed_age[i] + 1 >= Dwell
    <2>1. i \in Id /\ need[i] \in Needs
      OBVIOUS
    <2> QED
      BY <2>1, TargetShape
  <1> HIDE DEF nodes
  <1>3. ASSUME NEW i \in ids
        PROVE  made(i) \in Domain /\ made(i).families = i /\ made(i).nodes = nodes(i)
    <2>1. i \in Id /\ nodes(i) \in SUBSET Node
      BY <1>2
    <2> QED
      BY <2>1 DEF Candidate, Domain
  <1> HIDE DEF made
  <1>4. \A c \in candidates : \E i \in ids : c = made(i)
    BY <1>1
  <1> HIDE DEF candidates
  <1>5. Disjoint(candidates)
    <2> SUFFICES ASSUME NEW c \in candidates, NEW d \in candidates, c.families \cap d.families # {}
                 PROVE  c = d
      BY DEF Disjoint
    <2>1. PICK i \in ids : c = made(i)
      BY <1>4
    <2>2. PICK j \in ids : d = made(j)
      BY <1>4
    <2>3. i \cap j # {}
      BY <1>3, <2>1, <2>2, Zenon
    <2> QED
      BY <2>1, <2>2, <2>3, Zenon
  <1>6. ASSUME NEW c \in candidates
        PROVE  /\ c.families \in ids /\ c \in Domain
               /\ c.nodes # {} /\ Cardinality(c.nodes) < Cardinality(domain_nodes[c.families])
                    => changed_age[c.families] + 1 >= Dwell
    <2>1. PICK i \in ids : c = made(i)
      BY <1>4, <1>6
    <2>2. c.families = i /\ c.nodes = nodes(i) /\ c \in Domain
      BY <1>3, <2>1, Zenon
    <2> QED
      BY <1>2, <2>2, Zenon
  <1> QED
    BY <1>5, <1>6 DEF candidates
-----------------------------------------------------------------------------
(***************************************************************************)
(* propose preserves the invariant                                         *)
(***************************************************************************)
\* The evidence of a window, and what the planner makes of it.
LEMMA ProposeSteps ==
  ASSUME propose
  PROVE  \E seen \in SUBSET Family :
         \E cohesive \in SUBSET (Cohesive \cap seen), qualifying \in SUBSET {p \in Pair : p \subseteq seen},
            torn \in SUBSET (Torn \cap seen) :
         \E need \in [IdsOf(seen, cohesive, qualifying) -> Needs],
            clear \in SUBSET IdsOf(seen, cohesive, qualifying) :
           Weigh(seen, cohesive, qualifying, torn, IdsOf(seen, cohesive, qualifying), need, clear)
<1>1. PICK seen \in SUBSET Family : \E cohesive \in SUBSET (Cohesive \cap seen),
           qualifying \in SUBSET {p \in Pair : p \subseteq seen}, torn \in SUBSET (Torn \cap seen) :
         \E ids \in {IdsOf(seen, cohesive, qualifying)} :
           \E need \in [ids -> Needs], clear \in SUBSET ids :
             Weigh(seen, cohesive, qualifying, torn, ids, need, clear)
  BY Zenon DEF propose
<1>2. PICK cohesive \in SUBSET (Cohesive \cap seen),
           qualifying \in SUBSET {p \in Pair : p \subseteq seen}, torn \in SUBSET (Torn \cap seen) :
         \E ids \in {IdsOf(seen, cohesive, qualifying)} :
           \E need \in [ids -> Needs], clear \in SUBSET ids :
             Weigh(seen, cohesive, qualifying, torn, ids, need, clear)
  BY <1>1, Zenon
<1>3. PICK ids \in {IdsOf(seen, cohesive, qualifying)} :
           \E need \in [ids -> Needs], clear \in SUBSET ids :
             Weigh(seen, cohesive, qualifying, torn, ids, need, clear)
  BY <1>2, Zenon
<1>4. ids = IdsOf(seen, cohesive, qualifying)
  OBVIOUS
<1>. QED
  BY <1>3, <1>4, Zenon

\* The plan of a window is the one that is proposed and remembered.
LEMMA PlanSteps ==
  ASSUME NEW candidates, NEW allowed, NEW seen, Plan(candidates, allowed, seen)
  PROVE  LET found == Held(candidates, Refreshed(candidates), seen)
             proposal == MakeProposal(found, \A c \in candidates : c.valid, allowed, seen)
         IN /\ evidence_age' = Refreshed(candidates) /\ outstanding' = proposal
            /\ pending_signature' = proposal.domains /\ last' = proposal.domains
            /\ plan_confirmation' = Confirmations(proposal.domains)
            /\ streak' = IF last = proposal.domains THEN UpTo(PlanConfirmations, streak + 1) ELSE 1
  BY Zenon DEF Plan

\* The components of a window are apart, and a component of one family has no
\* pair that is still short of its confirmations.
LEMMA IdsShape ==
  ASSUME Types, NEW seen \in SUBSET Family, NEW cohesive \in SUBSET (Cohesive \cap seen),
         NEW qualifying \in SUBSET {p \in Pair : p \subseteq seen}
  PROVE  LET ids == IdsOf(seen, cohesive, qualifying)
         IN /\ ids \in SUBSET Id /\ \A c, d \in ids : c \cap d # {} => c = d
            /\ \A f \in Family, p \in Pair :
                 {f} \in ids /\ f \in p => PairCounts(qualifying)[p] \in {0, DomainStability}
  <1> DEFINE ids == IdsOf(seen, cohesive, qualifying)
             counts == PairCounts(qualifying)
             grace == PairGrace(qualifying)
             stable == StableFamilies(cohesive)
             pending == {p \in Pair \ Confirmed(counts) : grace[p] > 0 /\ p \subseteq seen}
             anchors == Anchors(stable, counts, grace, seen)
  <1>1. ids = Components(anchors, Confirmed(counts))
    BY DEF IdsOf
  <1>2. anchors = (UNION Confirmed(counts)) \cup (stable \ UNION pending)
    BY DEF Anchors
  <1>3. stable \subseteq Family
    BY FamilyAssumption DEF StableFamilies
  <1>4. counts \in [Pair -> 0..DomainStability]
        /\ (\A p \in Pair \ qualifying : counts[p] = 0) /\ (\A p \in Pair \cap qualifying : grace[p] > 0)
    BY EvidenceShape, Zenon
  <1>5. \A p \in Pair : p \subseteq Family /\ p # {} /\ Cardinality(p) = 2
    BY DEF Pair, Id
  <1>6. \A p \in Confirmed(counts) : p \in Pair /\ counts[p] >= DomainStability
    BY DEF Confirmed
  <1>7. \A p \in Pair : counts[p] >= DomainStability => p \in Confirmed(counts)
    BY DEF Confirmed
  <1>11. \A p \in Pair \ Confirmed(counts) : grace[p] > 0 /\ p \subseteq seen => p \in pending
    OBVIOUS
  <1> HIDE DEF ids, counts, grace, stable, anchors, pending
  <1>8. anchors \in SUBSET Family
    <2>1. \A p \in Confirmed(counts) : p \subseteq Family
      BY <1>5, <1>6, Zenon
    <2>2. UNION Confirmed(counts) \subseteq Family
      <3> SUFFICES ASSUME NEW x \in UNION Confirmed(counts)
                   PROVE  x \in Family
        OBVIOUS
      <3>1. PICK p \in Confirmed(counts) : x \in p
        BY Zenon
      <3> QED
        BY <2>1, <3>1
    <2> QED
      BY <1>2, <1>3, <2>2
  <1>9. /\ ids \subseteq Id /\ \A c, d \in ids : c \cap d # {} => c = d
        /\ \A c \in ids : c \subseteq anchors /\ \A p \in Confirmed(counts) : p \subseteq c \/ p \cap c = {}
    <2> DEFINE pairs == Confirmed(counts)
    <2> HIDE DEF pairs
    <2>1. /\ Components(anchors, pairs) \subseteq Id
          /\ \A c, d \in Components(anchors, pairs) : c \cap d # {} => c = d
          /\ \A c \in Components(anchors, pairs) :
               c \subseteq anchors /\ \A p \in pairs : p \subseteq c \/ p \cap c = {}
      BY <1>8, ComponentsDisjoint
    <2>2. ids = Components(anchors, pairs) /\ pairs = Confirmed(counts)
      BY <1>1 DEF pairs
    <2> QED
      BY <2>1, <2>2, Zenon
  <1>10. ASSUME NEW f \in Family, NEW p \in Pair, {f} \in ids, f \in p
         PROVE  counts[p] \in {0, DomainStability}
    <2>1. CASE p \in Confirmed(counts)
      <3>1. counts[p] >= DomainStability /\ counts[p] \in 0..DomainStability /\ DomainStability \in Nat
        BY <1>4, <1>6, <2>1, Thresholds
      <3> QED
        BY <3>1
    <2>2. CASE p \notin Confirmed(counts)
      <3>1. f \in anchors /\ \A q \in Confirmed(counts) : q \subseteq {f} \/ q \cap {f} = {}
        BY <1>9, <1>10
      <3>2. \A q \in Confirmed(counts) : f \notin q
        <4> SUFFICES ASSUME NEW q \in Confirmed(counts), f \in q
                     PROVE  FALSE
          OBVIOUS
        <4>1. q = {f}
          BY <3>1
        <4>2. Cardinality(q) = 2 /\ Cardinality({f}) = 1
          BY <1>5, <1>6, FS_Singleton
        <4> QED
          BY <4>1, <4>2
      <3>3. f \notin UNION pending
        <4>1. f \notin UNION Confirmed(counts)
          BY <3>2, Zenon
        <4> QED
          BY <1>2, <3>1, <4>1
      <3>4. p \notin qualifying
        <4> SUFFICES ASSUME p \in qualifying
                     PROVE  FALSE
          OBVIOUS
        <4>1. grace[p] > 0 /\ p \subseteq seen
          BY <1>4
        <4>2. p \in pending
          BY <1>11, <2>2, <4>1
        <4> QED
          BY <1>10, <3>3, <4>2
      <3> QED
        BY <1>4, <3>4
    <2> QED
      BY <2>1, <2>2
  <1> QED
    BY <1>9, <1>10 DEF ids, counts

\* What a window proposes and remembers, for candidates that are apart.
LEMMA PlanShape ==
  ASSUME Types, ProposalInv, HistoryInv, NEW candidates \in SUBSET Domain, Disjoint(candidates),
         NEW allowed \in [Family -> SUBSET Node], NEW seen \in SUBSET Family,
         Plan(candidates, allowed, seen)
  PROVE  /\ outstanding' \in Proposal /\ evidence_age' \in [Id -> 0..Dwell]
         /\ plan_confirmation' \in 0..PlanConfirmations
         /\ Disjoint(outstanding'.domains) /\ Backed(outstanding'.planned, outstanding'.domains)
         /\ Keys(outstanding'.planned) \subseteq outstanding'.families
         /\ last' = pending_signature' /\ streak' = plan_confirmation'
         /\ outstanding'.ready => outstanding'.domains = {} \/ plan_confirmation' >= PlanConfirmations
         /\ \A x \in outstanding'.domains : \E d \in candidates \cup domains :
              x.families = d.families /\ x.nodes = d.nodes
  <1> DEFINE found == Held(candidates, Refreshed(candidates), seen)
             ok == \A c \in candidates : c.valid
             proposal == MakeProposal(found, ok, allowed, seen)
  <1>1. /\ evidence_age' = Refreshed(candidates) /\ outstanding' = proposal
        /\ pending_signature' = proposal.domains /\ last' = proposal.domains
        /\ plan_confirmation' = Confirmations(proposal.domains)
        /\ streak' = IF last = proposal.domains THEN UpTo(PlanConfirmations, streak + 1) ELSE 1
    BY PlanSteps, Zenon
  <1>2. found \subseteq candidates \cup domains /\ Disjoint(found)
    BY HeldKeeps, Zenon
  <1>3. found \in SUBSET Domain
    BY <1>2 DEF Types
  <1>4. ok \in BOOLEAN
    OBVIOUS
  <1> HIDE DEF found, ok
  <1>5. /\ proposal \in Proposal /\ Disjoint(proposal.domains) /\ Backed(proposal.planned, proposal.domains)
        /\ Keys(proposal.planned) \subseteq proposal.families
        /\ \A x \in proposal.domains : \E d \in found : x.families = d.families /\ x.nodes = d.nodes
        /\ proposal.ready => proposal.domains = {} \/ Confirmations(proposal.domains) >= PlanConfirmations
    <2>1. Sound(proposal, found)
      BY <1>2, <1>3, <1>4, MakeProposalShape, Zenon
    <2> HIDE DEF proposal
    <2> QED
      BY <2>1, Zenon DEF Sound
  <1> HIDE DEF proposal
  <1>6. evidence_age' \in [Id -> 0..Dwell]
    <2>1. \A i \in Id : Older(evidence_age[i]) \in 0..Dwell
      BY OlderShape DEF Types
    <2>2. 0 \in 0..Dwell
      BY Thresholds
    <2> QED
      BY <1>1, <2>1, <2>2 DEF Refreshed
  <1>7. Confirmations(proposal.domains) \in 0..PlanConfirmations
    <2>1. plan_confirmation + 1 \in Nat /\ PlanConfirmations \in Nat /\ 1 \in 0..PlanConfirmations
      BY Thresholds DEF Types
    <2>2. UpTo(PlanConfirmations, plan_confirmation + 1) \in 0..PlanConfirmations
      BY <2>1, UpToShape
    <2> QED
      BY <2>1, <2>2 DEF Confirmations
  <1>8. streak' = plan_confirmation'
    <2>1. last = pending_signature /\ streak = plan_confirmation
      BY DEF HistoryInv
    <2> QED
      BY <1>1, <2>1 DEF Confirmations
  <1>9. \A x \in outstanding'.domains : \E d \in candidates \cup domains :
          x.families = d.families /\ x.nodes = d.nodes
    BY <1>1, <1>2, <1>5, Zenon
  <1> QED
    BY <1>1, <1>5, <1>6, <1>7, <1>8, <1>9, Zenon

\* A window commits nothing; the ages grow.
LEMMA ProposeShape ==
  ASSUME propose
  PROVE  /\ changed_age' = [i \in Id |-> Older(changed_age[i])] /\ quiet' = [i \in Id |-> Older(quiet[i])]
         /\ domain_nodes' = domain_nodes /\ domains' = domains /\ placement' = placement /\ mask' = mask
  BY Zenon DEF propose

\* A window keeps the invariant, whatever it observes.
LEMMA ProposeStep ==
  ASSUME IInv, propose
  PROVE  IInv'
  <1>1. PICK seen \in SUBSET Family :
         \E cohesive \in SUBSET (Cohesive \cap seen), qualifying \in SUBSET {p \in Pair : p \subseteq seen},
            torn \in SUBSET (Torn \cap seen) :
         \E need \in [IdsOf(seen, cohesive, qualifying) -> Needs],
            clear \in SUBSET IdsOf(seen, cohesive, qualifying) :
           Weigh(seen, cohesive, qualifying, torn, IdsOf(seen, cohesive, qualifying), need, clear)
    BY ProposeSteps, Zenon
  <1>2. PICK cohesive \in SUBSET (Cohesive \cap seen), qualifying \in SUBSET {p \in Pair : p \subseteq seen},
             torn \in SUBSET (Torn \cap seen) :
         \E need \in [IdsOf(seen, cohesive, qualifying) -> Needs],
            clear \in SUBSET IdsOf(seen, cohesive, qualifying) :
           Weigh(seen, cohesive, qualifying, torn, IdsOf(seen, cohesive, qualifying), need, clear)
    BY <1>1, Zenon
  <1> DEFINE ids == IdsOf(seen, cohesive, qualifying)
             counts == PairCounts(qualifying)
             allowed == SampledMasks(torn)
  <1>3. PICK need \in [ids -> Needs], clear \in SUBSET ids :
          Weigh(seen, cohesive, qualifying, torn, ids, need, clear)
    BY <1>2, Zenon
  <1> DEFINE expands == Expansions(ids, need, clear)
             shrinks == Shrinkages(ids, need, clear)
             candidates == Candidates(ids, need, clear, expands, shrinks, allowed)
  <1>4. /\ family_confirmations' = FamilyCounts(cohesive) /\ merge_confirmations' = counts
        /\ merge_pending_grace' = PairGrace(qualifying)
        /\ expand_confirmations' = expands /\ shrink_confirmations' = shrinks
        /\ Plan(candidates, allowed, seen)
    BY <1>3, Zenon DEF Weigh
  <1>5. Types /\ ProposalInv /\ HistoryInv /\ NodesInv
    BY DEF IInv
  <1>6. /\ ids \in SUBSET Id /\ (\A c, d \in ids : c \cap d # {} => c = d)
        /\ \A f \in Family, p \in Pair : {f} \in ids /\ f \in p => counts[p] \in {0, DomainStability}
    BY <1>5, IdsShape, Zenon
  <1>7. allowed \in [Family -> SUBSET Node]
    <2>1. mask \in [Family -> SUBSET Node]
      BY <1>5, Zenon DEF Types
    <2> QED
      BY <2>1 DEF SampledMasks
  <1>8. /\ FamilyCounts(cohesive) \in [Family -> 0..FamilyStability]
        /\ counts \in [Pair -> 0..DomainStability]
        /\ PairGrace(qualifying) \in [Pair -> 0..PlanConfirmations]
    BY <1>5, EvidenceShape, Zenon
  <1>9. expands \in [Id -> 0..ExpandConfirmations] /\ shrinks \in [Id -> 0..ShrinkConfirmations]
    BY <1>5, CapacityShape, Zenon
  <1> HIDE DEF ids, counts, allowed, expands, shrinks
  <1>10. /\ candidates \in SUBSET Domain /\ Disjoint(candidates)
         /\ \A c \in candidates :
              /\ c.families \in ids
              /\ c.nodes # {} /\ Cardinality(c.nodes) < Cardinality(domain_nodes[c.families])
                   => changed_age[c.families] + 1 >= Dwell
    BY <1>5, <1>6, CandidatesShape
  <1> HIDE DEF candidates
  <1>11. /\ outstanding' \in Proposal /\ evidence_age' \in [Id -> 0..Dwell]
         /\ plan_confirmation' \in 0..PlanConfirmations
         /\ Disjoint(outstanding'.domains) /\ Backed(outstanding'.planned, outstanding'.domains)
         /\ Keys(outstanding'.planned) \subseteq outstanding'.families
         /\ last' = pending_signature' /\ streak' = plan_confirmation'
         /\ outstanding'.ready => outstanding'.domains = {} \/ plan_confirmation' >= PlanConfirmations
         /\ \A x \in outstanding'.domains : \E d \in candidates \cup domains :
              x.families = d.families /\ x.nodes = d.nodes
    BY <1>4, <1>5, <1>7, <1>10, PlanShape, Zenon
  <1>12. /\ changed_age' = [i \in Id |-> Older(changed_age[i])] /\ quiet' = [i \in Id |-> Older(quiet[i])]
         /\ domain_nodes' = domain_nodes /\ domains' = domains /\ placement' = placement /\ mask' = mask
    BY ProposeShape, Zenon
  <1>13. changed_age \in [Id -> 0..Dwell] /\ quiet = changed_age
    BY <1>5, Zenon DEF Types, HistoryInv
  <1>14. /\ changed_age' \in [Id -> 0..Dwell]
         /\ \A i \in Id : changed_age[i] + 1 >= Dwell => changed_age'[i] = Dwell
    BY <1>12, <1>13, OlderShape
  <1>15. Types'
    BY <1>4, <1>5, <1>8, <1>9, <1>11, <1>12, <1>14, Zenon DEF Types
  <1>16. ProposalInv'
    BY <1>5, <1>11, <1>12, Zenon DEF ProposalInv, Disjoint, Backed, Keys
  <1>17. HistoryInv'
    BY <1>11, <1>12, <1>13, Zenon DEF HistoryInv
  <1>18. PendingMergeWaits'
    <2> SUFFICES ASSUME NEW f \in Family, {f} \in Ids(outstanding'.domains) \ Ids(domains'),
                        NEW p \in Pair, f \in p
                 PROVE  merge_confirmations'[p] \in {0, DomainStability}
      BY Zenon DEF PendingMergeWaits, Ids
    <2>1. PICK x \in outstanding'.domains : x.families = {f}
      BY Zenon DEF Ids
    <2>2. PICK d \in candidates \cup domains : x.families = d.families
      BY <1>11, Zenon
    <2>3. d \notin domains
      BY <1>12, <2>1, <2>2, Zenon DEF Ids
    <2>4. {f} \in ids
      BY <1>10, <2>1, <2>2, <2>3, Zenon
    <2> QED
      BY <1>4, <1>6, <2>4, Zenon
  <1>19. NodesInv'
    <2>1. \A d \in domains' : domain_nodes'[d.families] = d.nodes
      BY <1>5, <1>12, Zenon DEF NodesInv
    <2>2. ASSUME NEW x \in outstanding'.domains, x.nodes # {},
                 Cardinality(x.nodes) < Cardinality(domain_nodes'[x.families])
          PROVE  changed_age'[x.families] >= Dwell
      <3>1. PICK d \in candidates \cup domains : x.families = d.families /\ x.nodes = d.nodes
        BY <1>11, <2>2, Zenon
      <3>2. d \in Domain
        BY <1>5, <1>10, <3>1 DEF Types
      <3>3. d.families \in Id /\ d.nodes \in SUBSET Node
        BY <3>2, DomainFields
      <3>4. Cardinality(d.nodes) < Cardinality(domain_nodes[d.families]) /\ d.nodes # {}
        BY <1>12, <2>2, <3>1, Zenon
      <3>5. d \notin domains
        <4>2. ~(Cardinality(d.nodes) < Cardinality(d.nodes))
          BY <3>3, NodesAreFinite, Zenon
        <4> QED
          BY <1>5, <3>4, <4>2, Zenon DEF NodesInv
      <3>6. changed_age[d.families] + 1 >= Dwell
        BY <1>10, <3>1, <3>4, <3>5, Zenon
      <3>7. changed_age'[d.families] = Dwell
        BY <1>14, <3>3, <3>6, Zenon
      <3> QED
        BY <3>1, <3>7, Thresholds, Zenon
    <2> QED
      BY <2>1, <2>2, Zenon DEF NodesInv
  <1> QED
    BY <1>15, <1>16, <1>17, <1>18, <1>19 DEF IInv
-----------------------------------------------------------------------------
(***************************************************************************)
(* Settling a proposal preserves the invariant                             *)
(***************************************************************************)
\* With no proposal outstanding nothing is planned.
LEMMA NoProposalShape ==
  /\ NoProposal \in Proposal /\ ~NoProposal.open /\ ~NoProposal.ready /\ NoProposal.domains = {}
  /\ NoProposal.planned = NoMasks /\ NoProposal.families = {}
  <1>1. NoMasks \in [Family -> SUBSET Node]
    BY NoMasksShape
  <1> HIDE DEF NoMasks
  <1> QED
    BY <1>1 DEF NoProposal, Proposal

\* The committed state, and the domains whose nodes it records.
Recorded ==
    /\ domain_nodes \in [Id -> SUBSET Node] /\ changed_age \in [Id -> 0..Dwell]
    /\ evidence_age \in [Id -> 0..Dwell] /\ domains \in SUBSET Domain /\ Disjoint(domains)
    /\ quiet = changed_age
    /\ \A d \in domains : domain_nodes[d.families] = d.nodes

\* The invariant records the committed domains.
LEMMA RecordedHolds ==
  ASSUME IInv
  PROVE  Recorded
  BY Zenon DEF IInv, Types, ProposalInv, HistoryInv, NodesInv, Recorded

\* With no proposal outstanding the invariant is about the committed state and
\* the placement only.
LEMMA Settled ==
  ASSUME IInv, outstanding' = NoProposal, UNCHANGED <<evidence, capacity, plan, last, streak>>,
         Recorded', placement' \in [Family -> SUBSET Node], mask' \in [Family -> SUBSET Node],
         Backed(placement, domains)'
  PROVE  IInv'
  <1>1. /\ outstanding' \in Proposal /\ ~outstanding'.open /\ ~outstanding'.ready
        /\ outstanding'.domains = {} /\ outstanding'.planned = NoMasks /\ outstanding'.families = {}
    BY NoProposalShape, Zenon
  <1>2. /\ family_confirmations' = family_confirmations /\ merge_confirmations' = merge_confirmations
        /\ merge_pending_grace' = merge_pending_grace /\ expand_confirmations' = expand_confirmations
        /\ shrink_confirmations' = shrink_confirmations /\ pending_signature' = pending_signature
        /\ plan_confirmation' = plan_confirmation /\ last' = last /\ streak' = streak
    BY Zenon DEF evidence, capacity, plan
  <1>3. Types'
    BY <1>1, <1>2, Zenon DEF IInv, Types, Recorded
  <1>4. ProposalInv'
    <2>1. Keys(outstanding'.planned) \subseteq outstanding'.families
      BY <1>1, NoMasksShape
    <2>2. Backed(outstanding'.planned, outstanding'.domains)
      BY <1>1, NoMasksShape, Zenon
    <2>3. Disjoint(outstanding'.domains)
      BY <1>1, Zenon DEF Disjoint
    <2> QED
      BY <2>1, <2>2, <2>3, Zenon DEF ProposalInv, Recorded, Disjoint, Backed, Keys
  <1>5. HistoryInv'
    BY <1>1, <1>2, Zenon DEF IInv, HistoryInv, Recorded
  <1>6. PendingMergeWaits'
    BY <1>1, Zenon DEF PendingMergeWaits
  <1>7. NodesInv'
    BY <1>1, Zenon DEF NodesInv, Recorded
  <1> QED
    BY <1>3, <1>4, <1>5, <1>6, <1>7 DEF IInv

\* A commit records the nodes of the proposal's domains; it takes nodes from a
\* domain only if they have been the same for the dwell.
LEMMA CommitShape ==
  ASSUME IInv, outstanding.open, NEW written, NEW gone, commit(written, gone)
  PROVE  /\ Recorded' /\ placement' \in [Family -> SUBSET Node] /\ Backed(placement, domains)'
         /\ outstanding' = NoProposal
         /\ \A i \in Id : domain_nodes'[i] # {} /\ Cardinality(domain_nodes'[i]) < Cardinality(domain_nodes[i])
                            => quiet[i] >= Dwell
  <1> DEFINE accepted == IF written = {} THEN Actions ELSE Actions \cap written
             plans == outstanding.domains
             at(i) == (CHOOSE d \in plans : d.families = i).nodes
             now == [i \in Id |-> IF i \in Ids(plans) THEN at(i) ELSE domain_nodes[i]]
             changed == {i \in Id : now[i] # domain_nodes[i]}
             fresh == Ids(plans) \ Ids(domains)
             stay == (Keys(placement) \ gone) \cup outstanding.inherited \cup accepted
  <1>1. /\ placement' = Placed(accepted, gone) /\ domain_nodes' = now /\ changed_age' = ChangedAges(changed)
        /\ quiet' = [i \in Id |-> IF i \in changed THEN 0 ELSE quiet[i]]
        /\ evidence_age' = [i \in Id |-> IF i \in fresh THEN 0 ELSE evidence_age[i]]
        /\ domains' = plans /\ outstanding' = NoProposal
    BY Zenon DEF commit
  <1>2. Placed(accepted, gone) = [f \in Family |-> IF f \in stay THEN outstanding.planned[f] ELSE {}]
    BY DEF Placed
  <1>3. /\ domain_nodes \in [Id -> SUBSET Node] /\ changed_age \in [Id -> 0..Dwell]
        /\ evidence_age \in [Id -> 0..Dwell] /\ quiet = changed_age
    BY RecordedHolds, Zenon DEF Recorded
  <1>4. outstanding \in Proposal /\ Disjoint(plans) /\ Backed(outstanding.planned, plans)
    BY Zenon DEF IInv, Types, ProposalInv
  <1>5. plans \in SUBSET Domain /\ outstanding.planned \in [Family -> SUBSET Node]
    BY <1>4 DEF Proposal
  <1>6. \A d \in plans : d.nodes # {} /\ Cardinality(d.nodes) < Cardinality(domain_nodes[d.families])
                           => changed_age[d.families] >= Dwell
    BY Zenon DEF IInv, NodesInv
  <1>7. \A d \in plans : d.families \in Id /\ d.families # {} /\ d.nodes \in SUBSET Node
    BY <1>5, DomainFields
  <1>8. \A i \in Ids(plans) : \E d \in plans : d.families = i
    BY DEF Ids
  <1>9. \A d \in plans : d.families \in Ids(plans)
    BY DEF Ids
  <1> HIDE DEF accepted, plans, stay, fresh
  <1>10. \A d \in plans : at(d.families) = d.nodes
    <2> TAKE d \in plans
    <2> DEFINE e == CHOOSE x \in plans : x.families = d.families
    <2>1. e \in plans /\ e.families = d.families
      BY Zenon
    <2> HIDE DEF e
    <2>2. e.families \cap d.families # {}
      BY <1>7, <2>1
    <2>3. e = d
      BY <1>4, <2>1, <2>2, Zenon DEF Disjoint
    <2> QED
      BY <2>3 DEF e
  <1> HIDE DEF at
  <1>11. \A i \in Ids(plans) : \E d \in plans : d.families = i /\ at(i) = d.nodes
    BY <1>8, <1>10, Zenon
  <1>12. \A i \in Ids(plans) : at(i) \in SUBSET Node
    BY <1>7, <1>11, Zenon
  <1>13. now \in [Id -> SUBSET Node] /\ \A i \in Id : now[i] = IF i \in Ids(plans) THEN at(i) ELSE domain_nodes[i]
    BY <1>3, <1>12
  <1>14. \A d \in plans : now[d.families] = d.nodes
    BY <1>7, <1>9, <1>10, <1>13, Zenon
  <1> HIDE DEF now
  <1>15. ASSUME NEW i \in Id, now[i] # {}, Cardinality(now[i]) < Cardinality(domain_nodes[i])
         PROVE  quiet[i] >= Dwell
    <2>1. i \in Ids(plans)
      <3> SUFFICES ASSUME now[i] = domain_nodes[i]
                   PROVE  FALSE
        BY <1>13, Zenon
      <3>1. domain_nodes[i] \in SUBSET Node
        BY <1>3
      <3> QED
        BY <1>15, <3>1, NodesAreFinite, Zenon
    <2>2. PICK d \in plans : d.families = i /\ at(i) = d.nodes
      BY <1>11, <2>1, Zenon
    <2> QED
      BY <1>3, <1>6, <1>13, <1>15, <2>1, <2>2, Zenon
  <1> HIDE DEF changed
  <1>16. /\ changed_age' \in [Id -> 0..Dwell] /\ evidence_age' \in [Id -> 0..Dwell]
         /\ quiet' = changed_age'
    <2>1. 0 \in 0..Dwell
      BY Thresholds
    <2> QED
      BY <1>1, <1>3, <2>1 DEF ChangedAges
  <1>17. Recorded'
    BY <1>1, <1>4, <1>5, <1>13, <1>14, <1>16, Zenon DEF Recorded, Disjoint
  <1>18. placement' \in [Family -> SUBSET Node]
    BY <1>1, <1>2, <1>5
  <1>19. Backed(placement, domains)'
    <2>1. \A f \in Keys(placement)' : f \in Keys(outstanding.planned) /\ placement'[f] = outstanding.planned[f]
      BY <1>1, <1>2 DEF Keys
    <2> QED
      BY <1>1, <1>4, <2>1, Zenon DEF Backed
  <1> QED
    BY <1>1, <1>15, <1>17, <1>18, <1>19, Zenon

\* A discarded proposal leaves the committed state alone.
LEMMA DiscardShape ==
  ASSUME IInv, discard
  PROVE  outstanding' = NoProposal /\ Recorded' /\ domains' = domains /\ domain_nodes' = domain_nodes
  <1>1. /\ outstanding' = NoProposal /\ domains' = domains /\ domain_nodes' = domain_nodes
        /\ changed_age' = changed_age /\ evidence_age' = evidence_age /\ quiet' = quiet
    BY Zenon DEF discard, committed
  <1>2. Recorded
    BY RecordedHolds
  <1> QED
    BY <1>1, <1>2, Zenon DEF Recorded, Disjoint

\* The masks that a settlement leaves behind.
LEMMA GivenBackType ==
  ASSUME IInv
  PROVE  /\ GivenBack \in [Family -> SUBSET Node] /\ outstanding.planned \in [Family -> SUBSET Node]
         /\ placement \in [Family -> SUBSET Node] /\ mask \in [Family -> SUBSET Node]
         /\ Backed(placement, domains)
  <1>1. /\ mask \in [Family -> SUBSET Node] /\ placement \in [Family -> SUBSET Node] /\ outstanding \in Proposal
        /\ Backed(placement, domains)
    BY Zenon DEF IInv, Types, ProposalInv
  <1>2. outstanding.planned \in [Family -> SUBSET Node]
    BY <1>1 DEF Proposal
  <1>3. GivenBack \in [Family -> SUBSET Node]
    BY <1>1 DEF GivenBack
  <1> QED
    BY <1>1, <1>2, <1>3

\* Placements that were taken away leave the others backed.
LEMMA FewerPlaced ==
  ASSUME NEW before \in [Family -> SUBSET Node], NEW after, NEW S, Backed(before, S),
         \A f \in Family : after[f] = before[f] \/ after[f] = {}
  PROVE  Backed(after, S)
  <1>1. \A f \in Keys(after) : f \in Keys(before) /\ after[f] = before[f]
    BY Zenon DEF Keys
  <1> QED
    BY <1>1, Zenon DEF Backed

\* An invalid plan is committed; its threads get their masks back.
LEMMA InvalidStep ==
  ASSUME IInv, settle_invalid
  PROVE  IInv'
  <1>1. /\ outstanding.open /\ commit({}, {}) /\ mask' = GivenBack
        /\ UNCHANGED <<evidence, capacity, plan, last, streak>>
    BY Zenon DEF settle_invalid
  <1> QED
    BY <1>1, CommitShape, GivenBackType, Settled, Zenon

\* A plan that is not ready, or changes nothing, is dropped.
LEMMA DiscardedStep ==
  ASSUME IInv, settle_discarded
  PROVE  IInv'
  <1>1. /\ discard /\ placement' = placement /\ mask' = mask
        /\ UNCHANGED <<evidence, capacity, plan, last, streak>>
    BY Zenon DEF settle_discarded
  <1>2. Recorded' /\ outstanding' = NoProposal /\ domains' = domains
    BY <1>1, DiscardShape, Zenon
  <1>3. Backed(placement, domains)'
    BY <1>1, <1>2, GivenBackType, Zenon DEF Backed, Keys
  <1> QED
    BY <1>1, <1>2, <1>3, GivenBackType, Settled, Zenon

\* A batch that fails is rolled back; the releases stay.
LEMMA FailedStep ==
  ASSUME IInv, settle_failed
  PROVE  IInv'
  <1>1. /\ discard /\ placement' = placement /\ mask' = GivenBack
        /\ UNCHANGED <<evidence, capacity, plan, last, streak>>
    BY Zenon DEF settle_failed
  <1>2. Recorded' /\ outstanding' = NoProposal /\ domains' = domains
    BY <1>1, DiscardShape, Zenon
  <1>3. Backed(placement, domains)'
    BY <1>1, <1>2, GivenBackType, Zenon DEF Backed, Keys
  <1> QED
    BY <1>1, <1>2, <1>3, GivenBackType, Settled, Zenon

\* What an applied batch does: it is committed for the threads that still exist,
\* or discarded if none does.
LEMMA AppliedSteps ==
  ASSUME settle_applied
  PROVE  /\ outstanding.open /\ UNCHANGED <<evidence, capacity, plan, last, streak>>
         /\ \E gone, written :
              /\ mask' = [f \in Family |-> IF Active /\ f \in written THEN outstanding.planned[f]
                                           ELSE GivenBack[f]]
              /\ \/ /\ placement' = [f \in Family |-> IF f \in gone \cup Released THEN {} ELSE placement[f]]
                    /\ discard
                 \/ \E accepted : commit(accepted, gone)
  <1>1. outstanding.open /\ UNCHANGED <<evidence, capacity, plan, last, streak>>
    BY Zenon DEF settle_applied
  <1> DEFINE masks(written) == [f \in Family |-> IF Active /\ f \in written THEN outstanding.planned[f]
                                                 ELSE GivenBack[f]]
             places(gone) == [f \in Family |-> IF f \in gone \cup Released THEN {} ELSE placement[f]]
             none(written) == Actions # {} /\ written = {}
             those(written) == IF Active THEN written ELSE {}
             Does(gone, written) == /\ mask' = masks(written)
                                    /\ IF none(written) THEN placement' = places(gone) /\ discard
                                       ELSE commit(those(written), gone)
  <1>2. \E gone \in SUBSET (IF Active THEN Actions ELSE {}) : Does(gone, Actions \ gone)
    BY Zenon DEF settle_applied
  <1> HIDE DEF Does
  <1>3. PICK gone : Does(gone, Actions \ gone)
    BY <1>2, Zenon
  <1> DEFINE written == Actions \ gone
  <1> HIDE DEF masks, places, none, those, written
  <1>4. mask' = masks(written) /\ IF none(written) THEN placement' = places(gone) /\ discard
                                  ELSE commit(those(written), gone)
    BY <1>3, Zenon DEF Does, written
  <1>5. mask' = masks(written) /\ ((placement' = places(gone) /\ discard) \/ \E a : commit(a, gone))
    BY <1>4, Zenon
  <1> QED
    BY <1>1, <1>5, Zenon DEF masks, places

\* An applied batch keeps the invariant, whichever of its threads are gone.
LEMMA AppliedStep ==
  ASSUME IInv, settle_applied
  PROVE  IInv'
  <1>1. outstanding.open /\ UNCHANGED <<evidence, capacity, plan, last, streak>>
    BY AppliedSteps, Zenon
  <1>2. PICK gone, written :
          /\ mask' = [f \in Family |-> IF Active /\ f \in written THEN outstanding.planned[f]
                                       ELSE GivenBack[f]]
          /\ \/ /\ placement' = [f \in Family |-> IF f \in gone \cup Released THEN {} ELSE placement[f]]
                /\ discard
             \/ \E accepted : commit(accepted, gone)
    BY AppliedSteps, Zenon
  <1>3. mask' \in [Family -> SUBSET Node]
    BY <1>2, GivenBackType
  <1>4. CASE \E accepted : commit(accepted, gone)
    BY <1>1, <1>3, <1>4, CommitShape, Settled, Zenon
  <1>5. CASE /\ placement' = [f \in Family |-> IF f \in gone \cup Released THEN {} ELSE placement[f]]
             /\ discard
    <2>1. Recorded' /\ outstanding' = NoProposal /\ domains' = domains
      BY <1>5, DiscardShape, Zenon
    <2>2. placement' \in [Family -> SUBSET Node] /\ \A f \in Family : placement'[f] \in {placement[f], {}}
      BY <1>5, GivenBackType
    <2>3. Backed(placement', domains)
      BY <2>2, GivenBackType, FewerPlaced
    <2>4. Backed(placement, domains)'
      BY <2>1, <2>3, Zenon DEF Backed, Keys
    <2> QED
      BY <1>1, <1>3, <2>1, <2>2, <2>4, Settled, Zenon
  <1> QED
    BY <1>2, <1>4, <1>5, Zenon

\* A thread that exits takes its placement with it.
LEMMA RemoveStep ==
  ASSUME IInv, NEW f \in Family, remove_thread(f)
  PROVE  IInv'
  <1>1. /\ placement' = [placement EXCEPT ![f] = {}] /\ mask' = [mask EXCEPT ![f] = Node]
        /\ UNCHANGED <<evidence, capacity, committed, evidence_age, plan, outstanding, history>>
    BY Zenon DEF remove_thread
  <1>2. /\ family_confirmations' = family_confirmations /\ merge_confirmations' = merge_confirmations
        /\ merge_pending_grace' = merge_pending_grace /\ expand_confirmations' = expand_confirmations
        /\ shrink_confirmations' = shrink_confirmations /\ domain_nodes' = domain_nodes
        /\ changed_age' = changed_age /\ domains' = domains /\ evidence_age' = evidence_age
        /\ pending_signature' = pending_signature /\ plan_confirmation' = plan_confirmation
        /\ outstanding' = outstanding /\ last' = last /\ streak' = streak /\ quiet' = quiet
    BY <1>1, Zenon DEF evidence, capacity, committed, plan, history
  <1>3. placement' \in [Family -> SUBSET Node] /\ mask' \in [Family -> SUBSET Node]
    BY <1>1, GivenBackType
  <1>4. \A g \in Family : placement'[g] = placement[g] \/ placement'[g] = {}
    BY <1>1, GivenBackType
  <1>5. Backed(placement', domains)
    BY <1>4, GivenBackType, FewerPlaced
  <1>6. Types'
    BY <1>2, <1>3, Zenon DEF IInv, Types
  <1>7. ProposalInv'
    BY <1>2, <1>5, Zenon DEF IInv, ProposalInv, Disjoint, Backed, Keys
  <1>8. HistoryInv'
    BY <1>2, Zenon DEF IInv, HistoryInv
  <1>9. PendingMergeWaits'
    BY <1>2, Zenon DEF IInv, PendingMergeWaits, Ids
  <1>10. NodesInv'
    BY <1>2, Zenon DEF IInv, NodesInv
  <1> QED
    BY <1>6, <1>7, <1>8, <1>9, <1>10 DEF IInv

\* The solver starts, and starts afresh, with nothing committed and nothing
\* outstanding.
LEMMA InitIInv ==
  ASSUME Init
  PROVE  IInv
  <1>1. /\ outstanding = NoProposal /\ domains = {} /\ placement = NoMasks /\ last = pending_signature
        /\ streak = plan_confirmation /\ quiet = changed_age /\ plan_confirmation = 0
    BY Zenon DEF Init
  <1>2. /\ outstanding \in Proposal /\ ~outstanding.open /\ ~outstanding.ready /\ outstanding.domains = {}
        /\ outstanding.planned = NoMasks /\ outstanding.families = {}
    BY <1>1, NoProposalShape, Zenon
  <1>3. placement \in [Family -> SUBSET Node] /\ Keys(placement) = {} /\ Backed(placement, domains)
    BY <1>1, NoMasksShape, Zenon
  <1>4. \A n \in Nat : \A S : Zero(S) \in [S -> 0..n]
    BY DEF Zero
  <1>5. /\ family_confirmations \in [Family -> 0..FamilyStability]
        /\ merge_confirmations \in [Pair -> 0..DomainStability]
        /\ merge_pending_grace \in [Pair -> 0..PlanConfirmations]
        /\ expand_confirmations \in [Id -> 0..ExpandConfirmations]
        /\ shrink_confirmations \in [Id -> 0..ShrinkConfirmations]
    <2>1. /\ family_confirmations = Zero(Family) /\ merge_confirmations = Zero(Pair)
          /\ merge_pending_grace = Zero(Pair) /\ expand_confirmations = Zero(Id)
          /\ shrink_confirmations = Zero(Id)
      BY Zenon DEF Init
    <2>2. /\ FamilyStability \in Nat /\ DomainStability \in Nat /\ PlanConfirmations \in Nat
          /\ ExpandConfirmations \in Nat /\ ShrinkConfirmations \in Nat
      BY Thresholds
    <2> QED
      BY <1>4, <2>1, <2>2, Zenon
  <1>6. changed_age \in [Id -> 0..Dwell] /\ evidence_age \in [Id -> 0..Dwell]
    <2>1. changed_age = LongAgo /\ evidence_age = LongAgo /\ Dwell \in 0..Dwell
      BY Thresholds DEF Init
    <2> QED
      BY <2>1 DEF LongAgo
  <1>7. domain_nodes \in [Id -> SUBSET Node] /\ mask \in [Family -> SUBSET Node]
    <2>1. domain_nodes = NoNodes /\ mask = Unpinned
      BY Zenon DEF Init
    <2> QED
      BY <2>1 DEF NoNodes, Unpinned
  <1>8. plan_confirmation \in 0..PlanConfirmations /\ domains \in SUBSET Domain
    BY <1>1, Thresholds
  <1>9. Types
    BY <1>2, <1>3, <1>5, <1>6, <1>7, <1>8, Zenon DEF Types
  <1>10. ProposalInv
    <2>1. Keys(outstanding.planned) \subseteq outstanding.families
      BY <1>2, NoMasksShape
    <2>2. Backed(outstanding.planned, outstanding.domains)
      BY <1>2, NoMasksShape, Zenon
    <2>3. Disjoint(outstanding.domains) /\ Disjoint(domains)
      BY <1>1, <1>2, Zenon DEF Disjoint
    <2> QED
      BY <1>3, <2>1, <2>2, <2>3, Zenon DEF ProposalInv
  <1>11. HistoryInv
    BY <1>1, <1>2, Zenon DEF HistoryInv
  <1>12. PendingMergeWaits
    BY <1>2, Zenon DEF PendingMergeWaits
  <1>13. NodesInv
    BY <1>1, <1>2, Zenon DEF NodesInv
  <1> QED
    BY <1>9, <1>10, <1>11, <1>12, <1>13 DEF IInv

\* pause() leaves the solver as it started.
LEMMA ResetStarts == reset => Init'
  BY Zenon DEF reset, Init

\* Steps of other components change nothing here.
LEMMA StutterStep ==
  ASSUME IInv, UNCHANGED vars
  PROVE  IInv'
  <1>1. /\ family_confirmations' = family_confirmations /\ merge_confirmations' = merge_confirmations
        /\ merge_pending_grace' = merge_pending_grace /\ expand_confirmations' = expand_confirmations
        /\ shrink_confirmations' = shrink_confirmations /\ domain_nodes' = domain_nodes
        /\ changed_age' = changed_age /\ domains' = domains /\ evidence_age' = evidence_age
        /\ pending_signature' = pending_signature /\ plan_confirmation' = plan_confirmation
        /\ outstanding' = outstanding /\ last' = last /\ streak' = streak /\ quiet' = quiet
        /\ placement' = placement /\ mask' = mask
    BY Zenon DEF vars, evidence, capacity, committed, plan, history
  <1>2. Types'
    BY <1>1, Zenon DEF IInv, Types
  <1>3. ProposalInv'
    BY <1>1, Zenon DEF IInv, ProposalInv, Disjoint, Backed, Keys
  <1>4. HistoryInv'
    BY <1>1, Zenon DEF IInv, HistoryInv
  <1>5. PendingMergeWaits'
    BY <1>1, Zenon DEF IInv, PendingMergeWaits, Ids
  <1>6. NodesInv'
    BY <1>1, Zenon DEF IInv, NodesInv
  <1> QED
    BY <1>2, <1>3, <1>4, <1>5, <1>6 DEF IInv

\* The initial state satisfies the invariant.
LEMMA StartsAfresh == Init => IInv
  BY InitIInv

\* pause() keeps the invariant.
LEMMA ResetStep == reset => IInv'
  BY ResetStarts, StartsAfresh, PTL

\* The invariant is inductive: every step of the solver, and of the runtime that
\* settles its proposals, keeps it.
LEMMA Inductive == IInv /\ [Next]_vars => IInv'
  <1> SUFFICES ASSUME IInv, [Next]_vars
               PROVE  IInv'
    OBVIOUS
  <1>1. CASE propose
    BY <1>1, ProposeStep
  <1>2. CASE settle_invalid
    BY <1>2, InvalidStep
  <1>3. CASE settle_discarded
    BY <1>3, DiscardedStep
  <1>4. CASE settle_applied
    BY <1>4, AppliedStep
  <1>5. CASE settle_failed
    BY <1>5, FailedStep
  <1>6. CASE \E f \in Family : remove_thread(f)
    BY <1>6, RemoveStep
  <1>7. CASE reset
    BY <1>7, ResetStep
  <1>8. CASE UNCHANGED vars
    BY <1>8, StutterStep
  <1> QED
    BY <1>1, <1>2, <1>3, <1>4, <1>5, <1>6, <1>7, <1>8, Zenon DEF Next

\* Every reachable state of the solver satisfies the invariant.
THEOREM IInvHolds == Spec => []IInv
  BY StartsAfresh, Inductive, PTL DEF Spec

\* The invariant gives every variable its type.
LEMMA IInvTypeOK ==
  ASSUME IInv
  PROVE  TypeOK
  <1>1. /\ Types /\ streak = plan_confirmation /\ quiet = changed_age
        /\ Keys(outstanding.planned) \subseteq outstanding.families
    BY Zenon DEF IInv, HistoryInv, ProposalInv
  <1>2. outstanding.domains \subseteq Domain /\ outstanding.planned \in [Family -> SUBSET Node]
    <2>1. outstanding \in Proposal
      BY <1>1, Zenon DEF Types
    <2> QED
      BY <2>1 DEF Proposal
  <1>3. {changed_age, evidence_age, quiet} \subseteq [Id -> 0..Dwell]
    <2>1. changed_age \in [Id -> 0..Dwell] /\ evidence_age \in [Id -> 0..Dwell] /\ quiet = changed_age
      BY <1>1, Zenon DEF Types
    <2> QED
      BY <2>1
  <1>4. {placement, mask, outstanding.planned} \subseteq [Family -> SUBSET Node]
    <2>1. placement \in [Family -> SUBSET Node] /\ mask \in [Family -> SUBSET Node]
      BY <1>1, Zenon DEF Types
    <2> QED
      BY <1>2, <2>1
  <1>5. domains \subseteq Domain
    BY <1>1 DEF Types
  <1> QED
    BY <1>1, <1>2, <1>3, <1>4, <1>5, Zenon DEF TypeOK, Types

\* Every variable of NumaDomainSolver keeps its type: counters stop at their
\* thresholds, and a proposal plans only for families that the window observed.
THEOREM TypeCorrect == Spec => []TypeOK
  <1>1. IInv => TypeOK
    BY IInvTypeOK
  <1> QED
    BY <1>1, IInvHolds, PTL

\* propose and commit never put a family into two domains, for any families and
\* any evidence, however candidates and held domains overlap.
THEOREM OneDomain == Spec => []OneDomainPerFamily
  <1>1. IInv => OneDomainPerFamily
    BY DEF IInv, ProposalInv, Disjoint, OneDomainPerFamily
  <1> QED
    BY <1>1, IInvHolds, PTL

\* A proposal with domains is ready only after the same plan was proposed in
\* PlanConfirmations windows in a row.
THEOREM PlanStaysConfirmed == Spec => []PlanIsConfirmed
  <1>1. IInv => PlanIsConfirmed
    BY DEF IInv, HistoryInv, PlanIsConfirmed
  <1> QED
    BY <1>1, IInvHolds, PTL

\* A family with a pair that is still being confirmed gets no domain of its own.
THEOREM PendingMergeHolds == Spec => []PendingMergeWaits
  <1>1. IInv => PendingMergeWaits
    BY DEF IInv
  <1> QED
    BY <1>1, IInvHolds, PTL

\* Every placement lies on the nodes of a valid domain of the last commit,
\* whatever was applied in part, rolled back or released since.
THEOREM PlacementHolds == Spec => []PlacementIsCommitted
  <1>1. IInv => PlacementIsCommitted
    BY DEF IInv, ProposalInv, Backed, PlacementIsCommitted
  <1> QED
    BY <1>1, IInvHolds, PTL

\* One step takes nodes from a domain only after the dwell.
ShrinksLate ==
    \A i \in Id : domain_nodes'[i] # {} /\ Cardinality(domain_nodes'[i]) < Cardinality(domain_nodes[i])
                    => quiet[i] >= Dwell

\* A step that leaves the recorded nodes alone takes none away.
LEMMA NodesUnchanged ==
  ASSUME IInv, domain_nodes' = domain_nodes
  PROVE  ShrinksLate
  <1>1. domain_nodes \in [Id -> SUBSET Node]
    BY Zenon DEF IInv, Types
  <1>2. \A i \in Id : domain_nodes[i] \in SUBSET Node
    BY <1>1
  <1>3. \A i \in Id : ~(Cardinality(domain_nodes[i]) < Cardinality(domain_nodes[i]))
    BY <1>2, NodesAreFinite, Zenon
  <1> QED
    BY <1>3, Zenon DEF ShrinksLate

\* A commit takes nodes away only after the dwell.
LEMMA CommitShrinks ==
  ASSUME IInv, outstanding.open, NEW written, NEW gone, commit(written, gone)
  PROVE  ShrinksLate
  BY CommitShape, Zenon DEF ShrinksLate

\* commit takes nodes from a domain only if no commit has changed them for the
\* dwell, however the windows and the settlements alternate.
THEOREM NodesShrinkLate == Spec => NodesShrinkSlowly
  <1>1. IInv /\ [Next]_vars => [ShrinksLate]_vars
    <2> SUFFICES ASSUME IInv, Next
                 PROVE  ShrinksLate
      OBVIOUS
    <2>1. CASE propose
      BY <2>1, ProposeShape, NodesUnchanged, Zenon
    <2>2. CASE settle_invalid
      BY <2>2, CommitShrinks, Zenon DEF settle_invalid
    <2>3. CASE settle_discarded
      BY <2>3, DiscardShape, NodesUnchanged, Zenon DEF settle_discarded
    <2>4. CASE settle_applied
      <3>1. outstanding.open /\ (discard \/ \E accepted, gone : commit(accepted, gone))
        BY <2>4, AppliedSteps, Zenon
      <3>2. CASE discard
        BY <3>2, DiscardShape, NodesUnchanged, Zenon
      <3>3. CASE \E accepted, gone : commit(accepted, gone)
        BY <3>1, <3>3, CommitShrinks, Zenon
      <3> QED
        BY <3>1, <3>2, <3>3, Zenon
    <2>5. CASE settle_failed
      BY <2>5, DiscardShape, NodesUnchanged, Zenon DEF settle_failed
    <2>6. CASE \E f \in Family : remove_thread(f)
      <3>1. domain_nodes' = domain_nodes
        BY <2>6, Zenon DEF remove_thread, committed
      <3> QED
        BY <3>1, NodesUnchanged, Zenon
    <2>7. CASE reset
      <3>1. domain_nodes' = NoNodes
        BY <2>7, Zenon DEF reset
      <3>2. \A i \in Id : domain_nodes'[i] = {}
        BY <3>1 DEF NoNodes
      <3> QED
        BY <3>2, Zenon DEF ShrinksLate
    <2> QED
      BY <2>1, <2>2, <2>3, <2>4, <2>5, <2>6, <2>7, Zenon DEF Next
  <1>2. [][ShrinksLate]_vars => NodesShrinkSlowly
    BY PTL DEF ShrinksLate, NodesShrinkSlowly
  <1> QED
    BY <1>1, <1>2, IInvHolds, PTL DEF Spec
=============================================================================
