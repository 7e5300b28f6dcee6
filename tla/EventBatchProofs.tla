------------------------- MODULE EventBatchProofs --------------------------
(***************************************************************************)
(* What consume_pending_bpf makes of a batch of any length, by induction   *)
(* over the records of the queue; and the theorems that rest on it: the    *)
(* types of the worker's tables, and that the records under way and the    *)
(* tables together account for every task of the target and its mask.      *)
(***************************************************************************)
EXTENDS EventPipelineProofs, WellFoundedInduction

-----------------------------------------------------------------------------
(***************************************************************************)
(* Induction over the natural numbers, stated about sets                   *)
(***************************************************************************)
\* Every non-empty set of numbers has a least element.
LEMMA LeastElement ==
  ASSUME NEW T \in SUBSET Nat, T # {}
  PROVE  \E x \in T : \A y \in T : x <= y
  <1> DEFINE R == OpToRel(<, Nat)
  <1>1. IsWellFoundedOn(R, Nat)
    BY NatLessThanWellFounded
  <1>2. \A x, y \in Nat : <<y, x>> \in R <=> y < x
    BY DEF OpToRel
  <1> HIDE DEF R
  <1>3. PICK x \in T : \A y \in T : ~(<<y, x>> \in R)
    BY Zenon, <1>1, WFMin
  <1>4. ASSUME NEW y \in T PROVE x <= y
    <2>1. x \in Nat /\ y \in Nat
      OBVIOUS
    <2>2. ~(y < x)
      BY Zenon, <1>2, <1>3, <2>1
    <2>3. QED
      BY <2>1, <2>2
  <1>5. QED
    BY <1>4

\* Induction up to N: a set with 0 and every successor of its members is all of 0..N.
LEMMA UpToInduction ==
  ASSUME NEW N \in Nat, NEW T, 0 \in T, \A n \in 1..N : n - 1 \in T => n \in T
  PROVE  0..N \subseteq T
  <1> SUFFICES ASSUME (0..N) \ T # {} PROVE FALSE
    OBVIOUS
  <1> DEFINE U == (0..N) \ T
  <1>0. U \in SUBSET Nat /\ U # {}
    OBVIOUS
  <1>1. PICK x \in U : \A y \in U : x <= y
    BY Zenon, <1>0, LeastElement
  <1>2. x \in 1..N /\ x - 1 \in 0..N /\ ~(x <= x - 1)
    BY <1>1
  <1>3. x - 1 \in T
    BY <1>1, <1>2
  <1>4. QED
    BY <1>1, <1>2, <1>3

\* g starts with a value and goes on by a step function, N times.
Iterates(g, N, start, step) == g[0] = start /\ \A n \in 1..N : g[n] = step[n][g[n - 1]]

\* A step function determines what it makes of a start value in N steps.
LEMMA RecursionExists ==
  ASSUME NEW N \in Nat, NEW S, NEW start \in S, NEW step \in [1..N -> [S -> S]]
  PROVE  \E g \in [0..N -> S] : Iterates(g, N, start, step)
  <1> DEFINE Upto(m, g) == Iterates(g, m, start, step)
             T == {m \in 0..N : \E g \in [0..m -> S] : Upto(m, g)}
  <1>1. 0 \in T
    <2>1. [i \in 0..0 |-> start] \in [0..0 -> S] /\ Upto(0, [i \in 0..0 |-> start])
      BY DEF Iterates
    <2>2. 0 \in 0..N
      OBVIOUS
    <2>3. QED
      BY Zenon, <2>1, <2>2
  <1>2. ASSUME NEW m \in 1..N, m - 1 \in T PROVE m \in T
    <2>1. PICK g \in [0..m - 1 -> S] : Upto(m - 1, g)
      BY <1>2
    <2> DEFINE next == step[m][g[m - 1]]
               h == [i \in 0..m |-> IF i = m THEN next ELSE g[i]]
    <2>2. next \in S
      BY <1>2, <2>1
    <2>3. h \in [0..m -> S]
      BY <1>2, <2>2
    <2>4. h[0] = start
      BY <1>2, <2>1 DEF Iterates
    <2>5. ASSUME NEW n \in 1..m PROVE h[n] = step[n][h[n - 1]]
      <3>1. h[n - 1] = g[n - 1]
        BY <1>2, <2>5
      <3>2. CASE n = m
        <4>1. h[n] = next
          BY <3>2
        <4>2. QED
          BY Zenon, <3>1, <3>2, <4>1
      <3>3. CASE n # m
        BY <2>1, <3>1, <3>3 DEF Iterates
      <3>4. QED
        BY <3>2, <3>3
    <2>6. m \in 0..N
      BY <1>2
    <2> HIDE DEF h
    <2>7. Upto(m, h)
      BY <2>4, <2>5, Zenon DEF Iterates
    <2>8. QED
      BY Zenon, <2>3, <2>6, <2>7
  <1> HIDE DEF T
  <1>3. N \in T
    <2>1. 0..N \subseteq T
      BY <1>1, <1>2, UpToInduction, Zenon
    <2>2. QED
      BY <2>1
  <1>4. QED
    BY <1>3 DEF T
-----------------------------------------------------------------------------

USE DEF kernel, bpf, reader, table, worker, history

\* What every event keeps, a pass keeps.
LEMMA PassExists ==
  ASSUME queue \in Seq(OwnRecord), NEW S, NEW s \in S, NEW kinds,
         \A x \in S : \A e \in Event : Turn(x, e, kinds) \in S
  PROVE  \E g \in [0..Len(queue) -> S] : Passes(g, s, kinds)
  <1> DEFINE N == Len(queue)
             One(n, x) == Turn(x, queue[n].event, kinds)
             step == [n \in 1..N |-> [x \in S |-> One(n, x)]]
             body(h) == [n \in 0..N |-> IF n = 0 THEN s ELSE One(n, h[n - 1])]
             after == CHOOSE h : h = body(h)
  <1>1. Pass(s, kinds) = after[N]
    BY DEF Pass
  <1>2. N \in Nat
    OBVIOUS
  <1>3. ASSUME NEW n \in 1..N, NEW x \in S
        PROVE  One(n, x) \in S
    BY <1>3, QueuedEvent, Zenon
  <1> HIDE DEF N, One
  <1>4. step \in [1..N -> [S -> S]]
    BY <1>3
  <1>5. PICK f \in [0..N -> S] : Iterates(f, N, s, step)
    <2> HIDE DEF step
    <2> QED
      BY <1>2, <1>4, RecursionExists, Zenon
  <1>6. \A n \in 1..N : n - 1 \in 0..N /\ n \in 0..N /\ f[n - 1] \in S
    BY <1>2, <1>5
  <1>7. f = body(f)
    <2>1. \A n \in 0..N : f[n] = IF n = 0 THEN s ELSE One(n, f[n - 1])
      <3> TAKE n \in 0..N
      <3>1. CASE n = 0
        BY <1>5, <3>1, Zenon DEF Iterates
      <3>2. CASE n # 0
        <4>1. n \in 1..N
          BY <1>2, <3>2
        <4>2. step[n][f[n - 1]] = One(n, f[n - 1])
          BY <1>6, <4>1
        <4> QED
          BY <1>5, <3>2, <4>1, <4>2, Zenon DEF Iterates
      <3> QED
        BY <3>1, <3>2
    <2> QED
      BY <1>5, <2>1
  <1>8. after = body(after)
    BY <1>7
  <1> HIDE DEF after
  <1>9. after = [n \in 0..N |-> after[n]] /\ after[0] = s /\ \A n \in 1..N : after[n] = One(n, after[n - 1])
    BY <1>2, <1>8
  <1> DEFINE U == {n \in 0..N : after[n] \in S}
  <1>10. 0 \in U
    BY <1>2, <1>9
  <1>11. \A n \in 1..N : n - 1 \in U => n \in U
    BY <1>3, <1>6, <1>9, Zenon
  <1> HIDE DEF U
  <1>12. 0..N \subseteq U
    BY <1>2, <1>10, <1>11, UpToInduction, Zenon
  <1>13. \A n \in 0..N : after[n] \in S
    BY <1>12, Zenon DEF U
  <1>14. after \in [0..N -> S]
    BY <1>9, <1>13
  <1>15. Passes(after, s, kinds)
    BY <1>1, <1>9, Zenon DEF Passes, N, One
  <1> QED
    BY <1>14, <1>15, Zenon DEF N

\* A pass starts and ends with tables of the right types.
LEMMA PassTyped ==
  ASSUME queue \in Seq(OwnRecord), NEW s \in TableType, NEW kinds
  PROVE  Pass(s, kinds) \in TableType
  <1>1. PICK g \in [0..Len(queue) -> TableType] : Passes(g, s, kinds)
    BY TurnTyped, PassExists, Zenon
  <1>2. Len(queue) \in 0..Len(queue)
    OBVIOUS
  <1> QED
    BY <1>1, <1>2, Zenon DEF Passes

\* The tables after consume_pending_bpf are what the two passes have made of them.
LEMMA ConsumedTables ==
  ASSUME queue \in Seq(OwnRecord), Tables \in TableType, consume_pending_bpf
  PROVE  /\ Tables' = Pass(Pass(Tables, {"FORK", "EXEC", "AFFINITY"}), {"EXIT"}) /\ Tables' \in TableType
         /\ Pass(Tables, {"FORK", "EXEC", "AFFINITY"}) \in TableType
  <1> DEFINE y == Pass(Pass(Tables, {"FORK", "EXEC", "AFFINITY"}), {"EXIT"})
  <1>1. Pass(Tables, {"FORK", "EXEC", "AFFINITY"}) \in TableType /\ y \in TableType
    BY PassTyped, Zenon
  <1>2. Become(y)
    BY Zenon DEF consume_pending_bpf
  <1> HIDE DEF y
  <1>3. Tables' = [targets |-> y.targets, life |-> y.life, pending |-> y.pending, restore |-> y.restore]
    BY <1>2, Zenon DEF Become, Tables
  <1>4. y = [targets |-> y.targets, life |-> y.life, pending |-> y.pending, restore |-> y.restore]
    BY <1>1 DEF TableType
  <1>5. Tables' = y
    BY <1>3, <1>4, Zenon
  <1> QED
    BY <1>1, <1>5, Zenon DEF y

\* The worker consumes a batch.
LEMMA ConsumeTyped ==
  ASSUME IInv, TableInv, consume_pending_bpf PROVE TableInv'
  <1>1. /\ pc' = "read" /\ snapshot' = Nothing /\ fatal' = (fatal \/ overflow # 0)
        /\ UNCHANGED <<dropped, declared>>
    BY Zenon DEF consume_pending_bpf
  <1>2. Tables' \in TableType
    BY ConsumedTables, Zenon DEF TableInv, IInv, RecordInv
  <1>3. snapshot' \in Partial(0..MaxGen)
    BY <1>1, NothingTyped, Zenon
  <1>4. fatal' \in BOOLEAN
    BY <1>1, Zenon
  <1>5. pc' \in {"consume", "read", "reconcile"} /\ dropped' \in BOOLEAN /\ declared' \in Partial(1..MaxCalls)
    BY <1>1, Zenon DEF TableInv
  <1> QED
    BY <1>2, <1>3, <1>4, <1>5, Zenon DEF TableInv

\* The tables keep their types.
LEMMA TablesTyped == Spec => []TableInv
  <1>1. IInv /\ TableInv /\ [Next]_vars => TableInv'
    <2> SUFFICES ASSUME IInv, TableInv, [Next]_vars PROVE TableInv'
      OBVIOUS
    <2>1. CASE drain_bpf_once
      <3>1. UNCHANGED <<worker, dropped, declared>>
        BY <2>1, Zenon DEF drain_bpf_once
      <3> QED
        BY <3>1, Zenon DEF TableInv, Tables
    <2>2. CASE UNCHANGED vars
      BY <2>2, Zenon DEF vars, TableInv, Tables
    <2> QED
      BY <2>1, <2>2, TaskTyped, ConsumeTyped, ReadTyped, ReconcileTyped, Zenon DEF Next, Runtime
  <1> QED
    BY <1>1, InitTyped, Inductive, PTL DEF Spec

\* Every variable has its type, and ring and queue keep to their limits, for any number
\* of ids, tasks and calls: a mask that waits or is recorded is one that some call asked for.
THEOREM TypeCorrect == Spec => []TypeOK
  <1>1. IInv /\ TableInv => TypeOK
    <2> SUFFICES ASSUME IInv, TableInv PROVE TypeOK
      OBVIOUS
    <2>1. gen \in [Tid -> 0..MaxGen] /\ tgid \in [Tid -> Tid] /\ zombies \subseteq Live /\ born \in 1..MaxGen
      BY BoundAssumption DEF IInv, KernelInv
    <2>2. DOMAIN pids \subseteq Tid /\ \A p \in DOMAIN pids : pids[p] \in 0..MaxGen
      BY BoundAssumption DEF IInv, KernelInv, PidsInv
    <2>3. Len(ring) <= RingLimit /\ Len(queue) <= QueueLimit
      BY Zenon DEF IInv, RecordInv
    <2>4. /\ target_tgids \in SUBSET Tid /\ lifecycle \in Partial(0..MaxGen)
          /\ pending_masks \in Partial(1..MaxCalls) /\ restore_masks \in Partial(1..MaxCalls)
          /\ snapshot \in Partial(0..MaxGen) /\ declared \in Partial(1..MaxCalls)
      BY TablesAre, Zenon DEF TableInv
    <2>5. /\ target_tgids \subseteq Tid /\ DOMAIN lifecycle \subseteq Tid /\ DOMAIN snapshot \subseteq Tid
          /\ \A t \in DOMAIN lifecycle : lifecycle[t] \in 0..MaxGen
      BY <2>4, PartialIs, Zenon
    <2>6. \A f \in {pending_masks, restore_masks, declared} :
            DOMAIN f \subseteq Tid /\ \A t \in DOMAIN f : f[t] \in 1..MaxCalls
      <3> TAKE f \in {pending_masks, restore_masks, declared}
      <3>1. f \in Partial(1..MaxCalls)
        BY <2>4, Zenon
      <3> QED
        BY <3>1, PartialIs, Zenon
    <2>7. pc \in {"consume", "read", "reconcile"} /\ {fatal, dropped} \subseteq BOOLEAN
      BY Zenon DEF TableInv
    <2> QED
      BY <2>1, <2>2, <2>3, <2>5, <2>6, <2>7, Zenon DEF TypeOK
  <1> QED
    BY <1>1, Inductive, TablesTyped, PTL
\* The first pass does that.
LEMMA FirstPass ==
  ASSUME queue \in Seq(OwnRecord), NEW g \in [0..Len(queue) -> TableType], NEW s, Passes(g, s, NotExits),
         NEW t, NEW n \in 0..Len(queue)
  PROVE  FirstUpTo(g, t, n)
  <1> DEFINE N == Len(queue)
             T == {m \in 0..N : FirstUpTo(g, t, m)}
  <1>0. N \in Nat /\ 0 \in 0..N /\ 1..0 = {}
    OBVIOUS
  <1>1. 0 \in T
    BY <1>0, Zenon DEF FirstUpTo, Within
  <1>2. ASSUME NEW m \in 1..N, m - 1 \in T PROVE m \in T
    <2> DEFINE x == g[m - 1]
               y == g[m]
               e == queue[m].event
    <2>1. /\ m \in 0..N /\ m - 1 \in 0..N /\ m \in Nat /\ m # 0
          /\ \A j : j \in 1..m <=> j \in 1..(m - 1) \/ j = m
      BY <1>0
    <2>2. x \in TableType /\ e \in Event /\ y = Turn(x, e, NotExits)
      BY <2>1, QueuedEvent, Zenon DEF Passes
    <2>3. FirstUpTo(g, t, m - 1)
      BY <1>2, Zenon
    <2> HIDE DEF x, y, e
    <2>4. /\ x.targets \subseteq y.targets
          /\ e.kind = "FORK" => e.tgid \in y.targets
          /\ t \in DOMAIN y.life <=> t \in DOMAIN x.life \/ (e.kind = "FORK" /\ e.tid = t)
          /\ ~(e.kind = "AFFINITY" /\ e.tid = t) => SamePending(y, x, t)
          /\ e.kind = "AFFINITY" /\ e.tid = t /\ t \in DOMAIN x.life => SamePending(y, x, t)
      BY <2>2, FirstTurn, Zenon
    <2>5. g[0].targets \subseteq g[m].targets
      BY <2>3, <2>4, Zenon DEF FirstUpTo, x, y
    <2>6. ASSUME NEW j \in 1..m, queue[j].event.kind = "FORK" PROVE queue[j].event.tgid \in g[m].targets
      <3>1. CASE j = m
        BY <2>4, <2>6, <3>1, Zenon DEF e, y
      <3>2. CASE j \in 1..(m - 1)
        BY <2>3, <2>4, <2>6, <3>2, Zenon DEF FirstUpTo, x, y
      <3> QED
        BY <2>1, <3>1, <3>2, Zenon
    <2>7. t \in DOMAIN g[m].life <=> t \in DOMAIN g[0].life \/ Within("FORK", t, m)
      <3>1. Within("FORK", t, m) <=> Within("FORK", t, m - 1) \/ (e.kind = "FORK" /\ e.tid = t)
        BY <2>1, WithinSplits, Zenon DEF IsOf, e
      <3>2. t \in DOMAIN x.life <=> t \in DOMAIN g[0].life \/ Within("FORK", t, m - 1)
        BY <2>3, Zenon DEF FirstUpTo, x
      <3> QED
        BY <2>4, <3>1, <3>2, Zenon DEF y
    <2>8. ASSUME t \in DOMAIN g[m].pending
          PROVE  t \in DOMAIN g[0].pending
                 \/ \E j \in 1..m : IsOf(queue[j], "AFFINITY", t) /\ t \notin DOMAIN g[j - 1].life
      <3>1. CASE e.kind = "AFFINITY" /\ e.tid = t /\ t \notin DOMAIN x.life
        BY <2>1, <3>1, Zenon DEF IsOf, e, x
      <3>2. CASE SamePending(y, x, t)
        <4>1. t \in DOMAIN g[m - 1].pending
          BY <2>8, <3>2, Zenon DEF SamePending, x, y
        <4> QED
          BY <2>1, <2>3, <4>1, Zenon DEF FirstUpTo
      <3> QED
        BY <2>4, <3>1, <3>2, Zenon
    <2>9. FirstUpTo(g, t, m)
      BY <2>5, <2>6, <2>7, <2>8, Zenon DEF FirstUpTo
    <2> QED
      BY <2>1, <2>9, Zenon
  <1> HIDE DEF T
  <1>3. 0..N \subseteq T
    BY <1>0, <1>1, <1>2, UpToInduction, Zenon
  <1> QED
    BY <1>3, Zenon DEF T

\* The masks of t stay as they are from a record on, if no later one is a mask of t.
LEMMA FirstPassKeeps ==
  ASSUME queue \in Seq(OwnRecord), NEW g \in [0..Len(queue) -> TableType], NEW s, Passes(g, s, NotExits),
         NEW t, NEW i \in 0..Len(queue),
         \A j \in 1..Len(queue) : j > i => ~IsOf(queue[j], "AFFINITY", t)
  PROVE  SamePending(g[Len(queue)], g[i], t) /\ SameRestore(g[Len(queue)], g[i], t)
  <1> DEFINE N == Len(queue)
             Kept(m) == SamePending(g[m], g[i], t) /\ SameRestore(g[m], g[i], t)
             T == {m \in 0..N : m >= i => Kept(m)}
  <1>0. N \in Nat /\ 0 \in 0..N /\ N \in 0..N /\ N >= i /\ (0 >= i => i = 0)
    OBVIOUS
  <1>1. Kept(i)
    BY Zenon DEF SamePending, SameRestore
  <1>2. 0 \in T
    BY <1>0, <1>1, Zenon
  <1>3. ASSUME NEW m \in 1..N, m - 1 \in T PROVE m \in T
    <2>1. m \in 0..N /\ m - 1 \in 0..N /\ (m >= i => m = i \/ (m > i /\ m - 1 >= i))
      BY <1>0
    <2>2. ASSUME m > i, m - 1 >= i PROVE Kept(m)
      <3>1. Kept(m - 1)
        BY <1>3, <2>2, Zenon
      <3>2. queue[m].event \in Event /\ g[m - 1] \in TableType /\ g[m] = Turn(g[m - 1], queue[m].event, NotExits)
        BY <2>1, QueuedEvent, Zenon DEF Passes
      <3>3. ~(queue[m].event.kind = "AFFINITY" /\ queue[m].event.tid = t)
        BY <2>2, Zenon DEF IsOf
      <3>4. SamePending(g[m], g[m - 1], t) /\ SameRestore(g[m], g[m - 1], t)
        BY <3>2, <3>3, FirstTurn, Zenon
      <3> QED
        BY <3>1, <3>4, Zenon DEF SamePending, SameRestore
    <2> QED
      BY <1>1, <2>1, <2>2, Zenon
  <1> HIDE DEF T
  <1>4. 0..N \subseteq T
    BY <1>0, <1>2, <1>3, UpToInduction, Zenon
  <1> QED
    BY <1>0, <1>4, Zenon DEF T

\* The second pass does that.
LEMMA SecondPass ==
  ASSUME queue \in Seq(OwnRecord), NEW g \in [0..Len(queue) -> TableType], NEW s, Passes(g, s, {"EXIT"}),
         NEW t, NEW n \in 0..Len(queue)
  PROVE  SecondUpTo(g, t, n)
  <1> DEFINE N == Len(queue)
             T == {m \in 0..N : SecondUpTo(g, t, m)}
  <1>0. N \in Nat /\ 0 \in 0..N /\ 1..0 = {}
    OBVIOUS
  <1>1. 0 \in T
    BY <1>0, Zenon DEF SecondUpTo, Within, SamePending
  <1>2. ASSUME NEW m \in 1..N, m - 1 \in T PROVE m \in T
    <2> DEFINE e == queue[m].event
    <2>1. m \in 0..N /\ m - 1 \in 0..N /\ m \in Nat /\ m # 0
      BY <1>0
    <2>2. g[m - 1] \in TableType /\ e \in Event /\ g[m] = Turn(g[m - 1], e, {"EXIT"})
      BY <2>1, QueuedEvent, Zenon DEF Passes
    <2>3. SecondUpTo(g, t, m - 1)
      BY <1>2, Zenon
    <2>4. Within("EXIT", t, m) <=> Within("EXIT", t, m - 1) \/ (e.kind = "EXIT" /\ e.tid = t)
      BY <2>1, WithinSplits, Zenon DEF IsOf
    <2> HIDE DEF e
    <2>5. /\ g[m].targets = g[m - 1].targets /\ g[m].restore = g[m - 1].restore
          /\ e.kind = "EXIT" /\ e.tid = t => t \notin DOMAIN g[m].pending
          /\ ~(e.kind = "EXIT" /\ e.tid = t) => SamePending(g[m], g[m - 1], t)
      BY <2>2, SecondTurn, Zenon
    <2>6. g[m].targets = g[0].targets /\ g[m].restore = g[0].restore
      BY <2>3, <2>5, Zenon DEF SecondUpTo
    <2>7. Within("EXIT", t, m) => t \notin DOMAIN g[m].pending
      BY <2>3, <2>4, <2>5, Zenon DEF SecondUpTo, SamePending
    <2>8. ~Within("EXIT", t, m) => SamePending(g[m], g[0], t)
      BY <2>3, <2>4, <2>5, Zenon DEF SecondUpTo, SamePending
    <2>9. SecondUpTo(g, t, m)
      BY <2>6, <2>7, <2>8, Zenon DEF SecondUpTo
    <2> QED
      BY <2>1, <2>9, Zenon
  <1> HIDE DEF T
  <1>3. 0..N \subseteq T
    BY <1>0, <1>1, <1>2, UpToInduction, Zenon
  <1> QED
    BY <1>3, Zenon DEF T

\* What a batch does for the thread t: the states g of the first pass, and what the exits
\* make of the last of them.
LEMMA BatchFacts ==
  ASSUME queue \in Seq(OwnRecord), Tables \in TableType, consume_pending_bpf, NEW t
  PROVE  \E g : Batch(g, t)
  <1> DEFINE N == Len(queue)
             first == Pass(Tables, NotExits)
  <1>0. N \in 0..N
    OBVIOUS
  <1>1. Tables' = Pass(first, {"EXIT"}) /\ first \in TableType
    BY ConsumedTables, Zenon DEF NotExits
  <1>2. PICK g \in [0..N -> TableType] : Passes(g, Tables, NotExits)
    BY TurnTyped, PassExists, Zenon
  <1>3. first = g[N]
    BY <1>2, Zenon DEF Passes
  <1> HIDE DEF first
  <1>4. PICK h \in [0..N -> TableType] : Passes(h, first, {"EXIT"})
    BY <1>1, TurnTyped, PassExists, Zenon
  <1>5. h[0] = g[N] /\ Tables' = h[N]
    BY <1>1, <1>3, <1>4, Zenon DEF Passes
  <1>6. SecondUpTo(h, t, N)
    BY <1>0, <1>4, SecondPass, Zenon
  <1>7. Tables'.targets = target_tgids' /\ Tables'.restore = restore_masks' /\ Tables'.pending = pending_masks'
    BY DEF Tables
  <1>8. target_tgids' = g[N].targets /\ restore_masks' = g[N].restore
    BY <1>5, <1>6, <1>7, Zenon DEF SecondUpTo
  <1>9. Within("EXIT", t, N) => t \notin DOMAIN pending_masks'
    BY <1>5, <1>6, <1>7, Zenon DEF SecondUpTo
  <1>10. ~Within("EXIT", t, N) => SamePending(Tables', g[N], t)
    BY <1>5, <1>6, Zenon DEF SecondUpTo
  <1>11. \A n \in 0..N : FirstUpTo(g, t, n)
    BY <1>2, FirstPass, Zenon
  <1>12. ASSUME NEW i \in 0..N, \A j \in 1..N : j > i => ~IsOf(queue[j], "AFFINITY", t)
         PROVE  KeptFrom(g, t, i)
    BY <1>2, <1>12, FirstPassKeeps, Zenon DEF KeptFrom
  <1> QED
    BY <1>2, <1>8, <1>9, <1>10, <1>11, <1>12, Zenon DEF Batch
\* As long as nothing is lost, the stream and the tables account for every task of the
\* target and for every mask: through forks, exits, reuse of ids, late batches and samples.
THEOREM StreamAccounts == Spec => [](OwnInv /\ StreamInv)
  <1>1. IInv /\ TableInv /\ OwnInv /\ StreamInv /\ [Next]_vars => OwnInv' /\ StreamInv'
    <2> SUFFICES ASSUME IInv, TableInv, OwnInv, StreamInv, [Next]_vars PROVE OwnInv' /\ StreamInv'
      OBVIOUS
    <2>1. CASE UNCHANGED vars
      <3>1. UNCHANGED <<kernel, pids, ours, declared, strangers>>
            /\ UNCHANGED <<ring, queue, dropped, overflow>>
            /\ UNCHANGED <<pc, snapshot, target_tgids, pending_masks, restore_masks, fatal>>
        BY <2>1, Zenon DEF vars, bpf, reader, worker, table, history
      <3>2. UNCHANGED <<tgid, declared, strangers>> /\ Own' = Own /\ OwnInv'
        BY <3>1, TasksStay, Zenon
      <3>3. stream' = stream /\ NoLoss' = NoLoss
        BY <3>1, Zenon DEF stream, NoLoss
      <3>4. TargetInv => TargetInv'
        BY <3>1, <3>2, <3>3, Zenon DEF TargetInv, Visited
      <3>5. (MasksInv => MasksInv') /\ (ExitsInv => ExitsInv')
        BY <3>2, <3>3, Zenon DEF MasksInv, ExitsInv
      <3>6. PendingInv => PendingInv'
        BY <3>1, <3>2, <3>3, Zenon DEF PendingInv
      <3>7. MaskInv => MaskInv'
        BY <3>1, <3>2, <3>3, Zenon DEF MaskInv, Sent, Recorded, Waiting
      <3> QED
        BY <3>2, <3>3, <3>4, <3>5, <3>6, <3>7, Zenon DEF StreamInv
    <2>2. CASE consume_pending_bpf
      <3>1. queue \in Seq(OwnRecord) /\ Tables \in TableType
        BY Zenon DEF IInv, RecordInv, TableInv
      <3>2. Tables' \in TableType
        BY <2>2, <3>1, ConsumedTables, Zenon
      <3>3. \A t : \E g : Batch(g, t)
        BY <2>2, <3>1, BatchFacts, Zenon
      <3> QED
        BY <2>2, <3>2, <3>3, ConsumeStream, Zenon
    <2> QED
      BY <2>1, <2>2, TaskStream, DrainStream, ReadStream, ReconcileStream, Zenon DEF Next, Runtime
  <1> QED
    BY <1>1, InitStream, Inductive, TablesTyped, PTL DEF Spec

\* When every event is handled the stream is empty, and nothing has been lost.
LEMMA SettledMeans ==
  ASSUME Settled, StreamInv
  PROVE  TargetInv /\ MaskInv /\ stream = <<>> /\ pc = "consume"
  <1>1. NoLoss /\ pc = "consume" /\ ring = <<>> /\ queue = <<>>
    BY Zenon DEF Settled, NoLoss
  <1>2. stream = <<>>
    BY <1>1 DEF stream
  <1> QED
    BY <1>1, <1>2, Zenon DEF StreamInv

\* Without losses no descendant stays unseen: when every event is handled, the sampler
\* visits the process of every thread of the target, for any number of ids and tasks.
THEOREM DescendantsStayTargets == Spec => []DescendantsAreTargets
  <1>1. OwnInv /\ StreamInv => DescendantsAreTargets
    <2> SUFFICES ASSUME StreamInv, Settled, NEW t \in Live \ zombies, gen[t] \in ours
                 PROVE  tgid[t] \in target_tgids
      BY Zenon DEF DescendantsAreTargets
    <2>1. TargetInv /\ stream = <<>>
      BY SettledMeans, Zenon
    <2>2. DOMAIN stream = {}
      BY <2>1
    <2>3. t \in Own
      BY Zenon DEF Own
    <2> QED
      BY <2>1, <2>2, <2>3, Zenon DEF TargetInv, Forked, Visited
  <1> QED
    BY <1>1, StreamAccounts, PTL

\* Without losses, the mask to restore is the one the application asked for last, although
\* a mask may arrive before its thread and exits of the id's former users are handled late.
THEOREM ApplicationMaskStays == Spec => []ApplicationMaskIsKept
  <1>1. OwnInv /\ StreamInv => ApplicationMaskIsKept
    <2> SUFFICES ASSUME OwnInv, StreamInv, Settled, NEW t \in DOMAIN declared \ (strangers \cup zombies),
                        gen[t] \in ours
                 PROVE  t \in DOMAIN restore_masks /\ restore_masks[t] = declared[t]
      BY Zenon DEF ApplicationMaskIsKept
    <2>1. MaskInv /\ stream = <<>> /\ pc = "consume"
      BY SettledMeans, Zenon
    <2>2. DOMAIN stream = {}
      BY <2>1
    <2>3. t \in (DOMAIN declared \cap Own) \ strangers
      BY Zenon DEF Own, OwnInv
    <2>4. ~Sent(t) /\ ~Waiting(t)
      BY <2>1, <2>2, Zenon DEF Sent, Waiting
    <2> QED
      BY <2>1, <2>3, <2>4, Zenon DEF MaskInv, Recorded
  <1> QED
    BY <1>1, StreamAccounts, PTL
=============================================================================
