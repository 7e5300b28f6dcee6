------------------------ MODULE EventPipelineProofs ------------------------
(***************************************************************************)
(* Who reports, and that no report is lost in silence, for any task ids,   *)
(* any number of tasks and calls, and any size of ring and queue.          *)
(*                                                                         *)
(* The pids map is never cleaned.  Its entries are harmless because an     *)
(* entry names a generation, and generations are not used again: one that  *)
(* equals its id's present generation was made for that very process.      *)
(***************************************************************************)
EXTENDS EventPipeline, TLAPS

USE DEF kernel, bpf, reader, table, worker, history

Event == [kind : {"FORK"}, tid : Tid, tgid : Tid] \cup [kind : {"EXEC"}, tgid : Tid]
         \cup [kind : {"EXIT"}, tid : Tid] \cup [kind : {"AFFINITY"}, tid : Tid, mask : 1..MaxCalls]

\* A record of a task of the target.
OwnRecord == [event : Event, mine : {TRUE}]

\* Generations are never used again, a process has its leader, and all of its threads
\* are the target's or none is.
KernelInv ==
    /\ gen \in [Tid -> Nat] /\ tgid \in [Tid -> Tid] /\ zombies \subseteq Live
    /\ born \in 1..MaxGen /\ calls \in 0..MaxCalls
    /\ \A t \in Tid : gen[t] <= born
    /\ \A t, u \in Live : gen[t] = gen[u] => t = u
    /\ \A g \in ours : g \in 1..born
    /\ \A t \in Live : /\ tgid[t] \in Live /\ tgid[tgid[t]] = tgid[t]
                       /\ gen[t] \in ours <=> gen[tgid[t]] \in ours
    /\ \A z \in zombies : \A u \in Live : tgid[u] = z => u = z

\* An entry without a generation is the root's, which is still behind the barrier.
PidsInv ==
    /\ DOMAIN pids \subseteq Tid /\ \A p \in DOMAIN pids : pids[p] \in 0..born
    /\ \A p \in DOMAIN pids : pids[p] # 0 /\ pids[p] = gen[p] => gen[p] \in ours
    /\ \A p \in DOMAIN pids : pids[p] = 0 => /\ p = Root /\ gen[Root] \in ours
                                             /\ tgid[Root] = Root /\ Root \notin zombies

\* What is under way is the target's, and is counted.
RecordInv ==
    /\ ring \in Seq(OwnRecord) /\ queue \in Seq(OwnRecord) /\ underway \in Int /\ overflow \in Nat
    /\ Len(ring) <= RingLimit /\ Len(queue) <= QueueLimit
    /\ ~fatal => underway = Len(ring) + Len(queue) + overflow

IInv == KernelInv /\ PidsInv /\ RecordInv /\ TableFollowsProc
-----------------------------------------------------------------------------
(***************************************************************************)
(* Reports                                                                 *)
(***************************************************************************)
\* A task whose process is tracked is the target's.
LEMMA TrackedIsOurs ==
  ASSUME KernelInv, PidsInv, NEW t \in Live, tracked_task(tgid[t])
  PROVE  gen[t] \in ours
  <1> USE DEF tracked_task, Live
  <1>1. tgid[t] \in Live /\ (gen[tgid[t]] \in ours => gen[t] \in ours)
    BY DEF KernelInv
  <1>2. gen[tgid[t]] \in ours
    BY <1>1 DEF PidsInv
  <1>3. QED
    BY <1>1, <1>2

\* A report appends a record of the target and counts it, or is counted as dropped.
LEMMA ReportKeeps ==
  ASSUME KernelInv, PidsInv, RecordInv, NEW t \in Live, NEW e \in Event, Report(t, e),
         UNCHANGED <<queue, overflow, fatal>>
  PROVE  RecordInv'
  <1>1. CASE tracked_task(tgid[t])
    <2> DEFINE r == [event |-> e, mine |-> gen[t] \in ours]
    <2>1. gen[t] \in ours
      BY <1>1, TrackedIsOurs
    <2>2. r \in OwnRecord
      BY <2>1 DEF OwnRecord
    <2>3. emit_event(r)
      BY <1>1 DEF Report
    <2> HIDE DEF r
    <2>4. CASE Len(ring) < RingLimit /\ ring' = Append(ring, r) /\ underway' = underway + 1
      BY <2>2, <2>4, BoundAssumption DEF RecordInv
    <2>5. CASE UNCHANGED <<ring, underway>>
      BY <2>5 DEF RecordInv
    <2>6. QED
      BY <2>3, <2>4, <2>5 DEF emit_event
  <1>2. CASE ~tracked_task(tgid[t])
    BY <1>2 DEF Report, RecordInv
  <1>3. QED
    BY <1>1, <1>2
-----------------------------------------------------------------------------
(***************************************************************************)
(* Tasks                                                                   *)
(***************************************************************************)
\* A new task has a generation that neither a task nor an entry has had.
LEMMA StartKeepsKernel ==
  ASSUME KernelInv, NEW t \in Tid, NEW group \in Tid, NEW mine \in BOOLEAN, Start(t, group, mine),
         group = t \/ (group \in Live \ zombies /\ tgid[group] = group /\ (mine <=> gen[group] \in ours))
  PROVE  KernelInv'
  <1> USE DEF Start, Live
  <1>1. /\ gen' \in [Tid -> Nat] /\ tgid' \in [Tid -> Tid] /\ born' \in 1..MaxGen /\ born \in Nat /\ born' = born + 1
        /\ Live' = Live \cup {t} /\ t \notin Live
    BY BoundAssumption DEF KernelInv
  <1>2. \A u \in Tid \ {t} : gen'[u] = gen[u] /\ tgid'[u] = tgid[u] /\ gen[u] <= born
    BY DEF KernelInv
  <1>3. gen'[t] = born' /\ tgid'[t] = group /\ born' \notin ours
    BY <1>1 DEF KernelInv
  <1>4. /\ zombies' \subseteq Live' /\ calls' \in 0..MaxCalls /\ \A u \in Tid : gen'[u] <= born'
        /\ \A g \in ours' : g \in 1..born'
    BY <1>1, <1>2, <1>3 DEF KernelInv
  <1>5. \A u, v \in Live' : gen'[u] = gen'[v] => u = v
    BY <1>1, <1>2, <1>3 DEF KernelInv
  <1>6. ASSUME NEW u \in Live'
        PROVE  /\ tgid'[u] \in Live' /\ tgid'[tgid'[u]] = tgid'[u]
               /\ gen'[u] \in ours' <=> gen'[tgid'[u]] \in ours'
    <2>1. CASE u = t
      BY <1>1, <1>2, <1>3, <2>1 DEF KernelInv
    <2>2. CASE u # t
      <3>1. u \in Live /\ tgid[u] \in Live /\ tgid[u] # t /\ tgid'[u] = tgid[u] /\ gen'[u] = gen[u]
        BY <1>1, <1>2, <1>6, <2>2 DEF KernelInv
      <3>2. gen[u] # born' /\ gen[tgid[u]] # born'
        BY <1>1, <3>1 DEF KernelInv
      <3>3. QED
        BY <1>1, <1>2, <3>1, <3>2 DEF KernelInv
    <2>3. QED
      BY <2>1, <2>2
  <1>7. ASSUME NEW z \in zombies', NEW u \in Live', tgid'[u] = z PROVE u = z
    BY <1>1, <1>2, <1>3, <1>7 DEF KernelInv
  <1>8. QED
    BY <1>1, <1>4, <1>5, <1>6, <1>7 DEF KernelInv

\* A process of nobody's gets an id that the target may have had.
LEMMA ForeignPreserves ==
  ASSUME IInv, NEW t \in Tid, ForeignStart(t) PROVE IInv'
  <1>1. Start(t, t, FALSE) /\ UNCHANGED <<bpf, underway>>
    BY DEF ForeignStart
  <1>2. KernelInv'
    BY <1>1, StartKeepsKernel DEF IInv
  <1>3. PidsInv'
    BY <1>1 DEF IInv, KernelInv, PidsInv, Start, Live
  <1>4. RecordInv' /\ TableFollowsProc'
    BY <1>1 DEF IInv, Start, RecordInv, TableFollowsProc, Nothing
  <1>5. QED
    BY <1>2, <1>3, <1>4 DEF IInv

\* The target starts a thread or a process; a process of a tracked one is tracked.
LEMMA ForkPreserves ==
  ASSUME IInv, NEW p \in Tid, NEW t \in Tid, on_fork(p, t) PROVE IInv'
  <1> DEFINE mine == gen[p] \in ours
             e(group) == [kind |-> "FORK", tid |-> t, tgid |-> group]
  <1>0. p \in Live /\ p \notin zombies
    BY DEF on_fork, Runs
  <1>1. PICK group \in {tgid[p], t} :
          /\ Start(t, group, mine)
          /\ pids' = IF group = t /\ tracked_task(tgid[p]) THEN With(pids, t, born') ELSE pids
          /\ Report(p, e(group))
    BY DEF on_fork
  <1>2. /\ group \in Tid /\ mine \in BOOLEAN /\ e(group) \in Event
        /\ group = t \/ (group \in Live \ zombies /\ tgid[group] = group /\ (mine <=> gen[group] \in ours))
    BY <1>0, <1>1 DEF IInv, KernelInv, Event
  <1>3. KernelInv'
    BY <1>1, <1>2, StartKeepsKernel DEF IInv
  <1>4. PidsInv'
    <2>1. /\ born' = born + 1 /\ gen[t] = 0 /\ gen' = [gen EXCEPT ![t] = born'] /\ UNCHANGED zombies
          /\ tgid' = [tgid EXCEPT ![t] = group] /\ ours' = IF mine THEN ours \cup {born'} ELSE ours
      BY <1>1 DEF Start
    <2>2. \A q \in DOMAIN pids : pids[q] = 0 => q # t
      BY <2>1 DEF IInv, PidsInv, KernelInv
    <2>3. CASE group = t /\ tracked_task(tgid[p])
      <3>1. mine
        BY <1>0, <2>3, TrackedIsOurs DEF IInv
      <3>2. pids' = With(pids, t, born')
        BY <1>1, <2>3
      <3>3. QED
        BY <2>1, <2>2, <3>1, <3>2 DEF IInv, KernelInv, PidsInv, With
    <2>4. CASE pids' = pids
      BY <2>1, <2>2, <2>4 DEF IInv, KernelInv, PidsInv
    <2>5. QED
      BY <1>1, <2>3, <2>4
  <1>5. UNCHANGED <<reader, worker>>
    BY <1>1 DEF Start
  <1>6. RecordInv'
    BY <1>0, <1>1, <1>2, <1>5, ReportKeeps DEF IInv
  <1>7. TableFollowsProc'
    BY <1>5 DEF IInv, TableFollowsProc, Nothing
  <1>8. QED
    BY <1>3, <1>4, <1>6, <1>7 DEF IInv

\* The root's entry gets its generation when it calls exec.
LEMMA ExecPreserves ==
  ASSUME IInv, NEW p \in Tid, on_exec(p) PROVE IInv'
  <1>1. /\ p \in Live /\ tracked_task(p) /\ UNCHANGED <<gen, tgid, zombies, born, calls, reader, worker, ours>>
        /\ pids' = IF pids[p] = 0 THEN With(pids, p, gen[p]) ELSE pids
        /\ Report(p, [kind |-> "EXEC", tgid |-> p])
    BY DEF on_exec
  <1>2. KernelInv'
    BY <1>1 DEF IInv, KernelInv, Live
  <1>3. PidsInv'
    <2>1. CASE pids[p] = 0
      BY <1>1, <2>1 DEF IInv, KernelInv, PidsInv, With, tracked_task, Live
    <2>2. CASE pids[p] # 0
      BY <1>1, <2>2 DEF IInv, PidsInv
    <2>3. QED
      BY <2>1, <2>2
  <1>4. RecordInv'
    BY <1>1, ReportKeeps DEF IInv, Event
  <1>5. TableFollowsProc'
    BY <1>1 DEF IInv, TableFollowsProc, Nothing
  <1>6. QED
    BY <1>2, <1>3, <1>4, <1>5 DEF IInv

\* A leader exits last, and the root not before its exec.
LEMMA ExitPreserves ==
  ASSUME IInv, NEW t \in Tid, on_exit(t) PROVE IInv'
  <1>1. /\ t \in Live /\ (tgid[t] = Root => pids[Root] # 0) /\ zombies' = zombies \cup {t}
        /\ t = tgid[t] => \A u \in Live : tgid[u] = t => u = t
        /\ UNCHANGED <<gen, tgid, born, calls, pids, reader, worker, ours>>
        /\ Report(t, [kind |-> "EXIT", tid |-> t])
    BY DEF on_exit, Runs
  <1>2. \A u \in Live : tgid[u] = t => u = t
    BY <1>1 DEF IInv, KernelInv
  <1>3. KernelInv'
    BY <1>1, <1>2 DEF IInv, KernelInv, Live
  <1>4. PidsInv'
    BY <1>1 DEF IInv, PidsInv
  <1>5. RecordInv'
    BY <1>1, ReportKeeps DEF IInv, Event
  <1>6. TableFollowsProc'
    BY <1>1 DEF IInv, TableFollowsProc, Nothing
  <1>7. QED
    BY <1>3, <1>4, <1>5, <1>6 DEF IInv

\* A reaped task was the last of its process if it led it; no other has its generation.
LEMMA ReapPreserves ==
  ASSUME IInv, NEW t \in Tid, Reap(t) PROVE IInv'
  <1>1. /\ t \in zombies /\ zombies' = zombies \ {t} /\ gen' = [gen EXCEPT ![t] = 0]
        /\ tgid' = [tgid EXCEPT ![t] = t] /\ ours' = ours \ {gen[t]}
        /\ UNCHANGED <<born, calls, bpf, reader, worker, underway>>
    BY DEF Reap
  <1>2. /\ gen' \in [Tid -> Nat] /\ tgid' \in [Tid -> Tid] /\ t \in Live /\ Live' = Live \ {t}
        /\ gen'[t] = 0 /\ \A u \in Tid \ {t} : gen'[u] = gen[u] /\ tgid'[u] = tgid[u]
    BY <1>1 DEF IInv, KernelInv, Live
  <1>3. \A u \in Live' : u \in Live /\ u # t /\ tgid[u] # t /\ gen[u] # gen[t] /\ u \in Tid
    BY <1>1, <1>2 DEF IInv, KernelInv, Live
  <1>4. KernelInv'
    <2>1. /\ zombies' \subseteq Live' /\ born' \in 1..MaxGen /\ calls' \in 0..MaxCalls /\ \A u \in Tid : gen'[u] <= born'
          /\ \A g \in ours' : g \in 1..born'
      BY <1>1, <1>2 DEF IInv, KernelInv
    <2>2. \A u, v \in Live' : gen'[u] = gen'[v] => u = v
      BY <1>2, <1>3 DEF IInv, KernelInv
    <2>3. ASSUME NEW u \in Live'
          PROVE  /\ tgid'[u] \in Live' /\ tgid'[tgid'[u]] = tgid'[u]
                 /\ gen'[u] \in ours' <=> gen'[tgid'[u]] \in ours'
      <3>1. /\ u \in Live /\ tgid'[u] = tgid[u] /\ gen'[u] = gen[u] /\ tgid[u] \in Live'
            /\ tgid'[tgid[u]] = tgid[u] /\ gen'[tgid[u]] = gen[tgid[u]]
        BY <1>2, <1>3, <2>3 DEF IInv, KernelInv
      <3>2. gen[u] # gen[t] /\ gen[tgid[u]] # gen[t]
        BY <1>3, <3>1
      <3>3. gen[u] \in ours <=> gen[tgid[u]] \in ours
        BY <3>1 DEF IInv, KernelInv
      <3>4. QED
        BY <1>1, <3>1, <3>2, <3>3
    <2>4. \A z \in zombies' : \A u \in Live' : tgid'[u] = z => u = z
      BY <1>1, <1>2, <1>3 DEF IInv, KernelInv
    <2>5. QED
      BY <1>2, <2>1, <2>2, <2>3, <2>4 DEF KernelInv
  <1>5. PidsInv'
    <2>1. ASSUME NEW q \in DOMAIN pids, pids[q] # 0, pids[q] = gen'[q] PROVE gen'[q] \in ours'
      <3>1. q \in Live' /\ gen'[q] = gen[q]
        BY <1>2, <2>1 DEF IInv, PidsInv, Live
      <3>2. QED
        BY <1>1, <1>3, <2>1, <3>1 DEF IInv, PidsInv
    <2>2. ASSUME NEW q \in DOMAIN pids, pids[q] = 0
          PROVE  q = Root /\ gen'[Root] \in ours' /\ tgid'[Root] = Root /\ Root \notin zombies'
      <3>1. q = Root /\ Root \in Tid \ {t} /\ gen[Root] \in ours /\ tgid[Root] = Root
        BY <1>1, <2>2 DEF IInv, PidsInv
      <3>2. Root \in Live'
        BY <1>2, <3>1 DEF IInv, KernelInv, Live
      <3>3. QED
        BY <1>1, <1>2, <1>3, <2>2, <3>1, <3>2 DEF IInv, PidsInv
    <2>3. DOMAIN pids \subseteq Tid /\ \A q \in DOMAIN pids : pids[q] \in 0..born
      BY DEF IInv, PidsInv
    <2>4. QED
      BY <1>1, <2>1, <2>2, <2>3 DEF PidsInv
  <1>6. RecordInv' /\ TableFollowsProc'
    BY <1>1 DEF IInv, RecordInv, TableFollowsProc, Nothing
  <1>7. QED
    BY <1>4, <1>5, <1>6 DEF IInv

\* A mask the target sets is one more report.
LEMMA AffinityPreserves ==
  ASSUME IInv, NEW t \in Tid, NEW u \in Tid, on_sched_setaffinity(t, u) PROVE IInv'
  <1>1. /\ t \in Live /\ calls < MaxCalls /\ calls' = calls + 1
        /\ UNCHANGED <<gen, tgid, zombies, born, pids, reader, worker, ours>>
        /\ Report(t, [kind |-> "AFFINITY", tid |-> u, mask |-> calls'])
    BY DEF on_sched_setaffinity, Runs
  <1>0. calls' \in 1..MaxCalls /\ calls' \in 0..MaxCalls
    BY <1>1, BoundAssumption DEF IInv, KernelInv
  <1>2. KernelInv' /\ PidsInv'
    BY <1>0, <1>1 DEF IInv, KernelInv, PidsInv, Live
  <1>3. [kind |-> "AFFINITY", tid |-> u, mask |-> calls'] \in Event
    BY <1>0 DEF Event
  <1>4. RecordInv'
    BY <1>1, <1>3, ReportKeeps DEF IInv
  <1>5. TableFollowsProc'
    BY <1>1 DEF IInv, TableFollowsProc, Nothing
  <1>6. QED
    BY <1>2, <1>4, <1>5 DEF IInv
-----------------------------------------------------------------------------
(***************************************************************************)
(* The runtime's threads                                                   *)
(***************************************************************************)
\* The smaller of two numbers.
LEMMA MinOfTwo ==
  ASSUME NEW a \in Nat, NEW b \in Nat
  PROVE  Min({a, b}) \in {a, b} /\ Min({a, b}) <= a /\ Min({a, b}) <= b
  <1>1. \E x \in {a, b} : \A y \in {a, b} : x <= y
    OBVIOUS
  <1>2. QED
    BY <1>1 DEF Min

\* What leaves the ring is queued or counted as overflow.
LEMMA DrainPreserves ==
  ASSUME IInv, drain_bpf_once PROVE IInv'
  <1>1. PICK n \in 1..Len(ring) : /\ ring' = Undrained(n) /\ queue' = Queued(n)
                                  /\ overflow' = overflow + Len(queue) + n - Len(queue')
    BY DEF drain_bpf_once
  <1>2. UNCHANGED <<kernel, pids, dropped, worker, history>>
    BY DEF drain_bpf_once
  <1>3. /\ ring \in Seq(OwnRecord) /\ queue \in Seq(OwnRecord) /\ underway \in Int /\ overflow \in Nat
        /\ Len(ring) \in Nat /\ n \in Nat /\ 1 <= n /\ n <= Len(ring)
    BY <1>1 DEF IInv, RecordInv
  <1>4. ring' \in Seq(OwnRecord) /\ Len(ring') = Len(ring) - n
    BY <1>1, <1>3 DEF Undrained
  <1> DEFINE all == queue \o SubSeq(ring, 1, n)
  <1>5. all \in Seq(OwnRecord) /\ Len(all) \in Nat /\ Len(all) = Len(queue) + n
    BY <1>3
  <1> HIDE DEF all
  <1>6. PICK m : m = Min({Len(all), QueueLimit})
    OBVIOUS
  <1>7. m \in Nat /\ m <= Len(all) /\ m <= QueueLimit /\ QueueLimit \in Nat
    BY <1>5, <1>6, MinOfTwo, BoundAssumption
  <1>8. queue' = SubSeq(all, 1, m)
    BY <1>1, <1>6 DEF Queued, all
  <1>9. queue' \in Seq(OwnRecord) /\ Len(queue') \in Nat /\ Len(queue') = m
    BY <1>5, <1>7, <1>8
  <1>10. RecordInv'
    <2>1. Len(queue) \in Nat /\ fatal' = fatal /\ underway' = underway /\ overflow' \in Nat
      BY <1>1, <1>2, <1>3, <1>5, <1>7, <1>9
    <2>2. ASSUME ~fatal' PROVE underway' = Len(ring') + Len(queue') + overflow'
      <3>1. underway = Len(ring) + Len(queue) + overflow
        BY <2>1, <2>2 DEF IInv, RecordInv
      <3>2. QED
        BY <1>1, <1>3, <1>4, <1>9, <2>1, <3>1
    <2>3. underway' \in Int
      BY <1>3, <2>1
    <2>4. Len(ring) <= RingLimit /\ RingLimit \in Nat
      BY BoundAssumption DEF IInv, RecordInv
    <2>5. Len(ring') <= RingLimit /\ Len(queue') <= QueueLimit
      BY <1>3, <1>4, <1>7, <1>9, <2>4
    <2>6. QED
      BY <1>4, <1>9, <2>1, <2>2, <2>3, <2>5 DEF RecordInv
  <1>11. KernelInv' /\ PidsInv' /\ TableFollowsProc'
    BY <1>2 DEF IInv, KernelInv, PidsInv, TableFollowsProc, Live, Nothing
  <1>12. QED
    BY <1>10, <1>11 DEF IInv

\* An overflow that is consumed is a hard failure.
LEMMA ConsumePreserves ==
  ASSUME IInv, consume_pending_bpf PROVE IInv'
  <1>1. /\ pc' = "read" /\ queue' = <<>> /\ overflow' = 0 /\ fatal' = (fatal \/ overflow # 0)
        /\ underway' = underway - Len(queue) /\ UNCHANGED <<kernel, bpf, ours>>
    BY DEF consume_pending_bpf
  <1>2. KernelInv' /\ PidsInv'
    BY <1>1 DEF IInv, KernelInv, PidsInv, Live
  <1>3. RecordInv'
    <2>1. /\ ring' \in Seq(OwnRecord) /\ queue' \in Seq(OwnRecord) /\ Len(queue') = 0 /\ Len(queue) \in Nat
          /\ QueueLimit \in Nat
      BY <1>1, BoundAssumption DEF IInv, RecordInv
    <2>2. CASE fatal'
      BY <1>1, <2>1, <2>2 DEF IInv, RecordInv
    <2>3. CASE ~fatal'
      <3>1. ~fatal /\ overflow = 0
        BY <1>1, <2>3
      <3>2. QED
        BY <1>1, <2>1, <3>1 DEF IInv, RecordInv
    <2>4. QED
      BY <2>2, <2>3
  <1>4. TableFollowsProc'
    BY <1>1 DEF TableFollowsProc
  <1>5. QED
    BY <1>2, <1>3, <1>4 DEF IInv

\* A scan that finds no thread is not reconciled.
LEMMA ReadPreserves ==
  ASSUME IInv, read_proc PROVE IInv'
  <1>1. /\ pc' = IF snapshot' = Nothing THEN "consume" ELSE "reconcile"
        /\ UNCHANGED <<kernel, bpf, reader, table, fatal, history>>
    BY DEF read_proc
  <1>2. KernelInv' /\ PidsInv' /\ RecordInv'
    BY <1>1 DEF IInv, KernelInv, PidsInv, RecordInv, Live
  <1>3. TableFollowsProc'
    BY <1>1 DEF TableFollowsProc, Nothing
  <1>4. QED
    BY <1>2, <1>3 DEF IInv

\* A record that is kept has the generation that was seen.
LEMMA ReconcilePreserves ==
  ASSUME IInv, reconcile_and_sample PROVE IInv'
  <1>1. /\ UNCHANGED <<kernel, bpf, reader, snapshot, fatal, history>>
        /\ lifecycle' = [t \in DOMAIN snapshot |->
                           IF Fresh(t) \/ lifecycle[t] = 0 THEN snapshot[t] ELSE lifecycle[t]]
    BY DEF reconcile_and_sample
  <1>2. KernelInv' /\ PidsInv' /\ RecordInv'
    BY <1>1 DEF IInv, KernelInv, PidsInv, RecordInv, Live
  <1>3. TableFollowsProc'
    BY <1>1 DEF TableFollowsProc, Fresh
  <1>4. QED
    BY <1>2, <1>3 DEF IInv
-----------------------------------------------------------------------------
(***************************************************************************)
(* The theorems                                                            *)
(***************************************************************************)
\* At first there is the root, registered without a start time.
LEMMA InitEstablishes == Init => IInv
  <1> SUFFICES ASSUME Init PROVE IInv
    OBVIOUS
  <1>1. Live = {Root}
    BY RootAssumption DEF Init, Live
  <1>2. KernelInv
    BY <1>1, RootAssumption, BoundAssumption DEF Init, KernelInv
  <1>3. DOMAIN pids = {Root} /\ pids[Root] = 0
    BY DEF Init, With, Nothing
  <1>4. PidsInv
    BY <1>3, RootAssumption DEF Init, PidsInv
  <1>5. RecordInv
    BY BoundAssumption DEF Init, RecordInv
  <1>6. TableFollowsProc
    BY DEF Init, TableFollowsProc
  <1>7. QED
    BY <1>2, <1>4, <1>5, <1>6 DEF IInv

\* The inductive invariant: whatever the kernel starts, ends and reuses between the
\* steps of the reader and the worker, generations identify tasks, entries of the
\* pids map identify processes of the target, and the counts of records add up.
THEOREM Inductive == Spec => []IInv
  <1>1. IInv /\ [Next]_vars => IInv'
    <2> SUFFICES ASSUME IInv, [Next]_vars PROVE IInv'
      OBVIOUS
    <2>1. CASE Task
      BY <2>1, ForkPreserves, ForeignPreserves, ExecPreserves, ExitPreserves, ReapPreserves,
         AffinityPreserves DEF Task
    <2>2. CASE Runtime
      BY <2>2, DrainPreserves, ConsumePreserves, ReadPreserves, ReconcilePreserves DEF Runtime
    <2>3. CASE UNCHANGED vars
      BY <2>3 DEF vars, IInv, KernelInv, PidsInv, RecordInv, TableFollowsProc, Live, Nothing
    <2>4. QED
      BY <2>1, <2>2, <2>3 DEF Next
  <1>2. QED
    BY <1>1, InitEstablishes, PTL DEF Spec

\* Only the target's tasks report, however often ids are reused: tracked_task compares
\* the start time of the process with the one the pids map has for its id.
THEOREM OnlyTargets == Spec => []OnlyTargetsReport
  <1>1. IInv => OnlyTargetsReport
    <2> SUFFICES ASSUME IInv, NEW s \in {ring, queue}, NEW r \in Range(s) PROVE r.mine
      BY DEF OnlyTargetsReport
    <2>1. s \in Seq(OwnRecord)
      BY DEF IInv, RecordInv
    <2>2. r \in OwnRecord
      BY <2>1 DEF Range
    <2>3. QED
      BY <2>2 DEF OwnRecord
  <1>2. QED
    BY <1>1, Inductive, PTL

\* A record that the ring has accepted is handled, on its way, or counted as overflow
\* that the next consume_pending_bpf turns into a hard failure, for any ring and queue.
THEOREM EventsAccounted == Spec => []EventsAreAccounted
  <1>1. IInv => EventsAreAccounted
    BY DEF IInv, RecordInv, EventsAreAccounted
  <1>2. QED
    BY <1>1, Inductive, PTL

\* After reconcile_and_sample the thread table is what /proc showed, whatever the
\* handlers made of late, lost and reordered events before.
THEOREM TableExact == Spec => []TableFollowsProc
  <1>1. IInv => TableFollowsProc
    BY DEF IInv
  <1>2. QED
    BY <1>1, Inductive, PTL
-----------------------------------------------------------------------------
(***************************************************************************)
(* The worker's tables                                                     *)
(***************************************************************************)
Partial(S) == UNION {[D -> S] : D \in SUBSET Tid}

TableType == [targets : SUBSET Tid, life : Partial(0..MaxGen), pending : Partial(1..MaxCalls),
              restore : Partial(1..MaxCalls)]

\* The tables have their types, and so has what the worker is about to put in them.
TableInv ==
    /\ Tables \in TableType /\ snapshot \in Partial(0..MaxGen) /\ declared \in Partial(1..MaxCalls)
    /\ pc \in {"consume", "read", "reconcile"} /\ fatal \in BOOLEAN /\ dropped \in BOOLEAN

\* What belongs to Partial(S).
LEMMA PartialIs ==
  ASSUME NEW S, NEW f
  PROVE  f \in Partial(S) <=> /\ f = [x \in DOMAIN f |-> f[x]] /\ DOMAIN f \subseteq Tid
                              /\ \A t \in DOMAIN f : f[t] \in S
  BY DEF Partial

\* An entry of the right type keeps the type of a table.
LEMMA WithTyped ==
  ASSUME NEW S, NEW f \in Partial(S), NEW t \in Tid, NEW v \in S
  PROVE  With(f, t, v) \in Partial(S)
  <1>1. DOMAIN f \subseteq Tid /\ \A x \in DOMAIN f : f[x] \in S
    BY PartialIs, Zenon
  <1>2. With(f, t, v) \in [DOMAIN f \cup {t} -> S]
    BY <1>1 DEF With
  <1>3. DOMAIN f \cup {t} \in SUBSET Tid
    BY <1>1
  <1> QED
    BY <1>2, <1>3 DEF Partial

\* A table without some of its entries keeps its type.
LEMMA WithoutTyped ==
  ASSUME NEW S, NEW f \in Partial(S), NEW X
  PROVE  Without(f, X) \in Partial(S)
  <1>1. DOMAIN f \subseteq Tid /\ \A x \in DOMAIN f : f[x] \in S
    BY PartialIs, Zenon
  <1>2. Without(f, X) \in [DOMAIN f \ X -> S]
    BY <1>1 DEF Without
  <1>3. DOMAIN f \ X \in SUBSET Tid
    BY <1>1
  <1> QED
    BY <1>2, <1>3 DEF Partial

\* The fields of an event.
LEMMA EventFields ==
  ASSUME NEW e \in Event
  PROVE  /\ e.kind \in {"FORK", "EXEC", "EXIT", "AFFINITY"}
         /\ e.kind \in {"FORK", "EXIT", "AFFINITY"} => e.tid \in Tid
         /\ e.kind \in {"FORK", "EXEC"} => e.tgid \in Tid
         /\ e.kind = "AFFINITY" => e.mask \in 1..MaxCalls
  BY DEF Event

\* What each handler makes of the tables, in terms of their fields.
LEMMA HandlerShapes ==
  ASSUME NEW s \in TableType, NEW e \in Event
  PROVE  /\ e.kind = "FORK" => handle_bpf_event(s, e) =
              [targets |-> s.targets \cup {e.tgid}, life |-> With(s.life, e.tid, 0),
               pending |-> s.pending, restore |-> s.restore]
         /\ e.kind = "EXEC" => handle_bpf_event(s, e) =
              [targets |-> s.targets \cup {e.tgid}, life |-> s.life,
               pending |-> s.pending, restore |-> s.restore]
         /\ e.kind = "EXIT" => handle_bpf_event(s, e) =
              [targets |-> s.targets, life |-> Without(s.life, {e.tid}),
               pending |-> Without(s.pending, {e.tid}), restore |-> s.restore]
         /\ e.kind = "AFFINITY" /\ e.tid \in DOMAIN s.life => handle_bpf_event(s, e) =
              [targets |-> s.targets, life |-> s.life,
               pending |-> s.pending, restore |-> With(s.restore, e.tid, e.mask)]
         /\ e.kind = "AFFINITY" /\ e.tid \notin DOMAIN s.life => handle_bpf_event(s, e) =
              [targets |-> s.targets, life |-> s.life,
               pending |-> With(s.pending, e.tid, e.mask), restore |-> s.restore]
  BY DEF TableType, handle_bpf_event, thread_started, thread_exited, application_affinity

\* Tables of the right types are a TableType.
LEMMA TableRecord ==
  ASSUME NEW a \in SUBSET Tid, NEW b \in Partial(0..MaxGen), NEW c \in Partial(1..MaxCalls),
         NEW d \in Partial(1..MaxCalls)
  PROVE  [targets |-> a, life |-> b, pending |-> c, restore |-> d] \in TableType
  BY Zenon DEF TableType

\* The handlers keep the types of the tables.
LEMMA HandlerTyped ==
  ASSUME NEW s \in TableType, NEW e \in Event
  PROVE  handle_bpf_event(s, e) \in TableType
  <1>1. /\ s.targets \in SUBSET Tid /\ s.life \in Partial(0..MaxGen)
        /\ s.pending \in Partial(1..MaxCalls) /\ s.restore \in Partial(1..MaxCalls)
    BY Zenon DEF TableType
  <1>2. 0 \in 0..MaxGen
    BY BoundAssumption
  <1>3. CASE e.kind = "FORK"
    <2>1. With(s.life, e.tid, 0) \in Partial(0..MaxGen) /\ s.targets \cup {e.tgid} \in SUBSET Tid
      BY <1>1, <1>2, <1>3, EventFields, WithTyped
    <2>2. handle_bpf_event(s, e) = [targets |-> s.targets \cup {e.tgid}, life |-> With(s.life, e.tid, 0),
                                   pending |-> s.pending, restore |-> s.restore]
      BY <1>3, HandlerShapes, Zenon
    <2>3. [targets |-> s.targets \cup {e.tgid}, life |-> With(s.life, e.tid, 0),
                                   pending |-> s.pending, restore |-> s.restore] \in TableType
      BY <1>1, <2>1, TableRecord, Zenon
    <2> QED
      BY <2>2, <2>3
  <1>4. CASE e.kind = "EXEC"
    <2>1. s.targets \cup {e.tgid} \in SUBSET Tid
      BY <1>1, <1>4, EventFields
    <2>2. handle_bpf_event(s, e) = [targets |-> s.targets \cup {e.tgid}, life |-> s.life,
                                   pending |-> s.pending, restore |-> s.restore]
      BY <1>4, HandlerShapes, Zenon
    <2>3. [targets |-> s.targets \cup {e.tgid}, life |-> s.life,
                                   pending |-> s.pending, restore |-> s.restore] \in TableType
      BY <1>1, <2>1, TableRecord, Zenon
    <2> QED
      BY <2>2, <2>3
  <1>5. CASE e.kind = "EXIT"
    <2>1. handle_bpf_event(s, e) = [targets |-> s.targets, life |-> Without(s.life, {e.tid}),
                                   pending |-> Without(s.pending, {e.tid}), restore |-> s.restore]
      BY <1>5, HandlerShapes, Zenon
    <2>2. [targets |-> s.targets, life |-> Without(s.life, {e.tid}),
                                   pending |-> Without(s.pending, {e.tid}), restore |-> s.restore] \in TableType
      BY <1>1, WithoutTyped, TableRecord, Zenon
    <2> QED
      BY <2>1, <2>2
  <1>6. CASE e.kind = "AFFINITY"
    <2>1. e.tid \in Tid /\ e.mask \in 1..MaxCalls
      BY <1>6, EventFields
    <2>2. With(s.restore, e.tid, e.mask) \in Partial(1..MaxCalls) /\ With(s.pending, e.tid, e.mask) \in Partial(1..MaxCalls)
      BY <1>1, <2>1, WithTyped
    <2>3. CASE e.tid \in DOMAIN s.life
      <3>1. handle_bpf_event(s, e) = [targets |-> s.targets, life |-> s.life, pending |-> s.pending,
                                     restore |-> With(s.restore, e.tid, e.mask)]
        BY <1>6, <2>3, HandlerShapes, Zenon
      <3>2. [targets |-> s.targets, life |-> s.life, pending |-> s.pending,
             restore |-> With(s.restore, e.tid, e.mask)] \in TableType
        BY <1>1, <2>2, TableRecord, Zenon
      <3> QED
        BY <3>1, <3>2
    <2>4. CASE e.tid \notin DOMAIN s.life
      <3>1. handle_bpf_event(s, e) = [targets |-> s.targets, life |-> s.life,
                                     pending |-> With(s.pending, e.tid, e.mask), restore |-> s.restore]
        BY <1>6, <2>4, HandlerShapes, Zenon
      <3>2. [targets |-> s.targets, life |-> s.life, pending |-> With(s.pending, e.tid, e.mask),
             restore |-> s.restore] \in TableType
        BY <1>1, <2>2, TableRecord, Zenon
      <3> QED
        BY <3>1, <3>2
    <2> QED
      BY <2>3, <2>4
  <1> QED
    BY <1>3, <1>4, <1>5, <1>6, EventFields

\* A pass goes through g, from the tables s that it starts with.
Passes(g, s, kinds) ==
    /\ g[0] = s /\ \A n \in 1..Len(queue) : g[n] = Turn(g[n - 1], queue[n].event, kinds)
    /\ Pass(s, kinds) = g[Len(queue)]

\* A record of the queue is an event.
LEMMA QueuedEvent ==
  ASSUME queue \in Seq(OwnRecord), NEW n \in 1..Len(queue)
  PROVE  queue[n].event \in Event
  <1>1. queue[n] \in OwnRecord
    OBVIOUS
  <1> QED
    BY <1>1 DEF OwnRecord

\* One event keeps the types of the tables.
LEMMA TurnTyped ==
  ASSUME NEW x \in TableType, NEW e \in Event, NEW kinds
  PROVE  Turn(x, e, kinds) \in TableType
  BY HandlerTyped, Zenon DEF Turn

\* The tables have their types if every one of them has.
LEMMA TablesAre ==
  Tables \in TableType <=> /\ target_tgids \in SUBSET Tid /\ lifecycle \in Partial(0..MaxGen)
                           /\ pending_masks \in Partial(1..MaxCalls) /\ restore_masks \in Partial(1..MaxCalls)
  BY DEF Tables, TableType

\* Nothing is a table of any type.
LEMMA NothingTyped ==
  ASSUME NEW S PROVE Nothing \in Partial(S)
  BY PartialIs DEF Nothing

\* The worker takes a sample.
LEMMA ReadTyped ==
  ASSUME IInv, TableInv, read_proc PROVE TableInv'
  <1> DEFINE D == {u \in Live : \E p \in target_tgids \cap Live : tgid[u] = tgid[p]}
  <1>1. /\ snapshot' = [t \in D |-> gen[t]] /\ UNCHANGED <<table, fatal, dropped, declared>>
        /\ pc' = IF snapshot' = Nothing THEN "consume" ELSE "reconcile"
    BY Zenon DEF read_proc
  <1>2. \A t \in Live : t \in Tid /\ gen[t] \in 0..MaxGen
    BY BoundAssumption DEF IInv, KernelInv, Live
  <1>3. D \in SUBSET Tid /\ \A t \in D : gen[t] \in 0..MaxGen
    BY <1>2, Zenon
  <1> HIDE DEF D
  <1>4. snapshot' \in Partial(0..MaxGen)
    <2> DEFINE f == [t \in D |-> gen[t]]
    <2>1. DOMAIN f = D /\ \A t \in D : f[t] = gen[t]
      OBVIOUS
    <2>2. f = [t \in DOMAIN f |-> f[t]]
      OBVIOUS
    <2> HIDE DEF f
    <2>3. f \in Partial(0..MaxGen)
      BY <1>3, <2>1, <2>2, PartialIs
    <2> QED
      BY <1>1, <2>3, Zenon DEF f
  <1>5. Tables' = Tables
    BY <1>1, Zenon DEF Tables
  <1>6. pc' \in {"consume", "read", "reconcile"}
    BY <1>1, Zenon
  <1> QED
    BY <1>1, <1>4, <1>5, <1>6, Zenon DEF TableInv

\* The worker reconciles its tables with the sample.
LEMMA ReconcileTyped ==
  ASSUME IInv, TableInv, reconcile_and_sample PROVE TableInv'
  <1> DEFINE seen == DOMAIN snapshot
             due == DOMAIN pending_masks \cap seen
  <1>1. /\ pc' = "consume" /\ UNCHANGED <<snapshot, fatal, dropped, declared>>
        /\ target_tgids' = target_tgids \cap seen
        /\ lifecycle' = [t \in seen |-> IF Fresh(t) \/ lifecycle[t] = 0 THEN snapshot[t] ELSE lifecycle[t]]
        /\ restore_masks' = [t \in DOMAIN restore_masks \cup due |->
                               IF t \in due THEN pending_masks[t] ELSE restore_masks[t]]
        /\ pending_masks' = Without(pending_masks, seen)
    BY Zenon DEF reconcile_and_sample
  <1>2. /\ target_tgids \in SUBSET Tid /\ lifecycle \in Partial(0..MaxGen)
        /\ pending_masks \in Partial(1..MaxCalls) /\ restore_masks \in Partial(1..MaxCalls)
        /\ snapshot \in Partial(0..MaxGen)
    BY TablesAre, Zenon DEF TableInv
  <1>3. seen \subseteq Tid /\ \A t \in seen : snapshot[t] \in 0..MaxGen
    BY <1>2, PartialIs, Zenon
  <1>4. \A t \in seen : ~(Fresh(t) \/ lifecycle[t] = 0) => lifecycle[t] \in 0..MaxGen
    BY <1>2, PartialIs, Zenon DEF Fresh
  <1>5. lifecycle' \in Partial(0..MaxGen)
    <2> HIDE DEF seen
    <2>1. lifecycle' \in [seen -> 0..MaxGen]
      BY <1>1, <1>3, <1>4
    <2> QED
      BY <1>3, <2>1, Zenon DEF Partial
  <1>6. /\ DOMAIN restore_masks \cup due \subseteq Tid
        /\ \A t \in due : pending_masks[t] \in 1..MaxCalls
        /\ \A t \in DOMAIN restore_masks : restore_masks[t] \in 1..MaxCalls
    BY <1>2, PartialIs, Zenon
  <1>7. restore_masks' \in Partial(1..MaxCalls)
    <2> HIDE DEF due
    <2>1. restore_masks' \in [DOMAIN restore_masks \cup due -> 1..MaxCalls]
      BY <1>1, <1>6
    <2> QED
      BY <1>6, <2>1, Zenon DEF Partial
  <1>8. pending_masks' \in Partial(1..MaxCalls)
    BY <1>1, <1>2, WithoutTyped, Zenon
  <1>9. target_tgids' \in SUBSET Tid
    BY <1>1, <1>2
  <1>10. Tables' \in TableType
    BY <1>5, <1>7, <1>8, <1>9, Zenon DEF Tables, TableType
  <1> QED
    BY <1>1, <1>10, Zenon DEF TableInv

\* The last masks that the target has asked for.
LEMMA DeclaredTyped ==
  ASSUME IInv, TableInv, NEW t \in Tid, NEW u \in Tid, Reap(t) \/ on_sched_setaffinity(t, u)
  PROVE  declared' \in Partial(1..MaxCalls)
  <1>1. CASE Reap(t)
    BY <1>1, WithoutTyped, Zenon DEF Reap, TableInv
  <1>2. CASE on_sched_setaffinity(t, u)
    <2>1. calls < MaxCalls /\ calls' = calls + 1 /\ declared' = With(declared, u, calls')
      BY <1>2, Zenon DEF on_sched_setaffinity
    <2>2. calls' \in 1..MaxCalls
      <3>1. calls \in 0..MaxCalls /\ MaxCalls \in Nat
        BY BoundAssumption, Zenon DEF IInv, KernelInv
      <3> QED
        BY <2>1, <3>1
    <2> QED
      BY <2>1, <2>2, WithTyped, Zenon DEF TableInv
  <1> QED
    BY <1>1, <1>2

\* The kernel's steps leave the worker's tables alone.
LEMMA TaskTyped ==
  ASSUME IInv, TableInv, Task PROVE TableInv'
  <1> DEFINE Kept == UNCHANGED worker /\ dropped' \in BOOLEAN /\ declared' \in Partial(1..MaxCalls)
  <1>1. ASSUME NEW t, NEW e, Report(t, e) PROVE dropped' \in BOOLEAN
    BY <1>1, Zenon DEF Report, emit_event, TableInv
  <1>2. ASSUME NEW p \in Tid, NEW t \in Tid, on_fork(p, t) PROVE Kept
    <2>1. PICK group \in {tgid[p], t} : Start(t, group, gen[p] \in ours)
            /\ Report(p, [kind |-> "FORK", tid |-> t, tgid |-> group])
      BY <1>2, Zenon DEF on_fork
    <2> QED
      BY <1>1, <2>1, Zenon DEF Start, TableInv
  <1>3. ASSUME NEW t \in Tid, ForeignStart(t) PROVE Kept
    BY <1>3, Zenon DEF ForeignStart, Start, TableInv
  <1>4. ASSUME NEW t \in Tid, on_exec(t) PROVE Kept
    BY <1>1, <1>4, Zenon DEF on_exec, TableInv
  <1>5. ASSUME NEW t \in Tid, on_exit(t) PROVE Kept
    BY <1>1, <1>5, Zenon DEF on_exit, TableInv
  <1>6. ASSUME NEW t \in Tid, Reap(t) PROVE Kept
    <2>1. UNCHANGED <<worker, dropped>>
      BY <1>6, Zenon DEF Reap
    <2> QED
      BY <1>6, <2>1, DeclaredTyped, Zenon DEF TableInv
  <1>7. ASSUME NEW t \in Tid, NEW u \in Tid, on_sched_setaffinity(t, u) PROVE Kept
    <2>1. UNCHANGED worker /\ Report(t, [kind |-> "AFFINITY", tid |-> u, mask |-> calls'])
      BY <1>7, Zenon DEF on_sched_setaffinity
    <2> QED
      BY <1>1, <1>7, <2>1, DeclaredTyped, Zenon
  <1>8. Kept
    BY <1>2, <1>3, <1>4, <1>5, <1>6, <1>7, Zenon DEF Task
  <1>9. Tables' = Tables
    BY <1>8, Zenon DEF Tables
  <1> QED
    BY <1>8, <1>9, Zenon DEF TableInv

\* At first the tables are empty but for the root's process.
LEMMA InitTyped == Init => TableInv
  <1> SUFFICES ASSUME Init PROVE TableInv
    OBVIOUS
  <1>1. /\ target_tgids \in SUBSET Tid /\ lifecycle \in Partial(0..MaxGen) /\ pending_masks \in Partial(1..MaxCalls)
        /\ restore_masks \in Partial(1..MaxCalls) /\ snapshot \in Partial(0..MaxGen) /\ declared \in Partial(1..MaxCalls)
    BY NothingTyped, RootAssumption, Zenon DEF Init
  <1> QED
    BY <1>1, TablesAre, Zenon DEF Init, TableInv

-----------------------------------------------------------------------------
(***************************************************************************)
(* What a batch does for one thread                                        *)
(***************************************************************************)
NotExits == {"FORK", "EXEC", "AFFINITY"}

\* The record r is about the thread t.
IsOf(r, kind, t) == r.event.kind = kind /\ r.event.tid = t

\* One of the first n records of the queue is.
Within(kind, t, n) == \E j \in 1..n : IsOf(queue[j], kind, t)

\* The tables x and y have the same mask of t, waiting or recorded.
SamePending(x, y, t) == (t \in DOMAIN x.pending <=> t \in DOMAIN y.pending)
                        /\ (t \in DOMAIN x.pending => x.pending[t] = y.pending[t])
SameRestore(x, y, t) == (t \in DOMAIN x.restore <=> t \in DOMAIN y.restore)
                        /\ (t \in DOMAIN x.restore => x.restore[t] = y.restore[t])

\* The fields of the worker's tables.
LEMMA RecordFields ==
  ASSUME NEW a, NEW b, NEW c, NEW d, NEW y, y = [targets |-> a, life |-> b, pending |-> c, restore |-> d]
  PROVE  y.targets = a /\ y.life = b /\ y.pending = c /\ y.restore = d
  OBVIOUS

\* What the first pass does at one record.
LEMMA FirstTurn ==
  ASSUME NEW x \in TableType, NEW e \in Event, NEW t, NEW y, y = Turn(x, e, NotExits)
  PROVE  /\ x.targets \subseteq y.targets
         /\ e.kind = "FORK" => e.tgid \in y.targets
         /\ t \in DOMAIN y.life <=> t \in DOMAIN x.life \/ (e.kind = "FORK" /\ e.tid = t)
         /\ ~(e.kind = "AFFINITY" /\ e.tid = t) => SamePending(y, x, t) /\ SameRestore(y, x, t)
         /\ e.kind = "AFFINITY" /\ e.tid = t /\ t \in DOMAIN x.life =>
              t \in DOMAIN y.restore /\ y.restore[t] = e.mask /\ SamePending(y, x, t)
         /\ e.kind = "AFFINITY" /\ e.tid = t /\ t \notin DOMAIN x.life =>
              t \in DOMAIN y.pending /\ y.pending[t] = e.mask
  <1>0. e.kind \in {"FORK", "EXEC", "EXIT", "AFFINITY"}
    BY EventFields, Zenon
  <1>1. CASE e.kind = "FORK"
    <2>1. y = [targets |-> x.targets \cup {e.tgid}, life |-> With(x.life, e.tid, 0),
               pending |-> x.pending, restore |-> x.restore]
      BY <1>1, HandlerShapes, Zenon DEF Turn, NotExits
    <2>2. y.targets = x.targets \cup {e.tgid} /\ y.life = With(x.life, e.tid, 0) /\ y.pending = x.pending
          /\ y.restore = x.restore
      <3> DEFINE A == x.targets \cup {e.tgid}
                 L == With(x.life, e.tid, 0)
      <3>1. y = [targets |-> A, life |-> L, pending |-> x.pending, restore |-> x.restore]
        BY <2>1, Zenon
      <3> HIDE DEF A, L
      <3>2. y.targets = A /\ y.life = L /\ y.pending = x.pending /\ y.restore = x.restore
        BY <3>1
      <3> QED
        BY <3>2, Zenon DEF A, L
    <2>3. DOMAIN y.life = DOMAIN x.life \cup {e.tid}
      BY <2>2 DEF With
    <2> QED
      BY <1>1, <2>2, <2>3 DEF SamePending, SameRestore
  <1>2. CASE e.kind = "EXEC"
    <2>1. y = [targets |-> x.targets \cup {e.tgid}, life |-> x.life,
               pending |-> x.pending, restore |-> x.restore]
      BY <1>2, HandlerShapes, Zenon DEF Turn, NotExits
    <2>2. y.targets = x.targets \cup {e.tgid} /\ y.life = x.life /\ y.pending = x.pending
          /\ y.restore = x.restore
      <3> DEFINE A == x.targets \cup {e.tgid}
      <3>1. y = [targets |-> A, life |-> x.life, pending |-> x.pending, restore |-> x.restore]
        BY <2>1, Zenon
      <3> HIDE DEF A
      <3>2. y.targets = A /\ y.life = x.life /\ y.pending = x.pending /\ y.restore = x.restore
        BY <3>1
      <3> QED
        BY <3>2, Zenon DEF A
    <2> QED
      BY <1>2, <2>2 DEF SamePending, SameRestore
  <1>3. CASE e.kind = "EXIT"
    <2>1. y = x
      BY <1>3 DEF Turn, NotExits
    <2> QED
      BY <1>3, <2>1 DEF SamePending, SameRestore
  <1>4. CASE e.kind = "AFFINITY" /\ e.tid \in DOMAIN x.life
    <2>1. y = [targets |-> x.targets, life |-> x.life, pending |-> x.pending,
               restore |-> With(x.restore, e.tid, e.mask)]
      BY <1>4, HandlerShapes, Zenon DEF Turn, NotExits
    <2>2. y.targets = x.targets /\ y.life = x.life /\ y.pending = x.pending
          /\ y.restore = With(x.restore, e.tid, e.mask)
      BY <2>1
    <2>3. /\ DOMAIN y.restore = DOMAIN x.restore \cup {e.tid} /\ y.restore[e.tid] = e.mask
          /\ \A u \in DOMAIN x.restore : u # e.tid => y.restore[u] = x.restore[u]
      BY <2>2 DEF With
    <2> QED
      BY <1>4, <2>2, <2>3 DEF SamePending, SameRestore
  <1>5. CASE e.kind = "AFFINITY" /\ e.tid \notin DOMAIN x.life
    <2>1. y = [targets |-> x.targets, life |-> x.life, pending |-> With(x.pending, e.tid, e.mask),
               restore |-> x.restore]
      BY <1>5, HandlerShapes, Zenon DEF Turn, NotExits
    <2>2. y.targets = x.targets /\ y.life = x.life /\ y.restore = x.restore
          /\ y.pending = With(x.pending, e.tid, e.mask)
      BY <2>1
    <2>3. /\ DOMAIN y.pending = DOMAIN x.pending \cup {e.tid} /\ y.pending[e.tid] = e.mask
          /\ \A u \in DOMAIN x.pending : u # e.tid => y.pending[u] = x.pending[u]
      BY <2>2 DEF With
    <2> QED
      BY <1>5, <2>2, <2>3 DEF SamePending, SameRestore
  <1> QED
    BY <1>0, <1>1, <1>2, <1>3, <1>4, <1>5, Zenon

\* The mask m of t is recorded, or waits.
Records(y, t, m) == t \in DOMAIN y.restore /\ y.restore[t] = m
Holds(y, t, m) == t \in DOMAIN y.pending /\ y.pending[t] = m

\* A mask is recorded for a thread that has a record.
LEMMA RecordTurn ==
  ASSUME NEW x \in TableType, NEW e \in Event, e.kind = "AFFINITY", e.tid \in DOMAIN x.life
  PROVE  Records(Turn(x, e, NotExits), e.tid, e.mask)
  <1>1. PICK y : y = Turn(x, e, NotExits)
    OBVIOUS
  <1>2. y = [targets |-> x.targets, life |-> x.life, pending |-> x.pending,
             restore |-> With(x.restore, e.tid, e.mask)]
    BY <1>1, HandlerShapes, Zenon DEF Turn, NotExits
  <1>3. y.restore = With(x.restore, e.tid, e.mask)
    BY <1>2, RecordFields, Zenon
  <1>4. Records(y, e.tid, e.mask)
    BY <1>3 DEF With, Records
  <1> QED
    BY <1>1, <1>4, Zenon

\* A mask waits for a thread that has none.
LEMMA WaitTurn ==
  ASSUME NEW x \in TableType, NEW e \in Event, e.kind = "AFFINITY", e.tid \notin DOMAIN x.life
  PROVE  Holds(Turn(x, e, NotExits), e.tid, e.mask)
  <1>1. PICK y : y = Turn(x, e, NotExits)
    OBVIOUS
  <1>2. y = [targets |-> x.targets, life |-> x.life, pending |-> With(x.pending, e.tid, e.mask),
             restore |-> x.restore]
    BY <1>1, HandlerShapes, Zenon DEF Turn, NotExits
  <1>3. y.pending = With(x.pending, e.tid, e.mask)
    BY <1>2, RecordFields, Zenon
  <1>4. Holds(y, e.tid, e.mask)
    BY <1>3 DEF With, Holds
  <1> QED
    BY <1>1, <1>4, Zenon

\* What the second pass does at one record.
LEMMA SecondTurn ==
  ASSUME NEW x \in TableType, NEW e \in Event, NEW t, NEW y, y = Turn(x, e, {"EXIT"})
  PROVE  /\ y.targets = x.targets /\ y.restore = x.restore
         /\ e.kind = "EXIT" /\ e.tid = t => t \notin DOMAIN y.pending
         /\ ~(e.kind = "EXIT" /\ e.tid = t) => SamePending(y, x, t)
  <1>1. CASE e.kind = "EXIT"
    <2>1. y = [targets |-> x.targets, life |-> Without(x.life, {e.tid}),
               pending |-> Without(x.pending, {e.tid}), restore |-> x.restore]
      BY <1>1, HandlerShapes, Zenon DEF Turn
    <2>2. y.targets = x.targets /\ y.restore = x.restore /\ y.pending = Without(x.pending, {e.tid})
      BY <2>1
    <2>3. /\ DOMAIN y.pending = DOMAIN x.pending \ {e.tid}
          /\ \A u \in DOMAIN x.pending \ {e.tid} : y.pending[u] = x.pending[u]
      BY <2>2 DEF Without
    <2> QED
      BY <1>1, <2>2, <2>3 DEF SamePending
  <1>2. CASE e.kind # "EXIT"
    <2>1. y = x
      BY <1>2, Zenon DEF Turn
    <2> QED
      BY <1>2, <2>1 DEF SamePending
  <1> QED
    BY <1>1, <1>2

\* The first pass, up to its n-th record: targets and records of threads are only added,
\* and a mask that waits was waiting, or came for a thread that had no record.
FirstUpTo(g, t, n) ==
    /\ g[0].targets \subseteq g[n].targets
    /\ \A j \in 1..n : queue[j].event.kind = "FORK" => queue[j].event.tgid \in g[n].targets
    /\ t \in DOMAIN g[n].life <=> t \in DOMAIN g[0].life \/ Within("FORK", t, n)
    /\ t \in DOMAIN g[n].pending =>
         t \in DOMAIN g[0].pending
         \/ \E j \in 1..n : IsOf(queue[j], "AFFINITY", t) /\ t \notin DOMAIN g[j - 1].life

\* The records up to the n-th are those before it, and the n-th.
LEMMA WithinSplits ==
  ASSUME NEW n \in Nat, n # 0, NEW kind, NEW t
  PROVE  Within(kind, t, n) <=> Within(kind, t, n - 1) \/ IsOf(queue[n], kind, t)
  <1>1. \A j : j \in 1..n <=> j \in 1..(n - 1) \/ j = n
    OBVIOUS
  <1> QED
    BY <1>1, Zenon DEF Within

\* The second pass: a mask that waits goes with an exit of its thread, and no other.
SecondUpTo(g, t, n) ==
    /\ g[n].targets = g[0].targets /\ g[n].restore = g[0].restore
    /\ Within("EXIT", t, n) => t \notin DOMAIN g[n].pending
    /\ ~Within("EXIT", t, n) => SamePending(g[n], g[0], t)

-----------------------------------------------------------------------------
(***************************************************************************)
(* The records that no handler has seen, in the order of their events      *)
(***************************************************************************)
stream == queue \o ring

\* A record after the i-th is of this kind and about the thread t.
After(s, kind, t, i) == \E j \in DOMAIN s : j > i /\ IsOf(s[j], kind, t)

\* The stream s2 is s with the record r.
Grows(s, s2, r) ==
    /\ Len(s) \in Nat /\ DOMAIN s = 1..Len(s) /\ DOMAIN s2 = 1..(Len(s) + 1)
    /\ s2[Len(s) + 1] = r /\ \A i \in DOMAIN s : s2[i] = s[i]

\* The stream is the queue and then the ring.
LEMMA StreamIs ==
  ASSUME queue \in Seq(OwnRecord), ring \in Seq(OwnRecord)
  PROVE  /\ stream \in Seq(OwnRecord) /\ Len(stream) = Len(queue) + Len(ring) /\ DOMAIN stream = 1..Len(stream)
         /\ \A i \in 1..Len(queue) : i \in DOMAIN stream /\ stream[i] = queue[i]
         /\ \A i \in 1..Len(ring) : Len(queue) + i \in DOMAIN stream /\ stream[Len(queue) + i] = ring[i]
  BY DEF stream

\* A report that is not lost is the last record of the stream.
LEMMA StreamGrows ==
  ASSUME queue \in Seq(OwnRecord), ring \in Seq(OwnRecord), NEW r \in OwnRecord,
         queue' = queue, ring' = Append(ring, r)
  PROVE  Grows(stream, stream', r)
  BY DEF stream, Grows

\* What is after a record when the stream has grown.
LEMMA AfterGrows ==
  ASSUME NEW s, NEW s2, NEW r, Grows(s, s2, r), NEW kind, NEW t
  PROVE  /\ \A i \in 0..Len(s) : After(s2, kind, t, i) <=> After(s, kind, t, i) \/ IsOf(r, kind, t)
         /\ ~After(s2, kind, t, Len(s) + 1)
         /\ \A i \in DOMAIN s : i \in 0..Len(s) /\ i \in DOMAIN s2 /\ s2[i] = s[i]
         /\ \A i \in DOMAIN s2 : i \in DOMAIN s \/ i = Len(s) + 1
         /\ Len(s) + 1 \in DOMAIN s2 /\ s2[Len(s) + 1] = r
  <1> DEFINE N == Len(s)
  <1>0. N \in Nat /\ DOMAIN s = 1..N /\ DOMAIN s2 = 1..(N + 1) /\ s2[N + 1] = r /\ \A i \in DOMAIN s : s2[i] = s[i]
    BY Zenon DEF Grows
  <1> HIDE DEF N
  <1>1. /\ \A i \in DOMAIN s2 : i \in DOMAIN s \/ i = N + 1
        /\ \A i \in DOMAIN s : i \in 0..N /\ i \in DOMAIN s2
        /\ \A i \in 0..N : N + 1 > i
        /\ \A i \in DOMAIN s2 : ~(i > N + 1)
        /\ N + 1 \in DOMAIN s2
    BY <1>0
  <1>2. ASSUME NEW i \in 0..N PROVE After(s2, kind, t, i) <=> After(s, kind, t, i) \/ IsOf(r, kind, t)
    BY <1>0, <1>1, Zenon DEF After
  <1>3. ~After(s2, kind, t, N + 1)
    BY <1>1, Zenon DEF After
  <1> QED
    BY <1>0, <1>1, <1>2, <1>3, Zenon DEF N

\* What is after a record of the ring was after it in the stream.
LEMMA AfterInRing ==
  ASSUME queue \in Seq(OwnRecord), ring \in Seq(OwnRecord), NEW kind, NEW t
  PROVE  \A i \in 0..Len(ring) : After(ring, kind, t, i) <=> After(stream, kind, t, Len(queue) + i)
  <1> DEFINE q == Len(queue)
             N == Len(ring)
  <1>0. /\ q \in Nat /\ N \in Nat /\ DOMAIN ring = 1..N /\ DOMAIN stream = 1..(q + N)
        /\ \A i \in 1..N : stream[q + i] = ring[i]
    BY StreamIs
  <1> HIDE DEF q, N
  <1>1. ASSUME NEW i \in 0..N, After(ring, kind, t, i) PROVE After(stream, kind, t, q + i)
    <2>1. PICK j \in DOMAIN ring : j > i /\ IsOf(ring[j], kind, t)
      BY <1>1, Zenon DEF After
    <2>2. q + j \in DOMAIN stream /\ q + j > q + i /\ stream[q + j] = ring[j]
      BY <1>0, <2>1
    <2> QED
      BY <2>1, <2>2, Zenon DEF After
  <1>2. ASSUME NEW i \in 0..N, After(stream, kind, t, q + i) PROVE After(ring, kind, t, i)
    <2>1. PICK j \in DOMAIN stream : j > q + i /\ IsOf(stream[j], kind, t)
      BY <1>2, Zenon DEF After
    <2>2. j - q \in DOMAIN ring /\ j - q > i /\ q + (j - q) = j
      BY <1>0, <2>1
    <2>3. stream[j] = ring[j - q]
      BY <1>0, <2>2
    <2> QED
      BY <2>1, <2>2, <2>3, Zenon DEF After
  <1> QED
    BY <1>1, <1>2, Zenon DEF q, N

\* Records that go from the front of one sequence to the end of another stay in their order.
LEMMA SplitAnywhere ==
  ASSUME NEW S, NEW a \in Seq(S), NEW b \in Seq(S), NEW n \in 1..Len(b)
  PROVE  (a \o SubSeq(b, 1, n)) \o SubSeq(b, n + 1, Len(b)) = a \o b
  <1> DEFINE c == SubSeq(b, 1, n)
             d == SubSeq(b, n + 1, Len(b))
  <1>1. c \in Seq(S) /\ Len(c) = n /\ \A i \in 1..n : c[i] = b[i]
    OBVIOUS
  <1>2. d \in Seq(S) /\ Len(d) = Len(b) - n /\ \A i \in 1..(Len(b) - n) : d[i] = b[n + i]
    OBVIOUS
  <1> HIDE DEF c, d
  <1>3. \A x, y \in Seq(S) : /\ x \o y \in Seq(S) /\ Len(x \o y) = Len(x) + Len(y)
                              /\ \A i \in 1..(Len(x) + Len(y)) : (x \o y)[i] = IF i <= Len(x) THEN x[i] ELSE y[i - Len(x)]
    OBVIOUS
  <1> DEFINE p == a \o c
             l == p \o d
             r == a \o b
             A == Len(a)
             B == Len(b)
  <1>4. A \in Nat /\ B \in Nat /\ n \in Nat /\ n <= B
    OBVIOUS
  <1>5. /\ p \in Seq(S) /\ Len(p) = A + n
        /\ \A i \in 1..(A + n) : p[i] = IF i <= A THEN a[i] ELSE c[i - A]
    <2>1. p \in Seq(S) /\ Len(p) = A + Len(c)
          /\ \A i \in 1..(A + Len(c)) : p[i] = IF i <= A THEN a[i] ELSE c[i - A]
      BY <1>1, <1>3, Zenon
    <2> QED
      BY <1>1, <2>1, Zenon
  <1>6. /\ r \in Seq(S) /\ Len(r) = A + B
        /\ \A i \in 1..(A + B) : r[i] = IF i <= A THEN a[i] ELSE b[i - A]
    BY <1>3, Zenon
  <1> HIDE DEF p, r
  <1>7. /\ l \in Seq(S) /\ Len(l) = A + B
        /\ \A i \in 1..(A + B) : l[i] = IF i <= A + n THEN p[i] ELSE d[i - (A + n)]
    <2>1. l \in Seq(S) /\ Len(l) = Len(p) + Len(d)
          /\ \A i \in 1..(Len(p) + Len(d)) : l[i] = IF i <= Len(p) THEN p[i] ELSE d[i - Len(p)]
      BY <1>2, <1>3, <1>5, Zenon
    <2>2. Len(p) + Len(d) = A + B
      BY <1>2, <1>4, <1>5
    <2> QED
      BY <1>5, <2>1, <2>2, Zenon
  <1> HIDE DEF l, A, B
  <1>8. ASSUME NEW i \in 1..(A + B) PROVE l[i] = r[i]
    <2>1. CASE i <= A
      <3>1. i \in 1..(A + n) /\ i <= A + n
        BY <1>4, <2>1
      <3> QED
        BY <1>5, <1>6, <1>7, <2>1, <3>1, Zenon
    <2>2. CASE ~(i <= A) /\ i <= A + n
      <3>1. i \in 1..(A + n) /\ i - A \in 1..n
        BY <1>4, <2>2
      <3> QED
        BY <1>1, <1>5, <1>6, <1>7, <2>2, <3>1, Zenon
    <2>3. CASE ~(i <= A + n)
      <3>1. ~(i <= A) /\ i - (A + n) \in 1..(B - n) /\ n + (i - (A + n)) = i - A
        BY <1>4, <2>3
      <3>2. l[i] = d[i - (A + n)] /\ r[i] = b[i - A]
        BY <1>6, <1>7, <2>3, <3>1, Zenon
      <3> QED
        BY <1>2, <3>1, <3>2, Zenon DEF B
    <2> QED
      BY <2>1, <2>2, <2>3, Zenon
  <1>9. l = r
    BY <1>6, <1>7, <1>8
  <1> QED
    BY <1>9, Zenon DEF l, r, p, c, d

\* A batch that has room in the queue moves along the stream and leaves it as it is.
LEMMA DrainKeepsStream ==
  ASSUME IInv, drain_bpf_once, overflow' = 0
  PROVE  stream' = stream /\ overflow = 0
  <1>1. PICK n \in 1..Len(ring) : /\ ring' = Undrained(n) /\ queue' = Queued(n)
                                  /\ overflow' = overflow + Len(queue) + n - Len(queue')
    BY Zenon DEF drain_bpf_once
  <1>2. /\ ring \in Seq(OwnRecord) /\ queue \in Seq(OwnRecord) /\ overflow \in Nat
    BY Zenon DEF IInv, RecordInv
  <1> DEFINE front == SubSeq(ring, 1, n)
             all == queue \o front
  <1>3. /\ Len(ring) \in Nat /\ Len(queue) \in Nat /\ n \in Nat /\ 1 <= n /\ n <= Len(ring)
        /\ front \in Seq(OwnRecord) /\ Len(front) = n /\ all \in Seq(OwnRecord) /\ Len(all) = Len(queue) + n
    BY <1>1, <1>2
  <1>4. PICK m : m = Min({Len(all), QueueLimit})
    OBVIOUS
  <1>5. queue' = SubSeq(all, 1, m)
    BY <1>1, <1>4 DEF Queued
  <1> HIDE DEF all
  <1>6. m \in Nat /\ m <= Len(all)
    BY <1>3, <1>4, MinOfTwo, BoundAssumption
  <1>7. queue' \in Seq(OwnRecord) /\ Len(queue') = m
    BY <1>3, <1>5, <1>6
  <1>8. m = Len(all) /\ overflow = 0
    BY <1>1, <1>2, <1>3, <1>6, <1>7
  <1>9. queue' = all
    BY <1>3, <1>5, <1>8
  <1>10. stream' = stream
    BY <1>1, <1>2, <1>9, SplitAnywhere, Zenon DEF stream, all, Undrained
  <1> QED
    BY <1>8, <1>10
-----------------------------------------------------------------------------
(***************************************************************************)
(* The kernel's steps as the stream shows them                             *)
(***************************************************************************)
\* The target's running tasks.
Own == {t \in Live \ zombies : gen[t] \in ours}

\* Nothing has been lost.
NoLoss == ~dropped /\ ~fatal /\ overflow = 0

\* Every process of the target is tracked; a mask is one of a task that there is.
OwnInv == /\ \A t \in Live : gen[t] \in ours => tracked_task(tgid[t])
          /\ DOMAIN declared \subseteq Live

\* The tasks of S stay in their processes, and with the masks asked for them.
SameTasks(S) == \A t \in S : /\ tgid'[t] = tgid[t] /\ (t \in DOMAIN declared' <=> t \in DOMAIN declared)
                             /\ t \in DOMAIN declared => declared'[t] = declared[t]

Silent == Own' = Own /\ strangers' = strangers /\ SameTasks(Own) /\ stream' = stream

Noted == /\ Own' = Own /\ strangers' = strangers /\ SameTasks(Own)
         /\ \E r : Grows(stream, stream', r) /\ r.event.kind = "EXEC"

Begins(t) == /\ t \in Tid /\ t \notin Own /\ Own' = Own \cup {t} /\ strangers' = strangers /\ SameTasks(Own)
             /\ t \notin DOMAIN declared'
             /\ \E r : Grows(stream, stream', r) /\ IsOf(r, "FORK", t) /\ r.event.tgid = tgid'[t]

Ends(t) == /\ t \in Tid /\ Own' = Own \ {t} /\ strangers' = strangers /\ SameTasks(Own)
           /\ \E r : Grows(stream, stream', r) /\ IsOf(r, "EXIT", t)

Asks(u) == /\ u \in Tid /\ Own' = Own /\ strangers' = (IF u \in Own THEN strangers ELSE strangers \cup {u})
           /\ SameTasks(Own \ {u}) /\ (u \in Own => tgid'[u] = tgid[u])
           /\ \E r : /\ Grows(stream, stream', r) /\ IsOf(r, "AFFINITY", u)
                     /\ u \in DOMAIN declared' /\ declared'[u] = r.event.mask

\* A step that loses nothing is one of these.
Shown == Silent \/ Noted \/ \E t : Begins(t) \/ Ends(t) \/ Asks(t)

\* A report of a task of the target that is not lost is in the stream; the others do not report.
LEMMA ReportShown ==
  ASSUME IInv, TableInv, OwnInv, NEW t \in Live, NEW e \in Event, Report(t, e), queue' = queue, ~dropped'
  PROVE  /\ dropped = FALSE
         /\ gen[t] \in ours => \E r : Grows(stream, stream', r) /\ r.event = e
         /\ gen[t] \notin ours => stream' = stream
  <1>0. queue \in Seq(OwnRecord) /\ ring \in Seq(OwnRecord) /\ KernelInv /\ PidsInv /\ dropped \in BOOLEAN
    BY Zenon DEF IInv, RecordInv, TableInv
  <1>1. CASE gen[t] \in ours
    <2> DEFINE r == [event |-> e, mine |-> TRUE]
    <2>1. tracked_task(tgid[t])
      BY <1>1, Zenon DEF OwnInv
    <2>2. (gen[t] \in ours) = TRUE
      BY <1>1
    <2>3. emit_event(r)
      BY <2>1, <2>2, Zenon DEF Report
    <2>4. r \in OwnRecord /\ r.event = e
      BY DEF OwnRecord
    <2> HIDE DEF r
    <2>5. ring' = Append(ring, r) /\ dropped' = dropped
      BY <2>3, Zenon DEF emit_event
    <2>6. Grows(stream, stream', r)
      BY <1>0, <2>4, <2>5, StreamGrows, Zenon
    <2> QED
      BY <1>0, <1>1, <2>4, <2>5, <2>6, Zenon
  <1>2. CASE gen[t] \notin ours
    <2>1. ~tracked_task(tgid[t])
      BY <1>0, <1>2, TrackedIsOurs, Zenon
    <2>2. UNCHANGED <<ring, dropped>>
      BY <2>1, Zenon DEF Report
    <2> QED
      BY <1>0, <1>2, <2>2, Zenon DEF stream
  <1> QED
    BY <1>1, <1>2

\* The task t has started in a process.
Started(t, group, mine) ==
    /\ t \notin Live /\ t \notin Own /\ t \notin DOMAIN declared'
    /\ mine => Own' = Own \cup {t}
    /\ ~mine => Own' = Own
    /\ SameTasks(Own) /\ DOMAIN declared' \subseteq Live' /\ strangers' = strangers
    /\ tgid'[t] = group /\ gen'[t] = born'
    /\ \A u \in Live : u # t /\ gen'[u] = gen[u] /\ tgid'[u] = tgid[u] /\ gen[u] # born'

\* The running tasks of the target after a task has started.
LEMMA StartShown ==
  ASSUME IInv, OwnInv, NEW t \in Tid, NEW group \in Tid, NEW mine \in BOOLEAN, Start(t, group, mine)
  PROVE  Started(t, group, mine)
  <1>1. /\ gen[t] = 0 /\ born' = born + 1 /\ gen' = [gen EXCEPT ![t] = born'] /\ tgid' = [tgid EXCEPT ![t] = group]
        /\ ours' = (IF mine THEN ours \cup {born'} ELSE ours) /\ UNCHANGED <<zombies, declared, strangers>>
    BY Zenon DEF Start
  <1>2. /\ gen \in [Tid -> Nat] /\ tgid \in [Tid -> Tid] /\ born \in Nat /\ zombies \subseteq Live
        /\ (\A u \in Tid : gen[u] <= born) /\ \A g \in ours : g <= born
    BY BoundAssumption DEF IInv, KernelInv
  <1>3. /\ t \notin Live /\ gen'[t] = born' /\ tgid'[t] = group /\ born' # 0 /\ born' \notin ours
        /\ Live' = Live \cup {t} /\ Live \subseteq Tid
        /\ \A u \in Live : u # t /\ gen'[u] = gen[u] /\ tgid'[u] = tgid[u] /\ gen[u] # born'
    BY <1>1, <1>2 DEF Live
  <1>4. DOMAIN declared' \subseteq Live' /\ t \notin DOMAIN declared' /\ strangers' = strangers
    BY <1>1, <1>3, Zenon DEF OwnInv
  <1>5. SameTasks(Own) /\ t \notin Own
    BY <1>1, <1>3, Zenon DEF SameTasks, Own
  <1>6. CASE mine
    <2>1. ours' = ours \cup {born'}
      BY <1>1, <1>6
    <2>2. Own' = Own \cup {t}
      BY <1>1, <1>2, <1>3, <2>1 DEF Own
    <2> QED
      BY <1>3, <1>4, <1>5, <1>6, <2>2, Zenon DEF Started
  <1>7. CASE ~mine
    <2>1. ours' = ours
      BY <1>1, <1>7
    <2>2. Own' = Own
      BY <1>1, <1>2, <1>3, <2>1 DEF Own
    <2> QED
      BY <1>3, <1>4, <1>5, <1>7, <2>2, Zenon DEF Started
  <1> QED
    BY <1>6, <1>7

\* A process that is live and tracked stays tracked while its entry and generation stay.
LEMMA TrackedStays ==
  ASSUME NEW p, tracked_task(p), gen'[p] = gen[p], p \in DOMAIN pids', pids'[p] \in {pids[p], gen[p]}
  PROVE  tracked_task(p)'
  <1>1. pids[p] \in {0, gen[p]}
    BY Zenon DEF tracked_task
  <1>2. pids'[p] \in {0, gen'[p]}
    BY <1>1, Zenon
  <1> QED
    BY <1>2, Zenon DEF tracked_task

\* A process of nobody's does not show.
LEMMA ForeignShown ==
  ASSUME IInv, TableInv, OwnInv, NEW t \in Tid, ForeignStart(t)
  PROVE  OwnInv' /\ (NoLoss' => NoLoss /\ Silent)
  <1>1. Start(t, t, FALSE) /\ UNCHANGED <<bpf, reader, fatal>>
    BY Zenon DEF ForeignStart, Start
  <1>2. /\ t \notin Live /\ Own' = Own /\ SameTasks(Own) /\ DOMAIN declared' \subseteq Live' /\ strangers' = strangers
        /\ \A u \in Live : u # t /\ gen'[u] = gen[u] /\ tgid'[u] = tgid[u] /\ gen[u] # born'
        /\ gen'[t] = born'
    BY <1>1, StartShown, Zenon DEF Started
  <1>3. ours' = ours /\ born' \notin ours /\ Live' \subseteq Live \cup {t}
    <2>1. ours' = ours /\ born' = born + 1 /\ gen' = [gen EXCEPT ![t] = born']
      BY <1>1, Zenon DEF Start
    <2> QED
      BY <2>1 DEF IInv, KernelInv, Live
  <1>4. OwnInv'
    <2>1. ASSUME NEW u \in Live', gen'[u] \in ours' PROVE tracked_task(tgid[u])'
      <3>1. u \in Live
        BY <1>2, <1>3, <2>1, Zenon
      <3>2. tracked_task(tgid[u]) /\ tgid[u] \in Live
        BY <1>2, <1>3, <2>1, <3>1, Zenon DEF OwnInv, IInv, KernelInv
      <3>3. gen'[tgid[u]] = gen[tgid[u]] /\ tgid'[u] = tgid[u] /\ pids' = pids
        BY <1>1, <1>2, <3>1, <3>2, Zenon
      <3> QED
        BY <3>2, <3>3, Zenon DEF tracked_task
    <2> QED
      BY <1>2, <2>1, Zenon DEF OwnInv
  <1>5. stream' = stream
    BY <1>1, Zenon DEF stream
  <1>6. NoLoss' => NoLoss
    BY <1>1, Zenon DEF NoLoss
  <1> QED
    BY <1>2, <1>4, <1>5, <1>6, Zenon DEF Silent

\* A task that the target starts shows as a fork.
LEMMA ForkShown ==
  ASSUME IInv, TableInv, OwnInv, NEW p \in Tid, NEW t \in Tid, on_fork(p, t)
  PROVE  OwnInv' /\ (NoLoss' => NoLoss /\ (Silent \/ Begins(t)))
  <1> DEFINE mine == gen[p] \in ours
             e(group) == [kind |-> "FORK", tid |-> t, tgid |-> group]
  <1>0. p \in Live /\ p \notin zombies
    BY Zenon DEF on_fork, Runs
  <1>1. PICK group \in {tgid[p], t} :
          /\ Start(t, group, mine)
          /\ pids' = IF group = t /\ tracked_task(tgid[p]) THEN With(pids, t, born') ELSE pids
          /\ Report(p, e(group))
    BY Zenon DEF on_fork
  <1>2. group \in Tid /\ mine \in BOOLEAN /\ tgid[p] \in Live
    BY <1>0, <1>1 DEF IInv, KernelInv
  <1>3. e(group) \in Event /\ e(group).kind = "FORK" /\ e(group).tid = t /\ e(group).tgid = group
    BY <1>2 DEF Event
  <1>4. UNCHANGED <<reader, fatal>>
    BY <1>1, Zenon DEF Start
  <1>5. /\ t \notin Live /\ t \notin Own /\ t \notin DOMAIN declared' /\ (mine => Own' = Own \cup {t}) /\ (~mine => Own' = Own)
        /\ SameTasks(Own) /\ DOMAIN declared' \subseteq Live' /\ strangers' = strangers
        /\ tgid'[t] = group /\ gen'[t] = born'
        /\ \A u \in Live : u # t /\ gen'[u] = gen[u] /\ tgid'[u] = tgid[u] /\ gen[u] # born'
    <2> HIDE DEF mine
    <2>1. Started(t, group, mine)
      BY <1>1, <1>2, StartShown, Zenon
    <2> QED
      BY <2>1, Zenon DEF Started
  <1>6. /\ Live' \subseteq Live \cup {t} /\ (mine => ours' = ours \cup {born'}) /\ (~mine => ours' = ours)
        /\ born' \notin ours
    <2>1. ours' = (IF mine THEN ours \cup {born'} ELSE ours) /\ born' = born + 1 /\ gen' = [gen EXCEPT ![t] = born']
      BY <1>1, Zenon DEF Start
    <2> QED
      BY <2>1 DEF IInv, KernelInv, Live
  <1>7. OwnInv'
    <2>1. \A q \in DOMAIN pids : q # t => q \in DOMAIN pids' /\ pids'[q] = pids[q]
      BY <1>1 DEF With
    <2>2. ASSUME NEW q \in Live, tracked_task(q) PROVE tracked_task(q)'
      <3>1. q # t /\ gen'[q] = gen[q]
        BY <1>5, <2>2, Zenon
      <3>2. q \in DOMAIN pids
        BY <2>2, Zenon DEF tracked_task
      <3> QED
        BY <2>1, <2>2, <3>1, <3>2, TrackedStays, Zenon
    <2>3. ASSUME NEW u \in Live', gen'[u] \in ours' PROVE tracked_task(tgid[u])'
      <3>1. CASE u \in Live
        <4>1. gen'[u] = gen[u] /\ tgid'[u] = tgid[u] /\ gen[u] \in ours
          BY <1>5, <1>6, <2>3, <3>1, Zenon
        <4>2. tracked_task(tgid[u]) /\ tgid[u] \in Live
          BY <3>1, <4>1, Zenon DEF OwnInv, IInv, KernelInv
        <4>3. tracked_task(tgid[u])' <=> tgid[u] \in DOMAIN pids' /\ pids'[tgid[u]] \in {0, gen'[tgid[u]]}
          BY <4>1, Zenon DEF tracked_task
        <4>4. \A q : q \in Live /\ tracked_task(q) => q \in DOMAIN pids' /\ pids'[q] \in {0, gen'[q]}
          BY <2>2, Zenon DEF tracked_task
        <4> QED
          BY <4>2, <4>3, <4>4, Zenon
      <3>2. CASE u = t
        <4>1. mine /\ tgid'[u] = group
          BY <1>5, <1>6, <2>3, <3>2, Zenon
        <4>2. tracked_task(tgid[p])
          BY <1>0, <4>1, Zenon DEF OwnInv
        <4>3. CASE group = t
          <5>1. pids' = With(pids, t, born')
            BY <1>1, <4>2, <4>3, Zenon
          <5>2. t \in DOMAIN pids' /\ pids'[t] = born'
            BY <5>1 DEF With
          <5> QED
            BY <1>5, <3>2, <4>1, <4>3, <5>2, Zenon DEF tracked_task
        <4>4. CASE group # t
          <5>1. group = tgid[p] /\ pids' = pids
            BY <1>1, <4>4, Zenon
          <5>2. gen'[group] = gen[group]
            BY <1>2, <1>5, <5>1, Zenon
          <5> QED
            BY <4>1, <4>2, <5>1, <5>2, Zenon DEF tracked_task
        <4> QED
          BY <4>3, <4>4
      <3> QED
        BY <1>6, <2>3, <3>1, <3>2, Zenon
    <2> QED
      BY <1>5, <2>3, Zenon DEF OwnInv
  <1>8. ASSUME NoLoss' PROVE NoLoss /\ (Silent \/ Begins(t))
    <2>1. ~dropped' /\ queue' = queue
      BY <1>4, <1>8, Zenon DEF NoLoss
    <2>2. /\ dropped = FALSE
          /\ mine => \E r : Grows(stream, stream', r) /\ r.event = e(group)
          /\ ~mine => stream' = stream
      BY <1>0, <1>1, <1>3, <2>1, ReportShown, Zenon
    <2>3. NoLoss
      BY <1>4, <1>8, <2>2, Zenon DEF NoLoss
    <2>4. CASE mine
      <3>1. PICK r : Grows(stream, stream', r) /\ r.event = e(group)
        BY <2>2, <2>4, Zenon
      <3>2. IsOf(r, "FORK", t) /\ r.event.tgid = tgid'[t]
        BY <1>3, <1>5, <3>1, Zenon DEF IsOf
      <3>3. Begins(t)
        BY <1>5, <2>4, <3>1, <3>2, Zenon DEF Begins
      <3> QED
        BY <2>3, <3>3
    <2>5. CASE ~mine
      BY <1>5, <2>2, <2>3, <2>5, Zenon DEF Silent
    <2> QED
      BY <2>4, <2>5
  <1> QED
    BY <1>7, <1>8, Zenon

\* An exec of the target shows as one; the root's entry gets its generation.
LEMMA ExecShown ==
  ASSUME IInv, TableInv, OwnInv, NEW p \in Tid, on_exec(p)
  PROVE  OwnInv' /\ (NoLoss' => NoLoss /\ (Silent \/ Noted))
  <1> DEFINE e == [kind |-> "EXEC", tgid |-> p]
  <1>1. /\ p \in Live /\ Report(p, e) /\ pids' = (IF pids[p] = 0 THEN With(pids, p, gen[p]) ELSE pids)
        /\ UNCHANGED <<gen, tgid, zombies, reader, fatal, ours, declared, strangers>>
    BY Zenon DEF on_exec
  <1>2. e \in Event /\ e.kind = "EXEC"
    BY DEF Event
  <1>3. Live' = Live /\ Own' = Own /\ SameTasks(Own) /\ strangers' = strangers
    BY <1>1, Zenon DEF Live, Own, SameTasks
  <1>4. OwnInv'
    <2>1. ASSUME NEW q \in DOMAIN pids PROVE q \in DOMAIN pids' /\ pids'[q] \in {pids[q], gen[q]}
      BY <1>1, <2>1 DEF With
    <2>2. ASSUME NEW q, tracked_task(q) PROVE q \in DOMAIN pids' /\ pids'[q] \in {0, gen'[q]}
      <3>1. q \in DOMAIN pids /\ pids[q] \in {0, gen[q]}
        BY <2>2, Zenon DEF tracked_task
      <3> QED
        BY <1>1, <2>1, <3>1, Zenon
    <2>3. ASSUME NEW u \in Live', gen'[u] \in ours' PROVE tracked_task(tgid[u])'
      <3>1. tracked_task(tgid[u])
        BY <1>1, <1>3, <2>3, Zenon DEF OwnInv
      <3>2. tgid'[u] = tgid[u]
        BY <1>1, Zenon
      <3> QED
        BY <2>2, <3>1, <3>2, Zenon DEF tracked_task
    <2> QED
      BY <1>1, <1>3, <2>3, Zenon DEF OwnInv
  <1>5. ASSUME NoLoss' PROVE NoLoss /\ (Silent \/ Noted)
    <2>1. ~dropped' /\ queue' = queue
      BY <1>1, <1>5, Zenon DEF NoLoss
    <2>2. /\ dropped = FALSE
          /\ gen[p] \in ours => \E r : Grows(stream, stream', r) /\ r.event = e
          /\ gen[p] \notin ours => stream' = stream
      BY <1>1, <1>2, <2>1, ReportShown, Zenon
    <2>3. NoLoss
      BY <1>1, <1>5, <2>2, Zenon DEF NoLoss
    <2> HIDE DEF e
    <2> QED
      BY <1>2, <1>3, <2>2, <2>3, Zenon DEF Silent, Noted
  <1> QED
    BY <1>4, <1>5, Zenon

\* The end of a task of the target shows as an exit.
LEMMA ExitShown ==
  ASSUME IInv, TableInv, OwnInv, NEW t \in Tid, on_exit(t)
  PROVE  OwnInv' /\ (NoLoss' => NoLoss /\ (Silent \/ Ends(t)))
  <1> DEFINE e == [kind |-> "EXIT", tid |-> t]
  <1>1. /\ t \in Live /\ Report(t, e) /\ zombies' = zombies \cup {t}
        /\ UNCHANGED <<gen, tgid, pids, reader, fatal, ours, declared, strangers>>
    BY Zenon DEF on_exit, Runs
  <1>2. e \in Event /\ e.kind = "EXIT" /\ e.tid = t
    BY DEF Event
  <1>3. Live' = Live /\ Own' = Own \ {t} /\ SameTasks(Own) /\ strangers' = strangers
    BY <1>1 DEF Live, Own, SameTasks
  <1>4. OwnInv'
    BY <1>1, <1>3, Zenon DEF OwnInv, tracked_task
  <1>5. ASSUME NoLoss' PROVE NoLoss /\ (Silent \/ Ends(t))
    <2>1. ~dropped' /\ queue' = queue
      BY <1>1, <1>5, Zenon DEF NoLoss
    <2>2. /\ dropped = FALSE
          /\ gen[t] \in ours => \E r : Grows(stream, stream', r) /\ r.event = e
          /\ gen[t] \notin ours => stream' = stream
      BY <1>1, <1>2, <2>1, ReportShown, Zenon
    <2>3. NoLoss
      BY <1>1, <1>5, <2>2, Zenon DEF NoLoss
    <2> HIDE DEF e
    <2>4. CASE gen[t] \in ours
      BY <1>2, <1>3, <2>2, <2>3, <2>4, Zenon DEF Ends, IsOf
    <2>5. CASE gen[t] \notin ours
      <3>1. Own' = Own
        BY <1>3, <2>5 DEF Own
      <3> QED
        BY <1>3, <2>2, <2>3, <2>5, <3>1, Zenon DEF Silent
    <2> QED
      BY <2>4, <2>5
  <1> QED
    BY <1>4, <1>5, Zenon

\* A task that is reaped has ended before.
LEMMA ReapShown ==
  ASSUME IInv, TableInv, OwnInv, NEW t \in Tid, Reap(t)
  PROVE  OwnInv' /\ (NoLoss' => NoLoss /\ Silent)
  <1>1. /\ t \in zombies /\ zombies' = zombies \ {t} /\ gen' = [gen EXCEPT ![t] = 0]
        /\ tgid' = [tgid EXCEPT ![t] = t] /\ ours' = ours \ {gen[t]} /\ declared' = Without(declared, {t})
        /\ UNCHANGED <<bpf, reader, fatal, strangers>>
    BY Zenon DEF Reap
  <1>2. /\ gen \in [Tid -> Nat] /\ tgid \in [Tid -> Tid] /\ zombies \subseteq Live
        /\ (\A u, v \in Live : gen[u] = gen[v] => u = v)
        /\ (\A u \in Live : tgid[u] \in Live /\ (tgid[u] = t => u = t))
    BY <1>1, Zenon DEF IInv, KernelInv
  <1>3. /\ Live' = Live \ {t} /\ t \in Live
        /\ \A u \in Live : u # t => gen'[u] = gen[u] /\ tgid'[u] = tgid[u] /\ gen[u] # gen[t]
    BY <1>1, <1>2 DEF Live
  <1>4. DOMAIN declared' = DOMAIN declared \ {t} /\ \A u \in DOMAIN declared \ {t} : declared'[u] = declared[u]
    BY <1>1 DEF Without
  <1>5. Own' = Own /\ t \notin Own
    BY <1>1, <1>3 DEF Own
  <1>6. SameTasks(Own)
    <2>1. \A u \in Own : u \in Live /\ u # t
      BY <1>5, Zenon DEF Own
    <2> QED
      BY <1>3, <1>4, <2>1 DEF SameTasks
  <1>7. OwnInv'
    <2>1. ASSUME NEW u \in Live', gen'[u] \in ours' PROVE tracked_task(tgid[u])'
      <3>1. u \in Live /\ u # t
        BY <1>3, <2>1
      <3>2. gen[u] \in ours /\ tgid[u] \in Live /\ tgid[u] # t
        BY <1>1, <1>2, <1>3, <2>1, <3>1
      <3>3. tracked_task(tgid[u]) /\ gen'[tgid[u]] = gen[tgid[u]] /\ tgid'[u] = tgid[u] /\ pids' = pids
        BY <1>1, <1>3, <3>1, <3>2, Zenon DEF OwnInv
      <3> QED
        BY <3>3, Zenon DEF tracked_task
    <2>2. DOMAIN declared' \subseteq Live'
      BY <1>3, <1>4 DEF OwnInv
    <2> QED
      BY <2>1, <2>2, Zenon DEF OwnInv
  <1>8. stream' = stream /\ (NoLoss' => NoLoss) /\ strangers' = strangers
    BY <1>1, Zenon DEF stream, NoLoss
  <1> QED
    BY <1>5, <1>6, <1>7, <1>8, Zenon DEF Silent

\* A mask that the target asks for shows as one.
LEMMA AffinityShown ==
  ASSUME IInv, TableInv, OwnInv, NEW t \in Tid, NEW u \in Tid, on_sched_setaffinity(t, u)
  PROVE  OwnInv' /\ (NoLoss' => NoLoss /\ Asks(u))
  <1> DEFINE e == [kind |-> "AFFINITY", tid |-> u, mask |-> calls']
  <1>1. /\ t \in Live /\ u \in Live \ zombies /\ tracked_task(tgid[t]) /\ Report(t, e)
        /\ calls < MaxCalls /\ calls' = calls + 1 /\ declared' = With(declared, u, calls')
        /\ strangers' = (IF gen[u] \in ours THEN strangers ELSE strangers \cup {u})
        /\ UNCHANGED <<gen, tgid, zombies, pids, reader, fatal, ours>>
    BY Zenon DEF on_sched_setaffinity, Runs
  <1>2. e \in Event /\ e.kind = "AFFINITY" /\ e.tid = u /\ e.mask = calls'
    <2>1. calls' \in 1..MaxCalls
      <3>1. calls \in 0..MaxCalls /\ MaxCalls \in Nat
        BY BoundAssumption, Zenon DEF IInv, KernelInv
      <3>2. calls < MaxCalls /\ calls' = calls + 1
        BY <1>1, Zenon
      <3> QED
        BY <3>1, <3>2
    <2> QED
      BY <2>1 DEF Event
  <1>3. Live' = Live /\ Own' = Own /\ (u \in Own <=> gen[u] \in ours)
    BY <1>1 DEF Live, Own
  <1>4. /\ DOMAIN declared' = DOMAIN declared \cup {u} /\ declared'[u] = calls'
        /\ \A v \in DOMAIN declared : v # u => declared'[v] = declared[v]
    BY <1>1 DEF With
  <1>5. SameTasks(Own \ {u}) /\ (u \in Own => tgid'[u] = tgid[u]) /\ u \in DOMAIN declared'
    BY <1>1, <1>4 DEF SameTasks
  <1>6. OwnInv'
    <2>1. DOMAIN declared' \subseteq Live'
      BY <1>1, <1>3, <1>4 DEF OwnInv
    <2> QED
      BY <1>1, <1>3, <2>1, Zenon DEF OwnInv, tracked_task
  <1>7. ASSUME NoLoss' PROVE NoLoss /\ Asks(u)
    <2>1. ~dropped' /\ queue' = queue
      BY <1>1, <1>7, Zenon DEF NoLoss
    <2>2. gen[t] \in ours
      BY <1>1, TrackedIsOurs, Zenon DEF IInv
    <2>3. dropped = FALSE /\ \E r : Grows(stream, stream', r) /\ r.event = e
      BY <1>1, <1>2, <2>1, <2>2, ReportShown, Zenon
    <2>4. NoLoss
      BY <1>1, <1>7, <2>3, Zenon DEF NoLoss
    <2>5. strangers' = IF u \in Own THEN strangers ELSE strangers \cup {u}
      BY <1>1, <1>3, Zenon
    <2>6. PICK r : Grows(stream, stream', r) /\ r.event = e
      BY <2>3, Zenon
    <2>7. IsOf(r, "AFFINITY", u) /\ declared'[u] = r.event.mask
      BY <1>2, <1>4, <2>6, Zenon DEF IsOf
    <2>8. Asks(u)
      BY <1>3, <1>5, <2>5, <2>6, <2>7, Zenon DEF Asks
    <2> QED
      BY <2>4, <2>8
  <1> QED
    BY <1>6, <1>7, Zenon

\* What a task does shows in the stream, or does not concern the target.
LEMMA TaskShown ==
  ASSUME IInv, TableInv, OwnInv, Task
  PROVE  OwnInv' /\ (NoLoss' => NoLoss /\ Shown)
  <1>1. ASSUME NEW p \in Tid, NEW t \in Tid, on_fork(p, t) PROVE OwnInv' /\ (NoLoss' => NoLoss /\ Shown)
    BY <1>1, ForkShown, Zenon DEF Shown
  <1>2. ASSUME NEW t \in Tid, ForeignStart(t) PROVE OwnInv' /\ (NoLoss' => NoLoss /\ Shown)
    BY <1>2, ForeignShown, Zenon DEF Shown
  <1>3. ASSUME NEW t \in Tid, on_exec(t) PROVE OwnInv' /\ (NoLoss' => NoLoss /\ Shown)
    BY <1>3, ExecShown, Zenon DEF Shown
  <1>4. ASSUME NEW t \in Tid, on_exit(t) PROVE OwnInv' /\ (NoLoss' => NoLoss /\ Shown)
    BY <1>4, ExitShown, Zenon DEF Shown
  <1>5. ASSUME NEW t \in Tid, Reap(t) PROVE OwnInv' /\ (NoLoss' => NoLoss /\ Shown)
    BY <1>5, ReapShown, Zenon DEF Shown
  <1>6. ASSUME NEW t \in Tid, NEW u \in Tid, on_sched_setaffinity(t, u)
        PROVE  OwnInv' /\ (NoLoss' => NoLoss /\ Shown)
    BY <1>6, AffinityShown, Zenon DEF Shown
  <1> QED
    BY <1>1, <1>2, <1>3, <1>4, <1>5, <1>6, Zenon DEF Task
-----------------------------------------------------------------------------
(***************************************************************************)
(* What the stream and the tables say of the target's tasks                *)
(***************************************************************************)
Forked(s, t, g) == \E i \in DOMAIN s : IsOf(s[i], "FORK", t) /\ s[i].event.tgid = g

\* The sampler visits the process of t, and a sample that is not reconciled yet has it.
Visited(t) == /\ tgid[t] \in target_tgids
              /\ pc = "reconcile" => t \in DOMAIN snapshot /\ tgid[t] \in DOMAIN snapshot

\* A task of the target is still to be announced, or its process is visited.
TargetInv == \A t \in Own : Forked(stream, t, tgid[t]) \/ Visited(t)

\* A mask is followed by the exit of the task it is for, or is for the present task.
MasksInv == \A i \in DOMAIN stream : \A t \in Tid :
              IsOf(stream[i], "AFFINITY", t) /\ t \notin strangers =>
                After(stream, "EXIT", t, i) \/ (t \in Own /\ ~After(stream, "FORK", t, i))

\* The exit of an id's former user comes before the fork of the present one.
ExitsInv == \A i \in DOMAIN stream : \A t \in Own :
              IsOf(stream[i], "EXIT", t) => After(stream, "FORK", t, i)

\* A mask that waits is for a task whose exit is to come, or is moved by the sample under way.
PendingInv == \A t \in DOMAIN pending_masks \ strangers :
                \/ After(stream, "EXIT", t, 0)
                \/ t \in Own /\ ~After(stream, "FORK", t, 0) /\ pc # "consume"

\* The i-th record, or an earlier one, is the last that is about t.
LastOf(s, t, i) == ~After(s, "AFFINITY", t, i) /\ ~After(s, "FORK", t, i) /\ ~After(s, "EXIT", t, i)

Sent(t) == \E i \in DOMAIN stream :
             /\ IsOf(stream[i], "AFFINITY", t) /\ stream[i].event.mask = declared[t] /\ LastOf(stream, t, i)
Recorded(t) == t \in DOMAIN restore_masks /\ restore_masks[t] = declared[t] /\ t \notin DOMAIN pending_masks
Waiting(t) == t \in DOMAIN pending_masks /\ pending_masks[t] = declared[t] /\ pc # "consume"

\* The last mask asked for a task is on its way, waits for the sample, or is recorded.
MaskInv == \A t \in (DOMAIN declared \cap Own) \ strangers :
             Sent(t) \/ (LastOf(stream, t, 0) /\ (Recorded(t) \/ Waiting(t)))

\* As long as nothing is lost.
StreamInv == NoLoss => TargetInv /\ MasksInv /\ ExitsInv /\ PendingInv /\ MaskInv

\* A record is of one kind, and about one task.
LEMMA OneKind ==
  ASSUME NEW r, NEW kind, NEW t, NEW other, NEW u, IsOf(r, kind, t), IsOf(r, other, u)
  PROVE  kind = other /\ t = u
  BY Zenon DEF IsOf

\* A fork stays in the stream, and a new one is in it.
LEMMA ForkedGrows ==
  ASSUME NEW s, NEW s2, NEW r, Grows(s, s2, r), NEW t, NEW g
  PROVE  Forked(s, t, g) \/ (IsOf(r, "FORK", t) /\ r.event.tgid = g) => Forked(s2, t, g)
  <1>1. /\ \A i \in DOMAIN s : i \in DOMAIN s2 /\ s2[i] = s[i]
        /\ Len(s) + 1 \in DOMAIN s2 /\ s2[Len(s) + 1] = r
    BY AfterGrows, Zenon
  <1> QED
    BY <1>1, Zenon DEF Forked

\* A record about another task changes nothing for t.
LEMMA LastGrows ==
  ASSUME NEW s, NEW s2, NEW r, Grows(s, s2, r), NEW t,
         ~IsOf(r, "AFFINITY", t), ~IsOf(r, "FORK", t), ~IsOf(r, "EXIT", t), NEW i \in 0..Len(s), LastOf(s, t, i)
  PROVE  LastOf(s2, t, i)
  <1>1. /\ After(s2, "AFFINITY", t, i) <=> After(s, "AFFINITY", t, i) \/ IsOf(r, "AFFINITY", t)
        /\ After(s2, "FORK", t, i) <=> After(s, "FORK", t, i) \/ IsOf(r, "FORK", t)
        /\ After(s2, "EXIT", t, i) <=> After(s, "EXIT", t, i) \/ IsOf(r, "EXIT", t)
    BY AfterGrows, Zenon
  <1> QED
    BY <1>1, Zenon DEF LastOf

\* Nothing is after the newest record.
LEMMA NewestIsLast ==
  ASSUME NEW s, NEW s2, NEW r, Grows(s, s2, r), NEW t
  PROVE  LastOf(s2, t, Len(s) + 1)
  BY AfterGrows, Zenon DEF LastOf

\* A step of a task keeps TargetInv: a task that begins is announced.
LEMMA TargetShown ==
  ASSUME TargetInv, Shown, UNCHANGED worker
  PROVE  TargetInv'
  <1> SUFFICES ASSUME NEW t \in Own' PROVE Forked(stream, t, tgid[t])' \/ Visited(t)'
    BY Zenon DEF TargetInv
  <1>1. ASSUME t \in Own, tgid'[t] = tgid[t],
               stream' = stream \/ \E r : Grows(stream, stream', r)
        PROVE  Forked(stream, t, tgid[t])' \/ Visited(t)'
    <2>1. CASE Forked(stream, t, tgid[t])
      <3>1. Forked(stream', t, tgid[t])
        BY <1>1, <2>1, ForkedGrows, Zenon
      <3> QED
        BY <1>1, <3>1, Zenon
    <2>2. CASE Visited(t)
      BY <1>1, <2>2, Zenon DEF Visited
    <2> QED
      BY <1>1, <2>1, <2>2, Zenon DEF TargetInv
  <1>2. CASE Silent
    BY <1>1, <1>2, Zenon DEF Silent, SameTasks
  <1>3. CASE Noted
    BY <1>1, <1>3, Zenon DEF Noted, SameTasks
  <1>4. ASSUME NEW u, Begins(u) PROVE Forked(stream, t, tgid[t])' \/ Visited(t)'
    <2>1. CASE t = u
      <3>1. Forked(stream', t, tgid'[t])
        BY <1>4, <2>1, ForkedGrows, Zenon DEF Begins
      <3> QED
        BY <3>1, Zenon
    <2>2. CASE t # u
      BY <1>1, <1>4, <2>2, Zenon DEF Begins, SameTasks
    <2> QED
      BY <2>1, <2>2
  <1>5. ASSUME NEW u, Ends(u) PROVE Forked(stream, t, tgid[t])' \/ Visited(t)'
    BY <1>1, <1>5, Zenon DEF Ends, SameTasks
  <1>6. ASSUME NEW u, Asks(u) PROVE Forked(stream, t, tgid[t])' \/ Visited(t)'
    BY <1>1, <1>6, Zenon DEF Asks, SameTasks
  <1> QED
    BY <1>2, <1>3, <1>4, <1>5, <1>6, Zenon DEF Shown

\* A step of a task keeps ExitsInv: an id that begins again is announced after its exit.
LEMMA ExitsShown ==
  ASSUME ExitsInv, Shown
  PROVE  ExitsInv'
  <1> SUFFICES ASSUME NEW i \in DOMAIN stream', NEW t \in Own', IsOf(stream'[i], "EXIT", t)
               PROVE  After(stream', "FORK", t, i)
    BY Zenon DEF ExitsInv
  <1>1. ASSUME NEW r, Grows(stream, stream', r), ~IsOf(r, "EXIT", t), t \in Own \/ IsOf(r, "FORK", t)
        PROVE  After(stream', "FORK", t, i)
    <2>1. /\ i \in DOMAIN stream \/ i = Len(stream) + 1
          /\ i \in DOMAIN stream => i \in 0..Len(stream) /\ stream'[i] = stream[i]
          /\ stream'[Len(stream) + 1] = r
          /\ i \in 0..Len(stream) => (After(stream', "FORK", t, i) <=> After(stream, "FORK", t, i) \/ IsOf(r, "FORK", t))
      BY <1>1, AfterGrows, Zenon
    <2>2. i \in DOMAIN stream /\ IsOf(stream[i], "EXIT", t)
      BY <1>1, <2>1, Zenon
    <2> QED
      BY <1>1, <2>1, <2>2, Zenon DEF ExitsInv
  <1>2. CASE Silent
    BY <1>2, Zenon DEF Silent, ExitsInv
  <1>3. CASE Noted
    BY <1>1, <1>3, Zenon DEF Noted, IsOf
  <1>4. ASSUME NEW u, Begins(u) PROVE After(stream', "FORK", t, i)
    <2>1. PICK r : Grows(stream, stream', r) /\ IsOf(r, "FORK", u)
      BY <1>4, Zenon DEF Begins
    <2>2. ~IsOf(r, "EXIT", t) /\ (t \in Own \/ t = u)
      BY <1>4, <2>1, OneKind, Zenon DEF Begins
    <2> QED
      BY <1>1, <2>1, <2>2, Zenon
  <1>5. ASSUME NEW u, Ends(u) PROVE After(stream', "FORK", t, i)
    <2>1. PICK r : Grows(stream, stream', r) /\ IsOf(r, "EXIT", u)
      BY <1>5, Zenon DEF Ends
    <2>2. t \in Own /\ t # u
      BY <1>5, Zenon DEF Ends
    <2> QED
      BY <1>1, <2>1, <2>2, OneKind, Zenon
  <1>6. ASSUME NEW u, Asks(u) PROVE After(stream', "FORK", t, i)
    <2>1. PICK r : Grows(stream, stream', r) /\ IsOf(r, "AFFINITY", u)
      BY <1>6, Zenon DEF Asks
    <2>2. t \in Own /\ ~IsOf(r, "EXIT", t)
      BY <1>6, <2>1, OneKind, Zenon DEF Asks
    <2> QED
      BY <1>1, <2>1, <2>2, Zenon
  <1> QED
    BY <1>2, <1>3, <1>4, <1>5, <1>6, Zenon DEF Shown

\* What was asked for before the i-th record is over, or is for the present task, still.
LEMMA DueShown ==
  ASSUME Shown, NEW t, NEW i \in 0..Len(stream),
         After(stream, "EXIT", t, i) \/ (t \in Own /\ ~After(stream, "FORK", t, i))
  PROVE  After(stream', "EXIT", t, i) \/ (t \in Own' /\ ~After(stream', "FORK", t, i))
  <1>1. ASSUME NEW r, Grows(stream, stream', r)
        PROVE  /\ After(stream', "EXIT", t, i) <=> After(stream, "EXIT", t, i) \/ IsOf(r, "EXIT", t)
               /\ After(stream', "FORK", t, i) <=> After(stream, "FORK", t, i) \/ IsOf(r, "FORK", t)
    BY <1>1, AfterGrows, Zenon
  <1>2. CASE Silent
    BY <1>2, Zenon DEF Silent
  <1>3. CASE Noted
    <2>1. PICK r : Grows(stream, stream', r) /\ r.event.kind = "EXEC"
      BY <1>3, Zenon DEF Noted
    <2>2. ~IsOf(r, "FORK", t) /\ Own' = Own
      BY <1>3, <2>1, Zenon DEF Noted, IsOf
    <2> QED
      BY <1>1, <2>1, <2>2, Zenon
  <1>4. ASSUME NEW u, Begins(u)
        PROVE  After(stream', "EXIT", t, i) \/ (t \in Own' /\ ~After(stream', "FORK", t, i))
    <2>1. PICK r : Grows(stream, stream', r) /\ IsOf(r, "FORK", u)
      BY <1>4, Zenon DEF Begins
    <2>2. u \notin Own /\ Own' = Own \cup {u}
      BY <1>4, Zenon DEF Begins
    <2> QED
      BY <1>1, <2>1, <2>2, OneKind, Zenon
  <1>5. ASSUME NEW u, Ends(u)
        PROVE  After(stream', "EXIT", t, i) \/ (t \in Own' /\ ~After(stream', "FORK", t, i))
    <2>1. PICK r : Grows(stream, stream', r) /\ IsOf(r, "EXIT", u)
      BY <1>5, Zenon DEF Ends
    <2>2. ~IsOf(r, "FORK", t) /\ Own' = Own \ {u}
      BY <1>5, <2>1, OneKind, Zenon DEF Ends
    <2>3. CASE t = u
      BY <1>1, <2>1, <2>3, Zenon
    <2>4. CASE t # u
      BY <1>1, <2>1, <2>2, <2>4, Zenon
    <2> QED
      BY <2>3, <2>4
  <1>6. ASSUME NEW u, Asks(u)
        PROVE  After(stream', "EXIT", t, i) \/ (t \in Own' /\ ~After(stream', "FORK", t, i))
    <2>1. PICK r : Grows(stream, stream', r) /\ IsOf(r, "AFFINITY", u)
      BY <1>6, Zenon DEF Asks
    <2>2. ~IsOf(r, "FORK", t) /\ Own' = Own
      BY <1>6, <2>1, OneKind, Zenon DEF Asks
    <2> QED
      BY <1>1, <2>1, <2>2, Zenon
  <1> QED
    BY <1>2, <1>3, <1>4, <1>5, <1>6, Zenon DEF Shown

\* Tasks that are not the target's only become more; and a new record comes last.
LEMMA ShownGrows ==
  ASSUME Shown
  PROVE  /\ strangers \subseteq strangers'
         /\ stream' = stream \/ \E r : Grows(stream, stream', r)
  <1>1. CASE Silent
    BY <1>1, Zenon DEF Silent
  <1>2. CASE Noted
    BY <1>2, Zenon DEF Noted
  <1>3. ASSUME NEW u, Begins(u) \/ Ends(u) PROVE strangers' = strangers /\ \E r : Grows(stream, stream', r)
    BY <1>3, Zenon DEF Begins, Ends
  <1>4. ASSUME NEW u, Asks(u) PROVE strangers \subseteq strangers' /\ \E r : Grows(stream, stream', r)
    BY <1>4 DEF Asks
  <1> QED
    BY <1>1, <1>2, <1>3, <1>4, Zenon DEF Shown

\* A step of a task keeps MasksInv.
LEMMA MasksShown ==
  ASSUME MasksInv, Shown, stream \in Seq(OwnRecord)
  PROVE  MasksInv'
  <1> SUFFICES ASSUME NEW i \in DOMAIN stream', NEW t \in Tid, IsOf(stream'[i], "AFFINITY", t), t \notin strangers'
               PROVE  After(stream', "EXIT", t, i) \/ (t \in Own' /\ ~After(stream', "FORK", t, i))
    BY Zenon DEF MasksInv
  <1>0. \A j \in DOMAIN stream : j \in 0..Len(stream)
    OBVIOUS
  <1>1. CASE i \in DOMAIN stream /\ stream'[i] = stream[i]
    <2>1. t \notin strangers /\ i \in 0..Len(stream)
      BY <1>0, <1>1, ShownGrows, Zenon
    <2>2. After(stream, "EXIT", t, i) \/ (t \in Own /\ ~After(stream, "FORK", t, i))
      BY <1>1, <2>1, Zenon DEF MasksInv
    <2> QED
      BY <2>1, <2>2, DueShown, Zenon
  <1>2. CASE ~(i \in DOMAIN stream /\ stream'[i] = stream[i])
    <2>1. PICK r : Grows(stream, stream', r)
      BY <1>2, ShownGrows, Zenon
    <2>2. i = Len(stream) + 1 /\ stream'[i] = r /\ ~After(stream', "FORK", t, i)
      <3>1. /\ ~After(stream', "FORK", t, Len(stream) + 1)
            /\ i \in DOMAIN stream => stream'[i] = stream[i]
            /\ i \in DOMAIN stream \/ i = Len(stream) + 1
            /\ stream'[Len(stream) + 1] = r
        BY <2>1, AfterGrows, Zenon
      <3>2. i = Len(stream) + 1
        BY <1>2, <3>1, Zenon
      <3> QED
        BY <3>1, <3>2, Zenon
    <2>3. IsOf(r, "AFFINITY", t)
      BY <2>2, Zenon
    <2>4. \A q : Grows(stream, stream', q) => q = r
      BY <2>1, Zenon DEF Grows
    <2>5. ~Silent
      BY <1>2, Zenon DEF Silent
    <2>6. ~Noted
      BY <2>3, <2>4, Zenon DEF Noted, IsOf
    <2>7. ASSUME NEW u, Begins(u) \/ Ends(u) PROVE FALSE
      <3>1. IsOf(r, "FORK", u) \/ IsOf(r, "EXIT", u)
        BY <2>4, <2>7, Zenon DEF Begins, Ends
      <3> QED
        BY <2>3, <3>1, Zenon DEF IsOf
    <2>8. PICK u : Asks(u)
      BY <2>5, <2>6, <2>7, Zenon DEF Shown
    <2>9. t = u
      <3>1. IsOf(r, "AFFINITY", u)
        BY <2>4, <2>8, Zenon DEF Asks
      <3> QED
        BY <2>3, <3>1, Zenon DEF IsOf
    <2>10. t \in Own'
      <3>1. Own' = Own /\ strangers' = IF u \in Own THEN strangers ELSE strangers \cup {u}
        BY <2>8, Zenon DEF Asks
      <3> QED
        BY <2>9, <3>1
    <2> QED
      BY <2>2, <2>10, Zenon
  <1> QED
    BY <1>1, <1>2

\* A step of a task keeps PendingInv.
LEMMA PendingShown ==
  ASSUME PendingInv, Shown, stream \in Seq(OwnRecord), UNCHANGED <<pending_masks, pc>>
  PROVE  PendingInv'
  <1> SUFFICES ASSUME NEW t \in DOMAIN pending_masks, t \notin strangers'
               PROVE  \/ After(stream', "EXIT", t, 0)
                      \/ t \in Own' /\ ~After(stream', "FORK", t, 0) /\ pc # "consume"
    BY Zenon DEF PendingInv
  <1>1. t \notin strangers /\ 0 \in 0..Len(stream)
    <2>1. 0 \in 0..Len(stream)
      OBVIOUS
    <2> QED
      BY <2>1, ShownGrows, Zenon
  <1>2. CASE pc = "consume"
    <2>1. After(stream, "EXIT", t, 0)
      BY <1>1, <1>2, Zenon DEF PendingInv
    <2>2. CASE stream' = stream
      BY <2>1, <2>2, Zenon
    <2>3. ASSUME NEW r, Grows(stream, stream', r) PROVE After(stream', "EXIT", t, 0)
      BY <1>1, <2>1, <2>3, AfterGrows, Zenon
    <2> QED
      BY <2>2, <2>3, ShownGrows, Zenon
  <1>3. CASE pc # "consume"
    <2>1. After(stream, "EXIT", t, 0) \/ (t \in Own /\ ~After(stream, "FORK", t, 0))
      BY <1>1, Zenon DEF PendingInv
    <2> QED
      BY <1>1, <1>3, <2>1, DueShown, Zenon
  <1> QED
    BY <1>2, <1>3

\* A step of a task keeps MaskInv: a mask that is asked for is the newest record.
LEMMA MaskShown ==
  ASSUME MaskInv, Shown, stream \in Seq(OwnRecord), UNCHANGED <<pending_masks, restore_masks, pc>>
  PROVE  MaskInv'
  <1> DEFINE Goal(t) == Sent(t)' \/ (LastOf(stream', t, 0) /\ (Recorded(t)' \/ Waiting(t)'))
  <1> SUFFICES ASSUME NEW t \in DOMAIN declared', t \in Own', t \notin strangers' PROVE Goal(t)
    BY Zenon DEF MaskInv
  <1>0. 0 \in 0..Len(stream) /\ \A j \in DOMAIN stream : j \in 0..Len(stream)
    OBVIOUS
  <1>1. t \notin strangers
    BY ShownGrows, Zenon
  <1>2. ASSUME t \in DOMAIN declared, t \in Own, declared'[t] = declared[t],
               stream' = stream \/ \E r : /\ Grows(stream, stream', r) /\ ~IsOf(r, "AFFINITY", t)
                                          /\ ~IsOf(r, "FORK", t) /\ ~IsOf(r, "EXIT", t)
        PROVE  Goal(t)
    <2>1. ASSUME NEW i \in 0..Len(stream), LastOf(stream, t, i) PROVE LastOf(stream', t, i)
      BY <1>2, <2>1, LastGrows, Zenon
    <2>2. CASE Sent(t)
      <3>1. PICK i \in DOMAIN stream : /\ IsOf(stream[i], "AFFINITY", t) /\ stream[i].event.mask = declared[t]
                                       /\ LastOf(stream, t, i)
        BY <2>2, Zenon DEF Sent
      <3>2. i \in DOMAIN stream' /\ stream'[i] = stream[i]
        <4>1. ASSUME NEW r, Grows(stream, stream', r) PROVE i \in DOMAIN stream' /\ stream'[i] = stream[i]
          BY <4>1, AfterGrows, Zenon
        <4>2. CASE stream' = stream
          BY <4>2, Zenon
        <4> QED
          BY <1>2, <4>1, <4>2, Zenon
      <3>3. LastOf(stream', t, i)
        BY <1>0, <2>1, <3>1, Zenon
      <3>4. Sent(t)'
        BY <1>2, <3>1, <3>2, <3>3, Zenon DEF Sent
      <3> QED
        BY <3>4
    <2>3. CASE LastOf(stream, t, 0) /\ (Recorded(t) \/ Waiting(t))
      <3>1. LastOf(stream', t, 0)
        BY <1>0, <2>1, <2>3, Zenon
      <3>2. Recorded(t)' \/ Waiting(t)'
        BY <1>2, <2>3, Zenon DEF Recorded, Waiting
      <3> QED
        BY <3>1, <3>2
    <2> QED
      BY <1>1, <1>2, <2>2, <2>3, Zenon DEF MaskInv
  <1>3. CASE Silent
    BY <1>2, <1>3, Zenon DEF Silent, SameTasks
  <1>4. CASE Noted
    <2>1. PICK r : Grows(stream, stream', r) /\ r.event.kind = "EXEC"
      BY <1>4, Zenon DEF Noted
    <2>2. ~IsOf(r, "AFFINITY", t) /\ ~IsOf(r, "FORK", t) /\ ~IsOf(r, "EXIT", t)
      BY <2>1, Zenon DEF IsOf
    <2>3. t \in DOMAIN declared /\ t \in Own /\ declared'[t] = declared[t]
      BY <1>4, Zenon DEF Noted, SameTasks
    <2> QED
      BY <1>2, <2>1, <2>2, <2>3, Zenon
  <1>5. ASSUME NEW u, Begins(u) PROVE Goal(t)
    <2>1. PICK r : Grows(stream, stream', r) /\ IsOf(r, "FORK", u)
      BY <1>5, Zenon DEF Begins
    <2>2. t # u /\ t \in Own /\ t \in DOMAIN declared /\ declared'[t] = declared[t]
      BY <1>5, Zenon DEF Begins, SameTasks
    <2>3. ~IsOf(r, "AFFINITY", t) /\ ~IsOf(r, "FORK", t) /\ ~IsOf(r, "EXIT", t)
      BY <2>1, <2>2, OneKind, Zenon
    <2> QED
      BY <1>2, <2>1, <2>2, <2>3, Zenon
  <1>6. ASSUME NEW u, Ends(u) PROVE Goal(t)
    <2>1. PICK r : Grows(stream, stream', r) /\ IsOf(r, "EXIT", u)
      BY <1>6, Zenon DEF Ends
    <2>2. t # u /\ t \in Own /\ t \in DOMAIN declared /\ declared'[t] = declared[t]
      BY <1>6, Zenon DEF Ends, SameTasks
    <2>3. ~IsOf(r, "AFFINITY", t) /\ ~IsOf(r, "FORK", t) /\ ~IsOf(r, "EXIT", t)
      BY <2>1, <2>2, OneKind, Zenon
    <2> QED
      BY <1>2, <2>1, <2>2, <2>3, Zenon
  <1>7. ASSUME NEW u, Asks(u) PROVE Goal(t)
    <2>1. PICK r : Grows(stream, stream', r) /\ IsOf(r, "AFFINITY", u) /\ declared'[u] = r.event.mask
      BY <1>7, Zenon DEF Asks
    <2>2. CASE t = u
      <3>1. /\ Len(stream) + 1 \in DOMAIN stream' /\ stream'[Len(stream) + 1] = r
            /\ LastOf(stream', t, Len(stream) + 1)
        BY <2>1, AfterGrows, NewestIsLast, Zenon
      <3>2. Sent(t)'
        BY <2>1, <2>2, <3>1, Zenon DEF Sent
      <3> QED
        BY <3>2
    <2>3. CASE t # u
      <3>1. t \in Own /\ t \in DOMAIN declared /\ declared'[t] = declared[t]
        BY <1>7, <2>3 DEF Asks, SameTasks
      <3>2. ~IsOf(r, "AFFINITY", t) /\ ~IsOf(r, "FORK", t) /\ ~IsOf(r, "EXIT", t)
        BY <2>1, <2>3, OneKind, Zenon
      <3> QED
        BY <1>2, <2>1, <3>1, <3>2, Zenon
    <2> QED
      BY <2>2, <2>3
  <1> QED
    BY <1>3, <1>4, <1>5, <1>6, <1>7, Zenon DEF Shown

\* A step of the runtime leaves the target's tasks alone.
LEMMA TasksStay ==
  ASSUME UNCHANGED <<kernel, pids, ours, declared, strangers>>
  PROVE  /\ UNCHANGED <<tgid, declared, strangers>> /\ Own' = Own
         /\ OwnInv => OwnInv'
  <1>1. UNCHANGED <<gen, tgid, zombies, pids, ours, declared, strangers>>
    BY Zenon DEF kernel
  <1>2. Live' = Live
    BY <1>1, Zenon DEF Live
  <1>3. Own' = Own
    BY <1>1, <1>2, Zenon DEF Own
  <1>4. OwnInv => OwnInv'
    BY <1>1, <1>2, Zenon DEF OwnInv, tracked_task
  <1> QED
    BY <1>1, <1>3, <1>4, Zenon

\* A step of a task keeps what the stream and the tables say.
LEMMA TaskStream ==
  ASSUME IInv, TableInv, OwnInv, StreamInv, Task
  PROVE  OwnInv' /\ StreamInv'
  <1>1. OwnInv' /\ (NoLoss' => NoLoss /\ Shown)
    BY TaskShown, Zenon
  <1>2. stream \in Seq(OwnRecord)
    BY StreamIs, Zenon DEF IInv, RecordInv
  <1>3. UNCHANGED worker
    <2>1. ASSUME NEW p \in Tid, NEW t \in Tid, on_fork(p, t) PROVE UNCHANGED worker
      BY <2>1, Zenon DEF on_fork, Start
    <2>2. ASSUME NEW t \in Tid, ForeignStart(t) \/ on_exec(t) \/ on_exit(t) \/ Reap(t) PROVE UNCHANGED worker
      BY <2>2, Zenon DEF ForeignStart, Start, on_exec, on_exit, Reap
    <2>3. ASSUME NEW t \in Tid, NEW u \in Tid, on_sched_setaffinity(t, u) PROVE UNCHANGED worker
      BY <2>3, Zenon DEF on_sched_setaffinity
    <2> QED
      BY <2>1, <2>2, <2>3, Zenon DEF Task
  <1>4. UNCHANGED <<pending_masks, restore_masks, pc>>
    BY <1>3, Zenon DEF worker, table
  <1>5. ASSUME NoLoss' PROVE TargetInv' /\ MasksInv' /\ ExitsInv' /\ PendingInv' /\ MaskInv'
    <2>1. Shown /\ TargetInv /\ MasksInv /\ ExitsInv /\ PendingInv /\ MaskInv
      BY <1>1, <1>5, Zenon DEF StreamInv
    <2>2. TargetInv'
      BY <1>3, <2>1, TargetShown, Zenon
    <2>3. MasksInv'
      BY <1>2, <2>1, MasksShown, Zenon
    <2>4. ExitsInv'
      BY <2>1, ExitsShown, Zenon
    <2>5. PendingInv'
      BY <1>2, <1>4, <2>1, PendingShown, Zenon
    <2>6. MaskInv'
      BY <1>2, <1>4, <2>1, MaskShown, Zenon
    <2> QED
      BY <2>2, <2>3, <2>4, <2>5, <2>6
  <1> QED
    BY <1>1, <1>5, Zenon DEF StreamInv

\* The BPF thread moves records along the stream.
LEMMA DrainStream ==
  ASSUME IInv, OwnInv, StreamInv, drain_bpf_once
  PROVE  OwnInv' /\ StreamInv'
  <1>1. UNCHANGED <<kernel, pids, ours, declared, strangers>>
        /\ UNCHANGED <<dropped, pc, snapshot, target_tgids, pending_masks, restore_masks, fatal>>
    BY Zenon DEF drain_bpf_once, worker, table, history
  <1>2. UNCHANGED <<tgid, declared, strangers>> /\ Own' = Own /\ OwnInv'
    BY <1>1, TasksStay, Zenon
  <1>3. ASSUME NoLoss' PROVE TargetInv' /\ MasksInv' /\ ExitsInv' /\ PendingInv' /\ MaskInv'
    <2>1. stream' = stream /\ NoLoss
      BY <1>1, <1>3, DrainKeepsStream, Zenon DEF NoLoss
    <2>2. TargetInv /\ MasksInv /\ ExitsInv /\ PendingInv /\ MaskInv
      BY <2>1, Zenon DEF StreamInv
    <2>3. TargetInv'
      BY <1>1, <1>2, <2>1, <2>2, Zenon DEF TargetInv, Visited
    <2>4. MasksInv' /\ ExitsInv'
      BY <1>1, <1>2, <2>1, <2>2, Zenon DEF MasksInv, ExitsInv
    <2>5. PendingInv'
      BY <1>1, <1>2, <2>1, <2>2, Zenon DEF PendingInv
    <2>6. MaskInv'
      BY <1>1, <1>2, <2>1, <2>2, Zenon DEF MaskInv, Sent, Recorded, Waiting
    <2> QED
      BY <2>3, <2>4, <2>5, <2>6
  <1> QED
    BY <1>2, <1>3, Zenon DEF StreamInv

\* The process of a task whose fork is not to come any more is visited.
LEMMA AnnouncedIsVisited ==
  ASSUME queue \in Seq(OwnRecord), ring \in Seq(OwnRecord), TargetInv, NEW t \in Own, ~After(stream, "FORK", t, 0)
  PROVE  Visited(t)
  <1>1. \A i \in DOMAIN stream : i > 0
    BY StreamIs
  <1> QED
    BY <1>1, Zenon DEF TargetInv, Forked, After

\* The sampler reads /proc: a sample has the tasks of every process it visits.
LEMMA ReadStream ==
  ASSUME IInv, OwnInv, StreamInv, read_proc
  PROVE  OwnInv' /\ StreamInv'
  <1> DEFINE D == {u \in Live : \E p \in target_tgids \cap Live : tgid[u] = tgid[p]}
  <1>1. /\ pc = "read" /\ snapshot' = [t \in D |-> gen[t]]
        /\ pc' = IF snapshot' = Nothing THEN "consume" ELSE "reconcile"
    BY Zenon DEF read_proc
  <1>2. /\ UNCHANGED <<kernel, pids, ours, declared, strangers>>
        /\ UNCHANGED <<ring, queue, dropped, overflow, target_tgids, pending_masks, restore_masks, fatal>>
    BY Zenon DEF read_proc, bpf, reader, table, history
  <1>3. UNCHANGED <<tgid, declared, strangers>> /\ Own' = Own /\ OwnInv'
    BY <1>2, TasksStay, Zenon
  <1>4. stream' = stream /\ (NoLoss' => NoLoss)
    BY <1>2, Zenon DEF stream, NoLoss
  <1>5. ASSUME NEW t \in Own, tgid[t] \in target_tgids
        PROVE  t \in DOMAIN snapshot' /\ tgid[t] \in DOMAIN snapshot' /\ pc' = "reconcile"
    <2>1. t \in Live /\ tgid[t] \in Live /\ tgid[tgid[t]] = tgid[t]
      BY Zenon DEF Own, IInv, KernelInv
    <2>2. t \in D /\ tgid[t] \in D
      BY <1>5, <2>1, Zenon
    <2> HIDE DEF D
    <2>3. DOMAIN snapshot' = D
      BY <1>1
    <2>4. DOMAIN Nothing = {}
      BY DEF Nothing
    <2>5. snapshot' # Nothing
      BY <2>2, <2>3, <2>4, Zenon
    <2> QED
      BY <1>1, <2>2, <2>3, <2>5, Zenon
  <1>6. ASSUME NoLoss' PROVE TargetInv' /\ MasksInv' /\ ExitsInv' /\ PendingInv' /\ MaskInv'
    <2>1. TargetInv /\ MasksInv /\ ExitsInv /\ PendingInv /\ MaskInv
      BY <1>4, <1>6, Zenon DEF StreamInv
    <2>2. ASSUME NEW t \in Own, ~After(stream, "FORK", t, 0) PROVE pc' = "reconcile"
      <3>1. Visited(t)
        BY <2>1, <2>2, AnnouncedIsVisited, Zenon DEF IInv, RecordInv
      <3> QED
        BY <1>5, <3>1, Zenon DEF Visited
    <2>3. TargetInv'
      BY <1>2, <1>3, <1>4, <1>5, <2>1, Zenon DEF TargetInv, Visited
    <2>4. MasksInv' /\ ExitsInv'
      BY <1>3, <1>4, <2>1, Zenon DEF MasksInv, ExitsInv
    <2>5. PendingInv'
      BY <1>2, <1>3, <1>4, <2>1, <2>2, Zenon DEF PendingInv
    <2>6. MaskInv'
      <3> SUFFICES ASSUME NEW t \in DOMAIN declared, t \in Own, t \notin strangers
                   PROVE  Sent(t)' \/ (LastOf(stream, t, 0) /\ (Recorded(t)' \/ Waiting(t)'))
        BY <1>3, <1>4, Zenon DEF MaskInv
      <3>1. Sent(t) \/ (LastOf(stream, t, 0) /\ (Recorded(t) \/ Waiting(t)))
        BY <2>1, Zenon DEF MaskInv
      <3>2. Sent(t) => Sent(t)'
        BY <1>3, <1>4, Zenon DEF Sent
      <3>3. Recorded(t) => Recorded(t)'
        BY <1>2, <1>3, Zenon DEF Recorded
      <3>4. LastOf(stream, t, 0) => pc' = "reconcile"
        BY <2>2, Zenon DEF LastOf
      <3>5. LastOf(stream, t, 0) /\ Waiting(t) => Waiting(t)'
        BY <1>2, <1>3, <3>4, Zenon DEF Waiting
      <3> QED
        BY <3>1, <3>2, <3>3, <3>5, Zenon
    <2> QED
      BY <2>3, <2>4, <2>5, <2>6
  <1> QED
    BY <1>3, <1>6, Zenon DEF StreamInv

\* The sample decides: what it has seen stays, with the masks that waited for it.
LEMMA ReconcileStream ==
  ASSUME IInv, OwnInv, StreamInv, reconcile_and_sample
  PROVE  OwnInv' /\ StreamInv'
  <1> DEFINE seen == DOMAIN snapshot
             due == DOMAIN pending_masks \cap seen
  <1>1. /\ pc = "reconcile" /\ pc' = "consume" /\ target_tgids' = target_tgids \cap seen
        /\ restore_masks' = [t \in DOMAIN restore_masks \cup due |->
                               IF t \in due THEN pending_masks[t] ELSE restore_masks[t]]
        /\ pending_masks' = Without(pending_masks, seen)
    BY Zenon DEF reconcile_and_sample
  <1>2. /\ UNCHANGED <<kernel, pids, ours, declared, strangers>>
        /\ UNCHANGED <<ring, queue, dropped, overflow, fatal>>
    BY Zenon DEF reconcile_and_sample, bpf, reader, history
  <1>3. UNCHANGED <<tgid, declared, strangers>> /\ Own' = Own /\ OwnInv'
    BY <1>2, TasksStay, Zenon
  <1>4. stream' = stream /\ (NoLoss' => NoLoss)
    BY <1>2, Zenon DEF stream, NoLoss
  <1>5. DOMAIN pending_masks' = DOMAIN pending_masks \ seen
    BY <1>1 DEF Without
  <1>6. /\ DOMAIN restore_masks' = DOMAIN restore_masks \cup due
        /\ \A t \in DOMAIN restore_masks' : restore_masks'[t] = IF t \in due THEN pending_masks[t] ELSE restore_masks[t]
    <2> HIDE DEF due
    <2> QED
      BY <1>1
  <1>7. ASSUME NoLoss' PROVE TargetInv' /\ MasksInv' /\ ExitsInv' /\ PendingInv' /\ MaskInv'
    <2>1. TargetInv /\ MasksInv /\ ExitsInv /\ PendingInv /\ MaskInv
      BY <1>4, <1>7, Zenon DEF StreamInv
    <2>2. ASSUME NEW t \in Own, ~After(stream, "FORK", t, 0) PROVE t \in seen
      <3>1. Visited(t)
        BY <2>1, <2>2, AnnouncedIsVisited, Zenon DEF IInv, RecordInv
      <3> QED
        BY <1>1, <3>1, Zenon DEF Visited
    <2>3. TargetInv'
      BY <1>1, <1>3, <1>4, <2>1, Zenon DEF TargetInv, Visited
    <2>4. MasksInv' /\ ExitsInv'
      BY <1>3, <1>4, <2>1, Zenon DEF MasksInv, ExitsInv
    <2> HIDE DEF seen
    <2>5. PendingInv'
      BY <1>3, <1>4, <1>5, <2>1, <2>2, Zenon DEF PendingInv
    <2>6. MaskInv'
      <3> SUFFICES ASSUME NEW t \in DOMAIN declared, t \in Own, t \notin strangers
                   PROVE  Sent(t)' \/ (LastOf(stream, t, 0) /\ (Recorded(t)' \/ Waiting(t)'))
        BY <1>3, <1>4, Zenon DEF MaskInv
      <3>1. Sent(t) \/ (LastOf(stream, t, 0) /\ (Recorded(t) \/ Waiting(t)))
        BY <2>1, Zenon DEF MaskInv
      <3>2. Sent(t) => Sent(t)'
        BY <1>3, <1>4, Zenon DEF Sent
      <3>3. ASSUME LastOf(stream, t, 0), Recorded(t) \/ Waiting(t) PROVE Recorded(t)'
        <4>1. t \in seen
          BY <2>2, <3>3, Zenon DEF LastOf
        <4>2. t \in DOMAIN restore_masks' /\ restore_masks'[t] = declared[t]
          BY <1>6, <3>3, <4>1, Zenon DEF Recorded, Waiting
        <4> QED
          BY <1>3, <1>5, <4>1, <4>2, Zenon DEF Recorded
      <3> QED
        BY <3>1, <3>2, <3>3, Zenon
    <2> QED
      BY <2>3, <2>4, <2>5, <2>6
  <1> QED
    BY <1>3, <1>7, Zenon DEF StreamInv

\* A record of the stream is in the queue or in the ring.
LEMMA StreamSplits ==
  ASSUME queue \in Seq(OwnRecord), ring \in Seq(OwnRecord), NEW i \in DOMAIN stream
  PROVE  \/ i \in 1..Len(queue) /\ stream[i] = queue[i]
         \/ /\ i > Len(queue) /\ i - Len(queue) \in DOMAIN ring /\ stream[i] = ring[i - Len(queue)]
            /\ Len(queue) + (i - Len(queue)) = i
  <1> DEFINE q == Len(queue)
             N == Len(ring)
  <1>1. /\ q \in Nat /\ N \in Nat /\ DOMAIN ring = 1..N /\ DOMAIN stream = 1..(q + N)
        /\ \A k \in 1..q : stream[k] = queue[k]
        /\ \A k \in 1..N : stream[q + k] = ring[k]
    BY StreamIs
  <1> HIDE DEF q, N
  <1>2. CASE i \in 1..q
    BY <1>1, <1>2, Zenon DEF q
  <1>3. CASE i \notin 1..q
    <2>1. i > q /\ i - q \in 1..N /\ q + (i - q) = i
      BY <1>1, <1>3
    <2>2. stream[q + (i - q)] = ring[i - q]
      BY <1>1, <2>1, Zenon
    <2>3. stream[i] = ring[i - q]
      BY <2>1, <2>2, Zenon
    <2> QED
      BY <1>1, <2>1, <2>3, Zenon DEF q
  <1> QED
    BY <1>2, <1>3

\* What follows in the ring follows every record of the queue; and what follows in the
\* stream is in the queue or in the ring.
LEMMA AfterSplits ==
  ASSUME queue \in Seq(OwnRecord), ring \in Seq(OwnRecord), NEW kind, NEW t, NEW i \in 0..Len(queue)
  PROVE  /\ After(ring, kind, t, 0) => After(stream, kind, t, i)
         /\ After(stream, kind, t, i) =>
              After(ring, kind, t, 0) \/ \E j \in 1..Len(queue) : j > i /\ IsOf(queue[j], kind, t)
         /\ \A j \in 1..Len(queue) : j > i /\ IsOf(queue[j], kind, t) => After(stream, kind, t, i)
  <1> DEFINE q == Len(queue)
  <1>0. /\ q \in Nat /\ 0 \in 0..Len(ring) /\ q + 0 = q /\ DOMAIN stream \subseteq Nat
        /\ \A j \in DOMAIN stream : j > q => j > i
        /\ \A j \in DOMAIN ring : j > 0
    BY StreamIs
  <1>1. After(ring, kind, t, 0) <=> After(stream, kind, t, q)
    <2>1. After(ring, kind, t, 0) <=> After(stream, kind, t, q + 0)
      BY <1>0, AfterInRing, Zenon
    <2> QED
      BY <1>0, <2>1, Zenon
  <1>2. After(stream, kind, t, q) => After(stream, kind, t, i)
    BY <1>0, Zenon DEF After
  <1>3. ASSUME After(stream, kind, t, i)
        PROVE  After(ring, kind, t, 0) \/ \E j \in 1..q : j > i /\ IsOf(queue[j], kind, t)
    <2>1. PICK j \in DOMAIN stream : j > i /\ IsOf(stream[j], kind, t)
      BY <1>3, Zenon DEF After
    <2>2. CASE j \in 1..q /\ stream[j] = queue[j]
      BY <2>1, <2>2, Zenon
    <2>3. CASE j > q
      BY <1>1, <2>1, <2>3, Zenon DEF After
    <2> QED
      BY <2>1, <2>2, <2>3, StreamSplits, Zenon
  <1>4. ASSUME NEW j \in 1..q, j > i, IsOf(queue[j], kind, t) PROVE After(stream, kind, t, i)
    <2>1. j \in DOMAIN stream /\ stream[j] = queue[j]
      BY StreamIs, Zenon
    <2> QED
      BY <1>4, <2>1, Zenon DEF After
  <1> QED
    BY <1>1, <1>2, <1>3, <1>4, Zenon

\* The masks of t are the same after the i-th record as after the last one.
KeptFrom(g, t, i) == SamePending(g[Len(queue)], g[i], t) /\ SameRestore(g[Len(queue)], g[i], t)

\* The states g of the first pass over the batch, and what the batch leaves for t.
Batch(g, t) ==
    /\ g \in [0..Len(queue) -> TableType] /\ Passes(g, Tables, NotExits)
    /\ \A n \in 0..Len(queue) : FirstUpTo(g, t, n)
    /\ \A i \in 0..Len(queue) :
         (\A j \in 1..Len(queue) : j > i => ~IsOf(queue[j], "AFFINITY", t)) => KeptFrom(g, t, i)
    /\ target_tgids' = g[Len(queue)].targets /\ restore_masks' = g[Len(queue)].restore
    /\ Within("EXIT", t, Len(queue)) => t \notin DOMAIN pending_masks'
    /\ ~Within("EXIT", t, Len(queue)) => SamePending(Tables', g[Len(queue)], t)

\* The first pass, up to any of its records.
LEMMA BatchFirst ==
  ASSUME NEW g, NEW t, Batch(g, t), NEW n \in 0..Len(queue)
  PROVE  FirstUpTo(g, t, n)
  BY Zenon DEF Batch

\* The masks of t stay as they are from a record on, if no later one is a mask of t.
LEMMA BatchKeeps ==
  ASSUME NEW g, NEW t, Batch(g, t), NEW i \in 0..Len(queue),
         \A j \in 1..Len(queue) : j > i => ~IsOf(queue[j], "AFFINITY", t)
  PROVE  SamePending(g[Len(queue)], g[i], t) /\ SameRestore(g[Len(queue)], g[i], t)
  BY Zenon DEF Batch, KeptFrom

\* A mask that still waits after the batch had no exit in it, and was waiting or came for
\* a thread without a record.
LEMMA StillWaits ==
  ASSUME queue \in Seq(OwnRecord), NEW g, NEW t, Batch(g, t), t \in DOMAIN pending_masks'
  PROVE  /\ ~Within("EXIT", t, Len(queue))
         /\ \/ t \in DOMAIN pending_masks
            \/ \E j \in 1..Len(queue) : IsOf(queue[j], "AFFINITY", t) /\ t \notin DOMAIN g[j - 1].life
  <1> DEFINE N == Len(queue)
  <1>0. N \in 0..N /\ g \in [0..N -> TableType] /\ Passes(g, Tables, NotExits)
    <2>1. N \in 0..N
      OBVIOUS
    <2> QED
      BY <2>1, Zenon DEF Batch
  <1>1. ~Within("EXIT", t, N) /\ SamePending(Tables', g[N], t)
    BY Zenon DEF Batch
  <1>2. Tables'.pending = pending_masks' /\ Tables.pending = pending_masks
    BY DEF Tables
  <1>3. t \in DOMAIN g[N].pending
    BY <1>1, <1>2, Zenon DEF SamePending
  <1>4. FirstUpTo(g, t, N)
    BY <1>0, BatchFirst, Zenon
  <1>5. g[0].pending = pending_masks
    BY <1>0, <1>2, Zenon DEF Passes
  <1> QED
    BY <1>1, <1>3, <1>4, <1>5, Zenon DEF FirstUpTo

\* Between two records of the first pass a thread gets a record only from its fork.
LEMMA BornBetween ==
  ASSUME queue \in Seq(OwnRecord), NEW g, NEW t, Batch(g, t), NEW i \in 1..Len(queue), NEW j \in 1..Len(queue),
         j <= i, IsOf(queue[j], "AFFINITY", t), t \notin DOMAIN g[j - 1].life, t \in DOMAIN g[i - 1].life
  PROVE  \E k \in 1..Len(queue) : k > j /\ IsOf(queue[k], "FORK", t)
  <1> DEFINE N == Len(queue)
  <1>0. g \in [0..N -> TableType] /\ Passes(g, Tables, NotExits)
    BY Zenon DEF Batch
  <1>1. /\ i - 1 \in 0..N /\ j - 1 \in 0..N /\ \A k \in 1..(i - 1) : k \in 1..N
        /\ \A k \in 1..(i - 1) : k \in 1..(j - 1) \/ k = j \/ k > j
    OBVIOUS
  <1>2. FirstUpTo(g, t, i - 1) /\ FirstUpTo(g, t, j - 1)
    BY <1>0, <1>1, BatchFirst, Zenon
  <1>3. Within("FORK", t, i - 1) /\ ~Within("FORK", t, j - 1)
    BY <1>2, Zenon DEF FirstUpTo
  <1>4. PICK k \in 1..(i - 1) : IsOf(queue[k], "FORK", t)
    BY <1>3, Zenon DEF Within
  <1>5. k \notin 1..(j - 1)
    BY <1>3, <1>4, Zenon DEF Within
  <1>6. k # j
    BY <1>4, Zenon DEF IsOf
  <1> QED
    BY <1>1, <1>4, <1>5, <1>6, Zenon

\* The batch and the target's processes: a fork notes them.
LEMMA ConsumeTarget ==
  ASSUME queue \in Seq(OwnRecord), ring \in Seq(OwnRecord), TargetInv, pc = "consume", pc' = "read",
         stream' = ring, Own' = Own, tgid' = tgid, NEW t \in Own, NEW g, Batch(g, t)
  PROVE  Forked(ring, t, tgid[t]) \/ Visited(t)'
  <1> DEFINE N == Len(queue)
  <1>0. N \in 0..N /\ g \in [0..N -> TableType] /\ Passes(g, Tables, NotExits)
    <2>1. N \in 0..N
      OBVIOUS
    <2> QED
      BY <2>1, Zenon DEF Batch
  <1>1. FirstUpTo(g, t, N)
    BY <1>0, BatchFirst, Zenon
  <1>2. g[0].targets = target_tgids /\ target_tgids' = g[N].targets
    <2>1. Tables.targets = target_tgids
      BY DEF Tables
    <2> QED
      BY <1>0, <2>1, Zenon DEF Passes, Batch
  <1>3. tgid[t] \in target_tgids' => Visited(t)'
    BY Zenon DEF Visited
  <1>4. CASE Visited(t)
    BY <1>1, <1>2, <1>3, <1>4, Zenon DEF FirstUpTo, Visited
  <1>5. CASE Forked(stream, t, tgid[t])
    <2>1. PICK i \in DOMAIN stream : IsOf(stream[i], "FORK", t) /\ stream[i].event.tgid = tgid[t]
      BY <1>5, Zenon DEF Forked
    <2>2. CASE i \in 1..N /\ stream[i] = queue[i]
      <3>1. tgid[t] \in g[N].targets
        BY <1>1, <2>1, <2>2, Zenon DEF FirstUpTo, IsOf
      <3> QED
        BY <1>2, <1>3, <3>1, Zenon
    <2>3. CASE i - N \in DOMAIN ring /\ stream[i] = ring[i - N]
      BY <2>1, <2>3, Zenon DEF Forked
    <2> QED
      BY <2>2, <2>3, StreamSplits, Zenon
  <1> QED
    BY <1>4, <1>5, Zenon DEF TargetInv

\* What is said of masks and exits of the ring does not depend on the queue.
LEMMA ConsumeRing ==
  ASSUME queue \in Seq(OwnRecord), ring \in Seq(OwnRecord), MasksInv, ExitsInv,
         stream' = ring, Own' = Own, strangers' = strangers
  PROVE  MasksInv' /\ ExitsInv'
  <1> DEFINE q == Len(queue)
  <1>1. \A i \in DOMAIN ring : i \in 0..Len(ring) /\ q + i \in DOMAIN stream /\ stream[q + i] = ring[i]
    BY StreamIs
  <1>2. ASSUME NEW i \in DOMAIN ring, NEW kind, NEW t
        PROVE  After(ring, kind, t, i) <=> After(stream, kind, t, q + i)
    BY <1>1, AfterInRing, Zenon
  <1> HIDE DEF q
  <1>3. ASSUME NEW i \in DOMAIN ring, NEW t \in Tid, IsOf(ring[i], "AFFINITY", t), t \notin strangers
        PROVE  After(ring, "EXIT", t, i) \/ (t \in Own /\ ~After(ring, "FORK", t, i))
    <2>1. q + i \in DOMAIN stream /\ IsOf(stream[q + i], "AFFINITY", t)
      BY <1>1, <1>3, Zenon
    <2>2. After(stream, "EXIT", t, q + i) \/ (t \in Own /\ ~After(stream, "FORK", t, q + i))
      BY <1>3, <2>1, Zenon DEF MasksInv
    <2> QED
      BY <1>2, <2>2, Zenon
  <1>4. ASSUME NEW i \in DOMAIN ring, NEW t \in Own, IsOf(ring[i], "EXIT", t) PROVE After(ring, "FORK", t, i)
    <2>1. q + i \in DOMAIN stream /\ IsOf(stream[q + i], "EXIT", t)
      BY <1>1, <1>4, Zenon
    <2>2. After(stream, "FORK", t, q + i)
      BY <2>1, Zenon DEF ExitsInv
    <2> QED
      BY <1>2, <2>2, Zenon
  <1>5. MasksInv'
    BY <1>3, Zenon DEF MasksInv
  <1>6. ExitsInv'
    BY <1>4, Zenon DEF ExitsInv
  <1> QED
    BY <1>5, <1>6

\* A mask that waits after the batch is for a task whose exit is to come, or for the
\* present one, which the sample that is read next will have.
LEMMA ConsumePending ==
  ASSUME queue \in Seq(OwnRecord), ring \in Seq(OwnRecord), MasksInv, PendingInv, pc = "consume",
         NEW t \in Tid, t \notin strangers, NEW g, Batch(g, t), t \in DOMAIN pending_masks'
  PROVE  After(ring, "EXIT", t, 0) \/ (t \in Own /\ ~After(ring, "FORK", t, 0))
  <1> DEFINE N == Len(queue)
  <1>0. 0 \in 0..N /\ \A j \in 1..N : j \in 0..N
    OBVIOUS
  <1>1. ~Within("EXIT", t, N)
    BY StillWaits, Zenon
  <1>2. ASSUME NEW i \in 0..N, After(stream, "EXIT", t, i) PROVE After(ring, "EXIT", t, 0)
    BY <1>1, <1>2, AfterSplits, Zenon DEF Within
  <1>3. CASE t \in DOMAIN pending_masks
    <2>1. After(stream, "EXIT", t, 0)
      BY <1>3, Zenon DEF PendingInv
    <2> QED
      BY <1>0, <1>2, <2>1, Zenon
  <1>4. ASSUME NEW j \in 1..N, IsOf(queue[j], "AFFINITY", t)
        PROVE  After(ring, "EXIT", t, 0) \/ (t \in Own /\ ~After(ring, "FORK", t, 0))
    <2>1. j \in DOMAIN stream /\ IsOf(stream[j], "AFFINITY", t)
      <3>1. j \in DOMAIN stream /\ stream[j] = queue[j]
        BY StreamIs, Zenon
      <3> QED
        BY <1>4, <3>1, Zenon
    <2>2. After(stream, "EXIT", t, j) \/ (t \in Own /\ ~After(stream, "FORK", t, j))
      BY <2>1, Zenon DEF MasksInv
    <2>3. After(ring, "FORK", t, 0) => After(stream, "FORK", t, j)
      BY <1>0, AfterSplits, Zenon
    <2> QED
      BY <1>0, <1>2, <2>2, <2>3, Zenon
  <1> QED
    BY <1>3, <1>4, StillWaits, Zenon

\* The last mask of t in the batch: the thread has a record, and the mask is recorded.
LEMMA ConsumeRecords ==
  ASSUME queue \in Seq(OwnRecord), ring \in Seq(OwnRecord), MasksInv, PendingInv, pc = "consume",
         NEW t \in Tid, t \notin strangers, NEW g, Batch(g, t), NEW i \in 1..Len(queue),
         IsOf(queue[i], "AFFINITY", t), LastOf(stream, t, i), t \in DOMAIN g[i - 1].life
  PROVE  t \in DOMAIN restore_masks' /\ restore_masks'[t] = queue[i].event.mask /\ t \notin DOMAIN pending_masks'
  <1> DEFINE N == Len(queue)
  <1>0. /\ 0 \in 0..N /\ i \in 0..N /\ i - 1 \in 0..N /\ \A j \in 1..N : j \in 0..N /\ (j <= i \/ j > i)
        /\ \A j \in 1..N : j > 0
    OBVIOUS
  <1>1. g \in [0..N -> TableType] /\ Passes(g, Tables, NotExits) /\ restore_masks' = g[N].restore
    BY Zenon DEF Batch
  <1>2. ASSUME NEW j \in 1..N, j > i PROVE ~IsOf(queue[j], "AFFINITY", t) /\ ~IsOf(queue[j], "EXIT", t)
    BY <1>0, <1>2, AfterSplits, Zenon DEF LastOf
  <1>3. SameRestore(g[N], g[i], t)
    BY <1>0, <1>1, <1>2, BatchKeeps, Zenon
  <1>4. t \in DOMAIN g[i].restore /\ g[i].restore[t] = queue[i].event.mask
    <2>1. g[i - 1] \in TableType /\ queue[i].event \in Event /\ g[i] = Turn(g[i - 1], queue[i].event, NotExits)
      BY <1>0, <1>1, QueuedEvent, Zenon DEF Passes
    <2>2. queue[i].event.kind = "AFFINITY" /\ queue[i].event.tid = t
      BY Zenon DEF IsOf
    <2>3. Records(Turn(g[i - 1], queue[i].event, NotExits), queue[i].event.tid, queue[i].event.mask)
      BY <2>1, <2>2, RecordTurn, Zenon
    <2> QED
      BY <2>1, <2>2, <2>3, Zenon DEF Records
  <1>5. ASSUME t \in DOMAIN pending_masks' PROVE FALSE
    <2>1. ~Within("EXIT", t, N)
      BY <1>5, StillWaits, Zenon
    <2>2. ~After(ring, "EXIT", t, 0)
      BY <1>0, AfterSplits, Zenon DEF LastOf
    <2>3. ASSUME NEW j \in 0..N PROVE ~After(stream, "EXIT", t, j)
      BY <2>1, <2>2, AfterSplits, Zenon DEF Within
    <2>4. CASE t \in DOMAIN pending_masks
      BY <1>0, <2>3, <2>4, Zenon DEF PendingInv
    <2>5. ASSUME NEW j \in 1..N, IsOf(queue[j], "AFFINITY", t), t \notin DOMAIN g[j - 1].life PROVE FALSE
      <3>1. j <= i
        BY <1>0, <1>2, <2>5, Zenon
      <3>2. PICK k \in 1..N : k > j /\ IsOf(queue[k], "FORK", t)
        BY <2>5, <3>1, BornBetween, Zenon
      <3>3. After(stream, "FORK", t, j)
        BY <1>0, <3>2, AfterSplits, Zenon
      <3>4. j \in DOMAIN stream /\ IsOf(stream[j], "AFFINITY", t)
        <4>1. j \in DOMAIN stream /\ stream[j] = queue[j]
          BY StreamIs, Zenon
        <4> QED
          BY <2>5, <4>1, Zenon
      <3> QED
        BY <1>0, <2>3, <3>3, <3>4, Zenon DEF MasksInv
    <2> QED
      BY <1>5, <2>4, <2>5, StillWaits, Zenon
  <1> QED
    BY <1>1, <1>3, <1>4, <1>5, Zenon DEF SameRestore

\* The thread has no record: the mask waits, and no exit of the batch takes it away.
LEMMA ConsumeWaits ==
  ASSUME queue \in Seq(OwnRecord), ring \in Seq(OwnRecord), ExitsInv,
         NEW t \in Own, NEW g, Batch(g, t), NEW i \in 1..Len(queue),
         IsOf(queue[i], "AFFINITY", t), LastOf(stream, t, i), t \notin DOMAIN g[i - 1].life
  PROVE  t \in DOMAIN pending_masks' /\ pending_masks'[t] = queue[i].event.mask
  <1> DEFINE N == Len(queue)
  <1>0. /\ i \in 0..N /\ i - 1 \in 0..N /\ \A j \in 1..N : j \in 0..N /\ (j = i \/ j > i \/ j \in 1..(i - 1))
    OBVIOUS
  <1>1. g \in [0..N -> TableType] /\ Passes(g, Tables, NotExits)
    BY Zenon DEF Batch
  <1>2. ASSUME NEW j \in 1..N, j > i
        PROVE  ~IsOf(queue[j], "AFFINITY", t) /\ ~IsOf(queue[j], "EXIT", t) /\ ~IsOf(queue[j], "FORK", t)
    BY <1>0, <1>2, AfterSplits, Zenon DEF LastOf
  <1>3. SamePending(g[N], g[i], t)
    BY <1>0, <1>1, <1>2, BatchKeeps, Zenon
  <1>4. t \in DOMAIN g[i].pending /\ g[i].pending[t] = queue[i].event.mask
    <2>1. g[i - 1] \in TableType /\ queue[i].event \in Event /\ g[i] = Turn(g[i - 1], queue[i].event, NotExits)
      BY <1>0, <1>1, QueuedEvent, Zenon DEF Passes
    <2>2. queue[i].event.kind = "AFFINITY" /\ queue[i].event.tid = t
      BY Zenon DEF IsOf
    <2>3. Holds(Turn(g[i - 1], queue[i].event, NotExits), queue[i].event.tid, queue[i].event.mask)
      BY <2>1, <2>2, WaitTurn, Zenon
    <2> QED
      BY <2>1, <2>2, <2>3, Zenon DEF Holds
  <1>5. ~Within("FORK", t, i - 1)
    <2>1. FirstUpTo(g, t, i - 1)
      BY <1>0, <1>1, BatchFirst, Zenon
    <2> QED
      BY <2>1, Zenon DEF FirstUpTo
  <1>6. ASSUME NEW j \in 1..N, IsOf(queue[j], "EXIT", t) PROVE FALSE
    <2>1. j \in DOMAIN stream /\ IsOf(stream[j], "EXIT", t)
      <3>1. j \in DOMAIN stream /\ stream[j] = queue[j]
        BY StreamIs, Zenon
      <3> QED
        BY <1>6, <3>1, Zenon
    <2>2. After(stream, "FORK", t, j)
      BY <2>1, Zenon DEF ExitsInv
    <2>3. ~After(ring, "FORK", t, 0)
      BY <1>0, AfterSplits, Zenon DEF LastOf
    <2>4. PICK k \in 1..N : IsOf(queue[k], "FORK", t)
      BY <1>0, <2>2, <2>3, AfterSplits, Zenon
    <2>5. k # i
      BY <2>4, Zenon DEF IsOf
    <2>6. k \notin 1..(i - 1)
      BY <1>5, <2>4, Zenon DEF Within
    <2> QED
      BY <1>0, <1>2, <2>4, <2>5, <2>6, Zenon
  <1>7. SamePending(Tables', g[N], t)
    BY <1>6, Zenon DEF Batch, Within
  <1>8. Tables'.pending = pending_masks'
    BY DEF Tables
  <1>9. t \in DOMAIN g[N].pending /\ g[N].pending[t] = queue[i].event.mask
    BY <1>3, <1>4, Zenon DEF SamePending
  <1> QED
    BY <1>7, <1>8, <1>9, Zenon DEF SamePending

\* A thread with no mask in the batch keeps the mask that is recorded.
LEMMA ConsumeKeeps ==
  ASSUME queue \in Seq(OwnRecord), ring \in Seq(OwnRecord), NEW t, NEW g, Batch(g, t),
         LastOf(stream, t, 0), t \in DOMAIN restore_masks, t \notin DOMAIN pending_masks
  PROVE  t \in DOMAIN restore_masks' /\ restore_masks'[t] = restore_masks[t] /\ t \notin DOMAIN pending_masks'
  <1> DEFINE N == Len(queue)
  <1>0. 0 \in 0..N /\ \A j \in 1..N : j > 0
    <2>1. N \in Nat
      OBVIOUS
    <2> HIDE DEF N
    <2> QED
      BY <2>1
  <1>1. g \in [0..N -> TableType] /\ Passes(g, Tables, NotExits) /\ restore_masks' = g[N].restore
    BY Zenon DEF Batch
  <1>2. ASSUME NEW j \in 1..N, j > 0 PROVE ~IsOf(queue[j], "AFFINITY", t)
    BY <1>0, <1>2, AfterSplits, Zenon DEF LastOf
  <1>3. SamePending(g[N], g[0], t) /\ SameRestore(g[N], g[0], t)
    BY <1>0, <1>1, <1>2, BatchKeeps, Zenon
  <1>4. Tables.restore = restore_masks
    BY DEF Tables
  <1>5. g[0].restore = restore_masks
    BY <1>1, <1>4, Zenon DEF Passes
  <1>6. t \notin DOMAIN pending_masks'
    BY <1>0, <1>2, StillWaits, Zenon
  <1> QED
    BY <1>1, <1>3, <1>5, <1>6, Zenon DEF SameRestore

\* The worker handles the queue, forks and masks first and exits last.
LEMMA ConsumeStream ==
  ASSUME IInv, TableInv, OwnInv, StreamInv, consume_pending_bpf,
         Tables' \in TableType, \A t : \E g : Batch(g, t)
  PROVE  OwnInv' /\ StreamInv'
  <1> DEFINE N == Len(queue)
  <1>1. /\ pc = "consume" /\ pc' = "read" /\ queue' = <<>> /\ fatal' = (fatal \/ overflow # 0)
        /\ UNCHANGED <<kernel, pids, ours, declared, strangers>> /\ UNCHANGED <<ring, dropped>>
    BY Zenon DEF consume_pending_bpf, bpf
  <1>2. UNCHANGED <<tgid, declared, strangers>> /\ Own' = Own /\ OwnInv'
    BY <1>1, TasksStay, Zenon
  <1>3. queue \in Seq(OwnRecord) /\ ring \in Seq(OwnRecord) /\ Tables \in TableType
    BY Zenon DEF IInv, RecordInv, TableInv
  <1>4. stream' = ring
    BY <1>1, <1>3 DEF stream
  <1>6. ASSUME NoLoss' PROVE TargetInv' /\ MasksInv' /\ ExitsInv' /\ PendingInv' /\ MaskInv'
    <2>1. NoLoss
      BY <1>1, <1>6, Zenon DEF NoLoss
    <2>2. TargetInv /\ MasksInv /\ ExitsInv /\ PendingInv /\ MaskInv
      BY <2>1, Zenon DEF StreamInv
    <2>3. TargetInv'
      <3>1. ASSUME NEW t \in Own PROVE Forked(ring, t, tgid[t]) \/ Visited(t)'
        <4>1. PICK g : Batch(g, t)
          BY Zenon
        <4> QED
          BY <1>1, <1>2, <1>3, <1>4, <2>2, <4>1, ConsumeTarget, Zenon
      <3> QED
        BY <1>2, <1>4, <3>1, Zenon DEF TargetInv
    <2>4. MasksInv' /\ ExitsInv'
      BY <1>2, <1>3, <1>4, <2>2, ConsumeRing, Zenon
    <2>5. PendingInv'
      <3> SUFFICES ASSUME NEW t \in DOMAIN pending_masks', t \notin strangers
                   PROVE  After(ring, "EXIT", t, 0) \/ (t \in Own /\ ~After(ring, "FORK", t, 0))
        BY <1>1, <1>2, <1>4, Zenon DEF PendingInv
      <3>1. t \in Tid
        <4>3. Tables'.pending = pending_masks'
          BY DEF Tables
        <4>4. \A x \in TableType : x.pending \in Partial(1..MaxCalls)
          BY DEF TableType
        <4>5. pending_masks' \in Partial(1..MaxCalls)
          BY <4>3, <4>4, Zenon
        <4> QED
          BY <4>5, PartialIs, Zenon
      <3>2. PICK g : Batch(g, t)
        BY Zenon
      <3> QED
        BY <1>1, <1>3, <2>2, <3>1, <3>2, ConsumePending, Zenon
    <2>6. MaskInv'
      <3> SUFFICES ASSUME NEW t \in DOMAIN declared, t \in Own, t \notin strangers
                   PROVE  Sent(t)' \/ (LastOf(ring, t, 0) /\ (Recorded(t)' \/ Waiting(t)'))
        BY <1>2, <1>4, Zenon DEF MaskInv
      <3>0. t \in Tid /\ 0 \in 0..N /\ \A i \in 1..N : i \in 0..N
        <4>1. t \in Tid
          BY Zenon DEF Own, Live
        <4>2. 0 \in 0..N /\ \A i \in 1..N : i \in 0..N
          BY <1>3
        <4> QED
          BY <4>1, <4>2
      <3>1. PICK g : Batch(g, t)
        BY Zenon
      <3>2. ASSUME NEW i \in 0..N, LastOf(stream, t, i) PROVE LastOf(ring, t, 0)
        BY <1>3, <3>2, AfterSplits, Zenon DEF LastOf
      <3>3. CASE LastOf(stream, t, 0) /\ (Recorded(t) \/ Waiting(t))
        <4>1. /\ t \in DOMAIN restore_masks /\ restore_masks[t] = declared[t] /\ t \notin DOMAIN pending_masks
          BY <1>1, <3>3, Zenon DEF Recorded, Waiting
        <4>2. /\ t \in DOMAIN restore_masks' /\ restore_masks'[t] = restore_masks[t]
              /\ t \notin DOMAIN pending_masks'
          BY <1>3, <3>1, <3>3, <4>1, ConsumeKeeps, Zenon
        <4>3. Recorded(t)'
          BY <1>2, <4>1, <4>2, Zenon DEF Recorded
        <4> QED
          BY <3>0, <3>2, <3>3, <4>3, Zenon
      <3>4. ASSUME NEW i \in DOMAIN stream, IsOf(stream[i], "AFFINITY", t), stream[i].event.mask = declared[t],
                   LastOf(stream, t, i)
            PROVE  Sent(t)' \/ (LastOf(ring, t, 0) /\ (Recorded(t)' \/ Waiting(t)'))
        <4>1. CASE i \in 1..N /\ stream[i] = queue[i]
          <5>1. IsOf(queue[i], "AFFINITY", t) /\ queue[i].event.mask = declared[t]
            BY <3>4, <4>1, Zenon
          <5>2. LastOf(ring, t, 0)
            BY <3>0, <3>2, <3>4, <4>1, Zenon
          <5>3. CASE t \in DOMAIN g[i - 1].life
            <6>1. /\ t \in DOMAIN restore_masks' /\ restore_masks'[t] = queue[i].event.mask
                  /\ t \notin DOMAIN pending_masks'
              BY <1>1, <1>3, <2>2, <3>0, <3>1, <3>4, <4>1, <5>1, <5>3, ConsumeRecords, Zenon
            <6>2. Recorded(t)'
              BY <1>2, <5>1, <6>1, Zenon DEF Recorded
            <6> QED
              BY <5>2, <6>2
          <5>4. CASE t \notin DOMAIN g[i - 1].life
            <6>1. t \in DOMAIN pending_masks' /\ pending_masks'[t] = queue[i].event.mask
              BY <1>3, <2>2, <3>1, <3>4, <4>1, <5>1, <5>4, ConsumeWaits, Zenon
            <6>2. Waiting(t)'
              BY <1>1, <1>2, <5>1, <6>1, Zenon DEF Waiting
            <6> QED
              BY <5>2, <6>2
          <5> QED
            BY <5>3, <5>4
        <4>2. CASE /\ i > N /\ i - N \in DOMAIN ring /\ stream[i] = ring[i - N] /\ N + (i - N) = i
          <5>1. i - N \in 0..Len(ring)
            BY <1>3, <4>2
          <5>2. ASSUME NEW kind PROVE After(ring, kind, t, i - N) <=> After(stream, kind, t, i)
            <6>1. After(ring, kind, t, i - N) <=> After(stream, kind, t, N + (i - N))
              BY <1>3, <5>1, AfterInRing, Zenon
            <6> QED
              BY <4>2, <6>1, Zenon
          <5>3. LastOf(ring, t, i - N)
            BY <3>4, <5>2, Zenon DEF LastOf
          <5>4. IsOf(ring[i - N], "AFFINITY", t) /\ ring[i - N].event.mask = declared[t]
            BY <3>4, <4>2, Zenon
          <5>5. Sent(t)'
            BY <1>2, <1>4, <4>2, <5>3, <5>4, Zenon DEF Sent
          <5> QED
            BY <5>5
        <4> QED
          BY <1>3, <4>1, <4>2, StreamSplits, Zenon
      <3>5. Sent(t) \/ (LastOf(stream, t, 0) /\ (Recorded(t) \/ Waiting(t)))
        BY <2>2, Zenon DEF MaskInv
      <3> QED
        BY <3>3, <3>4, <3>5, Zenon DEF Sent
    <2> QED
      BY <2>3, <2>4, <2>5, <2>6
  <1> QED
    BY <1>2, <1>6, Zenon DEF StreamInv

\* At first there is the root, which is visited, and no record.
LEMMA InitStream == Init => OwnInv /\ StreamInv
  <1> SUFFICES ASSUME Init PROVE OwnInv /\ StreamInv
    OBVIOUS
  <1>1. stream = <<>>
    BY DEF Init, stream
  <1>2. /\ gen = [t \in Tid |-> IF t = Root THEN 1 ELSE 0] /\ tgid = [t \in Tid |-> t]
        /\ zombies = {} /\ ours = {1} /\ declared = Nothing /\ pids = With(Nothing, Root, 0)
        /\ pc = "consume" /\ target_tgids = {Root} /\ pending_masks = Nothing
    BY Zenon DEF Init
  <1>3. Live = {Root} /\ tgid[Root] = Root /\ gen[Root] = 1
    BY <1>2, RootAssumption DEF Live
  <1>4. DOMAIN declared = {} /\ DOMAIN pending_masks = {} /\ Own \subseteq {Root} /\ DOMAIN stream = {}
    BY <1>1, <1>2, <1>3 DEF Nothing, Own
  <1>5. tracked_task(Root)
    BY <1>2 DEF tracked_task, With, Nothing
  <1>6. OwnInv
    BY <1>3, <1>4, <1>5, Zenon DEF OwnInv
  <1>7. TargetInv
    BY <1>2, <1>3, <1>4 DEF TargetInv, Visited
  <1>8. MasksInv /\ ExitsInv /\ PendingInv /\ MaskInv
    BY <1>4, Zenon DEF MasksInv, ExitsInv, PendingInv, MaskInv
  <1> QED
    BY <1>6, <1>7, <1>8, Zenon DEF StreamInv
=============================================================================
