--------------------------- MODULE EventPipeline ---------------------------
(***************************************************************************)
(* The way of a task event from the kernel to the runtime's thread table:  *)
(* the BPF programs (bpf/affinitygraph.bpf.c), the ring and its reader     *)
(* (src/bpf_reader.cpp), the queue between the BPF thread and the worker,  *)
(* and the worker's handlers and sampler (src/runtime.cpp).                *)
(*                                                                         *)
(* Task ids are reused, by the target and by processes that have nothing   *)
(* to do with it; a generation (the kernel's start time) tells the users   *)
(* of an id apart.  Of the actuator's restore_masks_ the module has the    *)
(* entries that note_application_mask makes; futex and VFS relations,      *)
(* names and start routines are left out.                                  *)
(***************************************************************************)
EXTENDS Naturals, Sequences, FiniteSetsExt

CONSTANTS Tid,           \* task ids
          Root,          \* the process affinity-run starts
          RingLimit,     \* bound: records in the ring (RING_BYTES)
          QueueLimit,    \* bound: lifecycle_limit
          MaxGen,        \* bound: tasks started
          MaxExecs,      \* bound: exec calls
          MaxCalls       \* bound: sched_setaffinity calls; each asks for another mask

ASSUME RootAssumption == Root \in Tid
ASSUME BoundAssumption == {RingLimit, QueueLimit, MaxGen, MaxExecs} \subseteq Nat \ {0} /\ MaxCalls \in Nat

VARIABLES
  \* the kernel's tasks (external)
  gen,                   \* [Tid -> 0..MaxGen]: the task's generation; 0: no task
  tgid,                  \* [Tid -> Tid]
  zombies,               \* tasks that have exited and still have their id
  born, execs, calls,    \* tasks started and calls made so far
  \* the BPF maps
  pids,                  \* partial: [tgid -> generation], 0: any
  ring,
  dropped,               \* a record did not fit
  \* the queue between the BPF thread and the worker
  queue,                 \* pending_lifecycle_events_
  overflow,              \* pending_lifecycle_overflow_
  \* the worker
  pc,                    \* "consume", "read" or "reconcile"
  snapshot,              \* partial: [tid -> generation], the samples of /proc
  target_tgids,
  lifecycle,             \* partial: [tid -> proc_starttime], 0: not sampled yet
  pending_masks,         \* partial: pending_application_masks_
  restore_masks,         \* partial: the masks note_application_mask has recorded
  fatal,
  \* history, for the properties only
  ours,                  \* generations of the target's tasks
  declared,              \* partial: [tid -> mask], the last mask asked for the task
  strangers,             \* ids the target has set a mask for while they were not its own
  underway               \* records the ring has accepted and no handler has seen

kernel == <<gen, tgid, zombies, born, execs, calls>>
bpf == <<pids, ring, dropped>>
reader == <<queue, overflow>>
table == <<target_tgids, lifecycle, pending_masks, restore_masks>>
worker == <<pc, snapshot, table, fatal>>
history == <<ours, declared, strangers, underway>>
vars == <<kernel, bpf, reader, worker, history>>

Nothing == [t \in {} |-> 0]
With(f, t, v) == [x \in DOMAIN f \cup {t} |-> IF x = t THEN v ELSE f[x]]
Without(f, S) == [x \in DOMAIN f \ S |-> f[x]]
Live == {t \in Tid : gen[t] # 0}

\* The root waits behind the barrier, its TGID registered without a start time.
Init ==
    /\ gen = [t \in Tid |-> IF t = Root THEN 1 ELSE 0] /\ tgid = [t \in Tid |-> t]
    /\ zombies = {} /\ born = 1 /\ execs = 0 /\ calls = 0 /\ ours = {1} /\ declared = Nothing /\ strangers = {}
    /\ pids = With(Nothing, Root, 0) /\ ring = <<>> /\ underway = 0 /\ dropped = FALSE
    /\ queue = <<>> /\ overflow = 0
    /\ pc = "consume" /\ snapshot = Nothing /\ target_tgids = {Root} /\ lifecycle = Nothing
    /\ pending_masks = Nothing /\ restore_masks = Nothing /\ fatal = FALSE
-----------------------------------------------------------------------------
(***************************************************************************)
(* Tasks, and the BPF programs that run in them                            *)
(***************************************************************************)
\* Mutant: a TGID is tracked for ever, whoever has it.
TrackedById(p) == p \in DOMAIN pids
tracked_task(p) == p \in DOMAIN pids /\ pids[p] \in {0, gen[p]}

emit_event(e) ==
    \/ Len(ring) < RingLimit /\ ring' = Append(ring, e) /\ underway' = underway + 1 /\ UNCHANGED dropped
    \/ Len(ring) = RingLimit /\ dropped' = TRUE /\ UNCHANGED <<ring, underway>>

\* An event has what its handler uses, and (for the properties) whose it is.
Report(t, e) == IF tracked_task(tgid[t])
                THEN emit_event([event |-> e, mine |-> gen[t] \in ours])
                ELSE UNCHANGED <<ring, underway, dropped>>

\* Before its exec the root does nothing else.
Runs(t) == t \in Live \ zombies /\ (tgid[t] = Root => pids[Root] # 0)

Start(t, group, mine) ==
    /\ gen[t] = 0 /\ born < MaxGen /\ born' = born + 1
    /\ gen' = [gen EXCEPT ![t] = born'] /\ tgid' = [tgid EXCEPT ![t] = group]
    /\ ours' = IF mine THEN ours \cup {born'} ELSE ours
    /\ UNCHANGED <<zombies, execs, calls, reader, worker, declared, strangers>>

\* A thread, or a process, is created by the task p.
on_fork(p, t) ==
    /\ Runs(p)
    /\ \E group \in {tgid[p], t} :
         /\ Start(t, group, gen[p] \in ours)
         /\ pids' = IF group = t /\ tracked_task(tgid[p]) THEN With(pids, t, born') ELSE pids
         /\ Report(p, [kind |-> "FORK", tid |-> t, tgid |-> group])

\* A process the target has nothing to do with gets the id t.
ForeignStart(t) == Start(t, t, FALSE) /\ UNCHANGED <<bpf, underway>>

on_exec(p) ==
    /\ p \in Live \ zombies /\ tracked_task(p) /\ \A t \in Live : tgid[t] = p => t = p
    /\ pids' = IF pids[p] = 0 THEN With(pids, p, gen[p]) ELSE pids
    /\ Report(p, [kind |-> "EXEC", tgid |-> p])
    /\ execs < MaxExecs /\ execs' = execs + 1
    /\ UNCHANGED <<gen, tgid, zombies, born, calls, reader, worker, ours, declared, strangers>>

\* The leader exits last; an exited task is in /proc until it is reaped.
on_exit(t) ==
    /\ Runs(t) /\ (t = tgid[t] => \A u \in Live : tgid[u] = t => u = t)
    /\ zombies' = zombies \cup {t}
    /\ Report(t, [kind |-> "EXIT", tid |-> t])
    /\ UNCHANGED <<gen, tgid, born, execs, calls, pids, reader, worker, ours, declared, strangers>>

Reap(t) ==
    /\ t \in zombies /\ zombies' = zombies \ {t}
    /\ gen' = [gen EXCEPT ![t] = 0] /\ tgid' = [tgid EXCEPT ![t] = t]
    /\ ours' = ours \ {gen[t]} /\ declared' = Without(declared, {t})
    /\ UNCHANGED <<born, execs, calls, bpf, reader, worker, strangers, underway>>

\* t gives u another mask; the call and its report are one step.
on_sched_setaffinity(t, u) ==
    /\ Runs(t) /\ u \in Live \ zombies /\ tracked_task(tgid[t])
    /\ calls < MaxCalls /\ calls' = calls + 1
    /\ Report(t, [kind |-> "AFFINITY", tid |-> u, mask |-> calls'])
    /\ declared' = With(declared, u, calls')
    /\ strangers' = IF gen[u] \in ours THEN strangers ELSE strangers \cup {u}
    /\ UNCHANGED <<gen, tgid, zombies, born, execs, pids, reader, worker, ours>>
-----------------------------------------------------------------------------
(***************************************************************************)
(* The BPF thread: drain_bpf_once                                          *)
(***************************************************************************)
\* Mutant: the consumer position is set to the end that was read.
SkipsBusy(n) == <<>>
\* What is left in the ring after n records.
Undrained(n) == SubSeq(ring, n + 1, Len(ring))

\* Mutant: the limit is tested once for the whole batch.
QueueAll(n) == IF Len(queue) < QueueLimit THEN queue \o SubSeq(ring, 1, n) ELSE queue
Queued(n) == LET all == queue \o SubSeq(ring, 1, n) IN SubSeq(all, 1, Min({Len(all), QueueLimit}))

\* The ring up to its end, or to the first record that is still being written,
\* goes to the queue as far as there is room.
drain_bpf_once ==
    /\ \E n \in 1..Len(ring) :
         /\ ring' = Undrained(n) /\ queue' = Queued(n)
         /\ overflow' = overflow + Len(queue) + n - Len(queue')
    /\ UNCHANGED <<kernel, pids, dropped, worker, history>>
-----------------------------------------------------------------------------
(***************************************************************************)
(* The worker's handlers, on the record of its tables                      *)
(***************************************************************************)
Tables == [targets |-> target_tgids, life |-> lifecycle, pending |-> pending_masks,
           restore |-> restore_masks]

\* Mutant: the process of a new thread is not noted.
StartedOnly(s, e) == [s EXCEPT !.life = With(@, e.tid, 0)]
thread_started(s, e) ==
    [s EXCEPT !.life = With(@, e.tid, 0), !.targets = @ \cup {e.tgid}]

thread_exited(s, e) == [s EXCEPT !.life = Without(@, {e.tid}), !.pending = Without(@, {e.tid})]

\* Mutant: a mask for an unknown thread is ignored.
KnownOnly(s, e) ==
    IF e.tid \in DOMAIN s.life THEN [s EXCEPT !.restore = With(@, e.tid, e.mask)] ELSE s
application_affinity(s, e) ==
    IF e.tid \in DOMAIN s.life THEN [s EXCEPT !.restore = With(@, e.tid, e.mask)]
    ELSE [s EXCEPT !.pending = With(@, e.tid, e.mask)]

handle_bpf_event(s, e) ==
    CASE e.kind = "FORK" -> thread_started(s, e)
      [] e.kind = "EXEC" -> [s EXCEPT !.targets = @ \cup {e.tgid}]
      [] e.kind = "EXIT" -> thread_exited(s, e)
      [] e.kind = "AFFINITY" -> application_affinity(s, e)

Become(s) == /\ target_tgids' = s.targets /\ lifecycle' = s.life
             /\ pending_masks' = s.pending /\ restore_masks' = s.restore

\* A pass over the batch handles, in their order, the events of some kinds.
Turn(s, e, kinds) == IF e.kind \in kinds THEN handle_bpf_event(s, e) ELSE s
Pass(s, kinds) ==
    LET after[n \in 0..Len(queue)] == IF n = 0 THEN s ELSE Turn(after[n - 1], queue[n].event, kinds)
    IN after[Len(queue)]

\* The exits of a batch come last; then the overflow check.
consume_pending_bpf ==
    /\ pc = "consume" /\ pc' = "read"
    /\ Become(Pass(Pass(Tables, {"FORK", "EXEC", "AFFINITY"}), {"EXIT"}))
    /\ queue' = <<>> /\ overflow' = 0 /\ snapshot' = Nothing
    /\ fatal' = (fatal \/ overflow # 0) /\ underway' = underway - Len(queue)
    /\ UNCHANGED <<kernel, bpf, ours, declared, strangers>>

\* The sampler reads /proc/<tgid>/task for every target process: the threads of
\* the group the id is in now.
read_proc ==
    /\ pc = "read"
    /\ snapshot' = [t \in {u \in Live : \E p \in target_tgids \cap Live : tgid[u] = tgid[p]} |-> gen[t]]
    /\ pc' = IF snapshot' = Nothing THEN "consume" ELSE "reconcile"   \* no samples: it throws
    /\ UNCHANGED <<kernel, bpf, reader, table, fatal, history>>

\* Mutant: a known TID is the same thread.
NewTidOnly(t) == t \notin DOMAIN lifecycle
Fresh(t) == t \notin DOMAIN lifecycle \/ lifecycle[t] \notin {0, snapshot[t]}

\* Records for the samples, with the masks that waited for them; the TIDs that
\* were not seen are forgotten.
reconcile_and_sample ==
    /\ pc = "reconcile" /\ pc' = "consume"
    /\ LET seen == DOMAIN snapshot
           due == DOMAIN pending_masks \cap seen
       IN /\ target_tgids' = target_tgids \cap seen
          /\ lifecycle' = [t \in seen |-> IF Fresh(t) \/ lifecycle[t] = 0 THEN snapshot[t] ELSE lifecycle[t]]
          /\ restore_masks' = [t \in DOMAIN restore_masks \cup due |->
                                 IF t \in due THEN pending_masks[t] ELSE restore_masks[t]]
          /\ pending_masks' = Without(pending_masks, seen)
    /\ UNCHANGED <<kernel, bpf, reader, snapshot, fatal, history>>
-----------------------------------------------------------------------------
Task == \/ \E p, t \in Tid : on_fork(p, t)
        \/ \E t \in Tid : ForeignStart(t) \/ on_exec(t) \/ on_exit(t) \/ Reap(t)
        \/ \E t, u \in Tid : on_sched_setaffinity(t, u)

\* affinity-run starts the runtime's threads when the root has called exec.
Runtime == /\ pids[Root] # 0
           /\ drain_bpf_once \/ consume_pending_bpf \/ read_proc \/ reconcile_and_sample

\* A hard failure ends the target, and the model.
Next == ~fatal /\ (Task \/ Runtime)

Spec == Init /\ [][Next]_vars
-----------------------------------------------------------------------------
(***************************************************************************)
(* Properties                                                              *)
(***************************************************************************)
\* Every variable has its type; ring and queue keep to their limits.
TypeOK ==
    /\ gen \in [Tid -> 0..MaxGen] /\ tgid \in [Tid -> Tid] /\ zombies \subseteq Live /\ born \in 1..MaxGen
    /\ DOMAIN pids \subseteq Tid /\ \A p \in DOMAIN pids : pids[p] \in 0..MaxGen
    /\ Len(ring) <= RingLimit /\ Len(queue) <= QueueLimit
    /\ target_tgids \subseteq Tid /\ DOMAIN lifecycle \subseteq Tid /\ DOMAIN snapshot \subseteq Tid
    /\ \A t \in DOMAIN lifecycle : lifecycle[t] \in 0..MaxGen
    /\ \A f \in {pending_masks, restore_masks, declared} :
         DOMAIN f \subseteq Tid /\ \A t \in DOMAIN f : f[t] \in 1..MaxCalls
    /\ pc \in {"consume", "read", "reconcile"} /\ {fatal, dropped} \subseteq BOOLEAN

\* Only the target's tasks report: a TGID stays in the pids map when its process
\* is gone, but whoever gets the id next is not taken for the target.
OnlyTargetsReport == \A r \in Range(ring) \cup Range(queue) : r.mine

\* No event is lost in silence: as long as there is no hard failure, every record
\* the ring has accepted and no handler has seen is still on its way, or is
\* counted as overflow and about to become a hard failure.
EventsAreAccounted ==
    ~fatal => underway = Len(ring) + Len(queue) + overflow

\* After a sample the table has exactly the sampled threads, each with the
\* generation that was seen, whatever events were late, lost or out of order.
TableFollowsProc ==
    pc = "consume" /\ snapshot # Nothing =>
      /\ DOMAIN lifecycle = DOMAIN snapshot
      /\ \A t \in DOMAIN lifecycle : lifecycle[t] = snapshot[t]

\* Every event is handled, and a sample was taken since.
Settled == /\ pc = "consume" /\ snapshot # Nothing /\ ring = <<>> /\ queue = <<>>
           /\ ~dropped /\ overflow = 0 /\ ~fatal

\* Without losses, no descendant stays unseen: the sampler visits the process of
\* every thread of the target.
DescendantsAreTargets ==
    Settled => \A t \in Live \ zombies : gen[t] \in ours => tgid[t] \in target_tgids

\* Without losses, the mask to restore is the one the application asked for
\* last, although a mask may arrive before its thread and exits of the TID's
\* former users are handled late.  (A mask the target sets for a task that is
\* not its own waits for ever, and would go to the id's next user.)
ApplicationMaskIsKept ==
    Settled =>
      \A t \in DOMAIN declared \ (strangers \cup zombies) : gen[t] \in ours =>
        t \in DOMAIN restore_masks /\ restore_masks[t] = declared[t]
=============================================================================
