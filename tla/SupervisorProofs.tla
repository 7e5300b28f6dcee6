-------------------------- MODULE SupervisorProofs --------------------------
(***************************************************************************)
(* The safety properties of Supervisor, for a target with any descendants, *)
(* any number of attempts and any number of signals.                       *)
(*                                                                         *)
(* The barrier: the child is past it only if the byte was written, which   *)
(* the supervisor does once the child is registered and the handlers are   *)
(* installed.  The return: a process that is still there has a parent that *)
(* runs, or is the supervisor's; and since no process is its own ancestor, *)
(* one of them is the supervisor's, and waitpid would find it.             *)
(***************************************************************************)
EXTENDS Supervisor, TLAPS

USE DEF sup, pipes, tree, bounds

\* Processes that waitpid would have to collect.
Present == {p \in Proc : state[p] \in Alive \cup {"zombie"}}

\* What the child has been let do, by the supervisor's progress.
BarrierInv ==
    /\ pc \in {"load", "fork"} => state[Child] = "none"
    /\ pc \in {"load", "fork", "adopt", "handlers", "register", "release"} => ~released
    /\ pc \in {"register", "release"} \/ released => handlers
    /\ pc = "release" \/ released => tracked = bpf_ready
    /\ state[Child] \in {"free", "run"} => released
    /\ pc \in {"failed", "died"} /\ ~crashed => ~released \/ state[Child] \in {"zombie", "gone"}

\* The attempts: none before the first, and one is left when there is another.
AttemptInv ==
    /\ pc \in {"load", "fork", "adopt", "handlers", "register", "release", "exec"} => attempt = 0
    /\ pc = "uprobe" => attempt < MaxAttempts

\* Whoever is there has a parent that runs, and no set of processes is closed
\* under "parent": the processes form a tree below the supervisor.
TreeInv ==
    /\ parent[Child] = Sup
    /\ \A p \in Present : parent[p] = Sup \/ (parent[p] \in Proc /\ state[parent[p]] = "run")
    /\ \A S \in SUBSET Present : S # {} => \E p \in S : parent[p] \notin S

\* The code is the root's from the moment it is collected.
ReturnInv ==
    /\ pc \in {"reap", "done"} => state[Child] = "gone" /\ code = status[Child]
    /\ pc = "done" => Present = {}

IInv == TypeOK /\ BarrierInv /\ AttemptInv /\ TreeInv /\ ReturnInv
-----------------------------------------------------------------------------
(***************************************************************************)
(* The tree of processes                                                   *)
(***************************************************************************)
\* Processes that end, by themselves or by a signal, leave the tree a tree: their
\* children go to the supervisor.
LEMMA DieKeepsTree ==
  ASSUME TreeOK, TreeInv, NEW S \in SUBSET AliveProcs, NEW s \in Codes, Die(S, s)
  PROVE  TreeOK' /\ TreeInv' /\ Present' = Present
  <1> USE DEF TreeOK, Die, Alive, AliveProcs
  <1>1. Present' = Present
    BY DEF Present
  <1>2. parent'[Child] = Sup
    BY DEF TreeInv, Proc
  <1>3. ASSUME NEW p \in Present'
        PROVE  parent'[p] = Sup \/ (parent'[p] \in Proc /\ state'[parent'[p]] = "run")
    BY <1>1, <1>3 DEF TreeInv, Present
  <1>4. ASSUME NEW T \in SUBSET Present', T # {}
        PROVE  \E p \in T : parent'[p] \notin T
    <2>1. PICK p \in T : parent[p] \notin T
      BY <1>1, <1>4 DEF TreeInv
    <2>2. parent'[p] \in {Sup, parent[p]}
      BY <1>1, <2>1 DEF Present
    <2>3. Sup \notin T
      BY Zenon, <1>4, ProcAssumption DEF Present
    <2>4. parent'[p] \notin T
      BY <2>1, <2>2, <2>3 DEF Sup
    <2>5. QED
      BY <2>4
  <1>5. QED
    BY Zenon, <1>1, <1>2, <1>3, <1>4 DEF TreeInv

\* A zombie that is collected was nobody's parent.
LEMMA CollectKeepsTree ==
  ASSUME TreeOK, TreeInv, NEW q \in Proc, state[q] = "zombie", Collect(q)
  PROVE  TreeOK' /\ TreeInv' /\ Present' = Present \ {q}
  <1> USE DEF TreeOK, Collect, Alive
  <1>1. Present' = Present \ {q}
    BY DEF Present
  <1>2. ASSUME NEW p \in Present'
        PROVE  parent'[p] = Sup \/ (parent'[p] \in Proc /\ state'[parent'[p]] = "run")
    BY <1>1, <1>2 DEF TreeInv, Present
  <1>3. ASSUME NEW T \in SUBSET Present', T # {}
        PROVE  \E p \in T : parent'[p] \notin T
    BY <1>1, <1>3 DEF TreeInv
  <1>4. QED
    BY <1>1, <1>2, <1>3 DEF TreeInv

\* A new process hangs below the one that forked it.
LEMMA ForkKeepsTree ==
  ASSUME TreeOK, TreeInv, NEW p \in Proc, NEW d \in Desc, TargetFork(p, d)
  PROVE  TreeOK' /\ TreeInv' /\ Present' = Present \cup {d}
  <1> USE DEF TreeOK, TargetFork, Alive
  <1>0. d \in Proc /\ d # Child /\ p # d /\ d \notin Present /\ p \in Present
    BY ProcAssumption DEF Proc, Present
  <1>1. Present' = Present \cup {d}
    BY <1>0 DEF Present
  <1>2. ASSUME NEW q \in Present'
        PROVE  parent'[q] = Sup \/ (parent'[q] \in Proc /\ state'[parent'[q]] = "run")
    BY <1>0, <1>1, <1>2 DEF TreeInv, Present
  <1>3. ASSUME NEW T \in SUBSET Present', T # {}
        PROVE  \E q \in T : parent'[q] \notin T
    <2>1. CASE T \ {d} = {}
      BY <1>0, <2>1, <1>3
    <2>2. CASE T \ {d} # {}
      <3>1. PICK q \in T \ {d} : parent[q] \notin T \ {d}
        BY Zenon, <1>1, <2>2 DEF TreeInv
      <3>2. parent[q] # d
        BY <1>0, <1>1, <3>1, ProcAssumption DEF TreeInv, Present
      <3>3. QED
        BY <1>1, <3>1, <3>2 DEF Present
    <2>3. QED
      BY <2>1, <2>2
  <1>4. QED
    BY <1>0, <1>1, <1>2, <1>3 DEF TreeInv, Proc

\* Nothing happens to the processes.
LEMMA SameTree ==
  ASSUME TreeInv, UNCHANGED <<state, parent>>
  PROVE  TreeInv' /\ Present' = Present
  BY DEF TreeInv, Present
-----------------------------------------------------------------------------
(***************************************************************************)
(* The actions                                                             *)
(***************************************************************************)
\* Steps of the supervisor alone: no process starts, ends or is collected.
LEMMA AlonePreserves ==
  ASSUME IInv,
         \/ load_object \/ Adopt \/ install_signal_handlers \/ attach_pthread_uprobe
         \/ StartRuntime \/ Crash
  PROVE  IInv'
  <1>0. UNCHANGED tree
    BY Zenon DEF load_object, Adopt, install_signal_handlers, attach_pthread_uprobe, StartRuntime, Crash
  <1>1. TypeOK'
    <2>0. TreeOK'
      BY <1>0 DEF IInv, TypeOK, TreeOK
    <2> USE DEF IInv, TypeOK, Ended
    <2>1. CASE load_object
      BY <2>0, <2>1 DEF load_object
    <2>2. CASE Adopt
      BY <2>0, <2>2 DEF Adopt, Proc
    <2>3. CASE install_signal_handlers
      BY <2>0, <2>3 DEF install_signal_handlers
    <2>4. CASE attach_pthread_uprobe
      <3>1. attempt' \in 0..MaxAttempts /\ pc' \in {"uprobe", "drop"}
        BY <2>4, BoundAssumption DEF attach_pthread_uprobe, AttemptInv
      <3>2. UNCHANGED <<config, bpf_ready, tracked, handlers, runtime, code, pipes, writers, ingroup, bounds>>
        BY Zenon, <2>4 DEF attach_pthread_uprobe
      <3>3. QED
        BY <2>0, <3>1, <3>2
    <2>5. CASE StartRuntime
      <3>1. runtime' \in BOOLEAN /\ pc' \in Ended \cup {"wait"} /\ writers' \subseteq writers
        BY Zenon, <2>5 DEF StartRuntime, End
      <3>2. QED
        BY <2>0, <2>5, <3>1 DEF StartRuntime
    <2>6. CASE Crash
      <3>1. runtime' \in BOOLEAN /\ pc' \in Ended /\ writers' \subseteq writers
        BY Zenon, <2>6 DEF Crash, End
      <3>2. crashed' \in BOOLEAN
        BY Zenon, <2>6 DEF Crash
      <3>3. QED
        BY <2>0, <2>6, <3>1, <3>2 DEF Crash
    <2>7. QED
      BY Zenon, <2>1, <2>2, <2>3, <2>4, <2>5, <2>6
  <1>2. TreeInv' /\ Present' = Present
    BY <1>0, SameTree DEF IInv
  <1>3. BarrierInv'
    <2> USE DEF IInv, BarrierInv
    <2>1. CASE load_object
      BY <1>0, <2>1 DEF load_object
    <2>2. CASE Adopt \/ install_signal_handlers
      BY <1>0, <2>2 DEF Adopt, install_signal_handlers
    <2>3. CASE attach_pthread_uprobe
      BY <1>0, <2>3 DEF attach_pthread_uprobe
    <2>4. CASE StartRuntime \/ Crash
      BY <1>0, <2>4 DEF StartRuntime, Crash, End
    <2>5. QED
      BY Zenon, <2>1, <2>2, <2>3, <2>4
  <1>4. AttemptInv'
    <2>1. CASE attach_pthread_uprobe
      BY <2>1, BoundAssumption DEF attach_pthread_uprobe, MoreAttempts, IInv, TypeOK, AttemptInv
    <2>2. CASE load_object \/ Adopt \/ install_signal_handlers \/ StartRuntime \/ Crash
      BY <2>2 DEF load_object, Adopt, install_signal_handlers, StartRuntime, Crash, End, IInv, AttemptInv
    <2>3. QED
      BY Zenon, <2>1, <2>2
  <1>5. ReturnInv'
    <2>1. pc' \notin {"reap", "done"}
      BY DEF load_object, Adopt, install_signal_handlers, attach_pthread_uprobe, StartRuntime, Crash, End
    <2>2. QED
      BY <2>1 DEF ReturnInv
  <1>6. QED
    BY Zenon, <1>1, <1>2, <1>3, <1>4, <1>5 DEF IInv

\* The fork: the child has no children yet, and its parent is the supervisor.
LEMMA ForkPreserves ==
  ASSUME IInv, Fork PROVE IInv'
  <1> USE DEF IInv, Fork, TypeOK, TreeOK, Alive, Ended
  <1>1. TypeOK'
    BY DEF Proc
  <1>2. Child \in Proc /\ state[Child] = "none" /\ Present' = Present \cup {Child}
    BY DEF Proc, BarrierInv, Present
  <1>3. TreeInv'
    <2>1. ASSUME NEW p \in Present'
          PROVE  parent'[p] = Sup \/ (parent'[p] \in Proc /\ state'[parent'[p]] = "run")
      BY <1>2, <2>1 DEF TreeInv, Present
    <2>2. ASSUME NEW T \in SUBSET Present', T # {}
          PROVE  \E p \in T : parent'[p] \notin T
      <3>1. CASE Child \in T
        BY <1>2, <2>2, <3>1, ProcAssumption DEF TreeInv, Present
      <3>2. CASE Child \notin T
        BY <1>2, <2>2, <3>2 DEF TreeInv
      <3>3. QED
        BY <3>1, <3>2
    <2>3. QED
      BY <2>1, <2>2 DEF TreeInv
  <1>4. BarrierInv' /\ AttemptInv' /\ ReturnInv'
    BY <1>2 DEF BarrierInv, AttemptInv, ReturnInv
  <1>5. QED
    BY <1>1, <1>3, <1>4

\* The child up to its exec: it passes the barrier only with the byte.
LEMMA ChildPreserves ==
  ASSUME IInv, ChildStep PROVE IInv'
  <1> USE DEF IInv, TypeOK, TreeOK, Alive, Ended
  <1>0. Child \in Proc
    BY DEF Proc
  <1>1. TypeOK'
    <2>1. CASE ChildSetup
      BY <1>0, <2>1 DEF ChildSetup, WritersLeft
    <2>2. CASE ChildRead
      BY <1>0, <2>2 DEF ChildRead, Die, Codes
    <2>3. CASE ChildExec
      <3>1. exec_error' \in BOOLEAN
        BY Zenon, <2>3 DEF ChildExec
      <3>2. TreeOK'
        BY <1>0, <2>3 DEF ChildExec, Die, Codes
      <3>3. QED
        BY <2>3, <3>1, <3>2 DEF ChildExec
    <2>4. QED
      BY <2>1, <2>2, <2>3 DEF ChildStep
  <1>2. TreeInv' /\ Present' = Present
    <2>1. CASE \E st \in Alive : state' = [state EXCEPT ![Child] = st] /\ UNCHANGED parent
      BY <1>0, <2>1 DEF ChildStep, ChildSetup, ChildRead, ChildExec, TreeInv, Present
    <2>2. CASE Die({Child}, 126) \/ Die({Child}, 127)
      <3>1. {Child} \in SUBSET AliveProcs
        BY <1>0 DEF AliveProcs, ChildStep, ChildSetup, ChildRead, ChildExec
      <3>2. QED
        BY <2>2, <3>1, DieKeepsTree DEF Codes
    <2>3. QED
      BY <2>1, <2>2 DEF ChildStep, ChildSetup, ChildRead, ChildExec
  <1>3. BarrierInv' /\ AttemptInv' /\ ReturnInv'
    <2>1. UNCHANGED <<sup, pc, released, crashed>>
      BY Zenon DEF ChildStep, ChildSetup, ChildRead, ChildExec
    <2>2. state[Child] \in {"forked", "barrier", "free"}
      BY DEF ChildStep, ChildSetup, ChildRead, ChildExec
    <2>3. state'[Child] \in {"free", "run"} => released
      BY <1>0, <2>2 DEF ChildStep, ChildSetup, ChildRead, ChildExec, Die, BarrierInv
    <2>4. BarrierInv'
      BY <2>1, <2>2, <2>3 DEF BarrierInv
    <2>5. AttemptInv' /\ ReturnInv'
      BY <2>1, <2>2, <1>2 DEF AttemptInv, ReturnInv
    <2>6. QED
      BY Zenon, <2>4, <2>5
  <1>4. QED
    BY <1>1, <1>2, <1>3

\* The target forks, and its processes leave the group.
LEMMA TargetForkPreserves ==
  ASSUME IInv, NEW p \in Proc, NEW d \in Desc, TargetFork(p, d) PROVE IInv'
  <1> USE DEF IInv, TypeOK, TreeOK, TargetFork, Alive, Ended
  <1>0. d \in Proc /\ d # Child
    BY ProcAssumption DEF Proc
  <1>1. TypeOK'
    BY <1>0 DEF Proc
  <1>2. TreeInv'
    BY Zenon, ForkKeepsTree
  <1>3. BarrierInv' /\ AttemptInv' /\ ReturnInv'
    BY <1>0 DEF BarrierInv, AttemptInv, ReturnInv, Present
  <1>4. QED
    BY <1>1, <1>2, <1>3

\* Who leaves the process group stays in the tree.
LEMMA LeaveGroupPreserves ==
  ASSUME IInv, NEW d \in Desc, LeaveGroup(d) PROVE IInv'
  <1>1. TypeOK'
    BY DEF IInv, TypeOK, TreeOK, LeaveGroup, Proc
  <1>2. TreeInv' /\ Present' = Present
    BY SameTree DEF IInv, LeaveGroup
  <1>3. BarrierInv' /\ AttemptInv' /\ ReturnInv'
    BY <1>2 DEF IInv, LeaveGroup, BarrierInv, AttemptInv, ReturnInv
  <1>4. QED
    BY <1>1, <1>2, <1>3 DEF IInv

\* Processes end, and nothing else happens but what a signal counts.
LEMMA DiePreserves ==
  ASSUME IInv, NEW S \in SUBSET AliveProcs, NEW s \in Codes, Die(S, s),
         signals' \in 0..MaxSignals,
         UNCHANGED <<sup, pc, pipes, writers, ingroup, crashed>>
  PROVE  IInv'
  <1>1. TreeOK' /\ TreeInv' /\ Present' = Present
    BY DieKeepsTree DEF IInv, TypeOK
  <1>2. TypeOK'
    BY <1>1 DEF IInv, TypeOK
  <1>3. Child \in Proc
    BY DEF Proc
  <1>4. BarrierInv' /\ AttemptInv'
    BY <1>3 DEF IInv, Die, BarrierInv, AttemptInv, AliveProcs, Alive
  <1>5. ReturnInv'
    BY <1>1, <1>3 DEF IInv, Die, ReturnInv, AliveProcs, Alive
  <1>6. QED
    BY <1>1, <1>2, <1>4, <1>5 DEF IInv

\* A process of the target ends by itself.
LEMMA TargetExitPreserves ==
  ASSUME IInv, NEW p \in Proc, TargetExit(p) PROVE IInv'
  <1>1. PICK s \in 0..1 : Die({p}, s)
    BY DEF TargetExit
  <1>2. {p} \in SUBSET AliveProcs /\ s \in Codes
    BY DEF TargetExit, AliveProcs, Alive, Codes
  <1>3. signals' \in 0..MaxSignals
    BY DEF TargetExit, IInv, TypeOK
  <1>4. QED
    BY <1>1, <1>2, <1>3, DiePreserves DEF TargetExit

\* A zombie is collected by its parent.
LEMMA TargetWaitPreserves ==
  ASSUME IInv, NEW p \in Proc, NEW d \in Desc, TargetWait(p, d) PROVE IInv'
  <1>0. d \in Proc /\ d # Child
    BY ProcAssumption DEF Proc
  <1>1. TreeOK' /\ TreeInv' /\ Present' = Present \ {d}
    BY <1>0, CollectKeepsTree DEF IInv, TypeOK, TargetWait
  <1>2. TypeOK'
    BY <1>1 DEF IInv, TypeOK, TargetWait
  <1>3. BarrierInv' /\ AttemptInv' /\ ReturnInv'
    <2>1. UNCHANGED <<sup, pc, released, crashed, status>>
      BY Zenon DEF TargetWait, Collect
    <2>2. state'[Child] = state[Child]
      BY <1>0 DEF IInv, TypeOK, TreeOK, TargetWait, Collect, Proc
    <2>3. BarrierInv' /\ AttemptInv'
      BY <2>1, <2>2 DEF IInv, BarrierInv, AttemptInv
    <2>4. ReturnInv'
      BY <1>1, <2>1, <2>2 DEF IInv, ReturnInv
    <2>5. QED
      BY Zenon, <2>3, <2>4
  <1>4. QED
    BY <1>1, <1>2, <1>3 DEF IInv

\* The processes that a signal ends are alive.
LEMMA SignalledAreAlive ==
  Group \in SUBSET AliveProcs /\ Terminated \in SUBSET AliveProcs
  BY DEF Group, Terminated

\* A signal reaches the target, or, before the handlers, ends the supervisor; that is
\* before the byte is written.
LEMMA SignalPreserves ==
  ASSUME IInv, forward_signal \/ RuntimeKill PROVE IInv'
  <1>1. signals' \in 0..MaxSignals
    BY BoundAssumption DEF IInv, TypeOK, forward_signal, RuntimeKill
  <1>2. CASE Die(Terminated, 143) /\ UNCHANGED <<sup, pc, pipes, writers, ingroup, crashed>>
    <2>1. 143 \in Codes
      BY DEF Codes
    <2>2. QED
      BY <1>1, <1>2, <2>1, SignalledAreAlive, DiePreserves
  <1>3. CASE /\ ~handlers /\ pc \notin Ended /\ End("died")
             /\ UNCHANGED <<config, bpf_ready, tracked, attempt, handlers, code, pipes, tree, ingroup, crashed>>
    <2>1. TreeInv' /\ Present' = Present
      BY <1>3, SameTree DEF IInv
    <2>2. TypeOK'
      <3>1. runtime' \in BOOLEAN /\ pc' \in Ended /\ writers' \subseteq writers
        BY Zenon, <1>3 DEF End, Ended
      <3>2. QED
        BY <1>1, <1>3, <3>1 DEF IInv, TypeOK, TreeOK
    <2>3. BarrierInv' /\ AttemptInv' /\ ReturnInv'
      BY <1>3 DEF IInv, TypeOK, End, BarrierInv, AttemptInv, ReturnInv
    <2>4. QED
      BY <2>1, <2>2, <2>3 DEF IInv
  <1>4. QED
    BY <1>2, <1>3 DEF forward_signal, RuntimeKill, AfterEINTR

\* Killing the group, or nobody, leaves the tree a tree and the root as it was or dead.
LEMMA KilledTree ==
  ASSUME IInv, UNCHANGED tree \/ Die(Group, 137)
  PROVE  TreeOK' /\ TreeInv' /\ Present' = Present /\ state'[Child] \in {state[Child], "zombie"}
  <1>0. Child \in Proc /\ 137 \in Codes
    BY DEF Proc, Codes
  <1>1. TreeOK /\ TreeInv
    BY Zenon DEF IInv, TypeOK
  <1>2. CASE UNCHANGED tree
    <2>1. TreeOK'
      BY <1>1, <1>2 DEF TreeOK
    <2>2. QED
      BY <1>1, <1>2, <2>1, SameTree
  <1>3. CASE Die(Group, 137)
    <2>1. TreeOK' /\ TreeInv' /\ Present' = Present
      BY <1>0, <1>1, <1>3, SignalledAreAlive, DieKeepsTree
    <2>2. state'[Child] \in {state[Child], "zombie"}
      BY <1>0, <1>3 DEF Die
    <2>3. QED
      BY Zenon, <2>1, <2>2
  <1>4. QED
    BY Zenon, <1>2, <1>3

\* The registration of the child: if it fails, the group is killed before the barrier.
LEMMA AddTargetPreserves ==
  ASSUME IInv, add_target PROVE IInv'
  <1>0. UNCHANGED tree \/ Die(Group, 137)
    BY Zenon DEF add_target
  <1>1. TreeOK' /\ TreeInv' /\ Present' = Present /\ state'[Child] \in {state[Child], "zombie"}
    BY Zenon, <1>0, KilledTree
  <1>2. /\ pc = "register" /\ pc' \in {"release", "failed"}
        /\ UNCHANGED <<config, bpf_ready, attempt, handlers, code, pipes, ingroup, bounds>>
        /\ pc' = "release" => tracked' = bpf_ready
    BY DEF add_target, End
  <1>3. TypeOK'
    <2>1. runtime' \in BOOLEAN /\ tracked' \in BOOLEAN
      BY Zenon DEF add_target, End, IInv, TypeOK
    <2>2. writers' \subseteq {Sup, Child}
      BY DEF add_target, End, IInv, TypeOK
    <2>3. QED
      BY <1>1, <1>2, <2>1, <2>2 DEF IInv, TypeOK, Ended
  <1>4. BarrierInv'
    BY <1>1, <1>2 DEF IInv, BarrierInv
  <1>5. AttemptInv' /\ ReturnInv'
    BY <1>2 DEF IInv, AttemptInv, ReturnInv
  <1>6. QED
    BY Zenon, <1>1, <1>3, <1>4, <1>5 DEF IInv

\* The byte: if it cannot be written, the child is dead, or killed before the barrier.
LEMMA ReleasePreserves ==
  ASSUME IInv, Release PROVE IInv'
  <1>0. UNCHANGED tree \/ Die(Group, 137)
    BY Zenon DEF Release
  <1>1. TreeOK' /\ TreeInv' /\ Present' = Present /\ state'[Child] \in {state[Child], "zombie"}
    BY Zenon, <1>0, KilledTree
  <1>2. /\ pc = "release" /\ pc' \in {"exec", "died", "failed"}
        /\ UNCHANGED <<config, bpf_ready, tracked, attempt, handlers, code, exec_error, ingroup, bounds>>
        /\ pc' = "exec" \/ released' = released
    BY DEF Release, End
  <1>3. TypeOK'
    <2>1. runtime' \in BOOLEAN /\ released' \in BOOLEAN
      BY Zenon DEF Release, End, IInv, TypeOK
    <2>2. writers' \subseteq {Sup, Child}
      BY DEF Release, End, IInv, TypeOK
    <2>3. QED
      BY <1>1, <1>2, <2>1, <2>2 DEF IInv, TypeOK, Ended
  <1>4. BarrierInv'
    BY <1>1, <1>2 DEF IInv, BarrierInv
  <1>5. AttemptInv' /\ ReturnInv'
    BY <1>2 DEF IInv, AttemptInv, ReturnInv
  <1>6. QED
    BY Zenon, <1>1, <1>3, <1>4, <1>5 DEF IInv

\* The identity is dropped: a failure kills the group, and the root is still to be collected.
LEMMA DropIdentityPreserves ==
  ASSUME IInv, drop_identity PROVE IInv'
  <1>0. UNCHANGED tree \/ Die(Group, 137)
    BY Zenon DEF drop_identity
  <1>1. TreeOK' /\ TreeInv' /\ Present' = Present /\ state'[Child] \in {state[Child], "zombie"}
    BY Zenon, <1>0, KilledTree
  <1>2. /\ pc = "drop" /\ pc' \in {"runtime", "killed"}
        /\ UNCHANGED <<sup, pipes, writers, ingroup, bounds>>
    BY DEF drop_identity
  <1>3. TypeOK'
    BY <1>1, <1>2 DEF IInv, TypeOK, Ended
  <1>4. BarrierInv'
    BY <1>1, <1>2 DEF IInv, BarrierInv
  <1>5. AttemptInv' /\ ReturnInv'
    BY <1>2 DEF IInv, AttemptInv, ReturnInv
  <1>6. QED
    BY Zenon, <1>1, <1>3, <1>4, <1>5 DEF IInv

\* Collecting the root, or nobody, leaves the tree a tree.
LEMMA CollectedTree ==
  ASSUME IInv, UNCHANGED tree \/ (state[Child] = "zombie" /\ Collect(Child))
  PROVE  /\ TreeOK' /\ TreeInv'
         /\ state'[Child] = state[Child] \/ (state[Child] = "zombie" /\ state'[Child] = "gone")
  <1>0. Child \in Proc
    BY DEF Proc
  <1>1. TreeOK /\ TreeInv
    BY Zenon DEF IInv, TypeOK
  <1>2. CASE UNCHANGED tree
    <2>1. TreeOK'
      BY <1>1, <1>2 DEF TreeOK
    <2>2. QED
      BY <1>1, <1>2, <2>1, SameTree
  <1>3. CASE state[Child] = "zombie" /\ Collect(Child)
    <2>1. TreeOK' /\ TreeInv'
      BY <1>0, <1>1, <1>3, CollectKeepsTree
    <2>2. state'[Child] = "gone"
      BY <1>0, <1>1, <1>3 DEF Collect, TreeOK
    <2>3. QED
      BY Zenon, <1>3, <2>1, <2>2
  <1>4. QED
    BY Zenon, <1>2, <1>3

\* The root is collected, by one of three waits; the last of them takes its code.
LEMMA CollectChildPreserves ==
  ASSUME IInv, ReadExecPipe \/ WaitKilled \/ WaitChild PROVE IInv'
  <1>0. /\ pc \in {"exec", "killed", "wait"} /\ pc' \in {"failed", "uprobe", "reap"}
        /\ pc' = "uprobe" => pc = "exec" /\ UNCHANGED tree
        /\ pc' # "uprobe" => state[Child] = "zombie" /\ Collect(Child)
        /\ code' = IF pc' = "reap" THEN status[Child] ELSE code
        /\ writers' \in {writers, writers \ {Sup}}
        /\ UNCHANGED <<config, bpf_ready, tracked, attempt, handlers, pipes, ingroup, bounds>>
    <2>1. CASE ReadExecPipe
      BY <2>1 DEF ReadExecPipe, End
    <2>2. CASE WaitKilled
      BY <2>2 DEF WaitKilled, End
    <2>3. CASE WaitChild
      BY <2>3 DEF WaitChild
    <2>4. QED
      BY Zenon, <2>1, <2>2, <2>3
  <1>1. /\ TreeOK' /\ TreeInv'
        /\ state'[Child] = state[Child] \/ (state[Child] = "zombie" /\ state'[Child] = "gone")
    BY Zenon, <1>0, CollectedTree
  <1>2. pc' # "uprobe" => state'[Child] = "gone" /\ UNCHANGED status
    <2>1. Child \in Proc /\ TreeOK
      BY Zenon DEF Proc, IInv, TypeOK
    <2>2. QED
      BY <1>0, <2>1 DEF Collect, TreeOK
  <1>3. TypeOK'
    <2>1. runtime' \in BOOLEAN
      BY Zenon DEF ReadExecPipe, WaitKilled, WaitChild, End, IInv, TypeOK
    <2>2. code' \in Codes
      <3>1. Child \in Proc /\ TreeOK /\ code \in Codes
        BY Zenon DEF Proc, IInv, TypeOK
      <3>2. QED
        BY <1>0, <3>1 DEF TreeOK
    <2>3. writers' \subseteq {Sup, Child}
      BY <1>0 DEF IInv, TypeOK
    <2>4. QED
      BY <1>0, <1>1, <2>1, <2>2, <2>3 DEF IInv, TypeOK, Ended
  <1>4. BarrierInv'
    BY <1>0, <1>1, <1>2 DEF IInv, BarrierInv
  <1>5. AttemptInv'
    BY <1>0, BoundAssumption DEF IInv, AttemptInv
  <1>6. ReturnInv'
    BY <1>0, <1>2 DEF ReturnInv
  <1>7. QED
    BY Zenon, <1>1, <1>3, <1>4, <1>5, <1>6 DEF IInv

\* When waitpid finds no child, there is no process left: one would be a child.
LEMMA ReapPreserves ==
  ASSUME IInv, ReapAll PROVE IInv'
  <1>0. /\ pc = "reap" /\ TypeOK /\ TreeOK /\ TreeInv /\ BarrierInv /\ AttemptInv /\ ReturnInv
        /\ UNCHANGED <<config, bpf_ready, tracked, attempt, handlers, code, pipes, ingroup, bounds>>
    BY Zenon DEF ReapAll, IInv, TypeOK
  <1>1. CASE \E p \in Children : state[p] = "zombie" /\ Collect(p) /\ UNCHANGED <<pc, runtime, writers>>
    <2>1. PICK p \in Proc : state[p] = "zombie" /\ Collect(p) /\ UNCHANGED <<pc, runtime, writers>>
      BY <1>1 DEF Children
    <2>2. p # Child
      BY <1>0, <2>1 DEF ReturnInv
    <2>3. TreeOK' /\ TreeInv'
      BY Zenon, <1>0, <2>1, CollectKeepsTree
    <2>4. state'[Child] = state[Child] /\ UNCHANGED status
      BY <1>0, <2>1, <2>2 DEF Collect, TreeOK, Proc
    <2>5. TypeOK'
      BY <1>0, <2>1, <2>3 DEF TypeOK
    <2>6. BarrierInv'
      BY <1>0, <2>1, <2>4 DEF BarrierInv
    <2>7. AttemptInv' /\ ReturnInv'
      BY <1>0, <2>1, <2>4 DEF AttemptInv, ReturnInv
    <2>8. QED
      BY Zenon, <2>3, <2>5, <2>6, <2>7 DEF IInv
  <1>2. CASE Children = {} /\ End("done") /\ UNCHANGED tree
    <2>1. TreeInv' /\ Present' = Present
      BY <1>0, <1>2, SameTree
    <2>2. Present = {}
      <3>1. SUFFICES ASSUME Present # {} PROVE FALSE
        OBVIOUS
      <3>2. PICK p \in Present : parent[p] \notin Present
        BY <1>0, <3>1 DEF TreeInv
      <3>3. parent[p] = Sup
        BY <1>0, <3>2 DEF TreeInv, Present, Alive
      <3>4. p \in Children
        BY <3>2, <3>3 DEF Children, Present
      <3>5. QED
        BY <1>2, <3>4
    <2>3. TypeOK'
      <3>1. runtime' \in BOOLEAN /\ pc' \in Ended /\ writers' \subseteq writers
        BY Zenon, <1>2 DEF End, Ended
      <3>2. TreeOK'
        BY <1>0, <1>2 DEF TreeOK
      <3>3. QED
        BY <1>0, <3>1, <3>2 DEF TypeOK
    <2>4. pc' = "done" /\ UNCHANGED tree
      BY Zenon, <1>2 DEF End
    <2>5. BarrierInv'
      BY <1>0, <2>4 DEF BarrierInv
    <2>6. AttemptInv' /\ ReturnInv'
      BY <1>0, <2>1, <2>2, <2>4 DEF AttemptInv, ReturnInv
    <2>7. QED
      BY Zenon, <2>1, <2>3, <2>5, <2>6 DEF IInv
  <1>3. QED
    BY Zenon, <1>1, <1>2 DEF ReapAll
-----------------------------------------------------------------------------
(***************************************************************************)
(* The theorems                                                            *)
(***************************************************************************)
\* The invariant of supervise holds in every reachable state.
THEOREM Inductive == Spec => []IInv
  <1>1. Init => IInv
    <2> SUFFICES ASSUME Init PROVE IInv
      OBVIOUS
    <2>0. Child \in Proc
      BY DEF Proc
    <2>1. TypeOK
      <3>1. TreeOK /\ ingroup \in [Proc -> BOOLEAN] /\ code \in Codes /\ writers \subseteq {Sup, Child}
        BY DEF Init, TreeOK, Codes
      <3>2. attempt \in 0..MaxAttempts /\ signals \in 0..MaxSignals
        BY BoundAssumption DEF Init
      <3>3. QED
        BY Zenon, <3>1, <3>2 DEF Init, TypeOK
    <2>2. Present = {}
      BY DEF Init, Present, Alive
    <2>3. TreeInv /\ BarrierInv /\ AttemptInv /\ ReturnInv
      BY <2>0, <2>2 DEF Init, TreeInv, BarrierInv, AttemptInv, ReturnInv
    <2>4. QED
      BY <2>1, <2>3 DEF IInv
  <1>2. IInv /\ [Next]_vars => IInv'
    <2> SUFFICES ASSUME IInv, [Next]_vars PROVE IInv'
      OBVIOUS
    <2>1. CASE ChildStep
      BY <2>1, ChildPreserves
    <2>2. CASE Target
      BY <2>2, TargetForkPreserves, TargetWaitPreserves, LeaveGroupPreserves, TargetExitPreserves DEF Target
    <2>3. CASE supervise
      BY <2>3, AlonePreserves, ForkPreserves, AddTargetPreserves, ReleasePreserves,
         DropIdentityPreserves, CollectChildPreserves, ReapPreserves DEF supervise
    <2>4. CASE forward_signal \/ RuntimeKill
      BY <2>4, SignalPreserves
    <2>5. CASE Crash
      BY <2>5, AlonePreserves
    <2>6. CASE UNCHANGED vars
      <3>1. TypeOK'
        BY <2>6 DEF vars, IInv, TypeOK, TreeOK
      <3>2. BarrierInv' /\ AttemptInv'
        BY <2>6 DEF vars, IInv, BarrierInv, AttemptInv
      <3>3. TreeInv' /\ Present' = Present
        BY <2>6, SameTree DEF vars, IInv
      <3>4. QED
        BY <2>6, <3>1, <3>2, <3>3 DEF vars, IInv, ReturnInv
    <2>7. QED
      BY <2>1, <2>2, <2>3, <2>4, <2>5, <2>6 DEF Next
  <1>3. QED
    BY <1>1, <1>2, PTL DEF Spec

\* Every variable of supervise keeps its type, and the attempts to attach the uprobe
\* keep to their limit.
THEOREM TypeCorrect == Spec => []TypeOK
  BY Inductive, PTL DEF IInv

\* With BPF, the target's program is executed only after its TGID is in the pids map.
THEOREM TrackedFirst == Spec => []TrackedBeforeExec
  <1>1. IInv => TrackedBeforeExec
    BY DEF IInv, BarrierInv, TrackedBeforeExec
  <1>2. QED
    BY <1>1, Inductive, PTL

\* An error or a signal that ends affinity-run, other than SIGKILL and an exception of the
\* Runtime's constructor, leaves no root process past the barrier.
THEOREM NoOrphan == Spec => []NoTargetWithoutSupervisor
  <1>1. IInv => NoTargetWithoutSupervisor
    <2>1. Child \in Proc
      BY DEF Proc
    <2>2. QED
      BY <2>1 DEF IInv, TypeOK, TreeOK, Alive, BarrierInv, NoTargetWithoutSupervisor
  <1>2. QED
    BY <1>1, Inductive, PTL

\* affinity-run returns when every process of the target is collected, with the code of
\* the root.
THEOREM ReturnExact == Spec => []ReturnIsTargets
  <1>1. IInv => ReturnIsTargets
    BY DEF IInv, TypeOK, TreeOK, ReturnInv, Present, ReturnIsTargets
  <1>2. QED
    BY <1>1, Inductive, PTL
=============================================================================
