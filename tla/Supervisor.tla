---------------------------- MODULE Supervisor ----------------------------
(***************************************************************************)
(* affinity-run's main thread: supervise in src/affinity_run.cpp, with the *)
(* child it forks, the two pipes between them, the signals it forwards,    *)
(* and the target's descendants.                                           *)
(*                                                                         *)
(* The child waits behind a barrier (start_pipe) until its TGID is         *)
(* registered with the BPF programs; that its exec worked is learned from  *)
(* the end of exec_pipe.  The runtime's threads are one flag here; their   *)
(* SIGTERM after a hard failure is an action.                              *)
(***************************************************************************)
EXTENDS Naturals, FiniteSets

CONSTANTS Child,         \* the process affinity-run forks
          Desc,          \* its descendants
          MaxAttempts,   \* attempts to attach the uprobe (100)
          MaxSignals     \* bound: signals that are sent

Proc == {Child} \cup Desc
Sup == "supervisor"

ASSUME ProcAssumption == Child \notin Desc /\ Sup \notin Proc
ASSUME BoundAssumption == MaxAttempts \in Nat \ {0} /\ MaxSignals \in Nat

VARIABLES
  config,        \* what the run is started with, and whether the target obeys SIGTERM
  pc,            \* the supervisor's next step, or how it has ended
  bpf_ready,
  tracked,       \* the child's TGID is in the pids map
  attempt,
  handlers,      \* install_signal_handlers has been called
  runtime,       \* the Runtime exists
  code,          \* what supervise returns
  writers,       \* who has start_pipe's write end
  released,      \* the byte has been written to start_pipe
  exec_error,    \* exec_pipe has the child's errno
  state,         \* [Proc -> state of the process]
  parent, ingroup, status,
  signals, crashed

sup == <<config, bpf_ready, tracked, attempt, handlers, runtime, code>>
pipes == <<released, exec_error>>
tree == <<state, parent, status>>
bounds == <<signals, crashed>>
vars == <<sup, pc, pipes, writers, tree, ingroup, bounds>>

Ended == {"failed", "abandoned", "died", "done"}
Alive == {"forked", "barrier", "free", "run"}
AliveProcs == {p \in Proc : state[p] \in Alive}

Init ==
    /\ config \in [required : BOOLEAN, uprobe : BOOLEAN, obeys : BOOLEAN]
    /\ pc = "load" /\ bpf_ready = FALSE /\ tracked = FALSE /\ attempt = 0 /\ handlers = FALSE
    /\ runtime = FALSE /\ code = 0
    /\ writers = {Sup} /\ released = FALSE /\ exec_error = FALSE
    /\ state = [p \in Proc |-> "none"] /\ parent = [p \in Proc |-> Sup]
    /\ ingroup = [p \in Proc |-> FALSE] /\ status = [p \in Proc |-> 0]
    /\ signals = 0 /\ crashed = FALSE
-----------------------------------------------------------------------------
(***************************************************************************)
(* Processes (external)                                                    *)
(***************************************************************************)
\* The processes in S end with the status s; their children go to the
\* subreaper, the supervisor.
Die(S, s) ==
    /\ state' = [p \in Proc |-> IF p \in S THEN "zombie" ELSE state[p]]
    /\ status' = [p \in Proc |-> IF p \in S THEN s ELSE status[p]]
    /\ parent' = [p \in Proc |-> IF parent[p] \in S THEN Sup ELSE parent[p]]

Collect(p) == state' = [state EXCEPT ![p] = "gone"] /\ UNCHANGED <<parent, status>>

Group == {p \in AliveProcs : ingroup[p]}

\* An end of the supervisor, whatever its cause, closes its end of the pipe.
End(how) == pc' = how /\ runtime' = FALSE /\ writers' = writers \ {Sup}
-----------------------------------------------------------------------------
(***************************************************************************)
(* The child, up to its exec                                               *)
(***************************************************************************)
\* Mutant: the child keeps its copy of the write end.
WritersAll == writers
WritersLeft == writers \ {Child}

ChildSetup ==
    /\ state[Child] = "forked" /\ state' = [state EXCEPT ![Child] = "barrier"]
    /\ ingroup' = [ingroup EXCEPT ![Child] = TRUE] /\ writers' = WritersLeft
    /\ UNCHANGED <<sup, pc, pipes, parent, status, bounds>>

\* The byte, or the end of the pipe.
ChildRead ==
    /\ state[Child] = "barrier"
    /\ \/ /\ released /\ state' = [state EXCEPT ![Child] = "free"] /\ UNCHANGED <<parent, status>>
       \/ ~released /\ writers = {} /\ Die({Child}, 126)
    /\ UNCHANGED <<sup, pc, pipes, writers, ingroup, bounds>>

\* drop_identity and execvp; the exec closes exec_pipe.
ChildExec ==
    /\ state[Child] = "free"
    /\ \/ /\ state' = [state EXCEPT ![Child] = "run"] /\ UNCHANGED <<parent, status, exec_error>>
       \/ exec_error' = TRUE /\ Die({Child}, 127)
    /\ UNCHANGED <<sup, pc, writers, released, ingroup, bounds>>
-----------------------------------------------------------------------------
(***************************************************************************)
(* The target (external)                                                   *)
(***************************************************************************)
TargetFork(p, d) ==
    /\ state[p] = "run" /\ state[d] = "none" /\ state' = [state EXCEPT ![d] = "run"]
    /\ parent' = [parent EXCEPT ![d] = p] /\ ingroup' = [ingroup EXCEPT ![d] = ingroup[p]]
    /\ UNCHANGED <<sup, pc, pipes, writers, status, bounds>>

LeaveGroup(d) ==
    /\ state[d] = "run" /\ ingroup[d] /\ ingroup' = [ingroup EXCEPT ![d] = FALSE]
    /\ UNCHANGED <<sup, pc, pipes, writers, tree, bounds>>

TargetExit(p) ==
    /\ state[p] = "run" /\ \E s \in 0..1 : Die({p}, s)
    /\ UNCHANGED <<sup, pc, pipes, writers, ingroup, bounds>>

TargetWait(p, d) ==
    /\ state[p] = "run" /\ parent[d] = p /\ state[d] = "zombie" /\ Collect(d)
    /\ UNCHANGED <<sup, pc, pipes, writers, ingroup, bounds>>
-----------------------------------------------------------------------------
(***************************************************************************)
(* The supervisor                                                          *)
(***************************************************************************)
\* bpf_available and load_object, or reset.
load_object ==
    /\ pc = "load" /\ bpf_ready' \in BOOLEAN
    /\ IF ~bpf_ready' /\ config.required
       THEN pc' = "failed" /\ writers' = {}
       ELSE pc' = "fork" /\ UNCHANGED writers
    /\ UNCHANGED <<config, tracked, attempt, handlers, runtime, code, pipes, tree, ingroup, bounds>>

Fork ==
    /\ pc = "fork" /\ pc' = "adopt"
    /\ state' = [state EXCEPT ![Child] = "forked"] /\ writers' = writers \cup {Child}
    /\ UNCHANGED <<sup, pipes, parent, status, ingroup, bounds>>

\* Like the child itself, the supervisor calls setpgid for it.
Adopt ==
    /\ pc = "adopt" /\ pc' = "handlers" /\ ingroup' = [ingroup EXCEPT ![Child] = TRUE]
    /\ UNCHANGED <<sup, pipes, writers, tree, bounds>>

\* Mutant: the handlers are missing.
NotInstalled == /\ pc = "handlers" /\ pc' = "register"
                /\ UNCHANGED <<sup, pipes, writers, tree, ingroup, bounds>>
install_signal_handlers ==
    /\ pc = "handlers" /\ pc' = "register" /\ handlers' = TRUE
    /\ UNCHANGED <<config, bpf_ready, tracked, attempt, runtime, code, pipes, writers, tree, ingroup,
                   bounds>>

\* Mutant: the result of the registration is not looked at.
AddUnchecked == /\ pc = "register" /\ pc' = "release" /\ tracked' \in {FALSE, bpf_ready}
                /\ UNCHANGED <<config, bpf_ready, attempt, handlers, runtime, code, pipes, writers, tree,
                               ingroup, bounds>>
add_target ==
    /\ pc = "register"
    /\ \/ pc' = "release" /\ tracked' = bpf_ready /\ UNCHANGED <<runtime, writers, tree>>
       \/ bpf_ready /\ Die(Group, 137) /\ End("failed") /\ UNCHANGED tracked
    /\ UNCHANGED <<config, bpf_ready, attempt, handlers, code, pipes, ingroup, bounds>>

\* Without a reader the write raises SIGPIPE; any other failure is an exception.
Release ==
    /\ pc = "release"
    /\ \/ /\ state[Child] \in Alive /\ released' = TRUE /\ pc' = "exec" /\ writers' = writers \ {Sup}
          /\ UNCHANGED <<runtime, tree>>
       \/ /\ state[Child] \notin Alive /\ End("died") /\ UNCHANGED <<released, tree>>
       \/ /\ Die(Group, 137) /\ End("failed") /\ UNCHANGED released
    /\ UNCHANGED <<config, bpf_ready, tracked, attempt, handlers, code, exec_error, ingroup, bounds>>

\* The child's errno, or the end of the pipe: the child has called exec, or is dead.
ReadExecPipe ==
    /\ pc = "exec"
    /\ \/ exec_error /\ state[Child] = "zombie" /\ Collect(Child) /\ End("failed")
       \/ /\ ~exec_error /\ state[Child] \in {"run", "zombie"} /\ pc' = "uprobe"
          /\ UNCHANGED <<runtime, writers, tree>>
    /\ UNCHANGED <<config, bpf_ready, tracked, attempt, handlers, code, pipes, ingroup, bounds>>

\* Mutant: the limit is off by one.
OneTooMany == attempt <= MaxAttempts
MoreAttempts == attempt + 1 < MaxAttempts

\* As long as libc is not mapped the attempt is repeated.
attach_pthread_uprobe ==
    /\ pc = "uprobe"
    /\ \/ bpf_ready /\ config.uprobe /\ attempt' = attempt + 1
          /\ pc' \in {"drop", IF MoreAttempts THEN "uprobe" ELSE "drop"}
       \/ ~(bpf_ready /\ config.uprobe) /\ pc' = "drop" /\ UNCHANGED attempt
    /\ UNCHANGED <<config, bpf_ready, tracked, handlers, runtime, code, pipes, writers, tree, ingroup,
                   bounds>>

\* The identity is dropped, and an active supervisor tries its authority on the
\* child; each may fail.
drop_identity ==
    /\ pc = "drop"
    /\ \/ pc' = "runtime" /\ UNCHANGED tree
       \/ pc' = "killed" /\ Die(Group, 137)
    /\ UNCHANGED <<sup, pipes, writers, ingroup, bounds>>

WaitKilled ==
    /\ pc = "killed" /\ state[Child] = "zombie" /\ Collect(Child) /\ End("failed")
    /\ UNCHANGED <<config, bpf_ready, tracked, attempt, handlers, code, pipes, ingroup, bounds>>

\* make_bpf_reader and the Runtime's constructor; their exceptions leave the target running.
StartRuntime ==
    /\ pc = "runtime"
    /\ \/ pc' = "wait" /\ runtime' = TRUE /\ UNCHANGED writers
       \/ End("abandoned")
    /\ UNCHANGED <<config, bpf_ready, tracked, attempt, handlers, code, pipes, tree, ingroup, bounds>>

WaitChild ==
    /\ pc = "wait" /\ state[Child] = "zombie" /\ Collect(Child) /\ pc' = "reap"
    /\ code' = status[Child]
    /\ UNCHANGED <<config, bpf_ready, tracked, attempt, handlers, runtime, pipes, writers, ingroup,
                   bounds>>

Children == {p \in Proc : parent[p] = Sup /\ state[p] \in Alive \cup {"zombie"}}

\* waitpid(-1) until there is no child (ECHILD), then the Runtime's destructor.
ReapAll ==
    /\ pc = "reap"
    /\ \/ \E p \in Children : state[p] = "zombie" /\ Collect(p) /\ UNCHANGED <<pc, runtime, writers>>
       \/ Children = {} /\ End("done") /\ UNCHANGED tree
    /\ UNCHANGED <<config, bpf_ready, tracked, attempt, handlers, code, pipes, ingroup, bounds>>
-----------------------------------------------------------------------------
(***************************************************************************)
(* Signals                                                                 *)
(***************************************************************************)
\* Mutant: the signal goes to the child alone.
ToChild == Group \cap {Child}
\* The processes that a signal to the group ends: the child until its exec, and
\* everyone if the target obeys.
Terminated == IF config.obeys THEN Group ELSE {p \in Group : state[p] # "run"}

\* Mutant: an interrupted wait for the child is not repeated.
GoesOn == IF pc = "wait" THEN "reap" ELSE pc
\* The system call the signal interrupts is repeated.
AfterEINTR == pc

\* A signal before install_signal_handlers ends the supervisor.
forward_signal ==
    /\ pc \notin Ended /\ signals < MaxSignals /\ signals' = signals + 1
    /\ \/ ~handlers /\ End("died") /\ UNCHANGED tree
       \/ handlers /\ Die(Terminated, 143) /\ pc' = AfterEINTR /\ UNCHANGED <<runtime, writers>>
    /\ UNCHANGED <<config, bpf_ready, tracked, attempt, handlers, code, pipes, ingroup, crashed>>

\* A hard failure of the runtime.
RuntimeKill ==
    /\ runtime /\ signals < MaxSignals /\ signals' = signals + 1 /\ Die(Terminated, 143)
    /\ UNCHANGED <<sup, pc, pipes, writers, ingroup, crashed>>

\* SIGKILL to the supervisor.
Crash ==
    /\ pc \notin Ended /\ End("died") /\ crashed' = TRUE
    /\ UNCHANGED <<config, bpf_ready, tracked, attempt, handlers, code, pipes, tree, ingroup, signals>>
-----------------------------------------------------------------------------
ChildStep == ChildSetup \/ ChildRead \/ ChildExec
Target == \/ \E p \in Proc, d \in Desc : TargetFork(p, d) \/ TargetWait(p, d)
          \/ \E d \in Desc : LeaveGroup(d)
          \/ \E p \in Proc : TargetExit(p)
supervise == \/ load_object \/ Fork \/ Adopt \/ install_signal_handlers \/ add_target \/ Release
             \/ ReadExecPipe \/ attach_pthread_uprobe \/ drop_identity \/ WaitKilled
             \/ StartRuntime \/ WaitChild \/ ReapAll
Next == ChildStep \/ Target \/ supervise \/ forward_signal \/ RuntimeKill \/ Crash

\* The two processes run; what the target does is up to the target.
Spec == Init /\ [][Next]_vars /\ WF_vars(supervise) /\ WF_vars(ChildStep)
-----------------------------------------------------------------------------
(***************************************************************************)
(* Properties                                                              *)
(***************************************************************************)
Codes == {0, 1, 126, 127, 137, 143}
TreeOK == /\ state \in [Proc -> Alive \cup {"none", "zombie", "gone"}]
          /\ parent \in [Proc -> Proc \cup {Sup}] /\ status \in [Proc -> Codes]

\* Every variable has its type; the attempts keep to their limit.
TypeOK ==
    /\ config \in [required : BOOLEAN, uprobe : BOOLEAN, obeys : BOOLEAN]
    /\ pc \in Ended \cup {"load", "fork", "adopt", "handlers", "register", "release", "exec", "uprobe",
                          "drop", "killed", "runtime", "wait", "reap"}
    /\ bpf_ready \in BOOLEAN /\ tracked \in BOOLEAN /\ handlers \in BOOLEAN /\ runtime \in BOOLEAN
    /\ released \in BOOLEAN /\ exec_error \in BOOLEAN /\ crashed \in BOOLEAN
    /\ attempt \in 0..MaxAttempts /\ signals \in 0..MaxSignals /\ writers \subseteq {Sup, Child}
    /\ TreeOK /\ ingroup \in [Proc -> BOOLEAN] /\ code \in Codes

\* No instruction of the target goes unseen: with BPF, the target's program is
\* executed only after its TGID is in the pids map.
TrackedBeforeExec == bpf_ready /\ state[Child] = "run" => tracked

\* No unsupervised target: when affinity-run ends because of an error or a
\* signal, at any moment, the root process is dead or never comes past the
\* barrier.  (Left out: SIGKILL, and the exceptions of the Runtime's constructor.)
NoTargetWithoutSupervisor ==
    pc \in {"failed", "died"} /\ ~crashed => state[Child] \in {"none", "forked", "barrier", "zombie", "gone"}

\* A normal return waits for all of the target, and its code is that of the
\* root process, whatever signals have interrupted the waits and whatever the
\* codes of the descendants are.
ReturnIsTargets ==
    pc = "done" => /\ \A p \in Proc : state[p] \in {"none", "gone"}
                   /\ code = status[Child]

\* The barrier never locks the child in: if the supervisor ends before it has
\* released the child, in any way, the child ends too.
BarrierEnds == pc \in Ended /\ ~released ~> state[Child] \notin Alive

\* A signal ends the run, if the target obeys it: affinity-run returns, unless it
\* waits for a process that has left the target's group.
TermEndsRun ==
    signals > 0 /\ config.obeys ~> pc \in Ended \/ \E d \in AliveProcs : ~ingroup[d]
=============================================================================
