----------------------------- MODULE BpfHealth -----------------------------
(***************************************************************************)
(* The watch over the BPF collector: run_bpf and sample_bpf_health in      *)
(* src/runtime.cpp.                                                        *)
(*                                                                         *)
(* The BPF thread reads the health counters once per period and queues     *)
(* what it read; the worker takes the whole queue, at its own pace, and    *)
(* judges the samples one by one.  The two share the queue and the time of *)
(* the last sample, under bpf_pending_mutex_.  Each thread reads the clock *)
(* before it takes that lock, so the times it uses are already past.       *)
(*                                                                         *)
(* Time is counted in periods of a sample.  Counters stand for the kernel's*)
(* running totals of emitted and dropped records.                          *)
(***************************************************************************)
EXTENDS Naturals, Sequences, FiniteSetsExt

CONSTANTS Window,       \* thirty seconds
          Stall,        \* ten seconds
          FailSpan,     \* five seconds
          FailLimit,    \* three failed reads in a row
          QueueLimit,   \* health_history_limit
          LossDen,      \* one record in LossDen lost is too much
          Wrap,         \* 2^64: times are unsigned
          MaxTime,      \* bound: the clock
          MaxCount,     \* bound: records emitted, and records dropped
          MaxFails      \* bound: reads of the health map that fail

ASSUME SpanAssumption == {Window, Stall, FailSpan, FailLimit, QueueLimit, LossDen} \subseteq Nat \ {0}
ASSUME BoundAssumption == MaxTime \in Nat \ {0} /\ {MaxCount, MaxFails} \subseteq Nat
ASSUME WrapAssumption == Wrap \in Nat /\ Wrap > 2 * MaxTime + Window + Stall + FailSpan

VARIABLES
  \* the kernel and the clock (external)
  clock, emitted, dropped, fails,
  \* the BPF thread
  reading,        \* <<>>, or the sample that is read and not yet queued
  next_health,
  stuck,          \* it hangs: draining a map, or waiting for a CPU
  \* shared, under bpf_pending_mutex_
  pending,        \* pending_health_samples_
  last_sample,    \* last_bpf_health_sample_ns_
  \* the worker
  pc,             \* "loop", "swap" or "judge"
  now,            \* the clock at the top of its loop
  samples,        \* the queue it took
  valid,          \* bpf_health_.valid
  failures,       \* bpf_health_consecutive_failures_
  failed_since,   \* bpf_health_failed_since_ns_, 0: not failing
  window,         \* bpf_health_history_
  ready, loss,    \* bpf_window_ready_; bpf_window_loss_ratio_ is one percent or more
  fatal,          \* the reason of the first trigger_fatal, "" if none
  \* history
  first           \* time of the first valid sample judged, 0: none yet

kernel == <<clock, emitted, dropped, fails>>
bpf == <<reading, next_health, stuck>>
shared == <<pending, last_sample>>
verdict == <<valid, failures, failed_since, window, ready, loss, fatal, first>>
worker == <<pc, now, samples>>
vars == <<kernel, bpf, shared, worker, verdict>>

Init ==
    /\ clock = 1 /\ emitted = 0 /\ dropped = 0 /\ fails = 0
    /\ reading = <<>> /\ next_health = 0 /\ stuck = FALSE
    /\ pending = <<>> /\ last_sample = 0
    /\ pc = "loop" /\ now = 1 /\ samples = <<>>
    /\ valid = FALSE /\ failures = 0 /\ failed_since = 0 /\ window = <<>>
    /\ ready = FALSE /\ loss = FALSE /\ fatal = "" /\ first = 0
-----------------------------------------------------------------------------
Tick == clock < MaxTime /\ clock' = clock + 1
        /\ UNCHANGED <<emitted, dropped, fails, bpf, shared, worker, verdict>>

Emit == emitted < MaxCount /\ emitted' = emitted + 1
        /\ UNCHANGED <<clock, dropped, fails, bpf, shared, worker, verdict>>

Drop == dropped < MaxCount /\ dropped' = dropped + 1
        /\ UNCHANGED <<clock, emitted, fails, bpf, shared, worker, verdict>>

GetStuck == ~stuck /\ stuck' = TRUE
            /\ UNCHANGED <<kernel, reading, next_health, shared, worker, verdict>>
-----------------------------------------------------------------------------
(***************************************************************************)
(* The BPF thread                                                          *)
(***************************************************************************)
\* The clock, then the counters; a read of the map may fail.
ReadHealth ==
    /\ ~stuck /\ reading = <<>> /\ clock >= next_health
    /\ next_health' = clock + 1
    /\ \/ /\ reading' = <<[time |-> clock, valid |-> TRUE, emitted |-> emitted, dropped |-> dropped]>>
          /\ UNCHANGED fails
       \/ /\ fails < MaxFails /\ fails' = fails + 1
          /\ reading' = <<[time |-> clock, valid |-> FALSE, emitted |-> 0, dropped |-> 0]>>
    /\ UNCHANGED <<clock, emitted, dropped, stuck, shared, worker, verdict>>

\* Mutant: the queue has no limit.
Unlimited == pending
\* The queue keeps the newest samples.
Queue == IF Len(pending) >= QueueLimit THEN Tail(pending) ELSE pending

QueueSample ==
    /\ ~stuck /\ reading # <<>>
    /\ pending' = Queue \o reading
    /\ last_sample' = reading[1].time
    /\ reading' = <<>>
    /\ UNCHANGED <<kernel, next_health, stuck, worker, verdict>>
-----------------------------------------------------------------------------
(***************************************************************************)
(* The worker                                                              *)
(***************************************************************************)
\* The top of its loop; consume_pending_bpf comes before the swap.
LoopTop ==
    /\ pc = "loop" /\ pc' = "swap" /\ now' = clock
    /\ UNCHANGED <<kernel, bpf, shared, samples, verdict>>

Since(later, earlier) == (later - earlier) % Wrap

trigger_fatal(reason) == fatal' = IF fatal = "" THEN reason ELSE fatal

\* Mutant: the test for "no sample yet" is inverted.
StalledBeforeStart == last_sample = 0 /\ Since(now, last_sample) > Stall
Stalled == last_sample # 0 /\ Since(now, last_sample) > Stall

\* Mutant: the age of the last sample is judged although there are new ones.
SwapIgnoringSamples ==
    /\ pc = "swap" /\ samples' = pending /\ pending' = <<>>
    /\ pc' = IF pending = <<>> THEN "loop" ELSE "judge"
    /\ IF Stalled THEN trigger_fatal("stalled") ELSE UNCHANGED fatal
    /\ UNCHANGED <<kernel, bpf, last_sample, now, valid, failures, failed_since, window, ready,
                   loss, first>>

\* Without samples the age of the last one is judged.
TakeSamples ==
    /\ pc = "swap" /\ samples' = pending /\ pending' = <<>>
    /\ \/ pending # <<>> /\ pc' = "judge" /\ UNCHANGED fatal
       \/ /\ pending = <<>> /\ pc' = "loop"
          /\ IF Stalled THEN trigger_fatal("stalled") ELSE UNCHANGED fatal
    /\ UNCHANGED <<kernel, bpf, last_sample, now, valid, failures, failed_since, window, ready,
                   loss, first>>

NextSample == samples' = Tail(samples) /\ pc' = IF Len(samples) = 1 THEN "loop" ELSE "judge"

JudgeFailedRead ==
    /\ pc = "judge" /\ ~Head(samples).valid /\ NextSample
    /\ valid' = FALSE /\ failures' = failures + 1
    /\ failed_since' = IF failed_since = 0 THEN Head(samples).time ELSE failed_since
    /\ IF failures' >= FailLimit \/ Since(Head(samples).time, failed_since') >= FailSpan
       THEN trigger_fatal("unreadable") ELSE UNCHANGED fatal
    /\ UNCHANGED <<kernel, bpf, shared, now, window, ready, loss, first>>

\* Mutant: the window loses every sample that is old.
AgedTooFar(w, time) == SelectSeq(w, LAMBDA s : Since(time, s.time) < Window)
\* The window starts with the newest sample that is at least Window old.
Aged(w, time) ==
    LET old == {i \in 2..Len(w) : Since(time, w[i].time) >= Window}
    IN IF old = {} THEN w ELSE SubSeq(w, Max(old), Len(w))

Newest(w) == w[Len(w)]
\* Counters that run backwards start a new window.
Continued(s) == IF window # <<>> /\ (s.emitted < Newest(window).emitted \/ s.dropped < Newest(window).dropped)
                THEN <<>> ELSE window

TooMuch(from, to) ==
    LET lost == to.dropped - from.dropped
        total == lost + (to.emitted - from.emitted)
    IN total # 0 /\ lost * LossDen >= total

JudgeSample ==
    /\ pc = "judge" /\ Head(samples).valid /\ NextSample
    /\ valid' = TRUE /\ failures' = 0 /\ failed_since' = 0
    /\ LET s == Head(samples)
       IN /\ window' = Aged(Append(Continued(s), s), s.time)
          /\ first' = IF first = 0 THEN s.time ELSE first
          /\ ready' = (Since(s.time, window'[1].time) >= Window)
          /\ loss' = TooMuch(window'[1], s)
    /\ IF ready' /\ loss' THEN trigger_fatal("loss") ELSE UNCHANGED fatal
    /\ UNCHANGED <<kernel, bpf, shared, now>>
-----------------------------------------------------------------------------
Bpf == ReadHealth \/ QueueSample
Worker == LoopTop \/ TakeSamples \/ JudgeFailedRead \/ JudgeSample
Next == Tick \/ Emit \/ Drop \/ GetStuck \/ Bpf \/ Worker

Spec == Init /\ [][Next]_vars

\* Time passes, and the worker is a running thread; the BPF thread may hang.
FairSpec == Spec /\ WF_vars(Tick) /\ WF_vars(Worker)
-----------------------------------------------------------------------------
(***************************************************************************)
(* Properties                                                              *)
(***************************************************************************)
Sample == [time : 1..MaxTime, valid : BOOLEAN, emitted : 0..MaxCount, dropped : 0..MaxCount]

\* Every variable has its type; the queue keeps to its limit.
TypeOK ==
    /\ clock \in 1..MaxTime /\ {emitted, dropped} \subseteq 0..MaxCount /\ fails \in 0..MaxFails
    /\ reading \in {<<>>} \cup {<<s>> : s \in Sample} /\ next_health \in 0..MaxTime + 1
    /\ Len(pending) <= QueueLimit /\ Len(samples) <= QueueLimit
    /\ \A q \in {pending, samples, window} : \A i \in DOMAIN q : q[i] \in Sample
    /\ last_sample \in 0..MaxTime /\ now \in 1..MaxTime /\ first \in 0..MaxTime
    /\ pc \in {"loop", "swap", "judge"} /\ {stuck, valid, ready, loss} \subseteq BOOLEAN
    /\ failures \in 0..MaxFails /\ failed_since \in 0..MaxTime
    /\ fatal \in {"", "stalled", "unreadable", "loss"}

\* No false alarm: the worker calls the BPF thread stopped only if no sample was
\* queued for more than ten seconds, however the two threads interleave.  (The
\* worker's clock reading may be older than the newest sample; the unsigned
\* difference would then be huge.)
StallAlarmIsTrue ==
    [][fatal = "" /\ fatal' = "stalled" => clock - last_sample > Stall]_vars

\* The loss ratio is taken over thirty seconds and not much more: once the valid
\* samples span that much, the window starts with the newest sample that is at
\* least thirty seconds old, however late the worker judges them and whatever
\* samples the queue has dropped.
WindowIsTight ==
    first # 0 /\ Newest(window).time - first >= Window =>
      /\ ready /\ Newest(window).time - window[1].time >= Window
      /\ \A i \in 2..Len(window) : Newest(window).time - window[i].time < Window

\* A BPF thread that hangs after its first sample is noticed.
StallIsFatal ==
    stuck /\ last_sample # 0 /\ MaxTime - last_sample > Stall ~> fatal # ""
=============================================================================
