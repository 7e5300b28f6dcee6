-------------------------- MODULE BpfHealthProofs --------------------------
(***************************************************************************)
(* The verdicts on the BPF collector, for any spans, limits and counts.    *)
(*                                                                         *)
(* The times are unsigned, so a difference taken the wrong way round is    *)
(* huge.  The worker's clock reading may be older than the newest sample;  *)
(* but then that sample is in the queue, and the age of the last sample is *)
(* not judged.  Samples are in order all the way from the read to the      *)
(* window, whatever the queue drops, and so are the counters in them.      *)
(***************************************************************************)
EXTENDS BpfHealth, FiniteSetTheorems, SequenceTheorems, TLAPS

-----------------------------------------------------------------------------
(***************************************************************************)
(* Induction over the natural numbers, stated about sets                   *)
(***************************************************************************)
\* Every non-empty set of numbers has a least element.
LEMMA LeastElement ==
  ASSUME NEW T \in SUBSET Nat, T # {}
  PROVE  \E x \in T : \A y \in T : x <= y
  <1> DEFINE R == OpToRel(<, Nat)
  <1>1. IsWellFoundedOn(R, Nat)
    BY NatLessThanWellFounded
  <1>2. \A x, y \in Nat : <<y, x>> \in R <=> y < x
    BY DEF OpToRel
  <1> HIDE DEF R
  <1>3. PICK x \in T : \A y \in T : ~(<<y, x>> \in R)
    BY Zenon, <1>1, WFMin
  <1>4. ASSUME NEW y \in T PROVE x <= y
    <2>1. x \in Nat /\ y \in Nat
      OBVIOUS
    <2>2. ~(y < x)
      BY Zenon, <1>2, <1>3, <2>1
    <2>3. QED
      BY <2>1, <2>2
  <1>5. QED
    BY <1>4

\* Max is the greatest element of a set that has a bound.
LEMMA MaxIsGreatest ==
  ASSUME NEW T \in SUBSET Nat, T # {}, NEW b \in Nat, \A y \in T : y <= b
  PROVE  Max(T) \in T /\ \A y \in T : Max(T) >= y
  <1> DEFINE U == {b - y : y \in T}
  <1>1. U \in SUBSET Nat /\ U # {}
    <2>1. \A y \in T : b - y \in Nat
      OBVIOUS
    <2>2. QED
      BY Zenon, <2>1
  <1>2. PICK u \in U : \A v \in U : u <= v
    BY <1>1, LeastElement
  <1>3. PICK x \in T : u = b - x
    OBVIOUS
  <1>4. \A y \in T : x >= y
    BY <1>2, <1>3
  <1>5. QED
    BY <1>3, <1>4 DEF Max
-----------------------------------------------------------------------------

USE DEF kernel, bpf, shared, verdict, worker

\* A sample and one that was read after it.
Before(s, t) ==
    /\ s.time < t.time
    /\ s.valid /\ t.valid => s.emitted <= t.emitted /\ s.dropped <= t.dropped
Ordered(q) == \A i, j \in DOMAIN q : i < j => Before(q[i], q[j])
Precede(p, q) == \A i \in DOMAIN p, j \in DOMAIN q : Before(p[i], q[j])

\* Samples that were read by some time, with the counters then, and before the next read.
ReadBy(q, time, next, e, d) ==
    \A i \in DOMAIN q : /\ q[i].time <= time /\ q[i].time < next
                        /\ q[i].emitted <= e /\ q[i].dropped <= d
Past(q) == ReadBy(q, clock, next_health, emitted, dropped)

\* Failed reads that are on their way to the worker.
Failed(q) == Cardinality({i \in DOMAIN q : ~q[i].valid})

Types ==
    /\ clock \in 1..MaxTime /\ emitted \in 0..MaxCount /\ dropped \in 0..MaxCount /\ fails \in 0..MaxFails
    /\ reading \in Seq(Sample) /\ Len(reading) <= 1 /\ next_health \in 0..MaxTime + 1
    /\ pending \in Seq(Sample) /\ samples \in Seq(Sample) /\ window \in Seq(Sample)
    /\ Len(pending) <= QueueLimit /\ Len(samples) <= QueueLimit
    /\ last_sample \in 0..MaxTime /\ now \in 1..MaxTime /\ first \in 0..MaxTime
    /\ pc \in {"loop", "swap", "judge"} /\ failures \in Nat /\ failed_since \in 0..MaxTime
    /\ pc = "judge" <=> samples # <<>>

Flags ==
    /\ stuck \in BOOLEAN /\ valid \in BOOLEAN /\ ready \in BOOLEAN /\ loss \in BOOLEAN
    /\ fatal \in {"", "stalled", "unreadable", "loss"}

\* Every failed read is counted at most once.
FailInv == failures + Failed(samples) + Failed(pending) + Failed(reading) <= fails

OrderInv ==
    /\ next_health <= clock + 1
    /\ Past(reading) /\ Past(pending) /\ Past(samples) /\ Past(window)
    /\ Ordered(pending) /\ Ordered(samples)
    /\ Precede(window, samples) /\ Precede(window, pending) /\ Precede(window, reading)
    /\ Precede(samples, pending) /\ Precede(samples, reading) /\ Precede(pending, reading)
    /\ \A i \in DOMAIN window : window[i].valid

\* A sample that is newer than the worker's clock reading is in the queue.
ClockInv ==
    /\ now <= clock /\ last_sample <= clock
    /\ pc = "swap" /\ pending = <<>> => last_sample <= now

\* The window starts with the first valid sample, or with one that is old enough.
WindowInv ==
    /\ first = 0 <=> window = <<>>
    /\ first # 0 => /\ \A i \in DOMAIN window : window[i].time <= Newest(window).time
                    /\ window[1].time = first \/ Newest(window).time - window[1].time >= Window
                    /\ \A i \in 2..Len(window) : Newest(window).time - window[i].time < Window
                    /\ ready <=> Newest(window).time - window[1].time >= Window

IInv == Types /\ Flags /\ FailInv /\ OrderInv /\ ClockInv /\ WindowInv
-----------------------------------------------------------------------------
(***************************************************************************)
(* Times, and sequences of samples                                         *)
(***************************************************************************)
\* An unsigned difference is the difference, if it is taken the right way round.
LEMMA SinceForward ==
  ASSUME NEW later \in 0..MaxTime, NEW earlier \in 0..later
  PROVE  Since(later, earlier) = later - earlier
  <1>1. later - earlier \in Nat /\ later - earlier < Wrap /\ Wrap \in Nat /\ Wrap > 0
    BY BoundAssumption, WrapAssumption, SpanAssumption
  <1>2. \A x \in Nat : x < Wrap => x % Wrap = x
    BY <1>1
  <1> QED
    BY <1>1, <1>2 DEF Since

\* The queue without its oldest sample: the others move up by one.
LEMMA TailShape ==
  ASSUME NEW q \in Seq(Sample), q # <<>>
  PROVE  /\ Tail(q) \in Seq(Sample) /\ Len(q) \in Nat \ {0} /\ Len(Tail(q)) = Len(q) - 1
         /\ DOMAIN q = 1..Len(q) /\ DOMAIN Tail(q) = 1..(Len(q) - 1)
         /\ Head(q) = q[1] /\ 1 \in DOMAIN q /\ q[1] \in Sample
         /\ \A i \in DOMAIN Tail(q) : i + 1 \in DOMAIN q /\ Tail(q)[i] = q[i + 1]
  <1>1. Tail(q) \in Seq(Sample) /\ Len(Tail(q)) = Len(q) - 1
        /\ \A i \in 1..Len(Tail(q)) : Tail(q)[i] = q[i + 1]
    BY HeadTailProperties
  <1>2. Len(q) \in Nat \ {0} /\ DOMAIN q = 1..Len(q)
    BY EmptySeq, LenProperties
  <1>3. DOMAIN Tail(q) = 1..(Len(q) - 1)
    BY <1>1, LenProperties
  <1>4. 1 \in DOMAIN q /\ q[1] \in Sample /\ Head(q) = q[1]
    BY <1>2
  <1> QED
    BY <1>1, <1>2, <1>3, <1>4

\* r is q with the sample s at its end.
Extended(r, q, s) ==
    /\ r \in Seq(Sample) /\ Len(r) = Len(q) + 1
    /\ DOMAIN q = 1..Len(q) /\ DOMAIN r = 1..(Len(q) + 1) /\ Len(q) \in Nat
    /\ r[Len(q) + 1] = s /\ \A i \in DOMAIN q : r[i] = q[i]

\* A sample is queued, or joins the window, at the end.
LEMMA AppendShape ==
  ASSUME NEW q \in Seq(Sample), NEW s \in Sample
  PROVE  Extended(Append(q, s), q, s)
  BY LenProperties DEF Extended

\* What was read goes to the end of the queue.
LEMMA ConcatShape ==
  ASSUME NEW q \in Seq(Sample), NEW r \in Seq(Sample), Len(r) = 1
  PROVE  Extended(q \o r, q, r[1])
  <1>1. q \o r \in Seq(Sample) /\ Len(q \o r) = Len(q) + Len(r)
        /\ \A i \in 1..Len(q) + Len(r) : (q \o r)[i] = IF i <= Len(q) THEN q[i] ELSE r[i - Len(q)]
    BY ConcatProperties
  <1>2. DOMAIN q = 1..Len(q) /\ Len(q) \in Nat /\ DOMAIN (q \o r) = 1..Len(q \o r)
    BY <1>1, LenProperties
  <1> QED
    BY <1>1, <1>2 DEF Extended

\* Order survives the loss of the oldest sample.
LEMMA TailOrder ==
  ASSUME NEW q \in Seq(Sample), q # <<>>
  PROVE  /\ Ordered(q) => Ordered(Tail(q)) /\ \A j \in DOMAIN Tail(q) : Before(Head(q), Tail(q)[j])
         /\ \A p : Precede(p, q) => Precede(p, Tail(q)) /\ \A i \in DOMAIN p : Before(p[i], Head(q))
         /\ \A p : Precede(q, p) => Precede(Tail(q), p) /\ \A j \in DOMAIN p : Before(Head(q), p[j])
  <1>1. Ordered(q) => Ordered(Tail(q)) /\ \A j \in DOMAIN Tail(q) : Before(Head(q), Tail(q)[j])
    BY TailShape DEF Ordered
  <1>2. \A p : Precede(p, q) => Precede(p, Tail(q)) /\ \A i \in DOMAIN p : Before(p[i], Head(q))
    BY TailShape, Zenon DEF Precede
  <1>3. \A p : Precede(q, p) => Precede(Tail(q), p) /\ \A j \in DOMAIN p : Before(Head(q), p[j])
    BY TailShape, Zenon DEF Precede
  <1> QED
    BY <1>1, <1>2, <1>3

\* Order survives the arrival of a newer sample.
LEMMA ExtendedOrder ==
  ASSUME NEW q, NEW r, NEW s, Extended(r, q, s)
  PROVE  /\ Ordered(q) /\ (\A i \in DOMAIN q : Before(q[i], s)) => Ordered(r)
         /\ \A p : Precede(p, q) /\ (\A i \in DOMAIN p : Before(p[i], s)) => Precede(p, r)
         /\ \A p : Precede(q, p) /\ (\A j \in DOMAIN p : Before(s, p[j])) => Precede(r, p)
  <1>1. \A i \in DOMAIN r : i \in DOMAIN q \/ i = Len(q) + 1
    BY DEF Extended
  <1>2. Ordered(q) /\ (\A i \in DOMAIN q : Before(q[i], s)) => Ordered(r)
    <2> SUFFICES ASSUME Ordered(q), \A i \in DOMAIN q : Before(q[i], s),
                        NEW i \in DOMAIN r, NEW j \in DOMAIN r, i < j
                 PROVE  Before(r[i], r[j])
      BY DEF Ordered
    <2>1. i \in DOMAIN q
      BY DEF Extended
    <2> QED
      BY <1>1, <2>1 DEF Ordered, Extended
  <1>3. \A p : Precede(p, q) /\ (\A i \in DOMAIN p : Before(p[i], s)) => Precede(p, r)
    BY <1>1 DEF Precede, Extended
  <1>4. \A p : Precede(q, p) /\ (\A j \in DOMAIN p : Before(s, p[j])) => Precede(r, p)
    BY <1>1 DEF Precede, Extended
  <1> QED
    BY <1>2, <1>3, <1>4
-----------------------------------------------------------------------------
(***************************************************************************)
(* Failed reads among the samples                                          *)
(***************************************************************************)
\* Failed reads in a queue can be counted.
LEMMA FailedFinite ==
  ASSUME NEW q \in Seq(Sample)
  PROVE  Failed(q) \in Nat /\ IsFiniteSet({i \in DOMAIN q : ~q[i].valid})
  <1> DEFINE F == {i \in DOMAIN q : ~q[i].valid}
  <1>1. DOMAIN q = 1..Len(q) /\ Len(q) \in Nat
    BY LenProperties
  <1>2. IsFiniteSet(1..Len(q))
    BY <1>1, FS_Interval
  <1>3. F \in SUBSET (1..Len(q))
    BY <1>1
  <1>4. IsFiniteSet(F)
    BY <1>2, <1>3, FS_Subset
  <1> QED
    BY <1>4, FS_CardinalityType DEF Failed

\* The count of failed reads in a queue is a number.
LEMMA FailedIsNat ==
  ASSUME NEW q \in Seq(Sample)
  PROVE  Failed(q) \in Nat
  BY FailedFinite

\* An empty queue holds no failed read.
LEMMA FailedEmpty == Failed(<<>>) = 0
  <1>1. {i \in DOMAIN <<>> : ~<<>>[i].valid} = {}
    OBVIOUS
  <1> QED
    BY <1>1, FS_EmptySet DEF Failed

\* The oldest sample takes its failure with it.
LEMMA FailedTail ==
  ASSUME NEW q \in Seq(Sample), q # <<>>
  PROVE  Failed(Tail(q)) + (IF Head(q).valid THEN 0 ELSE 1) <= Failed(q)
  <1> DEFINE F == {i \in DOMAIN q : ~q[i].valid}
             G == {i \in DOMAIN Tail(q) : ~Tail(q)[i].valid}
             H == F \ {1}
             f == [i \in G |-> i + 1]
  <1>1. IsFiniteSet(F) /\ Cardinality(F) \in Nat
    BY FailedFinite DEF Failed
  <1>2. IsFiniteSet(H) /\ Cardinality(H) = IF 1 \in F THEN Cardinality(F) - 1 ELSE Cardinality(F)
    BY <1>1, FS_RemoveElement
  <1>3. 1 \in F <=> ~Head(q).valid
    BY TailShape
  <1>4. f \in Injection(G, H)
    <2>1. \A i \in G : i \in Nat /\ i >= 1 /\ i + 1 \in F
      BY TailShape
    <2>2. f \in [G -> H]
      BY <2>1
    <2>3. \A i, j \in G : f[i] = f[j] => i = j
      BY <2>1
    <2> QED
      BY <2>2, <2>3 DEF Injection, IsInjective
  <1> HIDE DEF f, H
  <1>5. Cardinality(G) <= Cardinality(H)
    BY <1>2, <1>4, FS_Injection
  <1>6. Cardinality(G) \in Nat
    BY TailShape, FailedIsNat DEF Failed
  <1>7. Failed(q) = Cardinality(F) /\ Failed(Tail(q)) = Cardinality(G)
    BY DEF Failed
  <1> HIDE DEF F, G
  <1> QED
    BY <1>1, <1>2, <1>3, <1>5, <1>6, <1>7

\* A failed read that arrives is one more.
LEMMA FailedExtended ==
  ASSUME NEW q \in Seq(Sample), NEW s \in Sample, NEW r, Extended(r, q, s)
  PROVE  Failed(r) = Failed(q) + (IF s.valid THEN 0 ELSE 1)
  <1> DEFINE F == {i \in DOMAIN q : ~q[i].valid}
             G == {i \in DOMAIN r : ~r[i].valid}
             n == Len(q) + 1
  <1>1. IsFiniteSet(F) /\ Cardinality(F) \in Nat
    BY FailedFinite DEF Failed
  <1>2. n \notin F
    BY DEF Extended
  <1>3. DOMAIN r = DOMAIN q \cup {n} /\ r[n] = s /\ \A i \in DOMAIN q : r[i] = q[i]
    BY DEF Extended
  <1>4. Failed(q) = Cardinality(F) /\ Failed(r) = Cardinality(G)
    BY DEF Failed
  <1>5. s.valid => G = F
    BY <1>2, <1>3
  <1>6. ~s.valid => G = F \cup {n}
    BY <1>3
  <1>7. Cardinality(F \cup {n}) = Cardinality(F) + 1
    BY <1>1, <1>2, FS_AddElement
  <1> HIDE DEF F, G, n
  <1>8. CASE s.valid
    BY <1>1, <1>4, <1>5, <1>8
  <1>9. CASE ~s.valid
    <2>1. Cardinality(G) = Cardinality(F) + 1
      BY <1>6, <1>7, <1>9, Zenon
    <2> QED
      BY <1>1, <1>4, <1>9, <2>1
  <1> QED
    BY <1>8, <1>9
-----------------------------------------------------------------------------
(***************************************************************************)
(* Samples that are in the past                                            *)
(***************************************************************************)
\* The fields of a sample, as numbers.
LEMMA SampleFields ==
  ASSUME NEW q \in Seq(Sample), NEW i \in DOMAIN q
  PROVE  /\ q[i] \in Sample /\ q[i].time \in 1..MaxTime /\ q[i].time \in Nat
         /\ q[i].emitted \in Nat /\ q[i].dropped \in Nat
  <1>1. q[i] \in Sample
    BY LenProperties
  <1> QED
    BY <1>1, BoundAssumption DEF Sample

\* What is in the past stays there.
LEMMA ReadByGrows ==
  ASSUME NEW q \in Seq(Sample),
         NEW c \in Nat, NEW n \in Nat, NEW e \in Nat, NEW d \in Nat, ReadBy(q, c, n, e, d),
         NEW c2 \in Nat, NEW n2 \in Nat, NEW e2 \in Nat, NEW d2 \in Nat,
         c <= c2, n <= n2, e <= e2, d <= d2
  PROVE  ReadBy(q, c2, n2, e2, d2)
  <1>0. \A x, y, z \in Nat : x < y /\ y <= z => x < z
    OBVIOUS
  <1>1. \A x, y, z \in Nat : x <= y /\ y <= z => x <= z
    OBVIOUS
  <1> SUFFICES ASSUME NEW i \in DOMAIN q
               PROVE  /\ q[i].time <= c2 /\ q[i].time < n2
                      /\ q[i].emitted <= e2 /\ q[i].dropped <= d2
    BY Zenon DEF ReadBy
  <1>2. q[i].time \in Nat /\ q[i].emitted \in Nat /\ q[i].dropped \in Nat
    BY SampleFields, Zenon
  <1>3. q[i].time <= c /\ q[i].time < n /\ q[i].emitted <= e /\ q[i].dropped <= d
    BY Zenon DEF ReadBy
  <1>4. q[i].time <= c2
    BY <1>1, <1>2, <1>3, Zenon
  <1>5. q[i].time < n2
    BY <1>0, <1>2, <1>3, Zenon
  <1>6. q[i].emitted <= e2
    BY <1>1, <1>2, <1>3, Zenon
  <1>7. q[i].dropped <= d2
    BY <1>1, <1>2, <1>3, Zenon
  <1> QED
    BY <1>4, <1>5, <1>6, <1>7

\* A queue of past samples stays one without its oldest.
LEMMA ReadByTail ==
  ASSUME NEW q \in Seq(Sample), q # <<>>, NEW c, NEW n, NEW e, NEW d, ReadBy(q, c, n, e, d)
  PROVE  ReadBy(Tail(q), c, n, e, d) /\ Head(q).time <= c
  BY TailShape DEF ReadBy

\* A queue of past samples stays one when a past sample arrives.
LEMMA ReadByExtended ==
  ASSUME NEW q, NEW r, NEW s, Extended(r, q, s), NEW c, NEW n, NEW e, NEW d,
         ReadBy(q, c, n, e, d), s.time <= c, s.time < n, s.emitted <= e, s.dropped <= d
  PROVE  ReadBy(r, c, n, e, d)
  <1>1. \A i \in DOMAIN r : (i \in DOMAIN q /\ r[i] = q[i]) \/ r[i] = s
    BY DEF Extended
  <1> QED
    BY <1>1 DEF ReadBy

\* The next sample comes after all that are in the past.
LEMMA PastPrecedes ==
  ASSUME NEW q \in Seq(Sample), NEW s \in Sample,
         NEW c \in Nat, NEW n \in Nat, NEW e \in Nat, NEW d \in Nat, ReadBy(q, c, n, e, d),
         n <= s.time, s.valid => s.emitted = e /\ s.dropped = d
  PROVE  \A i \in DOMAIN q : Before(q[i], s)
  <1>1. s.time \in Nat
    BY BoundAssumption DEF Sample
  <1> QED
    BY <1>1, SampleFields DEF ReadBy, Before

\* The one sample that is read and not queued.
LEMMA SingleShape ==
  ASSUME NEW s \in Sample
  PROVE  /\ <<s>> \in Seq(Sample) /\ Len(<<s>>) = 1 /\ <<s>>[1] = s
         /\ \A i \in DOMAIN <<s>> : <<s>>[i] = s
         /\ Failed(<<s>>) = IF s.valid THEN 0 ELSE 1
  <1>1. /\ <<s>> \in Seq(Sample) /\ Len(<<s>>) = 1 /\ <<s>>[1] = s
        /\ \A i \in DOMAIN <<s>> : <<s>>[i] = s
    OBVIOUS
  <1>2. <<>> \in Seq(Sample) /\ Extended(<<s>>, <<>>, s)
    BY DEF Extended
  <1>3. Failed(<<s>>) = Failed(<<>>) + (IF s.valid THEN 0 ELSE 1)
    BY <1>2, FailedExtended
  <1> QED
    BY <1>1, <1>3, FailedEmpty

\* A read that is under way holds exactly one sample.
LEMMA ReadingShape ==
  ASSUME NEW r \in Seq(Sample), Len(r) <= 1, r # <<>>
  PROVE  Len(r) = 1 /\ r[1] \in Sample /\ r = <<r[1]>> /\ 1 \in DOMAIN r
  <1>0. Len(r) \in Nat \ {0} /\ r[1] \in Sample /\ 1 \in DOMAIN r
    BY TailShape
  <1>1. Len(r) = 1 /\ r[1] \in Sample /\ 1 \in DOMAIN r
    <2>1. \A l \in Nat \ {0} : l <= 1 => l = 1
      OBVIOUS
    <2> QED
      BY <1>0, <2>1, Zenon
  <1>2. <<r[1]>> \in Seq(Sample) /\ Len(<<r[1]>>) = 1 /\ <<r[1]>>[1] = r[1]
    BY <1>1
  <1>3. \A i \in 1..Len(r) : r[i] = <<r[1]>>[i]
    BY <1>1, <1>2
  <1>4. r = <<r[1]>>
    BY <1>1, <1>2, <1>3, SeqEqual
  <1> QED
    BY <1>1, <1>4

\* An empty queue is in order, and before and after every other.
LEMMA EmptyOrder ==
  /\ <<>> \in Seq(Sample) /\ Len(<<>>) = 0 /\ Ordered(<<>>)
  /\ \A p : Precede(<<>>, p) /\ Precede(p, <<>>)
  /\ \A c, n, e, d : ReadBy(<<>>, c, n, e, d)
  <1>1. DOMAIN <<>> = {}
    OBVIOUS
  <1>2. <<>> \in Seq(Sample) /\ Len(<<>>) = 0
    OBVIOUS
  <1> QED
    BY <1>1, <1>2 DEF Ordered, Precede, ReadBy
-----------------------------------------------------------------------------
(***************************************************************************)
(* Every step preserves the invariant                                      *)
(***************************************************************************)
\* Before the first sample nothing is queued, judged or failed.
LEMMA InitIInv == Init => IInv
  <1> SUFFICES ASSUME Init PROVE IInv
    OBVIOUS
  <1>1. /\ clock = 1 /\ emitted = 0 /\ dropped = 0 /\ fails = 0 /\ next_health = 0 /\ last_sample = 0
        /\ reading = <<>> /\ pending = <<>> /\ samples = <<>> /\ window = <<>>
        /\ pc = "loop" /\ now = 1 /\ failures = 0 /\ failed_since = 0 /\ first = 0
    BY Zenon DEF Init
  <1>2. Flags
    BY Zenon DEF Init, Flags
  <1>3. Types
    BY <1>1, EmptyOrder, BoundAssumption, SpanAssumption DEF Types
  <1>4. FailInv
    BY <1>1, FailedEmpty DEF FailInv
  <1>5. OrderInv
    BY <1>1, EmptyOrder DEF OrderInv, Past
  <1>6. ClockInv
    BY <1>1 DEF ClockInv
  <1>7. WindowInv
    BY <1>1 DEF WindowInv
  <1> QED
    BY <1>2, <1>3, <1>4, <1>5, <1>6, <1>7 DEF IInv

\* Time passes, records are emitted or dropped, the BPF thread hangs.
LEMMA KernelStep ==
  ASSUME IInv, Tick \/ Emit \/ Drop \/ GetStuck \/ UNCHANGED vars
  PROVE  IInv'
  <1>0. UNCHANGED <<fails, reading, next_health, shared, worker, verdict>>
    BY Zenon DEF Tick, Emit, Drop, GetStuck, vars
  <1>a. /\ clock \in 1..MaxTime /\ emitted \in 0..MaxCount /\ dropped \in 0..MaxCount
        /\ MaxTime \in Nat /\ MaxCount \in Nat
    BY BoundAssumption DEF IInv, Types
  <1>b. /\ clock' = clock \/ (clock < MaxTime /\ clock' = clock + 1)
        /\ emitted' = emitted \/ (emitted < MaxCount /\ emitted' = emitted + 1)
        /\ dropped' = dropped \/ (dropped < MaxCount /\ dropped' = dropped + 1)
    BY Zenon DEF Tick, Emit, Drop, GetStuck, vars
  <1>c. clock' \in 1..MaxTime /\ clock <= clock'
    BY <1>a, <1>b
  <1>d. emitted' \in 0..MaxCount /\ emitted <= emitted'
    BY <1>a, <1>b
  <1>e. dropped' \in 0..MaxCount /\ dropped <= dropped'
    BY <1>a, <1>b
  <1>1. /\ UNCHANGED <<fails, reading, next_health, shared, worker, verdict>>
        /\ clock' \in 1..MaxTime /\ emitted' \in 0..MaxCount /\ dropped' \in 0..MaxCount
        /\ clock <= clock' /\ emitted <= emitted' /\ dropped <= dropped'
    BY <1>0, <1>c, <1>d, <1>e, Zenon
  <1>2. stuck' \in BOOLEAN
    BY Zenon DEF IInv, Flags, Tick, Emit, Drop, GetStuck, vars
  <1>3. Types'
    BY <1>1 DEF IInv, Types
  <1>4. Flags'
    BY <1>1, <1>2 DEF IInv, Flags
  <1>5. FailInv'
    BY <1>1 DEF IInv, FailInv
  <1>6. OrderInv'
    <2>0. /\ clock \in Nat /\ emitted \in Nat /\ dropped \in Nat /\ next_health \in Nat
          /\ clock' \in Nat /\ emitted' \in Nat /\ dropped' \in Nat
          /\ clock <= clock' /\ emitted <= emitted' /\ dropped <= dropped'
      BY <1>1, BoundAssumption DEF IInv, Types
    <2>1. /\ next_health' = next_health
          /\ reading \in Seq(Sample) /\ pending \in Seq(Sample) /\ samples \in Seq(Sample)
          /\ window \in Seq(Sample)
      BY <1>1, BoundAssumption DEF IInv, Types
    <2>2. ASSUME NEW q \in Seq(Sample), Past(q)
          PROVE  ReadBy(q, clock', next_health', emitted', dropped')
      <3>1. ReadBy(q, clock, next_health, emitted, dropped)
        BY <2>2 DEF Past
      <3>2. next_health <= next_health
        BY <2>0
      <3>3. ReadBy(q, clock', next_health, emitted', dropped')
        BY <2>0, <2>2, <3>1, <3>2, ReadByGrows, Zenon
      <3> QED
        BY <2>1, <3>3, Zenon
    <2>3. Past(reading)' /\ Past(pending)' /\ Past(samples)' /\ Past(window)'
      BY <1>1, <2>1, <2>2 DEF IInv, OrderInv, Past
    <2>4. next_health' <= clock' + 1
      <3>1. next_health <= clock + 1
        BY Zenon DEF IInv, OrderInv
      <3>2. \A x, c, d \in Nat : c <= d /\ x <= c + 1 => x <= d + 1
        OBVIOUS
      <3>3. next_health <= clock' + 1
        BY <2>0, <3>1, <3>2, Zenon
      <3> QED
        BY <2>1, <3>3, Zenon
    <2> QED
      BY <1>1, <2>3, <2>4 DEF IInv, OrderInv
  <1>7. ClockInv'
    BY <1>1, BoundAssumption DEF IInv, Types, ClockInv
  <1>8. WindowInv'
    BY <1>1 DEF IInv, WindowInv
  <1> QED
    BY <1>3, <1>4, <1>5, <1>6, <1>7, <1>8 DEF IInv

\* The BPF thread reads the counters, or fails to.
LEMMA ReadStep ==
  ASSUME IInv, ReadHealth
  PROVE  IInv'
  <1> DEFINE s == reading'[1]
  <1>1. /\ UNCHANGED <<clock, emitted, dropped, shared, worker, verdict, stuck>>
        /\ reading = <<>> /\ next_health <= clock /\ next_health' = clock + 1
    <2>1. /\ UNCHANGED <<clock, emitted, dropped, shared, worker, verdict, stuck>>
          /\ reading = <<>> /\ clock >= next_health /\ next_health' = clock + 1
      BY Zenon DEF ReadHealth
    <2>2. clock \in Nat /\ next_health \in Nat
      BY BoundAssumption DEF IInv, Types
    <2> QED
      BY <2>1, <2>2
  <1>2. /\ clock \in 1..MaxTime /\ emitted \in 0..MaxCount /\ dropped \in 0..MaxCount /\ fails \in 0..MaxFails
        /\ next_health \in Nat /\ clock \in Nat /\ emitted \in Nat /\ dropped \in Nat /\ fails \in Nat
        /\ clock + 1 \in Nat /\ clock + 1 \in 0..MaxTime + 1
    BY BoundAssumption DEF IInv, Types
  <1>3. /\ reading' = <<s>> /\ s \in Sample /\ s.time = clock
        /\ s.emitted <= emitted /\ s.dropped <= dropped
        /\ s.valid => s.emitted = emitted /\ s.dropped = dropped
        /\ fails' \in 0..MaxFails /\ fails' = fails + IF s.valid THEN 0 ELSE 1
    <2>1. CASE /\ reading' = <<[time |-> clock, valid |-> TRUE, emitted |-> emitted, dropped |-> dropped]>>
               /\ fails' = fails
      BY <1>2, <2>1 DEF Sample
    <2>2. CASE /\ reading' = <<[time |-> clock, valid |-> FALSE, emitted |-> 0, dropped |-> 0]>>
               /\ fails < MaxFails /\ fails' = fails + 1
      BY <1>2, <2>2, BoundAssumption DEF Sample
    <2> QED
      BY <2>1, <2>2, Zenon DEF ReadHealth
  <1> HIDE DEF s
  <1>4. Types'
    BY <1>1, <1>2, <1>3, SingleShape DEF IInv, Types
  <1>5. Flags'
    BY <1>1, Zenon DEF IInv, Flags
  <1>6. FailInv'
    <2>1. failures + Failed(samples) + Failed(pending) + Failed(reading) <= fails
      BY Zenon DEF IInv, FailInv
    <2>2. failures \in Nat /\ Failed(samples) \in Nat /\ Failed(pending) \in Nat
      BY FailedIsNat DEF IInv, Types
    <2>3. Failed(reading) = 0
      BY <1>1, FailedEmpty, Zenon
    <2>4. Failed(<<s>>) = IF s.valid THEN 0 ELSE 1
      BY <1>3, SingleShape
    <2>5. failures + Failed(samples) + Failed(pending) + Failed(<<s>>) <= fails'
      BY <1>2, <1>3, <2>1, <2>2, <2>3, <2>4
    <2> QED
      BY <1>1, <1>3, <2>5, Zenon DEF FailInv
  <1>7. OrderInv'
    <2>1. /\ pending \in Seq(Sample) /\ samples \in Seq(Sample) /\ window \in Seq(Sample)
          /\ Past(pending) /\ Past(samples) /\ Past(window)
      BY Zenon DEF IInv, OrderInv, Types
    <2>2. ASSUME NEW q \in Seq(Sample), Past(q)
          PROVE  /\ ReadBy(q, clock, clock + 1, emitted, dropped)
                 /\ Precede(q, <<s>>)
      <3>1. ReadBy(q, clock, next_health, emitted, dropped)
        BY <2>2 DEF Past
      <3>2. ReadBy(q, clock, clock + 1, emitted, dropped)
        BY <1>1, <1>2, <2>2, <3>1, ReadByGrows
      <3>3. \A i \in DOMAIN q : Before(q[i], s)
        BY <1>1, <1>2, <1>3, <2>2, <3>1, PastPrecedes
      <3> QED
        BY <1>3, <3>2, <3>3, SingleShape DEF Precede
    <2>3. ReadBy(<<s>>, clock, clock + 1, emitted, dropped)
      BY <1>2, <1>3, SingleShape DEF ReadBy
    <2>4. next_health' <= clock' + 1
      BY <1>1, <1>2
    <2> QED
      BY <1>1, <1>3, <2>1, <2>2, <2>3, <2>4, Zenon DEF IInv, OrderInv, Past
  <1>8. ClockInv'
    BY <1>1, Zenon DEF IInv, ClockInv
  <1>9. WindowInv'
    BY <1>1, Zenon DEF IInv, WindowInv
  <1> QED
    BY <1>4, <1>5, <1>6, <1>7, <1>8, <1>9 DEF IInv

\* The queue, with room for one more sample.
LEMMA QueueRoom ==
  ASSUME IInv
  PROVE  /\ Queue \in Seq(Sample) /\ Len(Queue) + 1 <= QueueLimit /\ Failed(Queue) <= Failed(pending)
         /\ Ordered(Queue) /\ Past(Queue)
         /\ Precede(window, Queue) /\ Precede(samples, Queue) /\ Precede(Queue, reading)
  <1>1. /\ pending \in Seq(Sample) /\ Len(pending) <= QueueLimit /\ QueueLimit \in Nat \ {0}
        /\ Len(pending) \in Nat
    BY SpanAssumption, LenProperties DEF IInv, Types
  <1>2. /\ Ordered(pending) /\ ReadBy(pending, clock, next_health, emitted, dropped)
        /\ Precede(window, pending) /\ Precede(samples, pending) /\ Precede(pending, reading)
    BY Zenon DEF IInv, OrderInv, Past
  <1>3. CASE Len(pending) >= QueueLimit
    <2>1. pending # <<>> /\ Queue = Tail(pending)
      BY <1>1, <1>3 DEF Queue
    <2>2. Tail(pending) \in Seq(Sample) /\ Len(Tail(pending)) = Len(pending) - 1
      BY <1>1, <2>1, TailShape
    <2>3. Failed(Tail(pending)) <= Failed(pending)
      <3>1. Failed(Tail(pending)) \in Nat /\ Failed(pending) \in Nat
        BY <1>1, <2>2, FailedIsNat
      <3>2. Failed(Tail(pending)) + (IF Head(pending).valid THEN 0 ELSE 1) <= Failed(pending)
        BY <1>1, <2>1, FailedTail
      <3> QED
        BY <3>1, <3>2
    <2>4. ReadBy(Tail(pending), clock, next_health, emitted, dropped)
      BY <1>1, <1>2, <2>1, ReadByTail
    <2>5. /\ Ordered(Tail(pending)) /\ Precede(window, Tail(pending)) /\ Precede(samples, Tail(pending))
          /\ Precede(Tail(pending), reading)
      BY <1>1, <1>2, <2>1, TailOrder, Zenon
    <2>6. Len(Tail(pending)) + 1 <= QueueLimit
      BY <1>1, <2>2
    <2> QED
      BY <2>1, <2>2, <2>3, <2>4, <2>5, <2>6, Zenon DEF Past
  <1>4. CASE ~(Len(pending) >= QueueLimit)
    <2>1. Queue = pending
      BY <1>4 DEF Queue
    <2>a. Failed(pending) \in Nat
      BY <1>1, FailedIsNat
    <2>b. Failed(pending) <= Failed(pending)
      BY <2>a
    <2>c. Len(pending) + 1 <= QueueLimit
      BY <1>1, <1>4
    <2>2. Failed(pending) <= Failed(pending) /\ Len(pending) + 1 <= QueueLimit
      BY <2>b, <2>c
    <2> QED
      BY <1>1, <1>2, <2>1, <2>2, Zenon DEF Past
  <1> QED
    BY <1>3, <1>4, Zenon

\* The BPF thread queues what it read.
LEMMA QueueStep ==
  ASSUME IInv, QueueSample
  PROVE  IInv'
  <1> DEFINE s == reading[1]
             q == Queue
             r == q \o reading
  <1>1. /\ UNCHANGED <<kernel, next_health, stuck, worker, verdict>>
        /\ reading # <<>> /\ reading' = <<>> /\ pending' = r /\ last_sample' = s.time
    BY Zenon DEF QueueSample
  <1>2. reading \in Seq(Sample) /\ Len(reading) <= 1
    BY DEF IInv, Types
  <1>3. Len(reading) = 1 /\ s \in Sample /\ reading = <<s>> /\ 1 \in DOMAIN reading
    BY <1>1, <1>2, ReadingShape
  <1>4. /\ q \in Seq(Sample) /\ Len(q) + 1 <= QueueLimit /\ Failed(q) <= Failed(pending)
        /\ Ordered(q) /\ Past(q) /\ Precede(window, q) /\ Precede(samples, q) /\ Precede(q, reading)
    BY QueueRoom
  <1> HIDE DEF q
  <1>5. Extended(r, q, s)
    BY <1>2, <1>3, <1>4, ConcatShape
  <1>6. s.time \in 1..MaxTime /\ s.time <= clock /\ s.time < next_health
        /\ s.emitted <= emitted /\ s.dropped <= dropped
    <2>1. ReadBy(reading, clock, next_health, emitted, dropped)
      BY Zenon DEF IInv, OrderInv, Past
    <2> QED
      BY <1>3, <2>1 DEF Sample, ReadBy
  <1> HIDE DEF s, r
  <1>7. r \in Seq(Sample) /\ Len(r) <= QueueLimit /\ r # <<>>
    BY <1>4, <1>5 DEF Extended
  <1>8. Types'
    BY <1>1, <1>6, <1>7, EmptyOrder DEF IInv, Types
  <1>9. Flags'
    BY <1>1, Zenon DEF IInv, Flags
  <1>10. FailInv'
    <2>1. failures + Failed(samples) + Failed(pending) + Failed(reading) <= fails
      BY Zenon DEF IInv, FailInv
    <2>a. samples \in Seq(Sample) /\ pending \in Seq(Sample) /\ failures \in Nat /\ fails \in 0..MaxFails
      BY Zenon DEF IInv, Types
    <2>2. /\ failures \in Nat /\ Failed(samples) \in Nat /\ Failed(pending) \in Nat /\ fails \in Nat
          /\ Failed(q) \in Nat
      <3>1. fails \in Nat
        BY <2>a, BoundAssumption
      <3> QED
        BY <1>4, <2>a, <3>1, FailedIsNat, Zenon
    <2>3. Failed(reading) = IF s.valid THEN 0 ELSE 1
      BY <1>3, SingleShape, Zenon
    <2>4. Failed(r) = Failed(q) + (IF s.valid THEN 0 ELSE 1)
      BY <1>3, <1>4, <1>5, FailedExtended
    <2>5. failures + Failed(samples) + Failed(r) + Failed(<<>>) <= fails
      BY <1>4, <2>1, <2>2, <2>3, <2>4, FailedEmpty
    <2> QED
      BY <1>1, <2>5, Zenon DEF FailInv
  <1>11. OrderInv'
    <2>1. /\ Precede(window, reading) /\ Precede(samples, reading)
      BY Zenon DEF IInv, OrderInv
    <2>2. /\ \A i \in DOMAIN window : Before(window[i], s)
          /\ \A i \in DOMAIN samples : Before(samples[i], s)
          /\ \A i \in DOMAIN q : Before(q[i], s)
      BY <1>3, <1>4, <2>1, Zenon DEF Precede, s
    <2>3. Ordered(r) /\ Precede(window, r) /\ Precede(samples, r)
      BY <1>4, <1>5, <2>2, ExtendedOrder, Zenon
    <2>4. ReadBy(r, clock, next_health, emitted, dropped)
      BY <1>4, <1>5, <1>6, ReadByExtended, Zenon DEF Past
    <2> QED
      BY <1>1, <2>3, <2>4, EmptyOrder, Zenon DEF IInv, OrderInv, Past
  <1>12. ClockInv'
    BY <1>1, <1>6, <1>7, Zenon DEF IInv, ClockInv
  <1>13. WindowInv'
    BY <1>1, Zenon DEF IInv, WindowInv
  <1> QED
    BY <1>8, <1>9, <1>10, <1>11, <1>12, <1>13 DEF IInv

\* The worker reads the clock.
LEMMA LoopStep ==
  ASSUME IInv, LoopTop
  PROVE  IInv'
  <1>1. UNCHANGED <<kernel, bpf, shared, samples, verdict>> /\ pc = "loop" /\ pc' = "swap" /\ now' = clock
    BY Zenon DEF LoopTop
  <1>2. Types'
    BY <1>1 DEF IInv, Types
  <1>3. Flags' /\ FailInv' /\ OrderInv' /\ WindowInv'
    BY <1>1, Zenon DEF IInv, Flags, FailInv, OrderInv, WindowInv, Past
  <1>4. ClockInv'
    BY <1>1, BoundAssumption DEF IInv, ClockInv, Types
  <1> QED
    BY <1>2, <1>3, <1>4 DEF IInv

\* The worker takes the queue; without samples it judges the age of the last one.
LEMMA TakeStep ==
  ASSUME IInv, TakeSamples
  PROVE  IInv'
  <1>1. /\ UNCHANGED <<kernel, bpf, last_sample, now, valid, failures, failed_since, window, ready, loss, first>>
        /\ pc = "swap" /\ samples' = pending /\ pending' = <<>>
        /\ pc' = IF pending # <<>> THEN "judge" ELSE "loop"
    BY Zenon DEF TakeSamples
  <1>2. fatal' \in {"", "stalled", "unreadable", "loss"}
    BY Zenon DEF TakeSamples, trigger_fatal, IInv, Flags
  <1>3. samples = <<>>
    BY <1>1 DEF IInv, Types
  <1>4. Types'
    BY <1>1, EmptyOrder, SpanAssumption DEF IInv, Types
  <1>5. Flags'
    BY <1>1, <1>2, Zenon DEF IInv, Flags
  <1>6. FailInv'
    <2>1. failures + Failed(samples) + Failed(pending) + Failed(reading) <= fails
      BY Zenon DEF IInv, FailInv
    <2>a. reading \in Seq(Sample) /\ pending \in Seq(Sample) /\ failures \in Nat /\ fails \in 0..MaxFails
      BY Zenon DEF IInv, Types
    <2>2. failures \in Nat /\ Failed(reading) \in Nat /\ Failed(pending) \in Nat /\ fails \in Nat
      <3>1. fails \in Nat
        BY <2>a, BoundAssumption
      <3> QED
        BY <2>a, <3>1, FailedIsNat, Zenon
    <2>3. Failed(samples) = 0 /\ Failed(<<>>) = 0
      BY <1>3, FailedEmpty
    <2>4. failures + Failed(pending) + Failed(<<>>) + Failed(reading) <= fails
      BY <2>1, <2>2, <2>3
    <2> QED
      BY <1>1, <2>4, Zenon DEF FailInv
  <1>7. OrderInv'
    BY <1>1, EmptyOrder, Zenon DEF IInv, OrderInv, Past
  <1>8. pc' # "swap"
    BY <1>1
  <1>9. ClockInv'
    BY <1>1, <1>8, Zenon DEF IInv, ClockInv
  <1>10. WindowInv'
    BY <1>1, Zenon DEF IInv, WindowInv
  <1> QED
    BY <1>4, <1>5, <1>6, <1>7, <1>9, <1>10 DEF IInv

\* What a judged sample leaves behind.
LEMMA NextSampleFacts ==
  ASSUME IInv, pc = "judge", NextSample
  PROVE  /\ samples # <<>> /\ samples \in Seq(Sample) /\ Head(samples) \in Sample
         /\ Head(samples).time \in 1..MaxTime /\ Head(samples).time <= clock
         /\ samples' = Tail(samples) /\ samples' \in Seq(Sample) /\ Len(samples') <= QueueLimit
         /\ pc' \in {"loop", "judge"} /\ (pc' = "judge" <=> samples' # <<>>)
         /\ Ordered(samples') /\ ReadBy(samples', clock, next_health, emitted, dropped)
         /\ Precede(window, samples') /\ Precede(samples', pending) /\ Precede(samples', reading)
         /\ \A i \in DOMAIN window : Before(window[i], Head(samples))
         /\ \A j \in DOMAIN samples' : Before(Head(samples), samples'[j])
         /\ \A j \in DOMAIN pending : Before(Head(samples), pending[j])
         /\ \A j \in DOMAIN reading : Before(Head(samples), reading[j])
         /\ Failed(samples') \in Nat /\ Failed(samples) \in Nat
         /\ Failed(samples') + (IF Head(samples).valid THEN 0 ELSE 1) <= Failed(samples)
  <1>1. samples # <<>> /\ samples \in Seq(Sample) /\ Len(samples) <= QueueLimit /\ QueueLimit \in Nat
    BY SpanAssumption DEF IInv, Types
  <1>2. samples' = Tail(samples) /\ pc' = IF Len(samples) = 1 THEN "loop" ELSE "judge"
    BY DEF NextSample
  <1>3. /\ Tail(samples) \in Seq(Sample) /\ Len(samples) \in Nat \ {0} /\ Len(Tail(samples)) = Len(samples) - 1
        /\ Head(samples) \in Sample
    BY <1>1, TailShape
  <1>4. Head(samples).time \in 1..MaxTime
    BY <1>3 DEF Sample
  <1>5. Tail(samples) # <<>> <=> Len(samples) # 1
    <2>1. Tail(samples) # <<>> => Len(Tail(samples)) \in Nat \ {0}
      BY <1>3, EmptySeq
    <2>2. Tail(samples) = <<>> => Len(Tail(samples)) = 0
      BY EmptySeq
    <2> QED
      BY <1>3, <2>1, <2>2
  <1>6. Len(Tail(samples)) <= QueueLimit
    BY <1>1, <1>3
  <1>7. /\ Ordered(samples) /\ ReadBy(samples, clock, next_health, emitted, dropped)
        /\ Precede(window, samples) /\ Precede(samples, pending) /\ Precede(samples, reading)
    BY Zenon DEF IInv, OrderInv, Past
  <1>8. ReadBy(Tail(samples), clock, next_health, emitted, dropped) /\ Head(samples).time <= clock
    BY <1>1, <1>7, ReadByTail
  <1>9. /\ Ordered(Tail(samples)) /\ Precede(window, Tail(samples))
        /\ Precede(Tail(samples), pending) /\ Precede(Tail(samples), reading)
        /\ \A i \in DOMAIN window : Before(window[i], Head(samples))
        /\ \A j \in DOMAIN Tail(samples) : Before(Head(samples), Tail(samples)[j])
        /\ \A j \in DOMAIN pending : Before(Head(samples), pending[j])
        /\ \A j \in DOMAIN reading : Before(Head(samples), reading[j])
    BY <1>1, <1>7, TailOrder, Zenon
  <1>10. /\ Failed(Tail(samples)) \in Nat /\ Failed(samples) \in Nat
         /\ Failed(Tail(samples)) + (IF Head(samples).valid THEN 0 ELSE 1) <= Failed(samples)
    BY <1>1, <1>3, FailedTail, FailedIsNat, Zenon
  <1>11. pc' \in {"loop", "judge"} /\ (pc' = "judge" <=> Tail(samples) # <<>>)
    BY <1>2, <1>5
  <1> QED
    BY <1>1, <1>2, <1>3, <1>4, <1>6, <1>8, <1>9, <1>10, <1>11, Zenon

\* The worker judges a read that failed.
LEMMA JudgeFailedStep ==
  ASSUME IInv, JudgeFailedRead
  PROVE  IInv'
  <1>1. /\ UNCHANGED <<kernel, bpf, shared, now, window, ready, loss, first>>
        /\ pc = "judge" /\ ~Head(samples).valid /\ NextSample /\ failures' = failures + 1
        /\ failed_since' = IF failed_since = 0 THEN Head(samples).time ELSE failed_since
    BY Zenon DEF JudgeFailedRead
  <1>2. valid' \in BOOLEAN /\ fatal' \in {"", "stalled", "unreadable", "loss"}
    BY Zenon DEF JudgeFailedRead, trigger_fatal, IInv, Flags
  <1>3. Types'
    <2>1. /\ Head(samples).time \in 1..MaxTime /\ samples' \in Seq(Sample) /\ Len(samples') <= QueueLimit
          /\ pc' \in {"loop", "judge"} /\ (pc' = "judge" <=> samples' # <<>>)
      BY <1>1, NextSampleFacts, Zenon
    <2>2. failed_since' \in 0..MaxTime /\ failures' \in Nat
      BY <1>1, <2>1, BoundAssumption DEF IInv, Types
    <2> QED
      BY <1>1, <2>1, <2>2 DEF IInv, Types
  <1>4. Flags'
    BY <1>1, <1>2, Zenon DEF IInv, Flags
  <1>5. FailInv'
    <2>1. failures + Failed(samples) + Failed(pending) + Failed(reading) <= fails
      BY Zenon DEF IInv, FailInv
    <2>2. reading \in Seq(Sample) /\ pending \in Seq(Sample) /\ failures \in Nat /\ fails \in 0..MaxFails
      BY Zenon DEF IInv, Types
    <2>3. failures \in Nat /\ Failed(reading) \in Nat /\ Failed(pending) \in Nat /\ fails \in Nat
      <3>1. fails \in Nat
        BY <2>2, BoundAssumption
      <3> QED
        BY <2>2, <3>1, FailedIsNat, Zenon
    <2>4. /\ Failed(samples') \in Nat /\ Failed(samples) \in Nat
          /\ Failed(samples') + (IF Head(samples).valid THEN 0 ELSE 1) <= Failed(samples)
      BY <1>1, NextSampleFacts, Zenon
    <2>5. (failures + 1) + Failed(samples') + Failed(pending) + Failed(reading) <= fails
      <3>1. \A a, b, c, d, e, n \in Nat : a + b + d + e <= n /\ c + 1 <= b => (a + 1) + c + d + e <= n
        OBVIOUS
      <3>2. Failed(samples') + 1 <= Failed(samples)
        BY <1>1, <2>4, Zenon
      <3> QED
        BY <2>1, <2>3, <2>4, <3>1, <3>2, Zenon
    <2> QED
      BY <1>1, <2>5, Zenon DEF FailInv
  <1>6. OrderInv'
    <2>1. /\ Ordered(samples') /\ ReadBy(samples', clock, next_health, emitted, dropped)
          /\ Precede(window, samples') /\ Precede(samples', pending) /\ Precede(samples', reading)
      BY <1>1, NextSampleFacts, Zenon
    <2> QED
      BY <1>1, <2>1, Zenon DEF IInv, OrderInv, Past
  <1>7. pc' # "swap"
    BY <1>1, NextSampleFacts
  <1>8. ClockInv'
    BY <1>1, <1>7, Zenon DEF IInv, ClockInv
  <1>9. WindowInv'
    BY <1>1, Zenon DEF IInv, WindowInv
  <1> QED
    BY <1>3, <1>4, <1>5, <1>6, <1>8, <1>9 DEF IInv

\* The window is cut at the newest sample that is old enough, and never loses the
\* sample just judged.
LEMMA AgedShape ==
  ASSUME NEW w \in Seq(Sample), NEW n \in Nat \ {0}, n = Len(w),
         \A i \in 1..n : w[i].time <= w[n].time
  PROVE  \E k \in 1..n :
           /\ Aged(w, w[n].time) = SubSeq(w, k, n)
           /\ k # 1 => w[n].time - w[k].time >= Window
           /\ \A i \in (k + 1)..n : w[n].time - w[i].time < Window
  <1> DEFINE time == w[n].time
             old == {i \in 2..Len(w) : Since(time, w[i].time) >= Window}
  <1>1. DOMAIN w = 1..n
    BY LenProperties
  <1>2. \A i \in 1..n : w[i].time \in 1..MaxTime /\ w[i].time \in Nat
    BY <1>1, SampleFields
  <1>3. ASSUME NEW i \in 1..n
        PROVE  Since(time, w[i].time) = time - w[i].time
    <2>1. time \in 0..MaxTime /\ w[i].time \in 0..time
      BY <1>2, <1>3
    <2> QED
      BY <2>1, SinceForward
  <1>4. \A i \in 2..n : i \in old <=> time - w[i].time >= Window
    BY <1>3
  <1>5. Aged(w, time) = IF old = {} THEN w ELSE SubSeq(w, Max(old), n)
    BY DEF Aged
  <1>6. Window \in Nat \ {0}
    BY SpanAssumption
  <1>7. old \in SUBSET (2..n)
    OBVIOUS
  <1> HIDE DEF old
  <1>8. CASE old = {}
    <2>1. w = SubSeq(w, 1, n)
      BY SubSeqFull
    <2>2. \A i \in (1 + 1)..n : time - w[i].time < Window
      BY <1>2, <1>4, <1>6, <1>8
    <2> WITNESS 1 \in 1..n
    <2> QED
      BY <1>5, <1>8, <2>1, <2>2
  <1>9. CASE old # {}
    <2>1. old \in SUBSET Nat /\ \A y \in old : y <= n
      BY <1>7
    <2>2. Max(old) \in old /\ \A y \in old : Max(old) >= y
      BY <1>9, <2>1, MaxIsGreatest
    <2>3. PICK k \in 2..n : k = Max(old) /\ k \in old /\ \A y \in old : k >= y
      BY <1>7, <2>2, Zenon
    <2>4. time - w[k].time >= Window
      BY <1>4, <2>3
    <2>5. ASSUME NEW i \in (k + 1)..n
          PROVE  time - w[i].time < Window
      <3>1. i \in 2..n /\ i \in 1..n /\ ~(k >= i)
        OBVIOUS
      <3>2. i \notin old
        BY <2>3, <3>1
      <3> QED
        BY <1>2, <1>4, <1>6, <3>1, <3>2
    <2>6. k \in 1..n
      OBVIOUS
    <2> QED
      BY <1>5, <1>9, <2>3, <2>4, <2>5, <2>6, Zenon
  <1> QED
    BY <1>8, <1>9

\* A valid sample never starts a new window: counters do not run backwards.
LEMMA WindowContinues ==
  ASSUME NEW w \in Seq(Sample), NEW s \in Sample, s.valid,
         \A i \in DOMAIN w : w[i].valid /\ Before(w[i], s)
  PROVE  w # <<>> => ~(s.emitted < Newest(w).emitted \/ s.dropped < Newest(w).dropped)
  <1> SUFFICES ASSUME w # <<>>
               PROVE  ~(s.emitted < Newest(w).emitted \/ s.dropped < Newest(w).dropped)
    OBVIOUS
  <1>1. Len(w) \in DOMAIN w /\ Newest(w) = w[Len(w)]
    BY TailShape DEF Newest
  <1>2. w[Len(w)].emitted <= s.emitted /\ w[Len(w)].dropped <= s.dropped
    BY <1>1 DEF Before
  <1>3. w[Len(w)].emitted \in Nat /\ w[Len(w)].dropped \in Nat
    BY <1>1, SampleFields
  <1>4. s.emitted \in Nat /\ s.dropped \in Nat
    BY BoundAssumption DEF Sample
  <1> QED
    BY <1>1, <1>2, <1>3, <1>4

\* What the window is once a valid sample is judged: the samples it had, from some
\* point on, and the new one.
LEMMA JudgedWindow ==
  ASSUME IInv, pc = "judge", NextSample, Head(samples).valid,
         window' = Aged(Append(Continued(Head(samples)), Head(samples)), Head(samples).time)
  PROVE  LET s == Head(samples)
             n == Len(window) + 1
         IN \E k \in 1..n :
              /\ window' \in Seq(Sample) /\ Len(window') = n - k + 1 /\ n \in Nat
              /\ DOMAIN window = 1..(n - 1)
              /\ \A i \in 1..(n - k + 1) :
                   /\ i = n - k + 1 => window'[i] = s
                   /\ i # n - k + 1 => k + i - 1 \in DOMAIN window /\ window'[i] = window[k + i - 1]
                   /\ i # 1 => s.time - window'[i].time < Window
              /\ k # 1 => s.time - window'[1].time >= Window
  <1> DEFINE s == Head(samples)
             w == Append(window, s)
             n == Len(window) + 1
  <1>1. s \in Sample /\ window \in Seq(Sample) /\ \A i \in DOMAIN window : Before(window[i], s)
    BY NextSampleFacts, Zenon DEF IInv, Types
  <1>2. \A i \in DOMAIN window : window[i].valid
    BY Zenon DEF IInv, OrderInv
  <1>3. Continued(s) = window
    <2>1. window # <<>> => ~(s.emitted < Newest(window).emitted \/ s.dropped < Newest(window).dropped)
      BY <1>1, <1>2, WindowContinues, Zenon
    <2> QED
      BY <2>1, Zenon DEF Continued
  <1>4. Extended(w, window, s)
    BY <1>1, AppendShape
  <1>5. window' = Aged(w, s.time)
    BY <1>3, Zenon
  <1> HIDE DEF w, s
  <1>6. /\ w \in Seq(Sample) /\ n = Len(w) /\ n \in Nat \ {0} /\ DOMAIN window = 1..(n - 1) /\ w[n] = s
        /\ \A i \in DOMAIN window : w[i] = window[i]
    BY <1>4 DEF Extended
  <1> HIDE DEF n
  <1>7. \A i \in 1..n : w[i].time \in Nat /\ w[i] \in Sample /\ w[i].time <= w[n].time
    <2> TAKE i \in 1..n
    <2>1. DOMAIN w = 1..n
      BY <1>6, LenProperties
    <2>2. w[i].time \in Nat /\ w[i] \in Sample
      BY <1>6, <2>1, SampleFields
    <2>3. CASE i = n
      BY <2>2, <2>3
    <2>4. CASE i # n
      <3>1. i \in DOMAIN window
        BY <1>6, <2>4
      <3>2. w[i].time < s.time
        BY <1>1, <1>6, <3>1 DEF Before
      <3>3. s.time \in Nat
        BY <1>1, BoundAssumption DEF Sample
      <3> QED
        BY <1>6, <2>2, <3>2, <3>3
    <2> QED
      BY <2>3, <2>4
  <1>8. PICK k \in 1..n :
           /\ Aged(w, w[n].time) = SubSeq(w, k, n)
           /\ k # 1 => w[n].time - w[k].time >= Window
           /\ \A i \in (k + 1)..n : w[n].time - w[i].time < Window
    BY <1>6, <1>7, AgedShape
  <1>9. window' = SubSeq(w, k, n)
    BY <1>5, <1>6, <1>8
  <1>10. /\ window' \in Seq(Sample) /\ Len(window') = n - k + 1
         /\ \A i \in 1..(n - k + 1) : window'[i] = w[k + i - 1]
    <2>1. \A i \in k..n : w[i] \in Sample
      BY <1>6, <1>7
    <2>2. /\ SubSeq(w, k, n) \in Seq(Sample) /\ Len(SubSeq(w, k, n)) = IF k <= n THEN n - k + 1 ELSE 0
          /\ \A i \in 1..(n - k + 1) : SubSeq(w, k, n)[i] = w[k + i - 1]
      BY <1>6, <2>1, SubSeqProperties
    <2>3. k <= n
      BY <1>6
    <2> QED
      BY <1>9, <2>2, <2>3, Zenon
  <1>11. k # 1 => s.time - window'[1].time >= Window
    <2>1. 1 \in 1..(n - k + 1) /\ k + 1 - 1 = k
      BY <1>6
    <2>2. window'[1] = w[k]
      BY <1>10, <2>1
    <2> QED
      BY <1>6, <1>8, <2>2, Zenon
  <1>12. ASSUME NEW i \in 1..(n - k + 1)
         PROVE  /\ i = n - k + 1 => window'[i] = s
                /\ i # n - k + 1 => k + i - 1 \in DOMAIN window /\ window'[i] = window[k + i - 1]
                /\ i # 1 => s.time - window'[i].time < Window
    <2>1. window'[i] = w[k + i - 1]
      BY <1>10, <1>12
    <2>2. i = n - k + 1 => k + i - 1 = n
      BY <1>6
    <2>3. i # n - k + 1 => k + i - 1 \in DOMAIN window
      BY <1>6
    <2>4. i # 1 => k + i - 1 \in (k + 1)..n
      BY <1>6
    <2>5. i = n - k + 1 => window'[i] = s
      BY <1>6, <2>1, <2>2, Zenon
    <2>6. i # n - k + 1 => window'[i] = window[k + i - 1]
      BY <1>6, <2>1, <2>3, Zenon
    <2>7. i # 1 => s.time - window'[i].time < Window
      BY <1>6, <1>8, <2>1, <2>4, Zenon
    <2> QED
      BY <2>3, <2>5, <2>6, <2>7, Zenon
  <1> QED
    BY <1>6, <1>10, <1>11, <1>12 DEF n, s

\* The worker judges a valid sample.
LEMMA JudgeStep ==
  ASSUME IInv, JudgeSample
  PROVE  IInv'
  <1> DEFINE s == Head(samples)
             n == Len(window) + 1
  <1>1. /\ UNCHANGED <<kernel, bpf, shared, now>>
        /\ pc = "judge" /\ s.valid /\ NextSample /\ failures' = 0 /\ failed_since' = 0
        /\ window' = Aged(Append(Continued(s), s), s.time)
        /\ first' = IF first = 0 THEN s.time ELSE first
        /\ ready' = (Since(s.time, window'[1].time) >= Window)
    BY Zenon DEF JudgeSample
  <1>2. /\ s.time \in 1..MaxTime /\ s.time <= clock /\ s \in Sample
        /\ samples' \in Seq(Sample) /\ Len(samples') <= QueueLimit
        /\ pc' \in {"loop", "judge"} /\ (pc' = "judge" <=> samples' # <<>>)
    BY <1>1, NextSampleFacts, Zenon
  <1>3. PICK k \in 1..n :
           /\ window' \in Seq(Sample) /\ Len(window') = n - k + 1 /\ n \in Nat
           /\ DOMAIN window = 1..(n - 1)
           /\ \A i \in 1..(n - k + 1) :
                /\ i = n - k + 1 => window'[i] = s
                /\ i # n - k + 1 => k + i - 1 \in DOMAIN window /\ window'[i] = window[k + i - 1]
                /\ i # 1 => s.time - window'[i].time < Window
           /\ k # 1 => s.time - window'[1].time >= Window
    BY <1>1, JudgedWindow, Zenon
  <1> DEFINE m == n - k + 1
  <1>4. m \in Nat \ {0} /\ Len(window') = m /\ DOMAIN window' = 1..m
    BY <1>3, LenProperties
  <1>5. \A i \in DOMAIN window' : \/ i = m /\ window'[i] = s
                                  \/ i # m /\ \E j \in DOMAIN window : window'[i] = window[j]
    BY <1>3, <1>4
  <1>6. window' # <<>> /\ Newest(window') = s /\ m \in DOMAIN window' /\ 1 \in DOMAIN window'
    BY <1>3, <1>4 DEF Newest
  <1> HIDE DEF s
  <1>7. Types'
    <2>1. 0 \in 0..MaxTime /\ 0 \in Nat /\ 1..MaxTime \subseteq 0..MaxTime
      BY BoundAssumption
    <2>2. first \in 0..MaxTime
      BY Zenon DEF IInv, Types
    <2>3. first' \in 0..MaxTime
      BY <1>1, <1>2, <2>1, <2>2, Zenon
    <2>4. failures' \in Nat /\ failed_since' \in 0..MaxTime
      BY <1>1, <2>1, Zenon
    <2>5. pc' \in {"loop", "swap", "judge"}
      BY <1>2, Zenon
    <2>6. window' \in Seq(Sample)
      BY <1>3, Zenon
    <2> QED
      BY <1>1, <1>2, <2>3, <2>4, <2>5, <2>6, Zenon DEF IInv, Types
  <1>8. Flags'
    <2>1. valid' \in BOOLEAN /\ fatal' \in {"", "stalled", "unreadable", "loss"} /\ loss' \in BOOLEAN
      BY Zenon DEF JudgeSample, trigger_fatal, IInv, Flags, TooMuch
    <2>a. ready' = (Since(s.time, window'[1].time) >= Window)
      BY <1>1, Zenon
    <2>2. ready' \in BOOLEAN
      BY <2>a
    <2> QED
      BY <1>1, <2>1, <2>2, Zenon DEF IInv, Flags
  <1>9. FailInv'
    <2>1. failures + Failed(samples) + Failed(pending) + Failed(reading) <= fails
      BY Zenon DEF IInv, FailInv
    <2>2. reading \in Seq(Sample) /\ pending \in Seq(Sample) /\ failures \in Nat /\ fails \in 0..MaxFails
      BY Zenon DEF IInv, Types
    <2>3. fails \in Nat
      BY <2>2, BoundAssumption
    <2>4. Failed(reading) \in Nat /\ Failed(pending) \in Nat
      BY <2>2, FailedIsNat, Zenon
    <2>5. /\ Failed(samples') \in Nat /\ Failed(samples) \in Nat
          /\ Failed(samples') + (IF s.valid THEN 0 ELSE 1) <= Failed(samples)
      BY <1>1, NextSampleFacts, Zenon DEF s
    <2>a. failures \in Nat /\ Failed(samples) \in Nat
      BY <2>2, <2>5, Zenon
    <2>b. \A c \in Nat : c + 0 <= Failed(samples) => 0 + c + Failed(pending) + Failed(reading) <= fails
      BY <2>a, <2>1, <2>3, <2>4
    <2>7. Failed(samples') + 0 <= Failed(samples)
      BY <1>1, <2>5, Zenon
    <2>8. 0 + Failed(samples') + Failed(pending) + Failed(reading) <= fails
      BY <2>5, <2>b, <2>7, Zenon
    <2> QED
      BY <1>1, <2>8, Zenon DEF FailInv
  <1>10. OrderInv'
    <2>1. /\ Ordered(samples') /\ ReadBy(samples', clock, next_health, emitted, dropped)
          /\ Precede(window, samples') /\ Precede(samples', pending) /\ Precede(samples', reading)
          /\ \A j \in DOMAIN samples' : Before(s, samples'[j])
          /\ \A j \in DOMAIN pending : Before(s, pending[j])
          /\ \A j \in DOMAIN reading : Before(s, reading[j])
      BY <1>1, NextSampleFacts, Zenon DEF s
    <2>2. /\ Precede(window, pending) /\ Precede(window, reading) /\ \A i \in DOMAIN window : window[i].valid
          /\ ReadBy(window, clock, next_health, emitted, dropped)
          /\ ReadBy(samples, clock, next_health, emitted, dropped)
      BY Zenon DEF IInv, OrderInv, Past
    <2>3. \A q : Precede(window, q) /\ (\A j \in DOMAIN q : Before(s, q[j])) => Precede(window', q)
      BY <1>5, Zenon DEF Precede
    <2>4. Precede(window', samples') /\ Precede(window', pending) /\ Precede(window', reading)
      BY <2>1, <2>2, <2>3, Zenon
    <2>5. 1 \in DOMAIN samples /\ s = samples[1]
      BY <1>1, NextSampleFacts, TailShape DEF s
    <2>6. ReadBy(window', clock, next_health, emitted, dropped)
      BY <1>5, <2>2, <2>5, Zenon DEF ReadBy
    <2>7. \A i \in DOMAIN window' : window'[i].valid
      BY <1>1, <1>5, <2>2, Zenon
    <2> QED
      BY <1>1, <2>1, <2>2, <2>4, <2>6, <2>7, Zenon DEF IInv, OrderInv, Past
  <1>11. pc' # "swap"
    BY <1>2
  <1>12. ClockInv'
    BY <1>1, <1>11, Zenon DEF IInv, ClockInv
  <1>13. WindowInv'
    <2>1. first' # 0 /\ first' \in 1..MaxTime
      <3>1. \A x \in 0..MaxTime : x # 0 => x \in 1..MaxTime
        BY BoundAssumption
      <3>2. \A x \in 1..MaxTime : x # 0
        BY BoundAssumption
      <3>3. first \in 0..MaxTime
        BY Zenon DEF IInv, Types
      <3>4. first' = IF first = 0 THEN s.time ELSE first
        BY <1>1, Zenon
      <3> QED
        BY <1>2, <3>1, <3>2, <3>3, <3>4, Zenon
    <2>2. \A i \in DOMAIN window : Before(window[i], s)
      BY <1>1, NextSampleFacts, Zenon DEF s
    <2>3. s.time \in Nat /\ window \in Seq(Sample) /\ Window \in Nat
      <3>1. s.time \in Nat
        BY <1>2, BoundAssumption
      <3>2. Window \in Nat
        BY SpanAssumption
      <3>3. window \in Seq(Sample)
        BY Zenon DEF IInv, Types
      <3> QED
        BY <3>1, <3>2, <3>3
    <2>4. \A i \in DOMAIN window' : window'[i].time \in Nat /\ window'[i].time <= s.time
      <3> TAKE i \in DOMAIN window'
      <3>1. window'[i].time \in Nat
        BY <1>3, SampleFields
      <3>2. window'[i] = s \/ window'[i].time < s.time
        BY <1>5, <2>2, Zenon DEF Before
      <3> QED
        BY <2>3, <3>1, <3>2
    <2>5. ready' <=> s.time - window'[1].time >= Window
      <3>1. window'[1].time \in 0..s.time /\ s.time \in 0..MaxTime
        BY <1>2, <1>6, <2>3, <2>4, BoundAssumption
      <3>2. Since(s.time, window'[1].time) = s.time - window'[1].time
        BY <3>1, SinceForward
      <3> QED
        BY <1>1, <3>2, Zenon
    <2>6. \A i \in 2..Len(window') : s.time - window'[i].time < Window
      BY <1>3, <1>4
    <2>7. window'[1].time = first' \/ s.time - window'[1].time >= Window
      <3>1. CASE k # 1
        BY <1>3, <3>1, Zenon
      <3>2. CASE k = 1 /\ window = <<>>
        <4>1. n = 1 /\ m = 1
          BY <3>2, EmptySeq
        <4>2. window'[1] = s
          BY <1>3, <1>4, <4>1
        <4>3. first = 0
          BY <3>2, Zenon DEF IInv, WindowInv
        <4> QED
          BY <1>1, <4>2, <4>3, Zenon
      <3>3. CASE k = 1 /\ window # <<>>
        <4>1. 1 \in DOMAIN window /\ Len(window) \in DOMAIN window /\ Newest(window) = window[Len(window)]
          BY <2>3, <3>3, TailShape DEF Newest
        <4>2. m # 1 /\ 1 \in 1..m /\ k + 1 - 1 = 1
          BY <1>3, <1>4, <3>3, <4>1
        <4>3. window'[1] = window[1]
          BY <1>3, <4>2
        <4>4. first # 0 /\ first' = first
          BY <1>1, <3>3, Zenon DEF IInv, WindowInv
        <4>5. window[1].time = first \/ Newest(window).time - window[1].time >= Window
          BY <4>4, Zenon DEF IInv, WindowInv
        <4>6. Newest(window).time < s.time
          BY <2>2, <4>1, Zenon DEF Before
        <4>7. Newest(window).time \in Nat /\ window[1].time \in Nat
          BY <2>3, <4>1, SampleFields, Zenon
        <4>8. Newest(window).time - window[1].time >= Window => s.time - window[1].time >= Window
          BY <2>3, <4>6, <4>7
        <4> QED
          BY <4>3, <4>4, <4>5, <4>8, Zenon
      <3> QED
        BY <3>1, <3>2, <3>3, Zenon
    <2> QED
      BY <1>6, <2>1, <2>4, <2>5, <2>6, <2>7, Zenon DEF WindowInv
  <1> QED
    BY <1>7, <1>8, <1>9, <1>10, <1>12, <1>13 DEF IInv
-----------------------------------------------------------------------------
(***************************************************************************)
(* The theorems                                                            *)
(***************************************************************************)
\* Every step of the kernel, the BPF thread and the worker keeps the invariant.
LEMMA Inductive == IInv /\ [Next]_vars => IInv'
  <1> SUFFICES ASSUME IInv, [Next]_vars PROVE IInv'
    OBVIOUS
  <1>1. CASE Tick \/ Emit \/ Drop \/ GetStuck \/ UNCHANGED vars
    BY <1>1, KernelStep
  <1>2. CASE ReadHealth
    BY <1>2, ReadStep
  <1>3. CASE QueueSample
    BY <1>3, QueueStep
  <1>4. CASE LoopTop
    BY <1>4, LoopStep
  <1>5. CASE TakeSamples
    BY <1>5, TakeStep
  <1>6. CASE JudgeFailedRead
    BY <1>6, JudgeFailedStep
  <1>7. CASE JudgeSample
    BY <1>7, JudgeStep
  <1> QED
    BY <1>1, <1>2, <1>3, <1>4, <1>5, <1>6, <1>7, Zenon DEF Next, Bpf, Worker

\* Every reachable state of the two threads satisfies the invariant.
THEOREM IInvHolds == Spec => []IInv
  BY InitIInv, Inductive, PTL DEF Spec

\* The invariant gives every variable its type.
LEMMA TypesImplyTypeOK == IInv => TypeOK
  <1> SUFFICES ASSUME IInv PROVE TypeOK
    OBVIOUS
  <1>1. /\ clock \in 1..MaxTime /\ {emitted, dropped} \subseteq 0..MaxCount /\ fails \in 0..MaxFails
        /\ next_health \in 0..MaxTime + 1 /\ Len(pending) <= QueueLimit /\ Len(samples) <= QueueLimit
        /\ last_sample \in 0..MaxTime /\ now \in 1..MaxTime /\ first \in 0..MaxTime
        /\ pc \in {"loop", "swap", "judge"} /\ failed_since \in 0..MaxTime
    BY Zenon DEF IInv, Types
  <1>2. {stuck, valid, ready, loss} \subseteq BOOLEAN /\ fatal \in {"", "stalled", "unreadable", "loss"}
    BY Zenon DEF IInv, Flags
  <1>3. pending \in Seq(Sample) /\ samples \in Seq(Sample) /\ window \in Seq(Sample)
        /\ reading \in Seq(Sample) /\ Len(reading) <= 1
    BY Zenon DEF IInv, Types
  <1>4. \A q \in {pending, samples, window} : \A i \in DOMAIN q : q[i] \in Sample
    BY <1>3, SampleFields, Zenon
  <1>5. reading \in {<<>>} \cup {<<s>> : s \in Sample}
    <2>1. reading # <<>> => reading[1] \in Sample /\ reading = <<reading[1]>>
      BY <1>3, ReadingShape, Zenon
    <2> QED
      BY <2>1
  <1>6. failures \in 0..MaxFails
    <2>1. failures + Failed(samples) + Failed(pending) + Failed(reading) <= fails
      BY Zenon DEF IInv, FailInv
    <2>2. Failed(samples) \in Nat /\ Failed(pending) \in Nat /\ Failed(reading) \in Nat
      BY <1>3, FailedIsNat, Zenon
    <2>3. failures \in Nat
      BY Zenon DEF IInv, Types
    <2> QED
      BY <1>1, <2>1, <2>2, <2>3, BoundAssumption
  <1> QED
    BY <1>1, <1>2, <1>4, <1>5, <1>6, Zenon DEF TypeOK

\* Every variable keeps its type, for any limits: the queue that run_bpf fills
\* stays within health_history_limit, and the run of failures that
\* sample_bpf_health counts never exceeds the reads that failed.
THEOREM TypeCorrect == Spec => []TypeOK
  BY IInvHolds, TypesImplyTypeOK, PTL

\* The window of sample_bpf_health is thirty seconds and not much more, whatever
\* the sampling times, and whatever the queue dropped on the way.
THEOREM WindowStaysTight == Spec => []WindowIsTight
  <1>1. IInv => WindowIsTight
    <2> SUFFICES ASSUME IInv, first # 0, Newest(window).time - first >= Window
                 PROVE  /\ ready /\ Newest(window).time - window[1].time >= Window
                        /\ \A i \in 2..Len(window) : Newest(window).time - window[i].time < Window
      BY Zenon DEF WindowIsTight
    <2>1. Newest(window).time - window[1].time >= Window
      BY Zenon DEF IInv, WindowInv
    <2> QED
      BY <2>1, Zenon DEF IInv, WindowInv
  <1> QED
    BY <1>1, IInvHolds, PTL

\* The time the worker read is no older than the last sample, if the queue is empty.
LEMMA LongSilence ==
  ASSUME IInv, pc = "swap", pending = <<>>, Since(now, last_sample) > Stall
  PROVE  clock - last_sample > Stall
  <1>1. last_sample <= now /\ now <= clock
    BY Zenon DEF IInv, ClockInv
  <1>2. last_sample \in 0..MaxTime /\ now \in 1..MaxTime /\ clock \in 1..MaxTime
    BY Zenon DEF IInv, Types
  <1>3. last_sample \in Nat /\ now \in 0..MaxTime /\ clock \in Nat /\ Stall \in Nat
    BY <1>2, BoundAssumption, SpanAssumption
  <1>4. last_sample \in 0..now
    BY <1>1, <1>3
  <1>5. Since(now, last_sample) = now - last_sample
    BY <1>3, <1>4, SinceForward
  <1> QED
    BY <1>1, <1>3, <1>5

\* sample_bpf_health never calls a BPF thread stopped that has queued a sample
\* within ten seconds, although the time it uses may be older than that sample.
THEOREM StallAlarmHolds == Spec => StallAlarmIsTrue
  <1>1. IInv /\ [Next]_vars => [fatal = "" /\ fatal' = "stalled" => clock - last_sample > Stall]_vars
    <2> SUFFICES ASSUME IInv, [Next]_vars, fatal = "", fatal' = "stalled"
                 PROVE  clock - last_sample > Stall
      BY Zenon
    <2>1. pc = "swap" /\ pending = <<>> /\ Since(now, last_sample) > Stall
      <3>1. fatal' # fatal
        BY Zenon
      <3>2. TakeSamples \/ JudgeFailedRead \/ JudgeSample
        BY <3>1, Zenon DEF Next, Bpf, Worker, vars, Tick, Emit, Drop, GetStuck, ReadHealth, QueueSample, LoopTop
      <3>3. ~JudgeFailedRead /\ ~JudgeSample
        BY <3>1, Zenon DEF JudgeFailedRead, JudgeSample, trigger_fatal
      <3> QED
        BY <3>1, <3>2, <3>3, Zenon DEF TakeSamples, Stalled
    <2> QED
      BY <2>1, LongSilence, Zenon
  <1> QED
    BY <1>1, IInvHolds, PTL DEF Spec, StallAlarmIsTrue
=============================================================================
