--------------------------- MODULE AffinityLedger ---------------------------
(***************************************************************************)
(* What the actuator promises its caller about its two tables, and nothing *)
(* about how a batch is carried out.  For every TID it keeps a baseline    *)
(* (the mask to give back) and whether the policy owns the TID's mask.     *)
(*                                                                         *)
(* The promise: a batch or a restore never replaces a baseline, it records *)
(* one only where there is none; the policy owns only TIDs that have a     *)
(* baseline; and the baseline of an owned TID is dropped only together     *)
(* with the ownership.                                                     *)
(***************************************************************************)
CONSTANTS Tid,      \* thread ids
          Mask,     \* CPU masks
          NoMask    \* "no entry in the map"

VARIABLES baseline,  \* [Tid -> {NoMask} \cup Mask]
          owned,     \* subset of Tid
          busy       \* a batch or a restore is running

ledgerVars == <<baseline, owned, busy>>

Init ==
    /\ baseline = [t \in Tid |-> NoMask]
    /\ owned = {}
    /\ busy = FALSE

\* The application declares the mask it wants for t.
Declare(t, m) ==
    /\ ~busy
    /\ baseline' = [baseline EXCEPT ![t] = m]
    /\ UNCHANGED <<owned, busy>>

\* t is seen for the first time, by the sampler or by a batch.
Observe(t, m) ==
    /\ baseline[t] = NoMask
    /\ baseline' = [baseline EXCEPT ![t] = m]
    /\ UNCHANGED <<owned, busy>>

Begin == ~busy /\ busy' = TRUE /\ UNCHANGED <<baseline, owned>>
End == busy /\ busy' = FALSE /\ UNCHANGED <<baseline, owned>>

\* The policy has written t's mask.
Own(t) ==
    /\ busy /\ baseline[t] # NoMask
    /\ owned' = owned \cup {t}
    /\ UNCHANGED <<baseline, busy>>

\* The policy's first write to t has been undone.
Disown(t) ==
    /\ busy /\ t \in owned
    /\ owned' = owned \ {t}
    /\ UNCHANGED <<baseline, busy>>

\* t has its baseline back, or is gone.
Release(t) ==
    /\ busy /\ t \in owned
    /\ baseline' = [baseline EXCEPT ![t] = NoMask]
    /\ owned' = owned \ {t}
    /\ UNCHANGED busy

\* Pause and shutdown: everything is forgotten at once.
ReleaseAll ==
    /\ busy
    /\ baseline' = [t \in Tid |-> NoMask]
    /\ owned' = {}
    /\ UNCHANGED busy

Next ==
    \/ \E t \in Tid, m \in Mask : Declare(t, m) \/ Observe(t, m)
    \/ \E t \in Tid : Own(t) \/ Disown(t) \/ Release(t)
    \/ Begin \/ End \/ ReleaseAll

Spec == Init /\ [][Next]_ledgerVars
=============================================================================
