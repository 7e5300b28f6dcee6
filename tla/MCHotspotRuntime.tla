-------------------------- MODULE MCHotspotRuntime --------------------------
(***************************************************************************)
(* HotspotRuntime for TLC: threads and CPUs are interchangeable; three     *)
(* threads from the start are left in peace, two (if pins are written) or  *)
(* one are not.  With a fixed limit a TID may be used again.               *)
(***************************************************************************)
EXTENDS HotspotRuntime, TLC

MCDisturbances ==
    [m \in Modes |-> [n \in Limits |->
       IF m = "plan" THEN <<1, 0, 0>> ELSE IF n = 0 THEN <<1, 1, 0>> ELSE <<1, 2, 0>>]]
Symmetry == Permutations(Tid) \cup Permutations(Cpu)
=============================================================================
