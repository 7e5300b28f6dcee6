----------------------------- MODULE MCActuator -----------------------------
(* Finite instances of Actuator: three CPUs, all of them the application's. *)
EXTENDS Actuator, Integers

MCAppMasks == {{0, 1, 2}}
MCNoMask == {-1}
MCCpusets == {{0, 2}}
\* A pin that a cpuset can narrow.
MCPolicyMasks == {{0, 1}}
\* A batch may also hold the empty mask, which apply_delta rejects.
MCPolicyMasksWithEmpty == {{0, 1}, {}}
=============================================================================
