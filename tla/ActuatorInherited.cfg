SPECIFICATION Spec
CONSTANTS
  Tid = {1, 2}
  Cpu = {0, 1, 2}
  AppMasks <- MCAppMasks
  PolicyMasks <- MCPolicyMasks
  Cpusets <- MCCpusets
  NoMask <- MCNoMask
  MaxFaults = 0
  MaxEnv = 1
INVARIANTS
  RestorationIsComplete
