SPECIFICATION Spec
CONSTANTS
  Tid = {1, 2}
  Cpu = {0, 1, 2}
  AppMasks <- MCAppMasks
  PolicyMasks <- MCPolicyMasksWithEmpty
  Cpusets <- MCCpusets
  NoMask <- MCNoMask
  MaxFaults = 1
  MaxEnv = 2
INVARIANTS
  TypeOK
  ActedHasRestoreMask
  
  CommitIsExact
  RestoreAllIsExact
  PolicyPinIsRecorded
PROPERTIES
  ImplementsLedger
