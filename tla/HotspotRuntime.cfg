SPECIFICATION Spec
SYMMETRY Symmetry
CONSTANTS
  Tid = {t1, t2, t3}
  Cpu = {c1, c2}
  Modes = {"plan", "active"}
  Limits = {0, 1}
  SlotSlack = 0
  InitialConfirmations = 1
  ProposalConfirmations = 2
  InitialRatio = 67
  MoveRatio = 67
  ReplanMin = 1
  Dwell = 1
  MaxPotentials = 1
  MaxGen = 2
  Disturbances <- MCDisturbances
INVARIANTS TypeOK  PinnedIsManaged
 
CHECK_DEADLOCK FALSE
