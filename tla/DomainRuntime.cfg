SPECIFICATION Spec
CONSTANTS
    Tid = {1, 2}
    Main = 1
    Node = {1, 2}
    Domains = {{1}}
    Modes = {"plan", "active"}
    MaxFaults = 1
    MaxGen = 2
INVARIANTS
    TypeOK
    StatusMirrorsSolver
    NoStaleProposal
    PausedIsClean
    PinnedIsPlanned
CHECK_DEADLOCK FALSE
