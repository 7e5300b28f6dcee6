SPECIFICATION FairSpec
CONSTANTS
    Tid = {1, 2}
    Main = 1
    Node = {1, 2}
    Domains = {{1}}
    Modes = {"active"}
    MaxFaults = 0
    MaxGen = 1
PROPERTIES
    HardFailureFollows
    ShutdownCompletes
CHECK_DEADLOCK FALSE
