SPECIFICATION Spec
CONSTANTS
    Family = {1, 2}
    Node = {1, 2}
    Needs = {{}, {1}, {1, 2}}
    Cohesive = {1}
    Torn = {2}
    Active = TRUE
    FamilyStability = 2
    DomainStability = 2
    PlanConfirmations = 2
    ExpandConfirmations = 1
    ShrinkConfirmations = 2
    Dwell = 2
INVARIANTS
    TypeOK
    OneDomainPerFamily
    PlanIsConfirmed
    PendingMergeWaits
    PlacementIsCommitted

    
