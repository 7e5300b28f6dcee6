SPECIFICATION Spec
CONSTANTS
    Family = {1}
    Node = {1, 2}
    Needs = {{1}, {1, 2}}
    Cohesive = {1}
    Torn = {}
    Active = TRUE
    FamilyStability = 1
    DomainStability = 1
    PlanConfirmations = 1
    ExpandConfirmations = 1
    ShrinkConfirmations = 1
    Dwell = 2
INVARIANTS
    MaskIsDomains
