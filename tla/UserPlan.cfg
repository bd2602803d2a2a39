CONSTANTS
    a1 = a1
    a2 = a2
    p1 = p1
    p2 = p2
    NoRow = NoRow
    Reqs <- MCReqs
    Plans <- MCPlans
    PlanRows <- MCPlanRows
    Amounts <- MCAmounts
    MaxId = 2
SYMMETRY Symmetry
SPECIFICATION Spec
INVARIANTS
    
    BotsHaveUser
    Contiguous
CHECK_DEADLOCK FALSE
