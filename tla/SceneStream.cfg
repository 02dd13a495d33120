CONSTANTS
    n1 = n1
    n2 = n2
    Nodes = {n1}
    Start = {}
    MaxEdits = 2
    MaxTurns = 2
SPECIFICATION LiveSpec
CHECK_DEADLOCK FALSE
INVARIANTS
    TypeOK
PROPERTIES
    NoIncrementAcrossAGap
    AppliedSceneIsCurrent
    
