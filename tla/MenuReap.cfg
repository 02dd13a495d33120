CONSTANTS
    Names = {ann, bea}
    Sessions = {s1, s2}
    MaxSlot = 3
    MaxLaunches = 2
    MaxSockets = 2
SPECIFICATION Spec
SYMMETRY Symmetry
CHECK_DEADLOCK FALSE
PROPERTY
    MenuReapLeavesNoPhantom
