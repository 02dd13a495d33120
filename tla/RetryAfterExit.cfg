CONSTANTS
    s1 = s1
    s2 = s2
    Slots = {2}
    Sessions = {s1, s2}
    MaxGenerations = 2
SPECIFICATION Spec
SYMMETRY Symmetry
CHECK_DEADLOCK FALSE
PROPERTIES
    RetryAfterExitProceeds
