CONSTANTS
    Names = {ann, bea}
    Sessions = {s1, s2}
    MaxSlot = 3
    MaxLaunches = 2
    MaxSockets = 3
SPECIFICATION Spec
SYMMETRY Symmetry
CHECK_DEADLOCK FALSE
INVARIANTS
    TypeOK
    ClaimsAreABijection
    BindingsOwnAProcess
    GraceIsForTheHolder
    PendingPeerKeepsSlotEmpty
    NoGameEscapesTheTable
PROPERTIES
    ConnectedBrowserKeepsItsGame
    RunGameOutlivesItsBrowser
    ReservationEndsWithItsEviction
