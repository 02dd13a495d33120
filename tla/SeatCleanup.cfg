CONSTANTS
    s1 = s1
    s2 = s2
    Slots = {2}
    Sessions = {s1, s2}
    MaxGenerations = 2
SPECIFICATION FairSpec
CHECK_DEADLOCK FALSE
INVARIANTS
    TypeOK
    AttemptsAreCurrent
    CleanupHasACause
    JoinedGameIsWatched
PROPERTIES
    OwnershipIsKept
    CleanupEndsSafely
    JoinsAreAnswered
