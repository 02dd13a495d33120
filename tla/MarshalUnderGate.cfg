CONSTANTS
    MaxCount = 1
    MaxPublications = 2
SPECIFICATION Spec
CHECK_DEADLOCK FALSE
INVARIANTS
    MarshalIsNotAwaitedByTheMainThread
