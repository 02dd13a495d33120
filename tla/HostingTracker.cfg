CONSTANTS
    MaxCount = 1
    MaxPublications = 3
SPECIFICATION FairSpec
CHECK_DEADLOCK FALSE
INVARIANTS
    TypeOK
    DemandSettles
    SupervisionFollowsDemand
    CountdownHasAReason
PROPERTIES
    HostingEndsAfterLeaving
