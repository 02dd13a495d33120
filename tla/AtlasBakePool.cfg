CONSTANTS
    card = card
    sheet = sheet
    icons = icons
    relics = relics
    MaxWorkers = 2
    Pages = {card, icons}
    Size <- SizeOf
    PerPage <- JobsOf
    Budget = 6
    KeepBytes = 2
    HoldSlot = FALSE
    BigBytes = 3
    AmortizeQueueRegions = 70
    PostMayThrow = TRUE
SPECIFICATION FairSpec
INVARIANTS
    TypeOK
    PoolKnowsTheWorkers
PROPERTIES
    JobsAreAnswered
    GivenBack
