CONSTANTS
    Seats = {"Ann", "Bob"}
    MaxDrops = 2
    MaxPicks = 2
SPECIFICATION LiveSpec
INVARIANTS
    NeverStranded
    HeldSeatIsTheOneAskedFor
    NoRequestStorm
PROPERTIES
    NoJoinWithoutALostSocket
    SeatComesBack
