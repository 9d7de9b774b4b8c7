CONSTANTS
    fox = fox
    hen = hen
    Minded = {fox, hen}
    Habits <- FoxAndHen
    MindShard <- TwoShards
    Gap = 2
    Pause = 1
    OldAge = 2
    FlightTicks = 1
    Flights = 1
SPECIFICATION MindsSpec
CHECK_DEADLOCK FALSE
INVARIANT
    NoDoubleBorrow
