\* Two monitors, registered at the start or later, and three bots, so that one
\* can stay, one join and one leave in the same round.
\* A panic or a fault of the runtime ends the program.
SPECIFICATION RoundsSpec
CONSTANTS
    Bots = {b1, b2, b3}
    Monitors = {m1, m2}
    MaxMoves = 2
INVARIANTS
    CounterMatches
PROPERTY BotsAreChecked
CHECK_DEADLOCK FALSE
