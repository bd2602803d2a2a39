\* Two symbols, held or not by the trader and the user when the bot is launched;
\* the bot may open one more if it holds none. Quantities 1 and 2 allow both
\* increases and decreases. A fatal error of the runtime ends the program.
SPECIFICATION Spec
CONSTANTS
    Symbols = {a, b}
    MaxQty = 2
    MaxOpenPositions = 1
    MaxUpdates = 2
    MaxManual = 1
INVARIANT InSync
PROPERTIES WithinMaxPositions
CHECK_DEADLOCK FALSE
