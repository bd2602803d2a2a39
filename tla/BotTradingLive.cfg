\* One symbol: opened, changed and closed, and traded by hand once.
\* A fatal error of the runtime ends the program.
SPECIFICATION FairSpec
CONSTANTS
    Symbols = {a}
    MaxQty = 2
    MaxOpenPositions = 1
    MaxUpdates = 3
    MaxManual = 1
PROPERTIES SoldIsNoticed DispatchEnds
CHECK_DEADLOCK FALSE
