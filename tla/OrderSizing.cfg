\* Up to four orders for a call, and positions that several orders built.
SPECIFICATION Spec
CONSTANTS
    Symbols <- MCSymbols
    MaxQty = 12
INVARIANTS
    OrdersLegal
    OrderedInFull
    LeftBehind
    PanicNeedsDust
CHECK_DEADLOCK FALSE
