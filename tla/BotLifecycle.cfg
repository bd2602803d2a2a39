SPECIFICATION Spec
CONSTANTS
    b1 = b1
    b2 = b2
    t1 = t1
    Bots = {b1, b2}
    Traders = {t1}
    TraderOf <- MCTraderOf
    MaxRequests = 3
    Balances = {1, 2}
    MaxCTBalance = 3
SYMMETRY Symmetry
INVARIANTS EndedIsUnregistered OnlyJoinersStranded
PROPERTIES LedgerSpec
CHECK_DEADLOCK FALSE
