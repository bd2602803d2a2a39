CONSTANTS
    b1 = b1
    b2 = b2
    t1 = t1
    t2 = t2
    u1 = u1
    u2 = u2
    Bots = {b1, b2}
    Traders = {t1, t2}
    TraderOf <- MCTraderOf
    SignalTables <- MCSignalTables
    Balances <- MCBalances
    MaxCTBalance = 4
    PoolSizes <- MCPoolSizes
    ProxPerCopy = 3
    ProxPerSign = 1
    MaxRequests = 3
    MaxCrashes = 2
SPECIFICATION Spec
INVARIANTS
    
    
    
    ShortageIsReal
PROPERTY LaunchEnds
CHECK_DEADLOCK FALSE
