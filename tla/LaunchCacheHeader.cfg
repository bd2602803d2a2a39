SPECIFICATION LaunchSpec
CONSTANTS
    c1 = c1
    c2 = c2
    c3 = c3
    c4 = c4
    t1 = t1
    NoCall = NoCall
    Calls <- MCThree
    Traders = {t1}
    TraderOf <- MCTraderOf
INVARIANT OneLaunchAtATime
CHECK_DEADLOCK FALSE
