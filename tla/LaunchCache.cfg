\* Four starts of one trader, so that one can launch, one wait, one come after the
\* launch and one while its outcome is told. Starts end, and may wait for ever.
SPECIFICATION FairLaunchSpec
CONSTANTS
    c1 = c1
    c2 = c2
    c3 = c3
    c4 = c4
    t1 = t1
    NoCall = NoCall
    Calls <- MCCalls
    Traders = {t1}
    TraderOf <- MCTraderOf
INVARIANTS OneHeir BroadcastMeets
PROPERTIES BroadcastIsStable NobodyAbandoned WaitersAreAnswered
CHECK_DEADLOCK FALSE
