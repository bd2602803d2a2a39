\* Two stays on one monitor, with and without webhooks, and one launch
\* elsewhere: enough for every pair of goroutines that meet on a channel.
\* Groups of 1 and 3 stand for the code's 1 and 5; the pool is short when two
\* groups of 3 and one more are out.
\* The program really stops: a monitor ends, and a panic ends everything.
SPECIFICATION FairSpec
CONSTANTS
    MaxStays = 2
    Others = {o1}
    NumProxies = 7
    PerCopy = 3
    PerSign = 1
INVARIANTS OneOwner Balanced CrashNeedsOvertaking
PROPERTIES PoolSpec ClientsArrive EndIsObeyed
CHECK_DEADLOCK FALSE
