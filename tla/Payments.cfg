\* Requests that meet in a transaction (r1, r2) and in a user (r1, r3), one of
\* them a renewal; two rounds of wiping, so that one may overtake the other;
\* four connections, which two wipes and two first payments empty; one restart.
\* The model stops when everything has ended, or the pool is empty for good.
SPECIFICATION Spec
CONSTANTS
    u1 = u1 u2 = u2 t1 = t1 t2 = t2 r1 = r1 r2 = r2 r3 = r3
    Users = {u1, u2}
    Txs = {t1, t2}
    Reqs = {r1, r2, r3}
    UserOf <- MCUserOf
    TxOf <- MCTxOf
    Renewals = {r2}
    Instances = 2
    MaxConns = 4
    MaxMonths = 2
    MaxRounds = 2
    MaxRestarts = 1
    NoUser = NoUser
    NoReq = NoReq
INVARIANTS   SuccessIsBacked  SomeoneGoesOn GoingOnIsPossible
CHECK_DEADLOCK FALSE
