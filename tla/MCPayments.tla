---------------------------- MODULE MCPayments ----------------------------
(* Two users and two transactions. Both users name the first, one for a    *)
(* first payment, the other to renew. The first user names the second, for *)
(* a first payment too, after a wipe or beside it.                         *)
EXTENDS Payments
CONSTANTS u1, u2, t1, t2, r1, r2, r3
MCUserOf == [r \in Reqs |-> IF r = r2 THEN u2 ELSE u1]
MCTxOf == [r \in Reqs |-> IF r = r3 THEN t2 ELSE t1]
=============================================================================
