----------------------------- MODULE MCStartup -----------------------------
(* Two bots of one trader; that trader, or another, has signals.           *)
EXTENDS Startup, TLC
CONSTANTS b1, b2, t1, t2, u1, u2
MCTraderOf == [b \in Bots |-> t1]
MCSignalTables == {t1 :> {u1} @@ t2 :> {}, t1 :> {} @@ t2 :> {u1, u2}}
MCBalances == {1, 2}
MCPoolSizes == {3, 4}
=============================================================================
