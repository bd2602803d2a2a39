--------------------------- MODULE MCBotLifecycle ---------------------------
(* Two bots that follow the same trader, three requests; a balance of 2    *)
(* fits the plan once and leaves too little for another, one of 1 fits     *)
(* beside it.                                                              *)
EXTENDS BotLifecycle, TLC
CONSTANTS b1, b2, t1
MCTraderOf == [b \in Bots |-> t1]
Symmetry == Permutations(Bots)
=============================================================================
