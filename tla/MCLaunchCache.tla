--------------------------- MODULE MCLaunchCache ---------------------------
(* Four concurrent starts, all of one trader: starts of different traders  *)
(* share only uidsMtx and the maps, never an entry.                        *)
EXTENDS LaunchCache
CONSTANTS c1, c2, c3, c4, t1
MCCalls == {c1, c2, c3, c4}
MCThree == {c1, c2, c3}
MCTraderOf == [c \in Calls |-> t1]
=============================================================================
