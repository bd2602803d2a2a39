---------------------------- MODULE CheckRounds ----------------------------
(***************************************************************************)
(* The rounds of the manual checker (startManualCheckingBots, handler.go), *)
(* beside starts and stops that change the maps they range over. A round   *)
(* ranges over the handler's monitors and their bots without a lock, adds  *)
(* the length of each map of bots to a WaitGroup of its own before it      *)
(* starts a goroutine for each bot, and waits for them. BotTrading has     *)
(* what a goroutine does with the positions; here it is done some time, or *)
(* takes its bot off the monitor because its keys are refused.             *)
(***************************************************************************)
EXTENDS Integers, Totals

CONSTANTS
    Bots, Monitors,     \* bot objects, Monitor objects
    MaxMoves            \* bound: changes of the maps by starts and stops

ASSUME ObjectsAssumption == IsFiniteSet(Bots) /\ Monitors # {} /\ MaxMoves \in Nat

VARIABLES
    reg,            \* handler.runningMons
    on,             \* Monitor.bots
    rpc,            \* where the round is
    mons0, mons,    \* the monitors when the range began, those it has reached
    cur,            \* the monitor whose bots are counted or ranged over
    bots0, seen,    \* its bots when that range began, those it has reached
    wg,             \* the WaitGroup's counter
    checking,       \* the goroutines of this round that are not done
    overdue,        \* how many of earlier rounds are not, their counter being 0
    dead,           \* why the program has ended
    used,           \* monitors that were registered
    moves,
    came, went      \* history: a bot came to, or left, cur after it was counted

mapVars == <<reg, on, used>>
rangeVars == <<mons0, mons, cur, bots0, seen>>
groupVars == <<wg, checking, overdue>>
windowVars == <<came, went>>
roundVars == <<mapVars, rpc, rangeVars, groupVars, dead, moves, windowVars>>

RoundsTypeOK ==
    /\ reg \subseteq used /\ used \subseteq Monitors
    /\ on \in [Monitors -> SUBSET Bots]
    /\ rpc \in {"begin", "mons", "counted", "bots", "wait"}
    /\ mons0 \subseteq Monitors /\ mons \subseteq Monitors /\ cur \in Monitors
    /\ bots0 \subseteq Bots /\ seen \subseteq Bots
    /\ wg \in Nat /\ checking \in [Bots -> Nat] /\ overdue \in Nat
    /\ dead \in {"no", "counter", "map"}
    /\ moves \in 0 .. MaxMoves
    /\ came \in BOOLEAN /\ went \in BOOLEAN

(* main starts the rounds after the startup has registered its monitors.   *)
RoundsInit ==
    /\ reg \in SUBSET Monitors /\ used = reg
    /\ on \in [Monitors -> SUBSET Bots]
    /\ \A m \in Monitors \ reg : on[m] = {}
    /\ \A m, n \in Monitors : m # n => on[m] \cap on[n] = {}
    /\ rpc = "begin"
    /\ mons0 = {} /\ mons = {} /\ bots0 = {} /\ seen = {}
    /\ cur = CHOOSE m \in Monitors : TRUE
    /\ wg = 0 /\ checking = [b \in Bots |-> 0] /\ overdue = 0
    /\ dead = "no" /\ moves = 0
    /\ came = FALSE /\ went = FALSE

Alive == dead = "no"
Ranging(m) == rpc \in {"counted", "bots"} /\ cur = m
OnNone(b) == \A m \in Monitors : b \notin on[m]
Running == Total(checking, Bots)

-----------------------------------------------------------------------------
(* A start adds its bot to a monitor, or registers one that has it.        *)
Join(m, b) ==
    /\ Alive /\ moves < MaxMoves /\ OnNone(b)
    /\ m \in reg \/ m \notin used
    /\ on' = [on EXCEPT ![m] = @ \cup {b}]
    /\ reg' = reg \cup {m} /\ used' = used \cup {m}
    /\ moves' = moves + 1
    /\ came' = (came \/ Ranging(m))
    /\ UNCHANGED <<rpc, rangeVars, groupVars, dead, went>>

(* A bot that leaves is not reached any more; it may come back.            *)
Removed(m, b) ==
    /\ on' = [on EXCEPT ![m] = @ \ {b}]
    /\ bots0' = IF Ranging(m) THEN bots0 \ {b} ELSE bots0
    /\ seen' = IF Ranging(m) THEN seen \ {b} ELSE seen
    /\ went' = (went \/ Ranging(m))
    /\ UNCHANGED <<reg, used, rpc, mons0, mons, cur, overdue, dead, came>>

Leave(m, b) ==
    /\ Alive /\ moves < MaxMoves /\ b \in on[m]
    /\ moves' = moves + 1
    /\ Removed(m, b)
    /\ UNCHANGED <<wg, checking>>

(* The stop of a last bot unregisters the monitor.                         *)
RemoveMonitor(m) ==
    /\ Alive /\ moves < MaxMoves /\ m \in reg /\ on[m] = {}
    /\ reg' = reg \ {m}
    /\ moves' = moves + 1
    /\ UNCHANGED <<on, used, rpc, rangeVars, groupVars, dead, windowVars>>

(* A map that is written while it is ranged over: the runtime may notice   *)
(* it, and ends the program.                                               *)
MapFault ==
    /\ Alive /\ moves < MaxMoves
    /\ rpc \in {"mons", "counted", "bots"}
    /\ dead' = "map"
    /\ UNCHANGED <<mapVars, rpc, rangeVars, groupVars, moves, windowVars>>

-----------------------------------------------------------------------------
BeginRound ==
    /\ Alive /\ rpc = "begin"
    /\ rpc' = "mons" /\ mons0' = reg /\ mons' = {}
    /\ UNCHANGED <<mapVars, cur, bots0, seen, groupVars, dead, moves, windowVars>>

(* A range reaches what was there when it began, unless it has gone since, *)
(* and what has come since or not. The bots of a monitor are counted ...   *)
NextMonitor(m) ==
    /\ Alive /\ rpc = "mons" /\ m \in reg \ mons
    /\ mons' = mons \cup {m} /\ cur' = m
    /\ wg' = wg + Cardinality(on[m])
    /\ rpc' = "counted"
    /\ UNCHANGED <<mapVars, mons0, bots0, seen, checking, overdue, dead, moves, windowVars>>

(* ... and then ranged over.                                               *)
BeginBots ==
    /\ Alive /\ rpc = "counted"
    /\ bots0' = on[cur] /\ seen' = {}
    /\ rpc' = "bots"
    /\ UNCHANGED <<mapVars, mons0, mons, cur, groupVars, dead, moves, windowVars>>

(* Mutant: a bot that is still being checked gets no goroutine.            *)
NextBot_SkipsBusy(b) ==
    /\ Alive /\ rpc = "bots" /\ b \in on[cur] \ seen
    /\ seen' = seen \cup {b}
    /\ checking' = IF Running = 0 THEN [checking EXCEPT ![b] = @ + 1] ELSE checking
    /\ UNCHANGED <<mapVars, rpc, mons0, mons, cur, bots0, wg, overdue, dead, moves, windowVars>>

NextBot(b) ==
    /\ Alive /\ rpc = "bots" /\ b \in on[cur] \ seen
    /\ seen' = seen \cup {b}
    /\ checking' = [checking EXCEPT ![b] = @ + 1]
    /\ UNCHANGED <<mapVars, rpc, mons0, mons, cur, bots0, wg, overdue, dead, moves, windowVars>>

EndRange ==
    /\ Alive
    /\ \/ rpc = "bots" /\ bots0 \subseteq seen /\ rpc' = "mons"
       \/ rpc = "mons" /\ mons0 \cap reg \subseteq mons /\ rpc' = "wait"
    /\ UNCHANGED <<mapVars, rangeVars, groupVars, dead, moves, windowVars>>

(* wg.Wait returns; a pause of 10 seconds follows.                         *)
EndRound ==
    /\ Alive /\ rpc = "wait" /\ wg = 0
    /\ rpc' = "begin"
    /\ overdue' = overdue + Running /\ checking' = [b \in Bots |-> 0]
    /\ UNCHANGED <<mapVars, rangeVars, wg, dead, moves, windowVars>>

-----------------------------------------------------------------------------
(* Mutant: a check that finds the keys refused returns without Done.       *)
CheckDone_NotWhenInvalid(b) ==
    /\ Alive /\ checking[b] > 0 /\ wg > 0
    /\ checking' = [checking EXCEPT ![b] = @ - 1]
    /\ \/ wg' = wg - 1 /\ UNCHANGED <<mapVars, rpc, rangeVars, overdue, dead, windowVars>>
       \/ wg' = wg /\ \E m \in reg : b \in on[m] /\ Removed(m, b)
    /\ UNCHANGED moves

(* checkManualChanges returns, or panics and recovers; before that it may  *)
(* have found the keys refused and the bot on a registered monitor.        *)
CheckDone(b) ==
    /\ Alive /\ checking[b] > 0 /\ wg > 0
    /\ wg' = wg - 1 /\ checking' = [checking EXCEPT ![b] = @ - 1]
    /\ \/ UNCHANGED <<mapVars, rpc, rangeVars, overdue, dead, windowVars>>
       \/ \E m \in reg : b \in on[m] /\ Removed(m, b)
    /\ UNCHANGED moves

(* A counter that becomes negative panics where nothing recovers.          *)
DonePanics ==
    /\ Alive
    /\ (Running > 0 /\ wg = 0) \/ overdue > 0
    /\ dead' = "counter"
    /\ UNCHANGED <<mapVars, rpc, rangeVars, groupVars, moves, windowVars>>

Rounds ==
    \/ BeginRound \/ (\E m \in Monitors : NextMonitor(m)) \/ BeginBots
    \/ (\E b \in Bots : NextBot(b)) \/ EndRange \/ EndRound

Done == (\E b \in Bots : CheckDone(b)) \/ DonePanics

Moves ==
    \/ \E m \in Monitors : RemoveMonitor(m) \/ \E b \in Bots : Join(m, b) \/ Leave(m, b)
    \/ MapFault

RoundsNext == Rounds \/ Done \/ Moves

(* The checker's goroutines go on, and every check ends: its request to    *)
(* the exchange and its statements have timeouts.                          *)
RoundsSpec == RoundsInit /\ [][RoundsNext]_roundVars /\ WF_roundVars(Rounds) /\ WF_roundVars(Done)

-----------------------------------------------------------------------------
(* When a round waits (handler.go:76), the counter is what the goroutines  *)
(* that run will take off it: one for every bot that was there, none       *)
(* twice; it is less only if bots joined, more only if bots left. It       *)
(* becomes negative, which ends the program, only if a bot was added to a  *)
(* monitor between its len and the end of its range (handler.go:60-70), in *)
(* this round or an earlier one.                                           *)
CounterMatches ==
    /\ Alive /\ rpc = "wait" =>
        /\ Running > wg => came
        /\ Running < wg => went
    /\ dead = "counter" => came

(* Round follows round: a bot on a registered monitor is checked in the    *)
(* end, unless it leaves or the program ends; or unless a bot left in the  *)
(* window of handler.go:60-70, after which wg.Wait may never return.       *)
BotsAreChecked ==
    \A b \in Bots :
        (\E m \in reg : b \in on[m]) ~>
            checking[b] > 0 \/ (\A m \in reg : b \notin on[m]) \/ ~ Alive \/ went
=============================================================================
