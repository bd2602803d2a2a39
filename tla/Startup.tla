------------------------------ MODULE Startup ------------------------------
(***************************************************************************)
(* What a restart makes of the database (main.go:126-137, launch.go): bots *)
(* that were starting or stopping are reset, and for every trader of an    *)
(* active bot or of a signal a goroutine makes a monitor with its bots,    *)
(* which the main goroutine collects, gives more proxies and registers.    *)
(* Beside it, once the program serves, starts and stops in the steps that  *)
(* a crash can separate; BotLifecycle has all of their steps, MonitorLoop  *)
(* the clients. Proxies are counted. createClients does not fail: every    *)
(* proxy has been parsed before (launch.go:114).                           *)
(***************************************************************************)
EXTENDS Integers, Totals

CONSTANTS
    Bots, Traders,
    TraderOf,           \* bot -> trader (binance_id)
    SignalTables,       \* the tables of signals: trader -> users with a webhook
    Balances,           \* what makeBot can find on an exchange account
    MaxCTBalance,       \* of the plan of the one user of all bots
    PoolSizes,          \* the lengths the proxy file can have
    ProxPerCopy, ProxPerSign,
    MaxRequests, MaxCrashes     \* bounds

ASSUME FiniteAssumption == IsFiniteSet(Bots) /\ IsFiniteSet(Traders)
ASSUME TraderAssumption == TraderOf \in [Bots -> Traders]
ASSUME BalanceAssumption == Balances \subseteq Nat \ {0} /\ MaxCTBalance \in Nat
ASSUME ProxyAssumption ==
    /\ PoolSizes \subseteq Nat /\ ProxPerCopy \in Nat /\ ProxPerSign \in Nat
    /\ ProxPerSign < ProxPerCopy

VARIABLES
    signals,        \* table signals
    numProxies,     \* the length of the proxy file
    status,         \* copytrading.bot_status
    remaining,      \* users.remaining_cpyt_bal
    phase,          \* the program: "down", "launching" or "up"
    avail,          \* len(proxies.Available)
    reg,            \* handler.runningMons: the traders that have a monitor
    on,             \* Monitor.bots of the trader's monitor
    hooks,          \* Monitor.webhooks
    own,            \* len(Monitor.proxies)
    extra,          \* clients of the monitor beyond those, or fewer
    launch,         \* where the goroutine of a trader is
    pending,        \* launchMultipleBots: bots whose result is awaited
    bal,            \* InitialBalance of the bot object
    op, last,       \* a bot's start or stop; its stop took the last bot off
    requests, crashes,
    taken,          \* history: what was taken from the balance for a bot
    missing,        \* history: active bots that are on no monitor
    stuck,          \* history: bots a crash cut off, or that went missing
    revalued,       \* history: bots launched again with another balance
    ended,          \* history: a monitor of the startup has ended
    short           \* history: the proxies did not suffice for a launch

dbVars == <<status, remaining>>
monVars == <<avail, reg, on, hooks, own, extra>>
launchVars == <<launch, pending>>
requestVars == <<op, last, requests>>
historyVars == <<taken, missing, stuck, revalued, ended, short>>
world == <<signals, numProxies>>
vars == <<world, dbVars, phase, monVars, launchVars, bal, requestVars, crashes, historyVars>>

(* The balance is taken, the status is neither active nor settled.         *)
Holding == {"taken", "placed", "first", "stopping", "removed", "return"}
Statuses == {"inactive", "starting", "active", "stopping"}

TypeOK ==
    /\ signals \in SignalTables /\ numProxies \in PoolSizes
    /\ status \in [Bots -> Statuses] /\ remaining \in Int
    /\ phase \in {"down", "launching", "up"}
    /\ avail \in 0 .. numProxies
    /\ reg \subseteq Traders
    /\ on \in [Traders -> SUBSET Bots] /\ pending \in [Traders -> SUBSET Bots]
    /\ \A t \in Traders : hooks[t] \subseteq signals[t]
    /\ own \in [Traders -> Nat] /\ extra \in [Traders -> Int]
    /\ \A t \in Traders : own[t] + extra[t] \in Nat
    /\ launch \in [Traders -> {"none", "proxies", "create", "bots"}]
    /\ bal \in [Bots -> Balances \cup {0}]
    /\ op \in [Bots -> {"none", "starting", "taken", "failing", "placed",
                        "first", "stopping", "removed", "gone", "return", "end"}]
    /\ last \subseteq Bots
    /\ requests \in Nat /\ crashes \in Nat
    /\ taken \in [Bots -> Int]
    /\ missing \subseteq Bots /\ stuck \subseteq Bots /\ revalued \subseteq Bots
    /\ ended \in BOOLEAN /\ short \in BOOLEAN

(* A program that is not running, with some bots active in the database.   *)
Init ==
    /\ signals \in SignalTables /\ numProxies \in PoolSizes
    /\ \E active \in SUBSET Bots : \E b0 \in Balances :
          /\ status = [b \in Bots |-> IF b \in active THEN "active" ELSE "inactive"]
          /\ taken = [b \in Bots |-> IF b \in active THEN b0 ELSE 0]
          /\ remaining = MaxCTBalance - b0 * Cardinality(active)
          /\ remaining >= 0
    /\ phase = "down"
    /\ avail = numProxies /\ reg = {}
    /\ on = [t \in Traders |-> {}] /\ hooks = [t \in Traders |-> {}]
    /\ own = [t \in Traders |-> 0] /\ extra = [t \in Traders |-> 0]
    /\ launch = [t \in Traders |-> "none"]
    /\ pending = [t \in Traders |-> {}]
    /\ bal = [b \in Bots |-> 0]
    /\ op = [b \in Bots |-> "none"] /\ last = {}
    /\ requests = 0 /\ crashes = 0
    /\ missing = {} /\ stuck = {} /\ revalued = {}
    /\ ended = FALSE /\ short = FALSE

(* The process ends: what was in memory is gone.                           *)
Die ==
    /\ phase' = "down" /\ crashes' = crashes + 1
    /\ avail' = numProxies /\ reg' = {}
    /\ on' = [t \in Traders |-> {}] /\ hooks' = [t \in Traders |-> {}]
    /\ own' = [t \in Traders |-> 0] /\ extra' = [t \in Traders |-> 0]
    /\ launch' = [t \in Traders |-> "none"]
    /\ pending' = [t \in Traders |-> {}]
    /\ bal' = [b \in Bots |-> 0]
    /\ op' = [b \in Bots |-> "none"] /\ last' = {}
    /\ stuck' = stuck \cup {b \in Bots : op[b] \in Holding}
    /\ missing' = {} /\ ended' = FALSE
    /\ UNCHANGED <<world, dbVars, requests, taken, revalued>>

Crash ==
    /\ phase # "down" /\ crashes < MaxCrashes
    /\ Die
    /\ UNCHANGED short

-----------------------------------------------------------------------------
(* ResetStartingOrStoppingToInactive, then findStartupMonitors.            *)
Boot ==
    LET kept == {b \in Bots : status[b] = "active"}
        of(t) == {b \in kept : TraderOf[b] = t}
    IN  /\ phase = "down" /\ crashes < MaxCrashes
        /\ phase' = "launching"
        /\ status' = [b \in Bots |-> IF b \in kept THEN "active" ELSE "inactive"]
        /\ pending' = [t \in Traders |-> of(t)]
        /\ launch' = [t \in Traders |->
                         IF of(t) # {} \/ signals[t] # {} THEN "proxies" ELSE "none"]
        /\ short' = FALSE
        /\ UNCHANGED <<world, remaining, monVars, bal, requestVars, crashes, taken, missing, stuck, revalued, ended>>

(* Mutant: every goroutine takes the share of a monitor with bots.         *)
TakeProxies_PerCopy(t) ==
    /\ launch[t] = "proxies"
    /\ IF avail < ProxPerCopy
       THEN Die /\ short' = TRUE
       ELSE /\ avail' = avail - ProxPerCopy
            /\ own' = [own EXCEPT ![t] = ProxPerCopy]
            /\ launch' = [launch EXCEPT ![t] = "create"]
            /\ UNCHANGED <<world, dbVars, phase, reg, on, hooks, extra, pending, bal, requestVars, crashes, historyVars>>

(* The goroutine of a trader takes proxies, or log.Fatalf ends the program.*)
TakeProxies(t) ==
    /\ launch[t] = "proxies"
    /\ IF avail < ProxPerSign
       THEN Die /\ short' = TRUE
       ELSE /\ avail' = avail - ProxPerSign
            /\ own' = [own EXCEPT ![t] = ProxPerSign]
            /\ launch' = [launch EXCEPT ![t] = "create"]
            /\ UNCHANGED <<world, dbVars, phase, reg, on, hooks, extra, pending, bal, requestVars, crashes, historyVars>>

(* newMonitor, which may fail (Crash), and the webhooks: of the signals of *)
(* a trader, each but the first read replaces those before it, one stays.  *)
CreateMonitor(t) ==
    /\ launch[t] = "create"
    /\ hooks' \in {[hooks EXCEPT ![t] = h] : h \in
                      IF signals[t] = {} THEN {{}} ELSE {{u} : u \in signals[t]}}
    /\ launch' = [launch EXCEPT ![t] = "bots"]
    /\ UNCHANGED <<world, dbVars, phase, avail, reg, on, own, extra, pending, bal, requestVars, crashes, historyVars>>

(* A result of launchMultipleBots: a bot with the balance its account has  *)
(* now, or none, when the keys are refused. A server error, or positions   *)
(* that cannot be read (a nil bot is used at 359), ends the program: Crash.*)
MakeBot(t, b) ==
    /\ launch[t] = "bots" /\ b \in pending[t]
    /\ pending' = [pending EXCEPT ![t] = @ \ {b}]
    /\ \/ \E n \in Balances :
             /\ on' = [on EXCEPT ![t] = @ \cup {b}]
             /\ bal' = [bal EXCEPT ![b] = n]
             /\ revalued' = IF n = taken[b] THEN revalued ELSE revalued \cup {b}
             /\ UNCHANGED <<missing, stuck>>
       \/ /\ missing' = missing \cup {b} /\ stuck' = stuck \cup {b}
          /\ UNCHANGED <<on, bal, revalued>>
    /\ UNCHANGED <<world, dbVars, phase, avail, reg, hooks, own, extra, launch, requestVars, crashes, taken, ended, short>>

(* Mutant: a monitor without webhooks is dropped.                         *)
Collect_OnlySignals(t) ==
    LET more == IF on[t] # {} /\ avail >= ProxPerCopy - ProxPerSign
                THEN ProxPerCopy - ProxPerSign ELSE 0
        serves == hooks[t] # {}
    IN  /\ launch[t] = "bots" /\ pending[t] = {}
        /\ launch' = [launch EXCEPT ![t] = "none"]
        /\ extra' = [extra EXCEPT ![t] = more]
        /\ IF serves
           THEN reg' = reg \cup {t} /\ avail' = avail - more /\ UNCHANGED own
           ELSE avail' = avail + own[t] /\ own' = [own EXCEPT ![t] = 0] /\ UNCHANGED reg
        /\ UNCHANGED <<world, dbVars, phase, on, hooks, pending, bal, requestVars, crashes, historyVars>>

(* Mutant: the group of a dropped monitor is not returned.                *)
Collect_KeepsGroup(t) ==
    LET more == IF on[t] # {} /\ avail >= ProxPerCopy - ProxPerSign
                THEN ProxPerCopy - ProxPerSign ELSE 0
        serves == on[t] # {} \/ hooks[t] # {}
    IN  /\ launch[t] = "bots" /\ pending[t] = {}
        /\ launch' = [launch EXCEPT ![t] = "none"]
        /\ extra' = [extra EXCEPT ![t] = more]
        /\ IF serves
           THEN reg' = reg \cup {t} /\ avail' = avail - more /\ UNCHANGED own
           ELSE avail' = avail /\ own' = [own EXCEPT ![t] = 0] /\ UNCHANGED reg
        /\ UNCHANGED <<world, dbVars, phase, on, hooks, pending, bal, requestVars, crashes, historyVars>>

(* Mutant: a monitor nobody joins is never sent.                          *)
Collect_AwaitsBots(t) ==
    LET more == IF on[t] # {} /\ avail >= ProxPerCopy - ProxPerSign
                THEN ProxPerCopy - ProxPerSign ELSE 0
        serves == on[t] # {} \/ hooks[t] # {}
    IN  /\ launch[t] = "bots" /\ pending[t] = {} /\ on[t] # {}
        /\ launch' = [launch EXCEPT ![t] = "none"]
        /\ extra' = [extra EXCEPT ![t] = more]
        /\ IF serves
           THEN reg' = reg \cup {t} /\ avail' = avail - more /\ UNCHANGED own
           ELSE avail' = avail + own[t] /\ own' = [own EXCEPT ![t] = 0] /\ UNCHANGED reg
        /\ UNCHANGED <<world, dbVars, phase, on, hooks, pending, bal, requestVars, crashes, historyVars>>

(* The main goroutine receives the monitor: with bots it gets more proxies *)
(* if there are enough, with nobody to serve it is dropped.                *)
Collect(t) ==
    LET more == IF on[t] # {} /\ avail >= ProxPerCopy - ProxPerSign
                THEN ProxPerCopy - ProxPerSign ELSE 0
        serves == on[t] # {} \/ hooks[t] # {}
    IN  /\ launch[t] = "bots" /\ pending[t] = {}
        /\ launch' = [launch EXCEPT ![t] = "none"]
        /\ extra' = [extra EXCEPT ![t] = more]
        /\ IF serves
           THEN reg' = reg \cup {t} /\ avail' = avail - more /\ UNCHANGED own
           ELSE avail' = avail + own[t] /\ own' = [own EXCEPT ![t] = 0] /\ UNCHANGED reg
        /\ UNCHANGED <<world, dbVars, phase, on, hooks, pending, bal, requestVars, crashes, historyVars>>

Serve ==
    /\ phase = "launching" /\ \A t \in Traders : launch[t] = "none"
    /\ phase' = "up"
    /\ UNCHANGED <<world, dbVars, monVars, launchVars, bal, requestVars, crashes, historyVars>>

-----------------------------------------------------------------------------
(* A start, one step for each statement of SQL or update of a monitor.     *)
SetStarting(b) ==
    /\ phase = "up" /\ requests < MaxRequests
    /\ op[b] = "none" /\ status[b] = "inactive"
    /\ status' = [status EXCEPT ![b] = "starting"]
    /\ op' = [op EXCEPT ![b] = "starting"]
    /\ requests' = requests + 1
    /\ UNCHANGED <<world, remaining, phase, monVars, launchVars, bal, last, crashes, historyVars>>

Reduce(b, n) ==
    /\ op[b] = "starting" /\ n <= remaining
    /\ remaining' = remaining - n
    /\ bal' = [bal EXCEPT ![b] = n]
    /\ taken' = [taken EXCEPT ![b] = @ + n]
    /\ op' = [op EXCEPT ![b] = "taken"]
    /\ UNCHANGED <<world, status, phase, monVars, launchVars, last, requests, crashes, missing, stuck, revalued, ended, short>>

(* A start that fails returns the balance, then resets the status.         *)
ReturnBalance(b) ==
    /\ op[b] = "taken"
    /\ remaining' = remaining + bal[b]
    /\ taken' = [taken EXCEPT ![b] = @ - bal[b]]
    /\ bal' = [bal EXCEPT ![b] = 0]
    /\ op' = [op EXCEPT ![b] = "failing"]
    /\ UNCHANGED <<world, status, phase, monVars, launchVars, last, requests, crashes, missing, stuck, revalued, ended, short>>

(* Mutant: a start that fails late does not return the balance.            *)
StartFails_KeepsBalance(b) ==
    /\ op[b] \in {"starting", "failing", "taken"}
    /\ status' = [status EXCEPT ![b] = "inactive"]
    /\ op' = [op EXCEPT ![b] = "none"]
    /\ UNCHANGED <<world, remaining, phase, monVars, launchVars, bal, last, requests, crashes, historyVars>>

StartFails(b) ==
    /\ op[b] \in {"starting", "failing"}
    /\ status' = [status EXCEPT ![b] = "inactive"]
    /\ op' = [op EXCEPT ![b] = "none"]
    /\ UNCHANGED <<world, remaining, phase, monVars, launchVars, bal, last, requests, crashes, historyVars>>

(* The bot joins its trader's monitor, or one that is made for it.         *)
Join(b) ==
    LET t == TraderOf[b]
    IN  /\ op[b] = "taken"
        /\ on' = [on EXCEPT ![t] = @ \cup {b}]
        /\ op' = [op EXCEPT ![b] = IF t \in reg /\ on[t] = {} THEN "first" ELSE "placed"]
        /\ IF t \in reg
           THEN UNCHANGED <<reg, avail, own>>
           ELSE /\ avail >= ProxPerCopy
                /\ avail' = avail - ProxPerCopy
                /\ own' = [own EXCEPT ![t] = ProxPerCopy]
                /\ reg' = reg \cup {t}
        /\ UNCHANGED <<world, dbVars, phase, hooks, extra, launchVars, bal, last, requests, crashes, historyVars>>

(* postBotLaunch: the first bot of a monitor that was there brings proxies.*)
PostBotLaunch(b) ==
    LET t == TraderOf[b]
        more == IF op[b] = "first" /\ t \in reg /\ avail >= ProxPerCopy - ProxPerSign
                THEN ProxPerCopy - ProxPerSign ELSE 0
    IN  /\ op[b] \in {"placed", "first"}
        /\ status' = [status EXCEPT ![b] = "active"]
        /\ op' = [op EXCEPT ![b] = "none"]
        /\ avail' = avail - more
        /\ extra' = [extra EXCEPT ![t] = @ + more]
        /\ UNCHANGED <<world, remaining, phase, reg, on, hooks, own, launchVars, bal, last, requests, crashes, historyVars>>

-----------------------------------------------------------------------------
(* A stop; for a bot that is on no monitor it only resets the status.      *)
SetStopping(b) ==
    /\ phase = "up" /\ requests < MaxRequests
    /\ op[b] = "none" /\ status[b] = "active"
    /\ status' = [status EXCEPT ![b] = "stopping"]
    /\ op' = [op EXCEPT ![b] = "stopping"]
    /\ requests' = requests + 1
    /\ UNCHANGED <<world, remaining, phase, monVars, launchVars, bal, last, crashes, historyVars>>

RemoveBot(b) ==
    LET t == TraderOf[b]
    IN  /\ op[b] = "stopping"
        /\ IF b \in on[t]
           THEN /\ on' = [on EXCEPT ![t] = @ \ {b}]
                /\ last' = IF on[t] = {b} THEN last \cup {b} ELSE last
                /\ op' = [op EXCEPT ![b] = "removed"]
           ELSE op' = [op EXCEPT ![b] = "gone"] /\ UNCHANGED <<on, last>>
        /\ UNCHANGED <<world, dbVars, phase, avail, reg, hooks, own, extra, launchVars, bal, requests, crashes, historyVars>>

SetInactive(b) ==
    /\ op[b] \in {"removed", "gone"}
    /\ status' = [status EXCEPT ![b] = "inactive"]
    /\ op' = [op EXCEPT ![b] = IF @ = "removed" THEN "return" ELSE "none"]
    /\ missing' = missing \ {b}
    /\ UNCHANGED <<world, remaining, phase, monVars, launchVars, bal, last, requests, crashes, taken, stuck, revalued, ended, short>>

AddBackBalance(b) ==
    /\ op[b] = "return"
    /\ remaining' = remaining + bal[b]
    /\ taken' = [taken EXCEPT ![b] = @ - bal[b]]
    /\ bal' = [bal EXCEPT ![b] = 0]
    /\ op' = [op EXCEPT ![b] = IF b \in last THEN "end" ELSE "none"]
    /\ last' = last \ {b}
    /\ UNCHANGED <<world, status, phase, monVars, launchVars, requests, crashes, missing, stuck, revalued, ended, short>>

(* The last bot of a monitor without webhooks ends it, and the proxies it  *)
(* was created with return; those that the startup added are not among     *)
(* them. A bot that has joined meanwhile is on no monitor then.            *)
EndMonitor(b) ==
    LET t == TraderOf[b]
    IN  /\ op[b] = "end" /\ hooks[t] = {}
        /\ op' = [op EXCEPT ![b] = "none"]
        /\ reg' = reg \ {t}
        /\ avail' = avail + own[t]
        /\ own' = [own EXCEPT ![t] = 0] /\ extra' = [extra EXCEPT ![t] = 0]
        /\ on' = [on EXCEPT ![t] = {}]
        /\ missing' = missing \cup on[t] /\ stuck' = stuck \cup on[t]
        /\ ended' = (ended \/ extra[t] > 0)
        /\ UNCHANGED <<world, dbVars, phase, hooks, launchVars, bal, last, requests, crashes, taken, revalued, short>>

(* With webhooks the monitor runs on and returns the clients its bots were *)
(* given, or, if they were given none, as many of its own; a loop that has *)
(* fewer panics.                                                           *)
RecoverClients(b) ==
    LET t == TraderOf[b]
        more == ProxPerCopy - ProxPerSign
    IN  /\ op[b] = "end" /\ hooks[t] # {}
        /\ IF own[t] + extra[t] < more
           THEN Die /\ UNCHANGED short
           ELSE /\ op' = [op EXCEPT ![b] = "none"]
                /\ avail' = avail + more
                /\ extra' = [extra EXCEPT ![t] = @ - more]
                /\ UNCHANGED <<world, dbVars, phase, reg, on, hooks, own, launchVars, bal, last, requests, crashes, historyVars>>

-----------------------------------------------------------------------------
Launching == \E t \in Traders :
    \/ TakeProxies(t) \/ CreateMonitor(t) \/ Collect(t)
    \/ \E b \in Bots : MakeBot(t, b)

Request(b) ==
    \/ SetStarting(b) \/ \E n \in Balances : Reduce(b, n)
    \/ ReturnBalance(b) \/ StartFails(b) \/ Join(b) \/ PostBotLaunch(b)
    \/ SetStopping(b) \/ RemoveBot(b) \/ SetInactive(b) \/ AddBackBalance(b)
    \/ EndMonitor(b) \/ RecoverClients(b)

Next == Crash \/ Boot \/ Launching \/ Serve \/ \E b \in Bots : Request(b)

Spec == Init /\ [][Next]_vars /\ WF_vars(Launching) /\ WF_vars(Serve)

-----------------------------------------------------------------------------
(* How many proxies the clients of all monitors have.                      *)
InUse == Total([t \in Traders |-> own[t] + extra[t]], Traders)

(* What a stop will give back is what was taken for the bot, and a bot     *)
(* that is settled holds nothing, restarts or not: unless a crash cut its  *)
(* start or stop off (main.go:127 resets it, launch.go:353 does not know   *)
(* of it), or it was launched again with what its account has by now.      *)
BalanceTracked ==
    phase = "up" => \A b \in Bots \ (stuck \cup revalued) :
        /\ op[b] = "none" /\ status[b] = "active" => bal[b] = taken[b]
        /\ op[b] = "none" /\ status[b] = "inactive" => taken[b] = 0

(* A settled bot is on the registered monitor of its trader if and only if *)
(* the database calls it active, unless it could not be launched again     *)
(* (launch.go:385) or was left behind by an ending monitor.                *)
ActiveRuns ==
    phase = "up" => \A b \in Bots \ missing :
        op[b] = "none" =>
            (status[b] = "active" <=> TraderOf[b] \in reg /\ b \in on[TraderOf[b]])

(* Proxies are neither lost nor used twice while the program runs, until a *)
(* monitor that was given more of them ends: what launch.go:283 adds to    *)
(* its clients is not in mon.proxies, which is all that stopBot returns.   *)
ProxiesAccounted ==
    phase # "down" /\ ~ended =>
        avail + InUse = numProxies

(* The traders with active bots, and those that only have signals.         *)
Copied == {TraderOf[b] : b \in {b \in Bots : status[b] = "active"}}
Signed == {t \in Traders \ Copied : signals[t] # {}}

(* A launch runs out of proxies (launch.go:239) only if there are too few  *)
(* for every monitor to have what it is to get in the end: the goroutines  *)
(* that take the first share race with main, which hands out the rest.     *)
ShortageIsReal ==
    short => numProxies < ProxPerCopy * Cardinality(Copied)
                              + ProxPerSign * Cardinality(Signed)

(* Every bot and monitor of a launch is accounted for by its collector, so *)
(* that the program serves at last, or has ended (launch.go:271, 372).     *)
LaunchEnds == phase = "launching" ~> phase \in {"up", "down"}
=============================================================================
