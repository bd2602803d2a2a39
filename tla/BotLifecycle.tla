---------------------------- MODULE BotLifecycle ----------------------------
(***************************************************************************)
(* The life of one user's bots: the start, stop and update-settings        *)
(* handlers (handlersUser.go) with startBot, postBotLaunch, stopBot,       *)
(* fixCopyTradingBalance and restartBotAfterSettingsChange (botStartup.go) *)
(* over the tables users and copytrading and the handler's monitors.       *)
(*                                                                         *)
(* Requests are numbered in the order in which they come. The bot object   *)
(* and the monitor a start creates are named by its request, and so is the *)
(* part of the user's balance it takes. A monitor carries no webhooks. The *)
(* launching cache is over-approximated: who finds no monitor may launch   *)
(* one at any later time, get the true of Wait, or never come back.        *)
(***************************************************************************)
EXTENDS Integers, FiniteSetsExt

CONSTANTS
    Bots,               \* the user's bots (copytrading rows)
    Traders,            \* the trader UIDs of their configs
    TraderOf,           \* bot -> trader UID (binance_id)
    MaxRequests,        \* bound: how many requests come
    Balances,           \* the balances an exchange account can have
    MaxCTBalance        \* the maximum of the user's plan

Requests == 1 .. MaxRequests
None == 0
Statuses == {"inactive", "starting", "active", "stopping"}

ASSUME RequestsAssumption == MaxRequests \in Nat
ASSUME TraderAssumption == TraderOf \in [Bots -> Traders]
ASSUME BalanceAssumption == Balances \subseteq Nat /\ MaxCTBalance \in Nat

VARIABLES
    botStatus,      \* copytrading.bot_status of each bot
    remaining,      \* users.remaining_cpyt_bal
    runningMons,    \* handler.runningMons: trader -> monitor
    bots,           \* Monitor.bots: monitor -> bot -> bot object
    ended,          \* the monitors that were sent mon.end
    pc, bot,        \* where each request is, and the bot it is for
    badUid,         \* the starts that are passed the exchange's name as UID
    mayFix,         \* startBot's doCorrectBal
    nested,         \* the start runs inside another startBot of its request
    bal,            \* bot.InitialBalance of the bot object
    mon,            \* the monitor a start or a stop works on
    obj,            \* the bot object a stop found
    last,           \* stopBot's botsRemaining = 0
    todo, total,    \* fixCopyTradingBalance: active bots left to add, their sum
    seen,           \* fixCopyTradingBalance: the remaining balance it read
    posts,          \* the starts whose postBotLaunch has not yet run
    failing         \* the bots that checkManualChanges is deactivating

dbVars == <<botStatus, remaining>>
handlerVars == <<runningMons, bots, ended>>
startVars == <<badUid, mayFix, nested, bal>>
stopVars == <<obj, last>>
fixVars == <<todo, total, seen>>
asyncVars == <<posts, failing>>
vars == <<dbVars, handlerVars, pc, bot, mon, startVars, stopVars, fixVars, asyncVars>>

(* A start takes the balance at "reduce" and answers for it in Reduced.    *)
Unreduced == {"readConfig", "setStarting", "makeBot", "reduce",
              "readBots", "readUser", "sum", "fix"}
Reduced == {"getMonitor", "Wait", "create", "differences", "addBot", "addBack"}
StartSync == Unreduced \cup Reduced \cup {"addMonitor", "rollback"}
StopSync == {"setStopping", "findMonitor", "getBot", "removeBot"}
StopAsync == {"setInactive", "giveBack", "removeMonitor", "end"}
Sync == StartSync \cup StopSync
Labels == Sync \cup StopAsync \cup {"idle", "afterStop", "done"}

TypeOK ==
    /\ botStatus \in [Bots -> Statuses]
    /\ remaining \in Int
    /\ runningMons \in [Traders -> Requests \cup {None}]
    /\ bots \in [Requests -> [Bots -> Requests \cup {None}]]
    /\ ended \subseteq Requests
    /\ pc \in [Requests -> Labels]
    /\ bot \in [Requests -> Bots]
    /\ badUid \subseteq Requests
    /\ mayFix \in [Requests -> BOOLEAN]
    /\ nested \in [Requests -> BOOLEAN]
    /\ bal \in [Requests -> Nat]
    /\ mon \in [Requests -> Requests \cup {None}]
    /\ obj \in [Requests -> Requests \cup {None}]
    /\ last \in [Requests -> BOOLEAN]
    /\ todo \in [Requests -> SUBSET Bots]
    /\ total \in [Requests -> Nat]
    /\ seen \in [Requests -> Int]
    /\ posts \subseteq Requests
    /\ failing \subseteq Bots

Init ==
    /\ botStatus = [b \in Bots |-> "inactive"]
    /\ remaining = MaxCTBalance
    /\ runningMons = [t \in Traders |-> None]
    /\ bots = [m \in Requests |-> [b \in Bots |-> None]]
    /\ ended = {}
    /\ pc = [r \in Requests |-> "idle"]
    /\ bot \in [Requests -> Bots]
    /\ badUid = {}
    /\ mayFix = [r \in Requests |-> FALSE]
    /\ nested = [r \in Requests |-> FALSE]
    /\ bal = [r \in Requests |-> 0]
    /\ mon = [r \in Requests |-> None]
    /\ obj = [r \in Requests |-> None]
    /\ last = [r \in Requests |-> FALSE]
    /\ todo = [r \in Requests |-> {}]
    /\ total = [r \in Requests |-> 0]
    /\ seen = [r \in Requests |-> 0]
    /\ posts = {}
    /\ failing = {}

Goto(r, label) == pc' = [pc EXCEPT ![r] = label]
SetBotActivity(r, status) == botStatus' = [botStatus EXCEPT ![bot[r]] = status]

BotsOn(m) == {b \in Bots : bots[m][b] # None}

(* The bot object found for a bot on the running monitor of its trader.    *)
Found(b) ==
    LET m == runningMons[TraderOf[b]] IN IF m = None THEN None ELSE bots[m][b]

-----------------------------------------------------------------------------
(* The client (environment) sends one request at a time for a bot and      *)
(* waits for its response.                                                 *)
Idle(r) ==
    /\ pc[r] = "idle"
    /\ \A q \in Requests : q < r => pc[q] # "idle"
    /\ \A q \in Requests : bot[q] = bot[r] => pc[q] \notin Sync \cup {"afterStop"}

(* onStartBot: the bot must be inactive; startBot may correct the balance. *)
ReceiveStart(r) ==
    /\ Idle(r)
    /\ botStatus[bot[r]] = "inactive"
    /\ mayFix' = [mayFix EXCEPT ![r] = TRUE]
    /\ Goto(r, "readConfig")
    /\ UNCHANGED <<dbVars, handlerVars, bot, mon, badUid, nested, bal, stopVars, fixVars, asyncVars>>

(* onStopBot: the bot must be active.                                      *)
ReceiveStop(r) ==
    /\ Idle(r)
    /\ botStatus[bot[r]] = "active"
    /\ Goto(r, "setStopping")
    /\ UNCHANGED <<dbVars, handlerVars, bot, mon, startVars, stopVars, fixVars, asyncVars>>

(* onUpdateSettings restarts an active bot: a stopBot, here r, and when it *)
(* returns a startBot, here q, that may not correct the balance.           *)
ReceiveRestart(r, q) ==
    /\ Idle(r)
    /\ q = r + 1 /\ pc[q] = "idle" /\ bot[q] = bot[r]
    /\ botStatus[bot[r]] = "active"
    /\ pc' = [pc EXCEPT ![r] = "setStopping", ![q] = "afterStop"]
    /\ badUid' = badUid \cup {q}
    /\ UNCHANGED <<dbVars, handlerVars, bot, mon, mayFix, nested, bal, stopVars, fixVars, asyncVars>>

StopReturned(q) ==
    /\ pc[q] = "afterStop"
    /\ \A r \in Requests : bot[r] = bot[q] => pc[r] \notin StopSync
    /\ Goto(q, "readConfig")
    /\ UNCHANGED <<dbVars, handlerVars, bot, mon, startVars, stopVars, fixVars, asyncVars>>

-----------------------------------------------------------------------------
(* A start that ends without the deferred set-inactive of its own frame;   *)
(* the frame it is nested in has yet to run its own.                       *)
ReturnStart(r) ==
    /\ nested' = [nested EXCEPT ![r] = FALSE]
    /\ Goto(r, IF nested[r] THEN "rollback" ELSE "done")

(* startBot reads the config: an active bot or an incomplete config ends   *)
(* it, before any deferred function is set up.                             *)
ReadConfig(r) ==
    /\ pc[r] = "readConfig"
    /\ \/ /\ botStatus[bot[r]] # "active"
          /\ Goto(r, "setStarting")
          /\ UNCHANGED nested
       \/ ReturnStart(r)
    /\ UNCHANGED <<dbVars, handlerVars, bot, mon, badUid, mayFix, bal, stopVars, fixVars, asyncVars>>

SetStarting(r) ==
    /\ pc[r] = "setStarting"
    /\ SetBotActivity(r, "starting")
    /\ Goto(r, "makeBot")
    /\ UNCHANGED <<remaining, handlerVars, bot, mon, startVars, stopVars, fixVars, asyncVars>>

(* makeBot asks the exchange for the account's balance.                    *)
MakeBot(r) ==
    /\ pc[r] = "makeBot"
    /\ \/ /\ \E n \in Balances : bal' = [bal EXCEPT ![r] = n]
          /\ Goto(r, "reduce")
       \/ /\ Goto(r, "rollback")
          /\ UNCHANGED bal
    /\ UNCHANGED <<dbVars, handlerVars, bot, mon, badUid, mayFix, nested, stopVars, fixVars, asyncVars>>

(* CheckAndReduceCpytBalance, one conditional UPDATE. If too little is     *)
(* left the balance is corrected, once, or the start is refused.           *)
CheckAndReduceCpytBalance(r) ==
    /\ pc[r] = "reduce"
    /\ \/ /\ remaining >= bal[r]
          /\ remaining' = remaining - bal[r]
          /\ Goto(r, "getMonitor")
       \/ /\ remaining < bal[r]
          /\ Goto(r, IF mayFix[r] THEN "readBots" ELSE "rollback")
          /\ UNCHANGED remaining
    /\ UNCHANGED <<botStatus, handlerVars, bot, mon, startVars, stopVars, fixVars, asyncVars>>

-----------------------------------------------------------------------------
(* fixCopyTradingBalance: read the active bots ...                         *)
ReadBots(r) ==
    /\ pc[r] = "readBots"
    /\ todo' = [todo EXCEPT ![r] = {b \in Bots : botStatus[b] = "active"}]
    /\ total' = [total EXCEPT ![r] = 0]
    /\ Goto(r, "readUser")
    /\ UNCHANGED <<dbVars, handlerVars, bot, mon, startVars, stopVars, seen, asyncVars>>

(* ... and the user's remaining balance ...                                *)
ReadUser(r) ==
    /\ pc[r] = "readUser"
    /\ seen' = [seen EXCEPT ![r] = remaining]
    /\ Goto(r, "sum")
    /\ UNCHANGED <<dbVars, handlerVars, bot, mon, startVars, stopVars, todo, total, asyncVars>>

(* ... add up the balances of the active bots' objects, in any order; a    *)
(* bot that is not on a running monitor is an error, the start refused ... *)
SumBalances(r, b) ==
    /\ pc[r] = "sum"
    /\ b \in todo[r]
    /\ \/ /\ Found(b) # None
          /\ total' = [total EXCEPT ![r] = @ + bal[Found(b)]]
          /\ todo' = [todo EXCEPT ![r] = @ \ {b}]
          /\ UNCHANGED pc
       \/ /\ Found(b) = None
          /\ Goto(r, "rollback")
          /\ UNCHANGED <<todo, total>>
    /\ UNCHANGED <<dbVars, handlerVars, bot, mon, startVars, stopVars, seen, asyncVars>>

(* ... divide by what was read, which panics on zero and unwinds startBot, *)
(* and when the right balance is another than what was read ...            *)
CompareBalance(r) ==
    /\ pc[r] = "sum"
    /\ todo[r] = {}
    /\ Goto(r, IF seen[r] = 0 THEN "rollback" ELSE "fix")
    /\ UNCHANGED <<dbVars, handlerVars, bot, mon, startVars, stopVars, fixVars, asyncVars>>

(* ... write it, and start again in a nested startBot.                     *)
FixBalance(r) ==
    /\ pc[r] = "fix"
    /\ remaining' = IF MaxCTBalance - total[r] = seen[r]
                    THEN remaining ELSE MaxCTBalance - total[r]
    /\ mayFix' = [mayFix EXCEPT ![r] = FALSE]
    /\ nested' = [nested EXCEPT ![r] = TRUE]
    /\ Goto(r, "readConfig")
    /\ UNCHANGED <<botStatus, handlerVars, bot, mon, badUid, bal, stopVars, fixVars, asyncVars>>

-----------------------------------------------------------------------------
(* startBot joins the running monitor of its trader, or calls Wait.        *)
GetMonitor(r) ==
    /\ pc[r] = "getMonitor"
    /\ \/ /\ r \notin badUid /\ runningMons[TraderOf[bot[r]]] # None
          /\ mon' = [mon EXCEPT ![r] = runningMons[TraderOf[bot[r]]]]
          /\ Goto(r, "differences")
       \/ /\ r \in badUid \/ runningMons[TraderOf[bot[r]]] = None
          /\ Goto(r, "Wait")
          /\ UNCHANGED mon
    /\ UNCHANGED <<dbVars, handlerVars, bot, startVars, stopVars, fixVars, asyncVars>>

(* Wait returns false and the start launches, or true and it panics on its *)
(* nil monitor, which the deferred functions outlive.                      *)
WaitReturns(r) ==
    /\ pc[r] = "Wait"
    /\ \/ Goto(r, "create")
       \/ r \notin badUid /\ Goto(r, "addBack")
    /\ UNCHANGED <<dbVars, handlerVars, bot, mon, startVars, stopVars, fixVars, asyncVars>>

(* createNewMonitor: there is no trader of the exchange's name.            *)
CreateNewMonitor(r) ==
    /\ pc[r] = "create"
    /\ \/ /\ r \notin badUid
          /\ mon' = [mon EXCEPT ![r] = r]
          /\ Goto(r, "differences")
       \/ /\ Goto(r, "addBack")
          /\ UNCHANGED mon
    /\ UNCHANGED <<dbVars, handlerVars, bot, startVars, stopVars, fixVars, asyncVars>>

HandleTraderBotDifferences(r) ==
    /\ pc[r] = "differences"
    /\ Goto(r, "addBot") \/ Goto(r, "addBack")
    /\ UNCHANGED <<dbVars, handlerVars, bot, mon, startVars, stopVars, fixVars, asyncVars>>

(* Mutant: needsBalanceReturnedIfError is not reset.                       *)
Started_StillRefunds(r) ==
    /\ posts' = posts \cup {r}
    /\ Goto(r, "addBack")
    /\ UNCHANGED nested

(* The start has succeeded: postBotLaunch runs on its own, and the frame   *)
(* a nested start runs in returns with startedSuccessfully still false.    *)
Started(r) ==
    /\ posts' = posts \cup {r}
    /\ ReturnStart(r)

AddBot(r) ==
    /\ pc[r] = "addBot"
    /\ bots' = [bots EXCEPT ![mon[r]][bot[r]] = r]
    /\ IF mon[r] = r
       THEN Goto(r, "addMonitor") /\ UNCHANGED <<nested, posts>>
       ELSE Started(r)
    /\ UNCHANGED <<dbVars, runningMons, ended, bot, mon, badUid, mayFix, bal, stopVars, fixVars, failing>>

AddMonitor(r) ==
    /\ pc[r] = "addMonitor"
    /\ runningMons' = [runningMons EXCEPT ![TraderOf[bot[r]]] = r]
    /\ Started(r)
    /\ UNCHANGED <<dbVars, bots, ended, bot, mon, badUid, mayFix, bal, stopVars, fixVars, failing>>

PostBotLaunch(r) ==
    /\ r \in posts
    /\ SetBotActivity(r, "active")
    /\ posts' = posts \ {r}
    /\ UNCHANGED <<remaining, handlerVars, pc, bot, mon, startVars, stopVars, fixVars, failing>>

(* The deferred functions of a failed start: AddBackToCpytBal ...          *)
AddBack(r) ==
    /\ pc[r] = "addBack"
    /\ remaining' = remaining + bal[r]
    /\ Goto(r, "rollback")
    /\ UNCHANGED <<botStatus, handlerVars, bot, mon, startVars, stopVars, fixVars, asyncVars>>

(* ... and the status, once for each frame of startBot.                    *)
Rollback(r) ==
    /\ pc[r] = "rollback"
    /\ SetBotActivity(r, "inactive")
    /\ ReturnStart(r)
    /\ UNCHANGED <<remaining, handlerVars, bot, mon, badUid, mayFix, bal, stopVars, fixVars, asyncVars>>

-----------------------------------------------------------------------------
SetStopping(r) ==
    /\ pc[r] = "setStopping"
    /\ SetBotActivity(r, "stopping")
    /\ Goto(r, "findMonitor")
    /\ UNCHANGED <<remaining, handlerVars, bot, mon, startVars, stopVars, fixVars, asyncVars>>

(* Without a monitor, or without the bot on it, a goroutine sets the bot   *)
(* inactive and that is all.                                               *)
FindMonitor(r) ==
    LET m == runningMons[TraderOf[bot[r]]] IN
    /\ pc[r] = "findMonitor"
    /\ mon' = [mon EXCEPT ![r] = m]
    /\ Goto(r, IF m = None THEN "setInactive" ELSE "getBot")
    /\ UNCHANGED <<dbVars, handlerVars, bot, startVars, stopVars, fixVars, asyncVars>>

GetBot(r) ==
    LET o == bots[mon[r]][bot[r]] IN
    /\ pc[r] = "getBot"
    /\ obj' = [obj EXCEPT ![r] = o]
    /\ Goto(r, IF o = None THEN "setInactive" ELSE "removeBot")
    /\ UNCHANGED <<dbVars, handlerVars, bot, mon, startVars, last, fixVars, asyncVars>>

(* Mutant: one bot too many counts as none.                                *)
RemoveBotByHash_OneLeft(r) ==
    /\ pc[r] = "removeBot"
    /\ bots' = [bots EXCEPT ![mon[r]][bot[r]] = None]
    /\ last' = [last EXCEPT ![r] = Cardinality(BotsOn(mon[r]) \ {bot[r]}) <= 1]
    /\ Goto(r, "setInactive")
    /\ UNCHANGED <<dbVars, runningMons, ended, bot, mon, startVars, obj, fixVars, asyncVars>>

(* removeBotByHash removes whatever is there under the bot's hash.         *)
RemoveBotByHash(r) ==
    /\ pc[r] = "removeBot"
    /\ bots' = [bots EXCEPT ![mon[r]][bot[r]] = None]
    /\ last' = [last EXCEPT ![r] = BotsOn(mon[r]) \subseteq {bot[r]}]
    /\ Goto(r, "setInactive")
    /\ UNCHANGED <<dbVars, runningMons, ended, bot, mon, startVars, obj, fixVars, asyncVars>>

(* The goroutine that stopBot leaves: the bot is inactive ...              *)
SetInactive(r) ==
    /\ pc[r] = "setInactive"
    /\ SetBotActivity(r, "inactive")
    /\ Goto(r, IF obj[r] = None THEN "done" ELSE "giveBack")
    /\ UNCHANGED <<remaining, handlerVars, bot, mon, startVars, stopVars, fixVars, asyncVars>>

(* Mutant: the monitor is told to end before it is unregistered.           *)
GiveBack_EndsFirst(r) ==
    /\ pc[r] = "giveBack"
    /\ remaining' = remaining + bal[obj[r]]
    /\ ended' = IF last[r] THEN ended \cup {mon[r]} ELSE ended
    /\ Goto(r, IF last[r] THEN "removeMonitor" ELSE "done")
    /\ UNCHANGED <<botStatus, runningMons, bots, bot, mon, startVars, stopVars, fixVars, asyncVars>>

(* ... its balance is given back ...                                       *)
GiveBack(r) ==
    /\ pc[r] = "giveBack"
    /\ remaining' = remaining + bal[obj[r]]
    /\ Goto(r, IF last[r] THEN "removeMonitor" ELSE "done")
    /\ UNCHANGED <<botStatus, handlerVars, bot, mon, startVars, stopVars, fixVars, asyncVars>>

(* ... and if it was the last one, whatever is registered for the trader   *)
(* is unregistered ...                                                     *)
RemoveMonitor(r) ==
    /\ pc[r] = "removeMonitor"
    /\ runningMons' = [runningMons EXCEPT ![TraderOf[bot[r]]] = None]
    /\ Goto(r, "end")
    /\ UNCHANGED <<dbVars, bots, ended, bot, mon, startVars, stopVars, fixVars, asyncVars>>

(* ... and the monitor is told to end.                                     *)
EndMonitor(r) ==
    /\ pc[r] = "end"
    /\ ended' = ended \cup {mon[r]}
    /\ Goto(r, "done")
    /\ UNCHANGED <<dbVars, runningMons, bots, bot, mon, startVars, stopVars, fixVars, asyncVars>>

-----------------------------------------------------------------------------
(* checkManualChanges learns that the API key of a bot on a running        *)
(* monitor is invalid: it removes the bot from the monitor and then sets   *)
(* it inactive. The balance is not given back.                             *)
KeyInvalid(b) ==
    /\ Found(b) # None
    /\ b \notin failing
    /\ bots' = [bots EXCEPT ![runningMons[TraderOf[b]]][b] = None]
    /\ failing' = failing \cup {b}
    /\ UNCHANGED <<dbVars, runningMons, ended, pc, bot, mon, startVars, stopVars, fixVars, posts>>

KeyInvalidStatus(b) ==
    /\ b \in failing
    /\ botStatus' = [botStatus EXCEPT ![b] = "inactive"]
    /\ failing' = failing \ {b}
    /\ UNCHANGED <<remaining, handlerVars, pc, bot, mon, startVars, stopVars, fixVars, posts>>

-----------------------------------------------------------------------------
StartStep(r) ==
    \/ ReadConfig(r) \/ SetStarting(r) \/ MakeBot(r) \/ CheckAndReduceCpytBalance(r)
    \/ ReadBots(r) \/ ReadUser(r) \/ CompareBalance(r) \/ FixBalance(r)
    \/ \E b \in Bots : SumBalances(r, b)
    \/ GetMonitor(r) \/ WaitReturns(r) \/ CreateNewMonitor(r)
    \/ HandleTraderBotDifferences(r) \/ AddBot(r) \/ AddMonitor(r)
    \/ PostBotLaunch(r) \/ AddBack(r) \/ Rollback(r)

StopStep(r) ==
    \/ SetStopping(r) \/ FindMonitor(r) \/ GetBot(r) \/ RemoveBotByHash(r)
    \/ SetInactive(r) \/ GiveBack(r) \/ RemoveMonitor(r) \/ EndMonitor(r)

Next ==
    \/ \E r \in Requests :
          \/ ReceiveStart(r) \/ ReceiveStop(r) \/ StopReturned(r)
          \/ \E q \in Requests : ReceiveRestart(r, q)
          \/ StartStep(r) \/ StopStep(r)
    \/ \E b \in Bots : KeyInvalid(b) \/ KeyInvalidStatus(b)

Spec == Init /\ [][Next]_vars

-----------------------------------------------------------------------------
(* The bot object of a request is on a monitor.                            *)
Hosted(r) == \E m \in Requests : bots[m][bot[r]] = r

(* The part of the balance a request answers for: a start from the         *)
(* reduction until it is given back or the bot is on a monitor, from then  *)
(* on while the bot is there, and while a stop that found it has yet to    *)
(* give it back.                                                           *)
Owed(r) ==
    \/ pc[r] \in Reduced
    \/ Hosted(r)
    \/ \E s \in Requests : obj[s] = r /\ pc[s] \in {"removeBot", "setInactive", "giveBack"}

Held == [r \in Requests |-> IF Owed(r) THEN bal[r] ELSE 0]

Ledger == INSTANCE CpytBalance WITH
    Allocations <- Requests,
    Amounts <- Balances,
    held <- Held,
    correcting <- {r \in Requests : pc[r] = "fix"}

(* Whatever starts, stops, restarts and key failures do and however they   *)
(* interleave, the balance of a bot is taken only if that much is left and *)
(* given back at most once, in the amount that was taken (db/access.go:    *)
(* 205-271 as botStartup.go uses it).                                      *)
LedgerSpec == Ledger!Spec

(* A monitor that was told to end is not, and never again will be, the one *)
(* the handler hands out to new bots (botStartup.go:485-490).              *)
EndedIsUnregistered ==
    \A t \in Traders : runningMons[t] \notin ended

(* botStartup.go:479, "if theres no more bots, stop the monitor": the count *)
(* is old when the monitor ends, and a start that found the monitor in the *)
(* handler before that is left on it, active and never stopped properly.   *)
(* Nobody else is: the bot that launched the monitor is always gone when   *)
(* it is told to end, whoever counts, restarts or fails meanwhile.         *)
OnlyJoinersStranded == \A m \in ended, b \in Bots : bots[m][b] # m
=============================================================================
