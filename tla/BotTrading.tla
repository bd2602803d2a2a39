----------------------------- MODULE BotTrading -----------------------------
(***************************************************************************)
(* One bot copying its trader's positions: the dispatch of updates         *)
(* (monitor.go:295-345, botManagement.go), the bot's openPosition,         *)
(* closePosition and changePosition under bot.PosMtx (botRuntime.go), the  *)
(* goroutines they leave behind, and checkManualChanges, which compares    *)
(* the bot's book with the account on the exchange. A symbol has one side. *)
(*                                                                         *)
(* The settings of the bot, prices and minimum quantities decide whether   *)
(* an order is placed and how large it is: here any of it may be so.       *)
(***************************************************************************)
EXTENDS Integers, FiniteSets

CONSTANTS
    Symbols,            \* the symbols the trader trades
    MaxQty,             \* bound: the largest position on the exchange
    MaxOpenPositions,   \* config.MaxOpenPositions
    MaxUpdates,         \* bound: updates the trader causes
    MaxManual           \* bound: trades the user makes by hand

ASSUME BoundsAssumption ==
    /\ IsFiniteSet(Symbols)
    /\ MaxQty \in Nat /\ MaxOpenPositions \in Nat
    /\ MaxUpdates \in Nat /\ MaxManual \in Nat

VARIABLES
    account,        \* the quantity held on the exchange, symbol by symbol
    positions,      \* bot.Positions: the quantity the bot tracks, or Absent
    ignoreList,     \* bot.IgnoreList: how often each symbol is in it
    posMtx,         \* who holds bot.PosMtx
    traderOpen,     \* the trader's positions, as last polled
    pc, type, symbol,   \* the dispatcher: where it is, and its update
    left,           \* the symbols that may have another update in this poll
    closers,        \* onSuccessfullClose goroutines that have not yet deleted
    ignoring, appending,    \* goroutines in ignore: before and after its check
    check, snap, visit,     \* checkManualChanges: where it is, the positions it
                            \* was given, the symbols it has yet to range over
    cancelled,      \* the context of the check is cancelled
    crashed,        \* the runtime found two goroutines in one map
    updates, manual,    \* how many updates and manual trades there were
    stale, astray   \* history: the symbols ordered since the check's snapshot,
                    \* and those whose book may differ from the account

Absent == -1
Free == "free"

bookVars == <<account, positions, ignoreList, posMtx>>
dispatchVars == <<traderOpen, pc, type, symbol, left, updates>>
asyncVars == <<closers, ignoring, appending>>
checkVars == <<check, snap, visit, cancelled>>
historyVars == <<stale, astray>>
vars == <<bookVars, dispatchVars, asyncVars, checkVars, historyVars, crashed, manual>>

TypeOK ==
    /\ account \in [Symbols -> 0 .. MaxQty]
    /\ positions \in [Symbols -> Absent .. MaxQty]
    /\ ignoreList \in [Symbols -> Nat]
    /\ posMtx \in {Free, "bot", "checker"}
    /\ traderOpen \subseteq Symbols
    /\ pc \in {"poll", "next", "prices", "lock", "decide", "confirm", "ignore", "append"}
    /\ type \in {"open", "close", "change"}
    /\ symbol \in Symbols
    /\ left \subseteq Symbols
    /\ closers \in [Symbols -> Nat]
    /\ ignoring \in [Symbols -> Nat] /\ appending \in [Symbols -> Nat]
    /\ check \in {"idle", "tryLock", "request", "select", "lock", "range", "store"}
    /\ snap \in [Symbols -> 0 .. MaxQty]
    /\ visit \subseteq Symbols
    /\ cancelled \in BOOLEAN /\ crashed \in BOOLEAN
    /\ updates \in 0 .. MaxUpdates /\ manual \in 0 .. MaxManual
    /\ stale \subseteq Symbols /\ astray \subseteq Symbols

Zero == [s \in Symbols |-> 0]

(* The bot is launched: what the trader holds and the user does not, or    *)
(* the other way round, is ignored; what both hold is joined in progress.  *)
handleTraderBotDifferences ==
    /\ positions = [s \in Symbols |->
                       IF s \in traderOpen /\ account[s] > 0 THEN account[s] ELSE Absent]
    /\ ignoreList = [s \in Symbols |-> IF s \in traderOpen <=> account[s] > 0 THEN 0 ELSE 1]

Init ==
    /\ account \in [Symbols -> 0 .. MaxQty]
    /\ traderOpen \in SUBSET Symbols
    /\ handleTraderBotDifferences
    /\ posMtx = Free
    /\ pc = "poll" /\ type = "open" /\ symbol \in Symbols
    /\ left = {}
    /\ closers = Zero /\ ignoring = Zero /\ appending = Zero
    /\ check = "idle" /\ snap = Zero /\ visit = {}
    /\ cancelled = FALSE
    /\ crashed = FALSE
    /\ updates = 0 /\ manual = 0
    /\ stale = {} /\ astray = {s \in Symbols \ traderOpen : account[s] > 0}

Tracked == {s \in Symbols : positions[s] # Absent}
Min2(a, b) == IF a < b THEN a ELSE b

isIgnored(s) == ignoreList[s] > 0
unIgnore(s) == ignoreList' = [ignoreList EXCEPT ![s] = @ - 1]

-----------------------------------------------------------------------------
(* The exchange and the user (environment): the user closes or resizes a   *)
(* position by hand, or a take-profit or stop-loss does.                   *)
ManualTrade(s) ==
    /\ ~ crashed
    /\ manual < MaxManual
    /\ \E n \in (0 .. MaxQty) \ {account[s]} : account' = [account EXCEPT ![s] = n]
    /\ manual' = manual + 1
    /\ astray' = astray \cup {s}
    /\ UNCHANGED <<positions, ignoreList, posMtx, dispatchVars, asyncVars, checkVars, stale, crashed>>

-----------------------------------------------------------------------------
(* comparePositions has found an update: a position the trader did not     *)
(* have is opened, one it had is closed or changed. Only opening and       *)
(* changing need prices first.                                             *)
Take(t, s) ==
    /\ updates < MaxUpdates
    /\ t = "open" <=> s \notin traderOpen
    /\ traderOpen' = CASE t = "open" -> traderOpen \cup {s}
                       [] t = "close" -> traderOpen \ {s}
                       [] t = "change" -> traderOpen
    /\ type' = t /\ symbol' = s
    /\ updates' = updates + 1
    /\ pc' = IF t = "close" THEN "lock" ELSE "prices"

(* sendAllUpdates cancels the running check, then dispatches one update    *)
(* after the other.                                                        *)
Poll(t, s) ==
    /\ ~ crashed
    /\ pc = "poll"
    /\ Take(t, s)
    /\ left' = Symbols \ {s}
    /\ cancelled' = TRUE
    /\ UNCHANGED <<bookVars, asyncVars, check, snap, visit, historyVars, crashed, manual>>

NextUpdate(t, s) ==
    /\ ~ crashed
    /\ pc = "next" /\ s \in left
    /\ Take(t, s)
    /\ left' = left \ {s}
    /\ UNCHANGED <<bookVars, asyncVars, checkVars, historyVars, crashed, manual>>

EndUpdates ==
    /\ ~ crashed
    /\ pc = "next"
    /\ pc' = "poll"
    /\ left' = {}
    /\ UNCHANGED <<bookVars, traderOpen, type, symbol, updates, asyncVars, checkVars,
                   historyVars, crashed, manual>>

(* The bot's result is collected: the dispatcher goes on.                  *)
Collected == pc' = IF left = {} THEN "poll" ELSE "next"
sameUpdate == <<traderOpen, type, symbol, left, updates>>

(* getOpenUpdate and getChangeUpdate ask for prices. They may panic: then  *)
(* no bot is sent the update ...                                           *)
GetPrices ==
    /\ ~ crashed
    /\ pc = "prices"
    /\ pc' = "lock"
    /\ UNCHANGED <<bookVars, sameUpdate, asyncVars, checkVars, historyVars, crashed, manual>>

(* ... and a goroutine ignores a symbol that was to be opened.             *)
onFailedTradePrep ==
    /\ ~ crashed
    /\ pc = "prices"
    /\ Collected
    /\ ignoring' = IF type = "open" THEN [ignoring EXCEPT ![symbol] = @ + 1] ELSE ignoring
    /\ UNCHANGED <<bookVars, sameUpdate, closers, appending, checkVars, historyVars, crashed, manual>>

Lock ==
    /\ ~ crashed
    /\ pc = "lock" /\ posMtx = Free
    /\ posMtx' = "bot"
    /\ pc' = "decide"
    /\ UNCHANGED <<account, positions, ignoreList, sameUpdate, asyncVars, checkVars,
                   historyVars, crashed, manual>>

-----------------------------------------------------------------------------
(* The steps of the bot that end its work on an update release the mutex.  *)
Deciding(t) == ~ crashed /\ pc = "decide" /\ type = t
Unlock == posMtx' = Free

(* An order for a symbol. What a check was given before is out of date. If *)
(* a goroutine of an earlier close has yet to delete the position, it will *)
(* delete what comes of this order.                                        *)
Ordered ==
    /\ stale' = stale \cup {symbol}
    /\ astray' = IF closers[symbol] > 0 THEN astray \cup {symbol} ELSE astray

(* Mutant: the mutex is not released on refusal.                           *)
OpenRefused_KeepsLock ==
    /\ Deciding("open")
    /\ Collected \/ pc' = "ignore"
    /\ UNCHANGED <<account, positions, ignoreList, posMtx, sameUpdate, asyncVars, checkVars,
                   historyVars, crashed, manual>>

(* openPosition: the symbol is tracked already, a setting says no, or      *)
(* every order failed. The dispatcher then ignores the symbol, unless the  *)
(* bot panicked (on a price of 0).                                         *)
OpenRefused ==
    /\ Deciding("open")
    /\ Unlock
    /\ Collected \/ pc' = "ignore"
    /\ UNCHANGED <<account, positions, ignoreList, sameUpdate, asyncVars, checkVars,
                   historyVars, crashed, manual>>

(* Mutant: one position too many is allowed.                               *)
OpenOrder_OneTooMany ==
    /\ Deciding("open")
    /\ symbol \notin Tracked
    /\ Cardinality(Tracked) <= MaxOpenPositions
    /\ \E q \in 1 .. (MaxQty - account[symbol]) : account' = [account EXCEPT ![symbol] = @ + q]
    /\ Ordered
    /\ pc' = "confirm"
    /\ UNCHANGED <<positions, ignoreList, posMtx, sameUpdate, asyncVars, checkVars, crashed, manual>>

OpenOrder ==
    /\ Deciding("open")
    /\ symbol \notin Tracked
    /\ Cardinality(Tracked) < MaxOpenPositions
    /\ \E q \in 1 .. (MaxQty - account[symbol]) : account' = [account EXCEPT ![symbol] = @ + q]
    /\ Ordered
    /\ pc' = "confirm"
    /\ UNCHANGED <<positions, ignoreList, posMtx, sameUpdate, asyncVars, checkVars, crashed, manual>>

(* closePosition: an ignored symbol is only taken off the list ...         *)
CloseIgnored ==
    /\ Deciding("close")
    /\ isIgnored(symbol)
    /\ unIgnore(symbol)
    /\ Unlock
    /\ Collected
    /\ UNCHANGED <<account, positions, sameUpdate, asyncVars, checkVars, historyVars, crashed, manual>>

(* ... else the settings may not be readable, which ignores the symbol,    *)
(* or the position is not tracked or closes are disabled (or the tracked   *)
(* quantity is 0: there is no first result, and the bot panics) ...        *)
CloseRefused ==
    /\ Deciding("close")
    /\ ~ isIgnored(symbol)
    /\ Unlock
    /\ Collected \/ pc' = "ignore"
    /\ UNCHANGED <<account, positions, ignoreList, sameUpdate, asyncVars, checkVars,
                   historyVars, crashed, manual>>

(* ... else reduce-only orders for the tracked quantity are placed; some   *)
(* or all may fail, but the position is deleted in any case, later.        *)
CloseOrder ==
    /\ Deciding("close")
    /\ ~ isIgnored(symbol)
    /\ positions[symbol] > 0
    /\ \E q \in 0 .. Min2(account[symbol], positions[symbol]) :
          /\ account' = [account EXCEPT ![symbol] = @ - q]
          /\ astray' = IF account'[symbol] > 0 THEN astray \cup {symbol} ELSE astray
    /\ stale' = stale \cup {symbol}
    /\ closers' = [closers EXCEPT ![symbol] = @ + 1]
    /\ Unlock
    /\ Collected
    /\ UNCHANGED <<positions, ignoreList, sameUpdate, ignoring, appending, checkVars, crashed, manual>>

(* changePosition: the symbol is ignored or not tracked, or a setting says *)
(* no, or the order would be too small.                                    *)
ChangeRefused ==
    /\ Deciding("change")
    /\ Unlock
    /\ Collected
    /\ UNCHANGED <<account, positions, ignoreList, sameUpdate, asyncVars, checkVars,
                   historyVars, crashed, manual>>

(* An increase, or a reduce-only decrease; all its orders may fail.        *)
ChangeOrder ==
    /\ Deciding("change")
    /\ ~ isIgnored(symbol) /\ symbol \in Tracked
    /\ \E n \in (account[symbol] - Min2(account[symbol], positions[symbol])) .. MaxQty :
          account' = [account EXCEPT ![symbol] = n]
    /\ Ordered
    /\ pc' = "confirm"
    /\ UNCHANGED <<positions, ignoreList, posMtx, sameUpdate, asyncVars, checkVars, crashed, manual>>

(* Mutant: the quantity is not updated after a change.                     *)
Confirm_OpenOnly ==
    /\ ~ crashed
    /\ pc = "confirm"
    /\ positions' = IF type = "open" THEN [positions EXCEPT ![symbol] = account[symbol]] ELSE positions
    /\ Unlock
    /\ Collected
    /\ UNCHANGED <<account, ignoreList, sameUpdate, asyncVars, checkVars, historyVars, crashed, manual>>

(* getMyPosition: the book takes over what the exchange says.              *)
Confirm ==
    /\ ~ crashed
    /\ pc = "confirm"
    /\ positions' = [positions EXCEPT ![symbol] = account[symbol]]
    /\ Unlock
    /\ Collected
    /\ UNCHANGED <<account, ignoreList, sameUpdate, asyncVars, checkVars, historyVars, crashed, manual>>

(* If it fails the orders are not recorded; an open is reported as not     *)
(* done, and its symbol ignored.                                           *)
ConfirmFails ==
    /\ ~ crashed
    /\ pc = "confirm"
    /\ astray' = astray \cup {symbol}
    /\ Unlock
    /\ IF type = "open" THEN pc' = "ignore" ELSE Collected
    /\ UNCHANGED <<account, positions, ignoreList, sameUpdate, asyncVars, checkVars, stale, crashed, manual>>

(* ignore, by the dispatcher: check, then append.                          *)
Ignore ==
    /\ ~ crashed
    /\ pc = "ignore"
    /\ IF isIgnored(symbol) THEN Collected ELSE pc' = "append"
    /\ UNCHANGED <<bookVars, sameUpdate, asyncVars, checkVars, historyVars, crashed, manual>>

AppendIgnore ==
    /\ ~ crashed
    /\ pc = "append"
    /\ ignoreList' = [ignoreList EXCEPT ![symbol] = @ + 1]
    /\ Collected
    /\ UNCHANGED <<account, positions, posMtx, sameUpdate, asyncVars, checkVars, historyVars, crashed, manual>>

DispatchStep ==
    \/ EndUpdates \/ GetPrices \/ onFailedTradePrep \/ Lock
    \/ OpenRefused \/ OpenOrder \/ CloseIgnored \/ CloseRefused \/ CloseOrder
    \/ ChangeRefused \/ ChangeOrder \/ Confirm \/ ConfirmFails
    \/ Ignore \/ AppendIgnore

-----------------------------------------------------------------------------
(* onSuccessfullClose deletes the position without taking PosMtx: beside   *)
(* another goroutine that uses the map the runtime may end the program.    *)
Forget(s) ==
    /\ ~ crashed
    /\ closers[s] > 0
    /\ closers' = [closers EXCEPT ![s] = @ - 1]
    /\ positions' = [positions EXCEPT ![s] = Absent]
    /\ crashed' \in {FALSE, posMtx # Free}
    /\ UNCHANGED <<account, ignoreList, posMtx, dispatchVars, ignoring, appending, checkVars,
                   historyVars, manual>>

(* ignore, by the goroutines of onUnexpectedSell and onFailedTradePrep. An *)
(* append beside the append of another goroutine may get lost.             *)
AsyncIgnore(s) ==
    /\ ~ crashed
    /\ ignoring[s] > 0
    /\ ignoring' = [ignoring EXCEPT ![s] = @ - 1]
    /\ appending' = IF isIgnored(s) THEN appending ELSE [appending EXCEPT ![s] = @ + 1]
    /\ UNCHANGED <<bookVars, dispatchVars, closers, checkVars, historyVars, crashed, manual>>

AsyncAppend(s) ==
    /\ ~ crashed
    /\ appending[s] > 0
    /\ appending' = [appending EXCEPT ![s] = @ - 1]
    /\ \/ ignoreList' = [ignoreList EXCEPT ![s] = @ + 1]
       \/ /\ pc = "append" \/ \E r \in Symbols : appending'[r] > 0
          /\ UNCHANGED ignoreList
    /\ UNCHANGED <<account, positions, posMtx, dispatchVars, closers, ignoring, checkVars,
                   historyVars, crashed, manual>>

AsyncStep(s) == Forget(s) \/ AsyncIgnore(s) \/ AsyncAppend(s)

-----------------------------------------------------------------------------
(* startManualCheckingBots begins a round, with a new context.             *)
StartCheck ==
    /\ ~ crashed
    /\ check = "idle"
    /\ check' = "tryLock"
    /\ cancelled' = FALSE
    /\ UNCHANGED <<bookVars, dispatchVars, asyncVars, snap, visit, historyVars, crashed, manual>>

(* Mutant: the result of TryLock is taken the wrong way round.             *)
TryLock_Inverted ==
    /\ ~ crashed
    /\ check = "tryLock"
    /\ check' = IF posMtx = Free THEN "idle" ELSE "request"
    /\ UNCHANGED <<bookVars, dispatchVars, asyncVars, snap, visit, cancelled, historyVars, crashed, manual>>

(* checkManualChanges gives up if a position is being altered right now.   *)
TryLock ==
    /\ ~ crashed
    /\ check = "tryLock"
    /\ check' = IF posMtx = Free THEN "request" ELSE "idle"
    /\ UNCHANGED <<bookVars, dispatchVars, asyncVars, snap, visit, cancelled, historyVars, crashed, manual>>

(* getMyPositions: what the account holds at some moment of the request.   *)
Snapshot ==
    /\ ~ crashed
    /\ check = "request"
    /\ snap' = account
    /\ stale' = {}
    /\ check' = "select"
    /\ UNCHANGED <<bookVars, dispatchVars, asyncVars, visit, cancelled, astray, crashed, manual>>

RequestFails ==
    /\ ~ crashed
    /\ check = "request"
    /\ check' = "idle"
    /\ UNCHANGED <<bookVars, dispatchVars, asyncVars, snap, visit, cancelled, historyVars, crashed, manual>>

(* The select: a cancelled context may end the check while it waits, or    *)
(* the answer is taken; after that the context is not looked at again.     *)
Cancel ==
    /\ ~ crashed
    /\ check \in {"request", "select"} /\ cancelled
    /\ check' = "idle"
    /\ UNCHANGED <<bookVars, dispatchVars, asyncVars, snap, visit, cancelled, historyVars, crashed, manual>>

Answer ==
    /\ ~ crashed
    /\ check = "select"
    /\ check' = "lock"
    /\ UNCHANGED <<bookVars, dispatchVars, asyncVars, snap, visit, cancelled, historyVars, crashed, manual>>

CheckLock ==
    /\ ~ crashed
    /\ check = "lock" /\ posMtx = Free
    /\ posMtx' = "checker"
    /\ visit' = Tracked
    /\ check' = "range"
    /\ UNCHANGED <<account, positions, ignoreList, dispatchVars, asyncVars, snap, cancelled,
                   historyVars, crashed, manual>>

MarkStale(s) == astray' = IF s \in stale THEN astray \cup {s} ELSE astray

(* The range over the book: a tracked position the account did not hold    *)
(* was sold, is ignored by a goroutine of its own and will be deleted; the *)
(* others are read ...                                                     *)
RangeOver(s) ==
    /\ ~ crashed
    /\ check = "range" /\ s \in visit
    /\ \/ /\ s \in Tracked /\ snap[s] > 0
          /\ check' = "store"
          /\ UNCHANGED <<visit, ignoring>>
       \/ /\ s \notin Tracked \/ snap[s] = 0
          /\ visit' = visit \ {s}
          /\ ignoring' = IF s \in Tracked THEN [ignoring EXCEPT ![s] = @ + 1] ELSE ignoring
          /\ UNCHANGED check
    /\ UNCHANGED <<bookVars, dispatchVars, closers, appending, snap, cancelled, historyVars, crashed, manual>>

(* ... and written back, with the quantity the account had.                *)
Store(s) ==
    /\ ~ crashed
    /\ check = "store" /\ s \in visit /\ snap[s] > 0
    /\ positions' = [positions EXCEPT ![s] = snap[s]]
    /\ MarkStale(s)
    /\ visit' = visit \ {s}
    /\ check' = "range"
    /\ UNCHANGED <<account, ignoreList, posMtx, dispatchVars, asyncVars, snap, cancelled, stale,
                   crashed, manual>>

(* What was found sold is deleted after the range.                         *)
EndCheck ==
    /\ ~ crashed
    /\ check = "range" /\ visit = {}
    /\ positions' = [s \in Symbols |-> IF snap[s] = 0 THEN Absent ELSE positions[s]]
    /\ astray' = astray \cup {s \in stale \cap Tracked : snap[s] = 0}
    /\ posMtx' = Free
    /\ check' = "idle"
    /\ UNCHANGED <<account, ignoreList, dispatchVars, asyncVars, snap, visit, cancelled, stale,
                   crashed, manual>>

CheckStep ==
    \/ StartCheck \/ TryLock \/ Answer \/ CheckLock \/ EndCheck
    \/ \E s \in Symbols : RangeOver(s) \/ Store(s)

Next ==
    \/ \E s \in Symbols :
          \/ ManualTrade(s) \/ AsyncStep(s)
          \/ \E t \in {"open", "close", "change"} : Poll(t, s) \/ NextUpdate(t, s)
    \/ DispatchStep
    \/ CheckStep \/ Snapshot \/ RequestFails \/ Cancel

Spec == Init /\ [][Next]_vars

(* Every goroutine that can step does, and a request to the exchange that  *)
(* is repeated for ever is answered now and then.                          *)
FairSpec ==
    /\ Spec
    /\ WF_vars(DispatchStep)
    /\ WF_vars(CheckStep) /\ SF_vars(Snapshot) /\ SF_vars(Lock) /\ SF_vars(CheckLock)
    /\ \A s \in Symbols : WF_vars(AsyncStep(s))

-----------------------------------------------------------------------------
(* Nothing is under way that concerns the book.                            *)
Quiet == pc = "poll" /\ check \in {"idle", "tryLock", "request"} /\ closers = Zero

(* What the bot believes it holds is what the account holds, whenever it   *)
(* is at rest, however updates and checks interleave; unless the user held *)
(* it alone at launch or traded by hand, an order or its confirmation      *)
(* failed, a check applied an answer that was older than an order, or an   *)
(* order was placed before the last close was forgotten                    *)
(* (botRuntime.go:485-522, 558-585, 851-865, 982-1018).                    *)
InSync ==
    Quiet /\ ~ crashed => \A s \in Symbols \ astray :
        account[s] = IF s \in Tracked THEN positions[s] ELSE 0

(* botRuntime.go:364-373: an open does not leave the bot with more         *)
(* positions than its settings allow, although checks and late deletions   *)
(* change the book beside the dispatcher. It may join more when it is      *)
(* launched, and a check or a change may write one of these back that was  *)
(* just deleted.                                                           *)
WithinMaxPositions ==
    [][type = "open" /\ posMtx = "bot" /\ ~ (Tracked' \subseteq Tracked)
        => Cardinality(Tracked') <= MaxOpenPositions]_vars

(* handler.go:53: the checker runs forever, so a position that is no       *)
(* longer held does not stay in the book.                                  *)
SoldIsNoticed ==
    \A s \in Symbols :
        positions[s] # Absent /\ account[s] = 0
        ~> positions[s] = Absent \/ account[s] > 0 \/ crashed

(* botManagement.go:152-162: every dispatch gets its result, whatever      *)
(* fails, and the monitor goes on to poll.                                 *)
DispatchEnds == pc # "poll" ~> pc = "poll" \/ crashed
=============================================================================
