# Lightspeed Trading: a verification project

Lightspeed copies the positions of traders on the Binance leaderboard to its
users' accounts on other exchanges. This directory holds TLA+ models of the
parts of it where goroutines, mutexes, channels and database rows meet, the TLC
runs that check them on small instances, and TLAPS proofs of what matters most
for instances of any size. `PROJECT.json` lists components, runs, mutants (a
plausible bug for each property, which breaks it), the source lines of every
definition, findings, hazards and theorems.

## 1. The system and its parts

One Go program. HTTP handlers (net/http: one goroutine a request, panics are
recovered) start and stop *bots*; a *bot* copies one trader to one account. All
bots of a trader share a *monitor*, a goroutine that polls the trader through
HTTP clients with a proxy each. The proxies come from one pool. Tables in
Postgres keep users, their plan and remaining balance, and the bots' settings
and status.

| Component | State | Operations | Interacts through | Model |
|---|---|---|---|---|
| Launching-monitors cache (`classes/launchingMonitorsCache.go`) | map of launches, a waiting list each | `Wait`, `Finished` | called by every `startBot`; channels to the waiters | `LaunchCache` |
| Bot lifecycle (`botStartup.go`, `handlersUser.go`) | `bot_status`, `remaining_cpyt_bal`, `handler.runningMons`, `Monitor.bots` | `startBot`, `postBotLaunch`, `stopBot`, `fixCopyTradingBalance`, restart after a change of settings | database, handler, monitor, cache | `BotLifecycle` |
| Copytrading balance (`db/access.go:211-271`) | one column | reduce if enough, add back, set | the lifecycle, plans | `CpytBalance` |
| Monitor loop and proxy pool (`monitor.go`, `classes/proxies.go`) | clients, three channels, the pool | `run`, `addClients`, `recoverClients`, `createNewMonitor` | unbuffered channels with the goroutines of starts and stops | `MonitorLoop`, `ProxyPool` |
| Comparing positions (`trader.go:207-306`) | the trader's last positions | `comparePositions` | called by the loop | `PositionDiff` |
| Copying positions (`botManagement.go`, `botRuntime.go`) | the bot's book, ignore list, `PosMtx` | `openPosition`, `closePosition`, `changePosition` | dispatch by the loop, the exchange, the checker | `BotTrading` |
| Order sizing (`botRuntime.go:250-276`, `exchangeClients.go`) | the account and the book | `getBulkQtyList`, `placeOrder` | the exchange | `OrderSizing` |
| Manual-change checker (`handler.go:53-81`, `botRuntime.go:908-1019`) | a context and a WaitGroup a round | rounds over all bots, `checkManualChanges` | the handler's maps, `PosMtx`, the exchange | `CheckRounds`, `BotTrading` |
| Payments (`payments.go`, `handlersPayments.go`) | claimed transactions, in memory; `users`, `copytrading` | claim, verify, store, status, hourly round and wipe | database and its connection pool, chain | `Payments` |
| Plans and instances (`handlersAdmin.go`) | plans, user rows, bot rows | `SetUserPlan`, `SetNumInstances`, creation and deletion of plans | database, running bots | `UserPlan` |
| Startup (`launch.go`, `main.go`) | none of its own | reset the bots that were in between, launch monitors with bots and signals | pool, database, handler | `Startup` |
| PnL watching, exchange clients' signing and decoding, Discord, routing, logs, export, encryption | (almost) none | I/O | — | — |

What is hard in it: goroutines that act on what they read before another one's
step (status before `SetBotActivity`, the handler before the cache, the pool
before `NextGroup`, the number of bots before the end of the monitor, the user's
row before the wipe); a channel used in two directions (`clientsChan`); a lock
that covers some of the uses of a map (`PosMtx`, `monsMtx`); answers of an exchange
that are older than an order; orders that are placed and cannot be read back;
crashes between two statements; and panics that some callers recover and others
do not. The list, line by line, is `hazards` in `PROJECT.json`.

What makes each part correct: no trader gets two monitors and nobody waits for
ever (cache); the balance is a ledger, and a monitor that ends has nobody on it
(lifecycle); a proxy is in one place (pool), a blocked goroutine is served
(loop); updates are the difference of two polls (comparison); the book is the
account's (copying), orders are legal and add up (sizing); every bot is checked
in every round (checker); a payment counts once; a plan's change loses nobody and
no balance; a restart brings back what was active.

## 2. Modules

`LaunchCache` - the cache with the parts of `startBot` and `stopBot` that use it.
A call is one `startBot`; `pc` follows it line by line, `launching` and
`waiting` are the two structs, a launchingMon object is named by the call that
made it. `uidsMtx` is a lock held over a broadcast; `lm.mtx` is held over the
broadcast too, so nobody appends or resets during it (`LmMtxFree`). A send on
an unbuffered channel and its receipt are one step (`Send`).

`BotLifecycle` - every step of `startBot`, `postBotLaunch`, `stopBot`,
`fixCopyTradingBalance` and `restartBotAfterSettingsChange` for the bots of one
user, with deferred functions, the start within a start after a correction, and
the goroutines that go on after the response. Bot objects, monitors and parts
of the balance are named by the request they come from. The cache is
over-approximated by what it may answer. A SQL statement is one step; the
difference a correction works out is exact, its comparison as a proportion is
not modelled. `CpytBalance` is the abstract ledger it refines (`LedgerSpec`).

`MonitorLoop` - one monitor's `run`, the starts and stops of its bots as far as
they concern its clients, the pool, and other launches from it. A stay is one
bot's time on the monitor. The channels are unbuffered: a sequence holds the
blocked senders in Go's FIFO order. A client is named by its proxy, so it
shows if two loops use one. A slice expression beyond the length is a panic
in a goroutine that nobody recovers and ends everything (`"crashed"`). `ProxyPool`
is the abstract specification it refines (`PoolSpec`): sets of proxies, and the only
ways in which whole groups of them move between the pool, the monitor, its starts and
stops, and other launches. `accounted` in it is `Accounted` here: true with webhooks,
and without them until the last stop tells the monitor to end.

`PositionDiff` - `comparePositions`, one old position a step, with the slice
it overwrites in place.

`BotTrading` - one bot, its account and the dispatcher: what
`handleTraderBotDifferences` joins and ignores when the bot is launched (the
initial states), an update from poll to collected result, the checker's round
from new context to deletion, the goroutines that delete and ignore later. A
symbol is one position (one side). What the settings, prices and sizes decide
(whether an order is placed, how large, which part fails) is nondeterministic;
that it happens in that order, under that lock, is not. A write to the Go map
beside its use by a lock holder may end the program. `stale` and `astray` are
history variables: the symbols with an order since the checker's snapshot, and
those whose book may differ from the account for a reason the code knows and
accepts.

`OrderSizing` - the sizes `BotTrading` leaves open, for one symbol: what
`openPosition`, `changePosition` and `closePosition` wish, the orders
`getBulkQtyList` cuts that into, the results as they arrive in any order, and what
each of the three does with the book in the end. A decimal is an integer of a
unit at least as fine as the symbol's step. `full` and `last` are the orders
without a result, all but one of them of the maximum. `abandoned`, `unread` and
`panicked` are history variables.

`CheckRounds` - the rounds over all monitors: a range of Go over a map that
changes (who was there and stays is reached, who comes may be), `len` taken
before the bots are ranged over, the WaitGroup, the goroutines that call `Done`,
and the starts and stops that change the maps between any two of these steps. A
concurrent write that the runtime notices, and a counter below 0, end the
program.

`Payments` - a request to `onPaymentSent` from the claim (`TryClaim_*`, under
`payments.Mu`) over the goroutine that waits for the network (`Check_*`) and
verifies (`Verify_*`, under the mutex again) to what it stores (`Renew_*`,
`Initial_*`); `onCheckPaymentStatus`, which deletes an entry once its outcome is
told; the hourly round and the goroutine it starts for each user whose time is
over (`Wipe_*`); restarts. `claimer` and `result` are the map of payments,
`renewalTS` and `bots` the tables. `inUse` counts the connections that are out
for longer than a statement: every statement waits while none is free.
`credited`, `relisted` and `cut` are history variables.

`UserPlan` - `SetUserPlan` statement by statement (read the user, read the old plan,
wipe, read the new plan, write), `SetNumInstances` row by row, creation with
overwriting and deletion of plans; any statement may fail. None of it is a
transaction, and requests of several administrators interleave. Beside them the
user's bots start and stop; of that, here, only the statements on the row.
`drift` names what may have put the balance wrong, `overlap` that instances were
set by two requests at once, `wiped` who has wiped the user and not yet written.

`Startup` - the restart: the reset of bots that were in between, a goroutine for
each trader that takes proxies and makes a monitor, the results
`launchMultipleBots` collects, and the main goroutine that hands out the rest of
the proxies and registers. Once the program serves, starts and stops go in the
steps a crash can separate, and a crash (or one of the launch's own fatal errors)
may come between any two. `taken` follows what each bot holds of the balance,
whatever the memory of the process knows; `stuck`, `revalued`, `missing` and
`ended` name the reasons for a difference.

`Totals` - sums over finite sets, for the modules that count proxies, goroutines and
balances.

`*Proofs` modules hold the theorems of the one or two modules they extend, `TotalsTheorems`
those about sums; `MC*` modules the values for TLC. Where two models are proved in one
module, the second one's standard names carry its own (`LaunchInit`, `DiffInit`,
`RoundsInit` for `Init`, and so on; `FindMonitor` in `LaunchCache` is the `GetMonitor` of
`MonitorLoop`: both are the lookup at `botStartup.go:290`).

## 3. Runs

| Run | Instance | Shows |
|---|---|---|
| `launch_cache` | 4 calls, 1 trader, fair | `OneHeir`, `BroadcastMeets`, `BroadcastIsStable`, `NobodyAbandoned`, `WaitersAreAnswered` |
| `launch_cache_header` (violated) | 3 calls | `OneLaunchAtATime`, the cache's own header comment |
| `bot_lifecycle` | 2 bots of 1 trader, 3 requests | `EndedIsUnregistered`, `OnlyJoinersStranded`, the ledger (refinement) |
| `monitor_loop` | 2 stays, 1 other launch, 7 proxies, fair | `OneOwner`, `Balanced`, `CrashNeedsOvertaking`, the pool (refinement), `ClientsArrive`, `EndIsObeyed` |
| `position_diff` | lists of up to 3, 3 hashes, 2 quantities | `NothingLost`, `DiffIsExact` |
| `bot_trading` | 2 symbols, any positions at launch, 2 updates, 1 trade by hand | `InSync`, `WithinMaxPositions` |
| `bot_trading_live` | 1 symbol, fair | `SoldIsNoticed`, `DispatchEnds` |
| `order_sizing` | 5 lot sizes, quantities up to 12 | `OrdersLegal`, `OrderedInFull`, `LeftBehind`, `PanicNeedsDust` |
| `check_rounds` | 3 bots, 2 monitors, 2 moves, fair | `CounterMatches`, `BotsAreChecked` |
| `payments` | 3 requests of 2 users for 2 transactions, 2 rounds, 4 connections, 1 restart | `OneGrant`, `ClaimIsKept`, `SuccessIsBacked`, `RowsAgree`, `SomeoneGoesOn`, `GoingOnIsPossible` |
| `user_plan` | 2 requests, 2 plans with 2 possible rows, 2 instances | `BalanceCarried`, `BotsHaveUser`, `Contiguous` |
| `startup` | 2 bots, 2 traders, 3 requests, 2 crashes, fair | `BalanceTracked`, `ActiveRuns`, `ProxiesAccounted`, `ShortageIsReal`, `LaunchEnds` |

Each module has one type invariant, `TypeOK` (`LaunchTypeOK`, `DiffTypeOK`, `RoundsTypeOK`).
No run lists them: all are proved (section 5), for every value of the constants.

Why the bounds are enough.
- Cache: a launch, its heir, one call that is late and one more in every position
  of the list; calls of different traders share only the map's lock. Three calls
  are enough for every exception the properties name, a fourth is one more to wait.
- Lifecycle: three requests are two bots started and one stopped, or a bot
  stopped, restarted and another; the balances 1 and 2 in a plan of 3 make a second
  start fit, fail, or trigger a correction; the theorems remove the bound.
- Loop: every pair of goroutines that can meet on a channel; groups of 1 and 3
  stand for `PROX_PER_SIGN` = 1 and `PROX_PER_COPY` = 5; with 7 proxies the pool is
  short exactly when the others have theirs. The invariants were also checked
  for three stays and five proxies (1.1 million states).
- Trading: as the trader and the user may hold anything at launch, two updates are
  a close and the open after it, or a change of each of two positions (three on the
  one symbol of the fair run); `MaxOpenPositions` = 1 with two symbols; quantities
  up to 2 allow a decrease that leaves something.
- Comparison: swapping needs three positions; the theorems remove the bound.
- Sizing: up to four orders a call, positions several orders built, minima equal to
  the step, above it and equal to the maximum; the theorems remove the bounds.
- Rounds: three bots, so that one can stay, one join and one leave in the same
  round; the two moves are what a window between two steps needs; bots with
  refused keys leave beyond the bound.
- Payments: two requests that meet in a transaction and two that meet in a user; two
  rounds, so that a user can be listed twice; with four connections two wipes
  leave enough for a first payment to collide with what the second one did, and
  three wipes and a first payment leave none; the theorems remove these bounds.
- Plans: two requests are every pair of administrators' requests, and one request
  alone is among them; plans with more and with fewer instances and balance.
- Startup: two bots share a trader, a trader has signals with or without bots;
  the proxies are as many as one monitor with bots needs or one more, so that a
  launch is short or not depending on the table and, were the code wrong, on the
  order. One crash starts what the second one cuts off.

Deadlock is not checked: in each of these models everything may come to an end
(calls return, a monitor ends, the bound on inputs or crashes is reached, a panic ends
the program); that nobody waits for ever is stated as liveness.

Fairness. Weak fairness of each goroutine that was started (Go's scheduler is
fair, the HTTP clients and the database have timeouts), none of requests, of the
trader, of the user or of crashes: in `LaunchCache` each call's steps (the end of a
monitor is nobody's duty), in `Startup` the launching goroutines and the step to
serving, in `CheckRounds` the rounds and the checks that end. In `BotTrading`, strong
fairness of `Lock` and `CheckLock` (`sync.Mutex` hands over to a waiter that starves)
and of `Snapshot`: a request repeated for ever is answered once in a while; without
it the exchange might fail every check, and nothing could be promised.

## 4. What was found

`launch_cache_header` is the one disagreement with a comment that has a run of its own:
the deferred `Finished(uid, false)` runs after `Finished(uid, true)` too, reaches
the entry of the next launch, and makes one of its waiters launch the same
trader beside it.

The other properties hold with exceptions that they name, and each exception is
something the code does. What a team would want to look at:

- Cache. Three starts of one trader can block every launch of the program for ever. The
  first launches a monitor and calls `Finished(uid, true)`, which deletes the entry; the
  second had missed the monitor, makes a new entry and launches; the third waits in that
  entry's list. The first one's deferred `Finished(uid, false)` reaches the new entry and makes
  the third its heir, but the list still has the third's channel. If the second's own
  `Finished` begins before the heir empties the list (line 63), it has `uidsMtx` and the
  object's mutex and sends on a channel that nobody receives from any more (line 85),
  while the heir waits for that mutex. `BroadcastMeets` says, and
  `BroadcastsMeet` proves, that this is the only way a broadcast gets stuck, and
  `WaitersAreAnswered` names it as one of two reasons for which a listed caller is not answered.
  The other is an heir that empties the list after others appended, and forgets them. And a
  launch that fails while nobody waits leaves an entry on which nobody will broadcast:
  who comes next waits for ever.
- Lifecycle. A bot that joins a monitor between the count of the remaining bots
  and the removal of the monitor is stranded on it; `OnlyJoinersStranded` says
  that nobody else is. The correction of the balance overlooks bots that have taken
  theirs but are not yet active (`botStartup.go:533`; the ledger allows it, and
  running bots may then exceed the plan).
- Loop. A stop may receive the clients a start sends to the loop; the loop then offers
  its own to nobody (`Stuck`), and the trader is polled no more. A stop that overtakes
  a start, or comes after one that found no proxies, makes the loop's slice
  expression panic and ends the program (`CrashNeedsOvertaking`).
- Copying. Only a check that is running when the dispatch begins is cancelled
  (`monitor.go:31`): an answer that is older than the next open is applied after it
  (`botRuntime.go:982`), and the bot forgets the position. `InSync` leaves these
  symbols out.
- Sizing. A close whose orders are refused counts as done (`abandoned`). A quantity
  below the minimum leaves no order, and `results[0]` panics; that needs a
  minimum above the step or a position that was not read back.
- Rounds. A bot that joins between `len` and the range makes the WaitGroup's counter
  negative, in this round or a later one, which ends the program; one that leaves
  there lets the round, and with it all checking, wait for ever.
- Payments. `WipeUser` does not release its connection (`db/access.go:76`), and a first
  payment holds one while it waits for a second (`payments.go:58`): `SomeoneGoesOn` says
  that these two, and nothing else, can bring payments to a standstill. A user
  listed again while a goroutine is still wiping may lose what was paid for in
  between (`relisted`); a restart cuts first payments and wipes in two, and nothing
  resumes them (`cut`).
- Plans. A change of plan that fails after the wipe leaves no user, while the bots
  run on (`BotsHaveUser`). A stop during a change costs the user balance, a start gives
  too much (`BalanceCarried`). Two settings of the instances at once leave a gap in the
  numbers, which nothing repairs (`Contiguous`). A bot whose row is deleted runs on, and
  nobody can stop it (`orphans`).
- Startup. A crash between balance and status loses what was taken; a bot
  launched again holds what its account has by now, and its stop gives that back
  (`BalanceTracked`). The proxies the startup adds are not in `mon.proxies` and are lost
  when the last bot stops (`ProxiesAccounted`). Of a trader's signals only one stays
  (`launch.go:200`), and what is stored for it is the trader's id where the webhook
  belongs (`launch.go:256`; modelled only as one webhook or none).

## 5. Proofs

All by TLAPS, for every value of the constants under the named assumptions of
the modules: `NoCall` is no call; `TraderOf` is a function to the traders; balances
and the plan are natural numbers; bots, traders, symbols and other launches are
finitely many (a program's memory is); a signal's monitor needs fewer proxies than
a trader's with bots, and in `MonitorLoop` at least one, and the file has enough for
one monitor (`ProxiesAssumption`: otherwise there is none to speak of); a lot's
minimum and maximum are multiples of its step, which the exchange publishes and the
code relies on. Every safety property that a run checks is proved, but for
`GoingOnIsPossible` (below), which says ENABLED. Two models that share no variable may share a proof module.

Sums over sets. `Totals` says a sum of natural numbers as the number of the units it
has, `Total(f, S) == Cardinality(Units(f, S))`, so that no induction over the set is
needed: `TotalsTheorems` proves from the theorems about cardinalities how a sum
changes with one summand or one member, when it is 0, and that it is monotone.
`MonitorLoop`, `CheckRounds`, `Startup` and `UserPlan` count with it.

- `MonitorProofs`, `LaunchCache`: `LaunchTypeCorrect`, `HeirIsUnique`,
  `BroadcastStable`. The invariant adds to the types that only the call in a broadcast
  has `uidsMtx` (`BroadcastInv`), that an object in use has a creator past its decision
  (`ObjectInv`), and that a waiter that took position 0 remains first of its list
  until it empties the list itself (`HeirInv`): two heirs would both be first.
  And `BroadcastsMeet`, `WaitersNotAbandoned`. Whether the calls of a list still wait in
  their places depends on the broadcasts that have gone over it. `ListIInv` says that of an
  object with an entry either the heir of a failed launch is still to empty the list,
  which may then name calls that were answered, or the list is in order: each of its
  calls is blocked on its own channel, or a broadcast of a success in progress has
  answered it (`Orderly`, `QueueInv`). A broadcast is over the object of its trader's entry, and one of a
  failure has its heir from its first send on (`RangeInv`, `TraderInv`). A list that
  a success has answered goes with its entry, and one that a failure has answered has an
  heir: so nothing but such an heir can make a later broadcast send to nobody, and
  somebody who may still launch or finish is there as long as anybody is listed.
- `MonitorProofs`, `MonitorLoop`: `TypeCorrect`, `ProxiesHaveOneOwner`, `ClientsBalanced`,
  `CrashesNeedOvertaking`, for any number of stays and launches elsewhere. Nobody is on
  a channel twice, and who is there is blocked in that send (`ChanInv`); a group is held
  from where it is taken to where it is given, and only there (`HoldInv`). `Balanced` is
  about rest only, and says nothing of what is under way; the invariant is an account
  that is right at every step (`LenInv`): the clients the monitor has and those that
  starts owe it (`Debt`) are those its bots need and those that stops want back
  (`Claims`), or more where a bot left because of its keys. From that, a loop that
  is asked for more than it has is owed some. A stop that receives what a start
  was sending settles both at once, which is why neither is lost. For `OneOwner`, each
  step moves the places of one proxy (`ProxiesMove`): the length of what is cut off
  and the emptiness of the hands that receive it are in `HoldInv`. This holds without webhooks
  too, until the monitor is told to end: only then are proxies back in the pool that the loop
  still uses (`Accounted`; once false it stays so, `StayClosed`). `ProxiesImplementPool`
  is the refinement `Spec => PoolSpec`: the sequences, of which `OneOwner` says that none has
  a proxy twice, become the sets of their members, so that what is cut from the end of a
  sequence is subtracted from its set (`MembersCut`), and every step of the loop, of a start
  or of a stop is one move of a whole group, or none (`PoolMove`). `StopsAreServed` is
  the safety under the stops' liveness: at most one stop is promised clients, and while it
  waits the loop offers some (`OfferInv`), so that only the loop can be left alone (`Stuck`).
- `BotLifecycleProofs`: `TypeCorrect`, `EndedStaysUnregistered`, `LauncherNotStranded`.
  A stop that is about to end a monitor has unregistered it, and only a monitor's own
  launch registers it, once, before anybody can end it (`RegisteredInv`). Whoever is on
  a monitor when its end is decided has joined since (`StrandedInv`).
  And `LedgerIsKept`, the refinement `Spec => LedgerSpec`: a bot object hosted on a
  monitor is past its start (`HostInv`), no two stops are to refund one object
  (`RefundInv`), since a bot has one request between receipt and response (`SyncInv`);
  each action then takes, gives, forfeits or corrects as the ledger allows, or
  changes none of it.
- `BotTradingProofs`, `BotTrading`: `TypeCorrect`, `BookInSync`, `PositionsWithinMax`, for
  any number of symbols, updates and trades by hand. `LockInv` says who is where
  while the mutex is held. `InSync` speaks of rest; in between, a symbol whose order is
  yet to be read back is the only one that may differ, one whose close is yet to
  be forgotten is not held any more, and what a check was given is what is held unless
  there was an order since (`SyncInv`): so what it stores, however late, is right
  but for the symbols the code itself leads astray. An open that is ordered still has
  room (`OpenInv`), because meanwhile the book only shrinks.
- `BotTradingProofs`, `CheckRounds`: `RoundsTypeCorrect`, `CounterIsRight`. `CounterMatches`
  speaks of a round that waits. While it is being made, the counter lies between
  the goroutines that run with those that may still be started (`AtMost`: the bots not yet
  reached) and those with the ones that are sure to be (`AtLeast`: the bots that
  were there at the beginning and are not yet reached), unless a bot came or went in the
  window (`CountInv`).
- `PaymentsProofs`: `TypeCorrect`, `GrantedOnce`, `ClaimKept`, `SuccessBacked`,
  `RowsComplete`. Of one transaction at most one request may yet write to the
  users table, and none once it is written (`GrantInv`): a claim needs that there
  is no entry and that the transaction is not mined, and one of the two fails from
  claim to storing and for ever after. `MuInv` and `EntryInv` say who relies on
  which entry. `ConnInv` counts the connections that are out: no more than there
  are. That and `MuInv` also prove `SomeoneGoesOn` (`NobodyWaitsInCircles`): unless the pool is empty for
  good, some payment waits for nothing that another one has. For the rows (`RowInv`): a user who is being wiped has a row, so no first
  payment gets past its insert, and one who is half stored has a month to go, so
  no round lists the user.
- `CopyingProofs`, `PositionDiff`: `DiffTypeCorrect`, `RestIsExact`,
  `UpdatesAreTheDifference`, for lists of any length. Matched positions are overwritten
  by the last one still considered, so the part that is left has different hashes
  (`PrefixInv`) and is what no old position so far has matched (`RestInv`); the updates
  so far are the difference on the hashes passed, one for each (`UpdatesInv`), and what
  is left completes them.
- `CopyingProofs`, `OrderSizing`: `TypeCorrect`, `LegalOrders`, `InFull`,
  `NothingLeftBehind`, `PanicOnlyForDust`, for any lot sizes and quantities. What is
  accepted and what is outstanding add up to the wish, but for less than the minimum,
  until an order is refused (`SizeInv`); all quantities are multiples of the step
  (`StepInv`), so that what a reduction leaves is nothing when the minimum is the step;
  `SyncInv` relates book and account through each kind of call.
- `StartupProofs`: `BalanceIsTracked`, `ActiveOnesRun`, for any number of restarts, bots
  and requests. Each bot is followed through the phases of the program: where it is
  (`PlaceInv`: awaited by a launch, on its trader's monitor, missing, or between two
  statements of its request) and what it holds (`MoneyInv`: what its object says, or
  nothing, unless it was cut off or launched again with another balance).
  On top of that `TypeCorrect`, `ProxiesAreAccounted`, `ShortagesAreReal`: what is in the
  pool and with the monitors adds up to the file (`ProxyInv`), and no monitor has more
  than what the launch is to give it in the end (`ShareInv`), so whoever finds the pool
  empty has a share that it lacks. A stop may take back more than its
  bot's start brought, where a monitor's surplus came at startup (`extra` may be
  negative while `own + extra` may not: with large shares, an `extra` in `Nat` is false).
- `UserPlanProofs`: `NoGaps`. Unless two requests set instances at once, the one that
  does works at the end of the numbers, above or below the number it is to set
  (`RowsInv`), so a statement that fails leaves no gap either.
  And `TypeCorrect`, `BalanceCarriedOver`, `BotsBelongToUsers`. Between the wipe and the
  write there is no row to compare with, so the sum is followed through what the change of
  plan has read: first against the plan it found, then against the maximum it remembers
  (`BalanceInv`); that errs to one side only when only stops, or only starts, came
  between (`Within`). A change is alone unless `drift` says "twice" (`ChangeInv`), and
  who has wiped the user is about to write it or has failed (`WipedInv`).

Only model-checked: `GoingOnIsPossible` (a payment that waits for neither mutex nor
connection has a step, said with ENABLED), and all liveness (`WaitersAreAnswered`, whose
safety half is `NobodyAbandoned`, `ClientsArrive`, `EndIsObeyed`, `SoldIsNoticed`, `DispatchEnds`, `BotsAreChecked`, `LaunchEnds`). TLAPS
proves neither liveness under fairness nor ENABLED. Induction over data, which it
cannot do either, is not needed: there are no RECURSIVE operators here.

## 6. Assumptions and what is left out

- `BotLifecycle`: the client sends one request for a bot at a time and waits for the
  response (`Idle`). The code reads the status before it sets it, so without
  this two stops could both refund: see the hazard at `handlersUser.go:548`.
- `MonitorLoop`: of a monitor without webhooks `OneOwner` and `PoolSpec` say nothing once its
  last bot has left, and `Balanced` nothing at all. Such a monitor ends, and its proxies
  are then back in the pool while the loop may still be polling with them, and the
  ones added later are not returned: the code does no better. A start whose proxies cannot be
  turned into clients loses them, which `OneOwner` counts as in its hands.
- `BotTrading`: one side a symbol, so neither hedged positions nor inverse mode;
  the bot stays on its monitor (what invalid keys do is in `BotLifecycle`,
  `MonitorLoop` and `CheckRounds`).
- `OrderSizing`: a call runs alone, under the bot's mutex; what runs beside it is in
  `BotTrading`. Decimals are exact: the division's rounding at 16 digits is not modelled.
- `CheckRounds`: a check ends; a monitor that was unregistered is not registered again.
- `Payments`: a node does not answer that a transaction is pending after it, or
  another node, has answered that it is mined; `GrantedOnce` rests on that. A
  month is longer than storing a first payment takes, and the request for a price
  returns (`http.Get` without a timeout, under the mutex). Sums, prices and
  wallets decide nondeterministically. The change of a plan, which wipes one table
  only, is in `UserPlan`.
- `UserPlan`: one user, no dates of renewal; a plan's maximum and number of instances are
  all that matters of it. Starts and stops are their statement on the user's row.
- `Startup`: all bots are one user's; clients are counted, not named (`MonitorLoop` names
  them); `createClients` does not fail, as every proxy was parsed before
  (`launch.go:114`). A second request for a bot waits for the first (as in
  `BotLifecycle`).
- Database errors after the first statement of a handler are only logged by the
  code and modelled in `UserPlan` and `Payments` alone.

Not modelled:

- PnL watching (`pnlFinder.go`): its only state is `PnlWatching`, to which symbols are
  added and from which none is removed. A second call for a symbol never returns;
  nothing else waits for it, so a model would only repeat that a line is missing.
- Prices: `getValidPrice`, stop loss and take profit, entry delays; and the validation of
  single settings. They keep no state and no other part depends on their value but
  whether an order is placed, which is nondeterministic in `BotTrading`.
- Encryption of keys, routing and authorisation, decoding and signing of requests,
  notifications, the Discord bot's formatting, trade storage and export, bot logs: input
  and output without state that a decision of the program reads back.

## 7. What could come next

1. More of the safety under the liveness properties, as was done with `StopsAreServed`,
   `NobodyWaitsInCircles` and `WaitersNotAbandoned`: that a dispatch gets its lock from a
   check that will release it, for any number of symbols.
2. `BotLifecycle` without the assumption of one request at a time: the ledger would need
   a name for the double refund at `handlersUser.go:548`.
3. A specification of the cache that keeps its comment's promise, for the day the code does:
   one `Finished` a launch, and a list that is emptied where it is broadcast to.
4. Hedged positions and inverse mode in `BotTrading`, with a position for each side.
